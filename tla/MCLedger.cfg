SPECIFICATION FairSpec
CONSTANTS
  Payload = {w}
  Damaged = Damaged
  QueueCapacity = 2
  LEDGER_MAX_BLOCKS = 4
  MaxEvents = 5
  Sha256 <- MCSha256
  ZeroHash = ZeroHash
  Nothing = Nothing
INVARIANTS
  TypeOK
  EventsInOrder
  NewestCoversHistory
  RejectHasCause
  AcceptMeansUnaltered
PROPERTIES
  AppendOnly
  QueueDrains
  VerifyEnds
