SPECIFICATION Spec
CONSTANTS
  Payload = {w}
  Damaged = Damaged
  QueueCapacity = 2
  LEDGER_MAX_BLOCKS = 4
  MaxEvents = 5
  Sha256 <- MCSha256
  ZeroHash = ZeroHash
  Nothing = Nothing
INVARIANT
  NoFalseAlarm
