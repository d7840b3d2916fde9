SPECIFICATION FairSpec
CONSTANTS
  Event = {e1, e2}
  Zero = Zero
  Torn = Torn
  LEDGER_QUEUE_SIZE = 4
INVARIANTS
  TypeOK
  RingHoldsPending
  CopiesDisjoint
PROPERTY
  FifoLive
