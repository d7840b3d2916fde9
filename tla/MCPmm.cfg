SPECIFICATION Spec
CONSTANTS
  FRAMES_TOTAL = 10
  FRAME_SIZE = 2
  OneMB = 4
  KernelEnd = 5
  MemoryMaps <- MCMemoryMaps
  Client = {c1, c2}
  MaxRun = 3
INVARIANTS
  TypeOK
  FreeCountExact
  HeldExclusive
  HeldUsable
  PanicHonest
CHECK_DEADLOCK FALSE
