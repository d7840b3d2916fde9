SPECIFICATION Spec
CONSTANTS
  EaxValues = {3, 27}
  EbxValues = {14, 32, 33, 44}
  StackPointer = 4096
  LOW = 3
  Naps = {0, 2}
  MaxTicks = 4
PROPERTIES AckOwn SleepHonest IrqServed
CHECK_DEADLOCK FALSE
