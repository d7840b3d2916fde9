SPECIFICATION FairSpec
CONSTANTS
  a = a
  b = b
  c = c
  NULL = NULL
  Kernel = Kernel
  Proc = {a, b, c}
  Ring3 = {b, c}
  NUM_PRIO = 2
  priority <- MCPriority
  ticks_alloc <- MCTicksAlloc
  TicksWrap = 4
INVARIANTS RingsIntact OneRunning FlowsDistinct SpaceFollows
PROPERTIES DeadNotPicked RoundRobin
CHECK_DEADLOCK FALSE
