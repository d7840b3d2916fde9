SPECIFICATION Spec
CONSTANTS
  FRAMES = 16
  ENTRIES = 6
  KERNEL_PDE = 1
  DIRECT = 14
  HEAP_PDE = 4
  SLAB_SIZES <- MCSlabSizes
  SLAB_PAGES = 1
  PAGE_UNITS = 2
  RequestSizes = {1, 2, 9}
  MaxLive = 4
  MaxPages = 4
  MAX_PROCESSES = 2
  KSTACK = 1
  USTACK = 1
  MAX_SURFACES = 1
  MAX_WINDOWS = 1
  Requests <- MCRequests
  PAGE_PIXELS = 2
  SURFACE_PAGES = 2
  MaxCalls = 8
INVARIANTS FramesOwnedOnce HeapDisjoint SpacesSeparate WindowShowsOwn
CHECK_DEADLOCK FALSE
