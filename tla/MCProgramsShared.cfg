SPECIFICATION Spec
CONSTANTS
  PAGE_SIZE = 2
  LOW_LIMIT = 2
  PAGING_LEVELS = 3
  PAGING_ENTRIES = 2
  VIRT_PAGES = 8
  MAX_FRAME = 11
  Bytes = {1, 2}
  KERNEL_ROOT = 9
  KernelTables <- MCKernelTables
  PROC_MAX = 2
  PROC_MAX_PAGES = 2
  ELF_MAX_SEGMENTS = 2
  USER_LOWEST = 2
  USER_HIGHEST = 8
  USER_STACK_TOP = 8
  NX_AVAILABLE = TRUE
  PIT_PERIOD = 3
  COUNTS_MAX = 3
  HOLD_MAX = 2
  TITLE_MAX = 2
  EVENT_BYTES = 2
  WindowIds = {1, 2}
  WINDOW_ROOM = 1
  Images <- MCSharedImages
  MemoryMaps <- MCMemoryMaps
  Addresses = {2, 3, 6, 7, 16}
  Stores <- MCStores
  EventByte = 2
INVARIANT SegmentsGetTheirPermissions
