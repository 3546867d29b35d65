SPECIFICATION Spec
CONSTANTS
  VFS_MAX_NODES = 3
  VFS_MAX_BLOCKS = 1
  VFS_DIRECT_BLOCKS = 1
  VFS_BLOCK = 1
  CHANGES_MOD = 9
  Names = {"HOME", "BIN", "P", "a"}
  Bytes = {1, 2}
  Paths <- MCRetryPaths
  Texts <- MCRetryTexts
  StartTree <- MCStartTree
  Programs <- MCNoPrograms
  FoundDisks = {"NOT_FORMATTED"}
  MaxChanges = 5
  MaxFailures = 2
  MaxPowerCuts = 1
PROPERTIES
  RefusedWorkIsSaved
