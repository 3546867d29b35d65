SPECIFICATION Spec
CONSTANTS
  VFS_MAX_NODES = 5
  VFS_MAX_BLOCKS = 2
  VFS_DIRECT_BLOCKS = 2
  VFS_BLOCK = 1
  CHANGES_MOD = 9
  Names = {"HOME", "BIN", "P", "a"}
  Bytes = {1, 2}
  Paths <- MCPaths
  Texts <- MCTexts
  StartTree <- MCStartTree
  Programs <- MCPrograms
  FoundDisks = {"NOT_FORMATTED"}
  MaxChanges = 5
  MaxFailures = 1
  MaxPowerCuts = 1
INVARIANTS
  NothingUnsavedIsMissed
