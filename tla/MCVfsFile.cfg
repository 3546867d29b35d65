SPECIFICATION Spec
CONSTANTS
  VFS_MAX_NODES = 3
  VFS_MAX_BLOCKS = 3
  VFS_DIRECT_BLOCKS = 2
  VFS_BLOCK = 2
  CHANGES_MOD = 3
  Names = {"a", "b"}
  Bytes = {1}
  Paths <- MCFilePaths
  Texts <- MCFileTexts
INVARIANTS
  NoSharedBlocks
  ClaimsAreMarked
  BitmapIsWhatFilesClaim
  TailsAreClear
PROPERTIES
  SuccessIsCounted
