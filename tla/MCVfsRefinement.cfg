SPECIFICATION Spec
CONSTANTS
  VFS_MAX_NODES = 3
  VFS_MAX_BLOCKS = 2
  VFS_DIRECT_BLOCKS = 2
  VFS_BLOCK = 1
  CHANGES_MOD = 1
  Names = {"a", "b"}
  Bytes = {1}
  Paths <- MCRefinementPaths
  Texts <- MCRefinementTexts
PROPERTIES
  ImplementsPaths
