SPECIFICATION Spec
CONSTANTS
  VFS_MAX_NODES = 4
  VFS_MAX_BLOCKS = 0
  VFS_DIRECT_BLOCKS = 0
  VFS_BLOCK = 1
  CHANGES_MOD = 1
  Names = {"a", "b", "c"}
  Bytes = {1}
  Paths <- MCTreePaths
  Texts <- MCTreeTexts
INVARIANTS
  TypeOK
  
  NamesAreUnique
