SPECIFICATION Spec
CONSTANTS
  Sizes <- MCSizes
  Align <- MCAlign
  Files <- MCFiles
  Main = "main"
  Inode <- MCInode
  Dirs <- MCDirs
  In <- MCIn
  Names <- MCNames
  Imports <- MCImports
  Hosts = {"csatsu", "gsatsu"}
  PathLists <- MCPathLists
  MaxPaths = 2
INVARIANTS
  NothingMisused
  AllReleased
  TableTrue
  ImportsPresent
  ArraysKept
  ArraysApart
PROPERTIES
  BatchSpec
