SPECIFICATION Spec
CONSTANTS
  ID = {n1, n2, n3, n4}
  NilID = NilID
SYMMETRY Symmetry
INVARIANTS
  TypeOK
  ParentsAreFolders
  FoldersAcyclic
  IndexesMatchParents
  WalkReachesEverything
PROPERTY ReloadKeepsTree
CHECK_DEADLOCK FALSE
