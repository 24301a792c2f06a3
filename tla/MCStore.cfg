SPECIFICATION Spec
CONSTANTS
  Backuper = {b1, b2}
  Retention = 3
  MaxVer = 2
  MaxZips = 4
  MaxTime = 2
INVARIANTS
  ReadersSeeOneSave
  RollbackPossible
PROPERTY RestoreIsComplete
SYMMETRY Symmetry
CHECK_DEADLOCK FALSE
