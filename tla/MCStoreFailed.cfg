SPECIFICATION Spec
CONSTANTS
  Backuper = {b1}
  Retention = 2
  MaxVer = 1
  MaxZips = 3
  MaxTime = 1
INVARIANT FailedRestoreLeavesStore
CHECK_DEADLOCK FALSE
