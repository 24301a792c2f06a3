SPECIFICATION FairSpec
CONSTANTS
  Cmd = {c1}
  MaxVer = 1
  MaxEpoch = 1
  MaxFail = 1
PROPERTIES
  DirtyGetsFlushed
  ShutdownReturns
CHECK_DEADLOCK FALSE
