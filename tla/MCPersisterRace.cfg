SPECIFICATION Spec
CONSTANTS
  Cmd = {c1}
  MaxVer = 1
  MaxEpoch = 0
  MaxFail = 0
INVARIANT SafeForConcurrentUse
CHECK_DEADLOCK FALSE
