SPECIFICATION FairSpec
CONSTANTS
  Cmd = {c1}
  MaxVer = 2
  MaxEpoch = 0
  MaxFail = 0
PROPERTY ChangesGetFlushed
CHECK_DEADLOCK FALSE
