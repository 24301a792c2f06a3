SPECIFICATION Spec
CONSTANTS
  ID = {n1, n2}
  NilID = NilID
INVARIANT NoNilNodeVisited
CHECK_DEADLOCK FALSE
