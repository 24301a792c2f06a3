SPECIFICATION Spec
CONSTANTS
  Session = {h1}
  Sub = {u1}
  Closer = {}
  Cap = 1
  MaxChunks = 1
INVARIANT EveryChunkArrives
CHECK_DEADLOCK FALSE
