CONSTANTS
  r1 = r1
  r2 = r2
  None = None
  Requests = {r1, r2}
  MaxChunks = 2
  MaxSeqs = 1
\* When every request has ended nothing is left to do.
CHECK_DEADLOCK FALSE
SPECIFICATION Spec
INVARIANTS ChunkTypeOK WaitersAreServed BatchFits
PROPERTIES StreamSpec ClosedIsFinished
