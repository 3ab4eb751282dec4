CONSTANTS
  r1 = r1
  r2 = r2
  None = None
  Requests = {r1}
  MaxChunks = 2
  MaxSeqs = 1
CHECK_DEADLOCK FALSE
SPECIFICATION Spec
INVARIANTS EmptyIsPolledAgain
