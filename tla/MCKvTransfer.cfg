CONSTANTS
  r1 = r1
  r2 = r2
  b1 = b1
  b2 = b2
  Nothing = Nothing
  Requests = {r1, r2}
  Blocks = {b1, b2}
  MaxTokens = 5
  BlockSize = 2
  Modes <- MCModes
\* When every request has ended nothing is left to do.
CHECK_DEADLOCK FALSE
SPECIFICATION Spec
INVARIANTS KvTypeOK ExtractedIsOwn OfferedOnce ReadyIsExtracted
PROPERTIES EndedIsFreed
