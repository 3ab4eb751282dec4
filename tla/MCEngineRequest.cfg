CONSTANTS
  r1 = r1
  r2 = r2
  r3 = r3
  a = a
  b = b
  c = c
  e = e
  wide = wide
  NoKey = NoKey
  NoId = NoId
  Requests = {r1, r2, r3}
  PublicIds = {a, b, c, e}
  Keys = {wide}
  RequestIds <- BatchIds
  SamplingKey <- BatchKeys
  Steps <- BatchCounts
  AbortId <- BatchAborts
  Faulty = {r2}
  MaxRunning = 1
  MaxSuffix = 0
  StepMode = FALSE
\* When every request has been answered the busy loop waits for the next one.
CHECK_DEADLOCK FALSE
SPECIFICATION Spec
INVARIANT BatchIsExecutable
PROPERTIES AwaitersAreAnswered
