CONSTANTS
  r1 = r1
  r2 = r2
  r3 = r3
  a = a
  b = b
  c = c
  e = e
  wide = wide
  NoKey = NoKey
  NoId = NoId
  Requests = {r1, r2, r3}
  PublicIds = {a, b}
  Keys = {wide}
  RequestIds <- StepIds
  SamplingKey <- StepKeys
  Steps <- StepCounts
  AbortId <- StepAborts
  Faulty = {r2}
  MaxRunning = 2
  MaxSuffix = 1
  StepMode = TRUE
\* When every request has been answered the busy loop waits for the next one.
CHECK_DEADLOCK FALSE
SPECIFICATION Spec
INVARIANTS EngineTypeOK FutureMatchesRequest SchedulerStaysConsistent BatchIsExecutable
  CacheIsAccountedFor ForgottenOnlyIfCancelled BatchIsUniform
PROPERTIES AwaitersAreAnswered
