CONSTANTS
  r1 = r1
  r2 = r2
  r3 = r3
  a = a
  b = b
  wide = wide
  NoKey = NoKey
  Requests = {r1, r2, r3}
  PublicIds = {a, b}
  Keys = {wide}
  RequestIds <- MCRequestIds
  SamplingKey <- MCSamplingKey
  MaxRunning = 2
  MaxSuffix = 1
  StepMode = TRUE
SPECIFICATION SchedSpec
INVARIANTS SchedTypeOK QueuesMatchStatuses PublicIdsResolve BatchStaysVisible
PROPERTIES FinishedIsFinal UpdateAccountsForBatch
