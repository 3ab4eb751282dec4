CONSTANTS
  p1 = p1
  p2 = p2
  c1 = c1
  c2 = c2
  NoId = NoId
  Parents = {p1, p2}
  Companions = {c1}
  ParentOf <- OneCompanion
  LastStage = 2
  FinalStage <- FinalStages
  Diffusion = {2}
  Replicas <- TwoThenOne
  MayDie = {1}
  MayRaise = {1}
\* When every request has ended nothing is left to do.
CHECK_DEADLOCK FALSE
PROPERTIES LifecycleSpec KnownIsForgotten
SPECIFICATION Spec
INVARIANTS OrchTypeOK SubmittedOnce OneReplyEach NoOrphanBinding NoOrphanWork
  CompanionsShareReplica DeferredIsWaiting
