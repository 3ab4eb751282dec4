CONSTANTS
  p1 = p1
  p2 = p2
  c1 = c1
  c2 = c2
  NoId = NoId
  Parents = {p1, p2}
  Companions = {c1}
  ParentOf <- OneCompanion
  LastStage = 1
  FinalStage <- FinalStages
  Diffusion = {1}
  Replicas <- TwoThenOne
  MayDie = {}
  MayRaise = {}
\* When every request has ended nothing is left to do.
CHECK_DEADLOCK FALSE
SPECIFICATION Spec
INVARIANT OnlyOwnError
