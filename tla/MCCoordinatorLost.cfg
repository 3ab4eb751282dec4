CONSTANTS
  i1 = i1
  Instances = {i1}
  Timeout = 0
  GcTtl = 1
  MaxInFlight = 1
  MaxStarts = 2
\* A client may have been stopped for good and the registry be empty.
CHECK_DEADLOCK FALSE
SPECIFICATION Spec
INVARIANTS EveryChangeIsPublished
