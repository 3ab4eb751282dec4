--------------------------- MODULE MCOrchestrator ---------------------------
(* Small instances of Orchestrator.                                        *)
EXTENDS Orchestrator

CONSTANTS p1, p2, c1, c2

\* An LLM stage of two replicas feeds a second one, and that a diffusion stage,
\* to which p1 goes with its companion while p2 ends at the first stage.
OneCompanion == c1 :> p1
FinalStages == [p \in Parents |-> IF p = p1 THEN LastStage ELSE 0]
TwoThenOne == [s \in 0..LastStage |-> IF s = 0 THEN 2 ELSE 1]
=============================================================================
