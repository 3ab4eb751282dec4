------------------------- MODULE MCDiffusionEngine -------------------------
(* Small instances of DiffusionEngine.                                     *)
EXTENDS DiffusionEngine

CONSTANTS r1, r2, r3, a, b, c, e, wide

\* Step mode: two compatible requests, of which the second may raise, and a
\* third that runs alone, under the public id of the first, submitted while
\* the first is active, aborted, or gone.
StepIds == [r \in Requests |-> IF r = r2 THEN <<b>> ELSE <<a>>]
StepKeys == [r \in Requests |-> IF r = r3 THEN NoKey ELSE wide]
StepCounts == [r \in Requests |-> IF r = r1 THEN 2 ELSE 1]
StepAborts == [r \in Requests |-> IF r = r2 THEN b ELSE a]

\* Request mode: a request of two prompts, whose client aborts it by an id
\* (e) that no prompt carries, one that may fail, and one that collides with
\* the second prompt of the first.
BatchIds == [r \in Requests |-> CASE r = r1 -> <<a, c>> [] r = r2 -> <<b>> [] r = r3 -> <<c>>]
BatchKeys == [r \in Requests |-> IF r = r1 THEN NoKey ELSE wide]
BatchCounts == [r \in Requests |-> 1]
BatchAborts == [r \in Requests |-> CASE r = r1 -> e [] r = r2 -> b [] r = r3 -> c]
=============================================================================
