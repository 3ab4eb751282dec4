------------------------ MODULE MCDiffusionScheduler ------------------------
(* Small instances of DiffusionScheduler.                                  *)
EXTENDS DiffusionScheduler

CONSTANTS r1, r2, r3, a, b, wide

\* Collisions: two compatible requests of one public id each, and one of two
\* ids, of which it shares the first with one and the second with the other.
MCRequestIds == (r1 :> <<a>>) @@ (r2 :> <<b>>) @@ (r3 :> <<b, a>>)
MCSamplingKey == (r1 :> wide) @@ (r2 :> wide) @@ (r3 :> NoKey)

\* Keep is SelectSeq, on every sequence of up to four elements.
ASSUME KeepIsSelectSeq ==
  \A s \in BoundedSeq({1, 2, 3}, 4), S \in SUBSET {1, 2, 3} :
    Keep(s, S) = SelectSeq(s, LAMBDA x : x \notin S)
=============================================================================
