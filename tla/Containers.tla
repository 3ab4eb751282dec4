----------------------------- MODULE Containers -----------------------------
(***************************************************************************)
(* Updates of Python lists and dicts, in a form that facts about them can  *)
(* be proved of.  Keep removes a set of elements from a queue, as the code *)
(* does with a comprehension (_BaseScheduler._finish_requests rebuilds     *)
(* both _running and _waiting that way): it is SelectSeq written without   *)
(* recursion, the k-th kept position being the one of rank k, and          *)
(* MCDiffusionScheduler checks that the two agree on every short sequence. *)
(***************************************************************************)
EXTENDS Integers, Sequences, FiniteSets, SequencesExt

\* The positions of s that survive the removal of the elements of S.
KeptPositions(s, S) == {i \in 1..Len(s) : s[i] \notin S}

\* How many members of the set I of positions are at or before i.
RankIn(I, i) == Cardinality({j \in I : j <= i})

\* The sequence s without the elements of S, in the order of s.
Keep(s, S) ==
  LET kept == KeptPositions(s, S)
  IN  [k \in 1..Cardinality(kept) |-> s[CHOOSE i \in kept : RankIn(kept, i) = k]]

\* The dict d after d[k] = v for every k in K.
Put(d, K, v) == [k \in K \cup DOMAIN d |-> IF k \in K THEN v ELSE d[k]]

\* No element occurs twice in s.
NoDuplicates(s) == \A i, j \in 1..Len(s) : s[i] = s[j] => i = j
=============================================================================
