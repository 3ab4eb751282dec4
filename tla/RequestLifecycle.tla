-------------------------- MODULE RequestLifecycle --------------------------
(***************************************************************************)
(* What AsyncOmni promises the callers of generate(), whatever happens     *)
(* behind it: a request that was asked is ended exactly once, by its       *)
(* result, by a failure (which may end several requests at once), or by    *)
(* its caller; and how it ended never changes.  Only two kinds of request  *)
(* may wait for ever: one asked after the service has reported its death,  *)
(* and one that the service has lost, which it need not end any more.      *)
(***************************************************************************)
CONSTANT Requests

VARIABLES
  phase,  \* per request: where it is in its life
  down    \* the service has reported its death to its callers

vars == <<phase, down>>

Phases == {"new", "open", "lost", "unheard", "done", "failed", "cancelled"}
Ended == {"done", "failed", "cancelled"}

Init ==
  /\ phase = [r \in Requests |-> "new"]
  /\ down = FALSE

Ask(r) ==
  /\ phase[r] = "new"
  /\ phase' = [phase EXCEPT ![r] = IF down THEN "unheard" ELSE "open"]
  /\ UNCHANGED down

\* By its result, or by a failure of its own.
Serve(r) ==
  /\ phase[r] \in {"open", "lost"}
  /\ \E how \in {"done", "failed"} : phase' = [phase EXCEPT ![r] = how]
  /\ UNCHANGED down

\* Inside the service nothing works on the request any more.
Lose(r) ==
  /\ phase[r] = "open"
  /\ phase' = [phase EXCEPT ![r] = "lost"]
  /\ UNCHANGED down

Cancel(r) ==
  /\ phase[r] \in {"open", "lost", "unheard"}
  /\ phase' = [phase EXCEPT ![r] = "cancelled"]
  /\ UNCHANGED down

FailOpen == phase' = [r \in Requests |-> IF phase[r] \in {"open", "lost"} THEN "failed" ELSE phase[r]]

Fail == ~down /\ FailOpen /\ UNCHANGED down

GoDown == ~down /\ FailOpen /\ down' = TRUE

Next ==
  \/ Fail \/ GoDown
  \/ \E r \in Requests : Ask(r) \/ Serve(r) \/ Lose(r) \/ Cancel(r)

\* Every open request is ended or lost, by whichever step.
End(r) == phase[r] = "open" /\ (Serve(r) \/ Lose(r) \/ Cancel(r) \/ Fail \/ GoDown)

Spec == Init /\ [][Next]_vars /\ \A r \in Requests : WF_vars(End(r))
=============================================================================
