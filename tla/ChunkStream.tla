---------------------------- MODULE ChunkStream ----------------------------
(***************************************************************************)
(* What the transfer of chunks between two stages promises to the model of *)
(* the later one: of each request it is given the chunks that were sent,   *)
(* in the order they were sent, each once, and a request ends by itself    *)
(* only after its last one.                                                *)
(***************************************************************************)
EXTENDS Naturals, Sequences

CONSTANTS Requests, Chunks  \* a chunk is a record with a Boolean field last

VARIABLES
  sent,    \* per request: the chunks sent
  played,  \* per request: the chunks its model was given
  ended    \* the requests that ended by themselves

vars == <<sent, played, ended>>

Init ==
  /\ sent = [r \in Requests |-> <<>>]
  /\ played = [r \in Requests |-> <<>>]
  /\ ended = {}

Closed(r) == \E i \in 1..Len(sent[r]) : sent[r][i].last

Send(r, c) ==
  /\ ~Closed(r)
  /\ sent' = [sent EXCEPT ![r] = Append(@, c)]
  /\ UNCHANGED <<played, ended>>

\* One batch plays the next chunk of each request in rs.
Play(rs) ==
  /\ \A r \in rs : Len(played[r]) < Len(sent[r]) /\ r \notin ended
  /\ played' = [r \in Requests |->
       IF r \in rs THEN Append(played[r], sent[r][Len(played[r]) + 1]) ELSE played[r]]
  /\ UNCHANGED <<sent, ended>>

End(rs) ==
  /\ \A r \in rs : Closed(r) /\ Len(played[r]) = Len(sent[r])
  /\ ended' = ended \cup rs
  /\ UNCHANGED <<sent, played>>

Next ==
  \/ \E r \in Requests, c \in Chunks : Send(r, c)
  \/ \E rs \in SUBSET Requests : Play(rs) \/ End(rs)

Spec == Init /\ [][Next]_vars
=============================================================================
