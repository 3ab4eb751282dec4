------------------------- MODULE OrchestratorProofs -------------------------
(***************************************************************************)
(* Safety of the orchestrator for any number of requests, companions,      *)
(* stages and replicas, in both modes, whichever engines die.              *)
(***************************************************************************)
EXTENDS Orchestrator, ContainersProofs

(* Types, in groups of variables that change together                      *)

FrontTypeOK ==
  /\ phase \in [Parents -> {"new", "open", "done", "failed", "cancelled"}]
  /\ expanding \subseteq Companions
  /\ reader \in {"none", "reading", "dead"}

InboxTypeOK == inbox \in Seq([type : {"add", "companion", "abort"}, id : Ids])
OutboxTypeOK ==
  /\ outbox \in Seq([type : {"end", "bad", "error", "fatal"}, id : Ids \cup {NoId}])
  /\ replies \in [Parents -> Nat]

TableTypeOK == known \subseteq Ids /\ submitted \in [Ids -> SUBSET Stages]

TrackerTypeOK ==
  /\ registered \in [Parents -> SUBSET Companions] /\ done \in [Parents -> SUBSET Companions]
  /\ \A p \in Parents : registered[p] \subseteq CompanionsOf(p) /\ done[p] \subseteq CompanionsOf(p)
  /\ deferred \in [Parents -> {NotDeferred} \cup Stages]

TaskTypeOK ==
  task \in [Tasks -> [at : {"idle", "submitting", "forward", "aborting", "failed"},
                     ids : SUBSET Ids, stage : Stages, after : SUBSET Companions]]

FateTypeOK ==
  /\ orch \in {"running", "failing", "stopped"} /\ fatal \in BOOLEAN
  /\ dead \subseteq Stages /\ asyncChunk \in BOOLEAN

PoolTypeOK ==
  /\ bound \in [Stages -> [Ids -> Int]] /\ nextReplica \in [Stages -> Int]
  /\ \A s \in Stages : bound[s] \in [Ids -> {Unbound} \cup 0..(Replicas[s] - 1)]
  /\ \A s \in Stages : nextReplica[s] \in 0..(Replicas[s] - 1)
  /\ work \in [Stages -> SUBSET Ids] /\ entries \in [Stages -> [Ids -> Nat]]

\* The types of everything but the route (RouteOK below).
CoreTypeOK ==
  /\ FrontTypeOK /\ InboxTypeOK /\ OutboxTypeOK /\ TableTypeOK
  /\ TrackerTypeOK /\ TaskTypeOK /\ FateTypeOK /\ PoolTypeOK
-----------------------------------------------------------------------------
(* The inductive invariant                                                 *)

Asked == {p \in Parents : phase[p] # "new"}

\* The id has not been put on the inbox yet, but may be.
Unseen(id) ==
  IF id \in Companions THEN id \in expanding \/ phase[ParentOf[id]] = "new" ELSE phase[id] = "new"

\* Positions of the inbox at which a request or a companion is added.
Adding == {i \in 1..Len(inbox) : inbox[i].type # "abort"}

\* An id is added at most once, and what is still to be added was not submitted.
AddedOnce ==
  /\ \A c \in expanding : phase[ParentOf[c]] # "new"
  /\ \A i, j \in Adding : inbox[i].id = inbox[j].id => i = j
  /\ \A i \in Adding : ~Unseen(inbox[i].id) /\ submitted[inbox[i].id] = {}
  /\ \A id \in Ids : Unseen(id) => submitted[id] = {}

\* What was never submitted has left no trace, and a companion is submitted
\* only after its parent.
UnsubmittedIsUntouched ==
  /\ \A id \in Ids : submitted[id] = {} =>
       /\ id \notin known
       /\ \A s \in Stages : entries[s][id] = 0 /\ bound[s][id] = Unbound
       /\ id \in Parents => orch = "stopped" \/ replies[id] = 0
  /\ \A c \in Companions : submitted[c] # {} => submitted[ParentOf[c]] # {}

\* The handler prewarms stages in order.
HandlerInOrder ==
  task["handler"].at = "submitting" =>
    \E id \in Ids : /\ task["handler"].ids = {id} /\ submitted[id] # {}
                    /\ asyncChunk => submitted[id] \subseteq 0..task["handler"].stage

\* The router forwards a known request to a stage it was not submitted to, and
\* marks it only once the submission is over.
RouterForwards ==
  LET t == task["router"] IN
  /\ t.at = "forward" =>
       /\ ~asyncChunk /\ t.stage < LastStage
       /\ \E p \in Parents : t.ids = {p} /\ p \in known /\ t.stage + 1 \notin submitted[p]
  /\ t.at = "submitting" =>
       ~asyncChunk /\ \E p \in Parents : t.ids = {p} /\ submitted[p] # {}
  /\ \A p \in Parents : deferred[p] # NotDeferred => ~asyncChunk /\ deferred[p] < LastStage

RouterIsSubmitting(s, id) ==
  task["router"].at = "submitting" /\ task["router"].ids = {id} /\ task["router"].stage = s

\* Each entry into an engine is one submission, marked or under way.
EntriesAreMarked ==
  \A s \in Stages, id \in Ids :
    /\ entries[s][id] <= 1
    /\ entries[s][id] = 1 => s \in submitted[id] \/ orch = "stopped" \/ RouterIsSubmitting(s, id)

\* A request that was told its end is forgotten, at once or with the sweep.
ToldIsForgotten ==
  /\ fatal => task["router"].at = "failed"
  /\ \A p \in Parents :
       /\ replies[p] <= 1
       /\ replies[p] = 1 /\ orch # "stopped" /\ p \in known =>
            task["router"].at = "aborting" /\ p \in task["router"].ids

\* A request that is being swept is not held back and will not be again.
SweptIsNotDeferred ==
  \A t \in Tasks, p \in Parents :
    task[t].at = "aborting" /\ p \in task[t].ids =>
      deferred[p] = NotDeferred /\ (t = "handler" => registered[p] = {})

\* Only finitely many requests have been asked or are known.
FinitelyMany == IsFiniteSet(known) /\ IsFiniteSet(Asked)

OrchIInv ==
  /\ CoreTypeOK /\ FinitelyMany
  /\ AddedOnce /\ UnsubmittedIsUntouched
  /\ HandlerInOrder /\ RouterForwards /\ EntriesAreMarked
  /\ ToldIsForgotten
  /\ CompanionsShareReplica
  /\ SweptIsNotDeferred /\ DeferredIsWaiting
-----------------------------------------------------------------------------
(* Facts about the state, and what the operators do to it                  *)

LEMMA TypeGroups ==
  CoreTypeOK <=> /\ FrontTypeOK /\ InboxTypeOK /\ OutboxTypeOK /\ TableTypeOK
                 /\ TrackerTypeOK /\ TaskTypeOK /\ FateTypeOK /\ PoolTypeOK
BY DEF CoreTypeOK

LEMMA TypeGroupsNext ==
  CoreTypeOK' <=> /\ FrontTypeOK' /\ InboxTypeOK' /\ OutboxTypeOK' /\ TableTypeOK'
                  /\ TrackerTypeOK' /\ TaskTypeOK' /\ FateTypeOK' /\ PoolTypeOK'
BY DEF CoreTypeOK

\* Facts about the constants that the provers need again and again.
LEMMA Constants ==
  /\ LastStage \in Nat /\ Stages \subseteq Nat /\ 0 \in Stages
  /\ \A p \in Parents : p \in Ids /\ p \notin Companions /\ FinalStage[p] \in Stages /\ FinalOf(p) = FinalStage[p]
  /\ \A c \in Companions : c \in Ids /\ ParentOf[c] \in Parents /\ c \notin Parents /\ FinalOf(c) = 0
  /\ \A id \in Ids : id # NoId
  /\ Idle.at = "idle" /\ Idle \in [at : {"idle", "submitting", "forward", "aborting", "failed"},
                                   ids : SUBSET Ids, stage : Stages, after : SUBSET Companions]
  /\ "handler" \in Tasks /\ "router" \in Tasks
BY OrchestratorAssumption DEF Stages, Ids, FinalOf, Idle, Tasks

\* Appending terminal messages for finitely many requests.
LEMMA MessagesList ==
  ASSUME NEW ids, IsFiniteSet(ids), NEW type
  PROVE  LET S == {Msg(type, id) : id \in ids} IN
         SetToSeq(S) \in Seq(S) /\ ToSet(SetToSeq(S)) = S
<1>. DEFINE S == {Msg(type, id) : id \in ids}
            f == [id \in ids |-> Msg(type, id)]
<1>1. f \in Surjection(ids, S)
  BY DEF Surjection
<1>. HIDE DEF f
<1>2. IsFiniteSet(S)
  BY <1>1, FS_Surjection
<1>. HIDE DEF S
<1>3. SetToSeq(S) \in Seq(S) /\ ToSet(SetToSeq(S)) = S
  BY <1>2, ListOfSet
<1>. QED
  BY <1>3 DEF S

\* _cleanup_request_ids unbinds the ids everywhere and forgets them.
LEMMA CleanupEffect ==
  ASSUME PoolTypeOK, TableTypeOK, NEW ids, Cleanup(ids)
  PROVE  /\ known' = known \ ids /\ known' \subseteq Ids
         /\ \A s \in Stages, id \in Ids :
              bound'[s][id] = IF id \in ids THEN Unbound ELSE bound[s][id]
         /\ bound' \in [Stages -> [Ids -> Int]]
         /\ \A s \in Stages : bound'[s] \in [Ids -> {Unbound} \cup 0..(Replicas[s] - 1)]
BY DEF Cleanup, PoolTypeOK, TableTypeOK, Unbound

\* Submitting to a pool binds the id to the replica it selects, one of the pool's.
LEMMA SubmitEffect ==
  ASSUME PoolTypeOK, NEW s \in Stages, NEW id \in Ids, NEW affinity \in Ids \cup {NoId},
         Submit(s, id, affinity)
  PROVE  /\ PoolTypeOK'
         /\ bound'[s][id] = Selected(s, id, affinity)
         /\ bound'[s][id] # Unbound
         /\ entries'[s][id] = entries[s][id] + 1
         /\ \A u \in Stages, x \in Ids : u # s \/ x # id =>
              bound'[u][x] = bound[u][x] /\ entries'[u][x] = entries[u][x]
<1>1. Replicas[s] \in Nat /\ Replicas[s] > 0
  BY OrchestratorAssumption DEF Stages
<1>2. Selected(s, id, affinity) \in 0..(Replicas[s] - 1)
  BY <1>1, Constants DEF Selected, PoolTypeOK, Unbound
<1>3. (nextReplica[s] + 1) % Replicas[s] \in 0..(Replicas[s] - 1)
  BY <1>1 DEF PoolTypeOK
<1>. DEFINE sel == Selected(s, id, affinity)
<1>. HIDE DEF sel
<1>4. bound' = [bound EXCEPT ![s][id] = sel] /\ sel \in 0..(Replicas[s] - 1)
  BY <1>2 DEF Submit, sel
<1>5. /\ bound' \in [Stages -> [Ids -> Int]] /\ bound'[s][id] = sel
      /\ \A u \in Stages : bound'[u] \in [Ids -> {Unbound} \cup 0..(Replicas[u] - 1)]
      /\ \A u \in Stages, x \in Ids : u # s \/ x # id => bound'[u][x] = bound[u][x]
  BY <1>4 DEF PoolTypeOK
<1>6. nextReplica' \in [Stages -> Int] /\ \A u \in Stages : nextReplica'[u] \in 0..(Replicas[u] - 1)
  BY <1>3 DEF Submit, PoolTypeOK
<1>7. /\ entries' \in [Stages -> [Ids -> Nat]] /\ entries'[s][id] = entries[s][id] + 1
      /\ \A u \in Stages, x \in Ids : u # s \/ x # id => entries'[u][x] = entries[u][x]
      /\ work' \in [Stages -> SUBSET Ids]
  BY DEF Submit, PoolTypeOK
<1>. QED
  BY <1>1, <1>4, <1>5, <1>6, <1>7 DEF PoolTypeOK, sel, Unbound

LEMMA TaskFields ==
  ASSUME TaskTypeOK, NEW t \in Tasks
  PROVE  task[t].ids \in SUBSET Ids /\ task[t].stage \in Stages /\ task[t].after \in SUBSET Companions
<1>1. task[t] \in [at : {"idle", "submitting", "forward", "aborting", "failed"},
                   ids : SUBSET Ids, stage : Stages, after : SUBSET Companions]
  BY DEF TaskTypeOK
<1>. QED
  BY <1>1

\* A task changes only its own place.
LEMMA AwaitEffect ==
  ASSUME TaskTypeOK, NEW t \in Tasks,
         NEW at \in {"idle", "submitting", "forward", "aborting", "failed"},
         NEW ids \in SUBSET Ids, NEW s \in Stages, NEW after \in SUBSET Companions,
         Await(t, at, ids, s, after)
  PROVE  /\ TaskTypeOK'
         /\ task'[t] = [at |-> at, ids |-> ids, stage |-> s, after |-> after]
         /\ \A u \in Tasks : u # t => task'[u] = task[u]
BY DEF Await, TaskTypeOK

LEMMA RestEffect ==
  ASSUME TaskTypeOK, NEW t \in Tasks, Rest(t)
  PROVE  /\ TaskTypeOK' /\ task'[t] = Idle
         /\ \A u \in Tasks : u # t => task'[u] = task[u]
BY Constants DEF Rest, TaskTypeOK

\* Submitting and awaiting, or finding the engine dead and failing.
LEMMA StartSubmitEffect ==
  ASSUME PoolTypeOK, TaskTypeOK, FateTypeOK,
         NEW t \in Tasks, NEW id \in Ids, NEW s \in Stages, NEW affinity \in Ids \cup {NoId},
         NEW after \in SUBSET Companions, StartSubmit(t, id, s, affinity, after)
  PROVE  /\ PoolTypeOK' /\ TaskTypeOK' /\ orch' \in {orch, "failing"}
         /\ \A u \in Tasks : u # t => task'[u] = task[u]
         /\ \/ /\ Submit(s, id, affinity) /\ orch' = orch
               /\ task'[t] = [at |-> "submitting", ids |-> {id}, stage |-> s, after |-> after]
            \/ /\ UNCHANGED pools /\ orch' = "failing"
               /\ task'[t] = [at |-> "failed", ids |-> {}, stage |-> 0, after |-> {}]
<1>1. CASE Submit(s, id, affinity) /\ Await(t, "submitting", {id}, s, after) /\ UNCHANGED orch
  <2>1. PoolTypeOK'
    BY <1>1, SubmitEffect
  <2>2. {id} \in SUBSET Ids
    OBVIOUS
  <2>3. /\ TaskTypeOK' /\ \A u \in Tasks : u # t => task'[u] = task[u]
        /\ task'[t] = [at |-> "submitting", ids |-> {id}, stage |-> s, after |-> after]
    BY <1>1, <2>2, AwaitEffect
  <2>. QED
    BY <1>1, <2>1, <2>3
<1>2. CASE s \in dead /\ Raise(t) /\ UNCHANGED pools
  <2>1. PoolTypeOK'
    BY <1>2 DEF pools, PoolTypeOK
  <2>2. {} \in SUBSET Ids /\ {} \in SUBSET Companions /\ 0 \in Stages
    BY Constants
  <2>3. Await(t, "failed", {}, 0, {}) /\ orch' = "failing"
    BY <1>2 DEF Raise
  <2>4. /\ TaskTypeOK' /\ \A u \in Tasks : u # t => task'[u] = task[u]
        /\ task'[t] = [at |-> "failed", ids |-> {}, stage |-> 0, after |-> {}]
    BY <2>2, <2>3, AwaitEffect
  <2>. QED
    BY <1>2, <2>1, <2>3, <2>4
<1>. QED
  BY <1>1, <1>2 DEF StartSubmit

\* What submitting, or failing to, does to the pools and the tasks.
SubmitChanges(t, id, s, affinity, after) ==
  /\ \A u \in Tasks : u # t => task'[u] = task[u]
  /\ \A u \in Stages, x \in Ids : u # s \/ x # id =>
       bound'[u][x] = bound[u][x] /\ entries'[u][x] = entries[u][x]
  /\ \/ /\ entries'[s][id] = entries[s][id] + 1 /\ bound'[s][id] = Selected(s, id, affinity)
        /\ task'[t] = [at |-> "submitting", ids |-> {id}, stage |-> s, after |-> after]
     \/ /\ entries'[s][id] = entries[s][id] /\ bound'[s][id] = bound[s][id]
        /\ task'[t] = [at |-> "failed", ids |-> {}, stage |-> 0, after |-> {}]

LEMMA StartSubmitChanges ==
  ASSUME PoolTypeOK, TaskTypeOK, FateTypeOK,
         NEW t \in Tasks, NEW id \in Ids, NEW s \in Stages, NEW affinity \in Ids \cup {NoId},
         NEW after \in SUBSET Companions, StartSubmit(t, id, s, affinity, after)
  PROVE  /\ PoolTypeOK' /\ TaskTypeOK' /\ orch' \in {orch, "failing"}
         /\ SubmitChanges(t, id, s, affinity, after)
<1>1. /\ PoolTypeOK' /\ TaskTypeOK' /\ orch' \in {orch, "failing"}
      /\ \A u \in Tasks : u # t => task'[u] = task[u]
      /\ \/ /\ Submit(s, id, affinity)
            /\ task'[t] = [at |-> "submitting", ids |-> {id}, stage |-> s, after |-> after]
         \/ /\ UNCHANGED pools
            /\ task'[t] = [at |-> "failed", ids |-> {}, stage |-> 0, after |-> {}]
  BY StartSubmitEffect
<1>2. CASE /\ Submit(s, id, affinity)
           /\ task'[t] = [at |-> "submitting", ids |-> {id}, stage |-> s, after |-> after]
  BY <1>1, <1>2, SubmitEffect DEF SubmitChanges
<1>3. CASE /\ UNCHANGED pools
           /\ task'[t] = [at |-> "failed", ids |-> {}, stage |-> 0, after |-> {}]
  BY <1>1, <1>3 DEF pools, SubmitChanges
<1>. QED
  BY <1>1, <1>2, <1>3

\* One turn of a sweep: on to the next pool that holds a binding, or done.
LEMMA SweepEffect ==
  ASSUME PoolTypeOK, TaskTypeOK, TableTypeOK,
         NEW t \in Tasks, NEW ids \in SUBSET Ids, NEW s \in Nat, NEW running \in [Stages -> SUBSET Ids],
         Sweep(t, ids, s, running)
  PROVE  /\ PoolTypeOK' /\ TaskTypeOK' /\ known' \subseteq known
         /\ work' = running /\ UNCHANGED <<nextReplica, entries>>
         /\ \A u \in Tasks : u # t => task'[u] = task[u]
         /\ \/ /\ task'[t].at = "aborting" /\ task'[t].ids = ids
               /\ UNCHANGED <<bound, known>>
            \/ /\ task'[t] = Idle /\ known' = known \ ids
               /\ \A u \in Stages, id \in Ids :
                    bound'[u][id] = IF id \in ids THEN Unbound ELSE bound[u][id]
<1>1. CASE PoolsBinding(ids, s) # {}
  <2>1. PoolsBinding(ids, s) \subseteq s..LastStage /\ s..LastStage \subseteq Stages
    BY Constants DEF PoolsBinding, Stages
  <2>2. PoolsBinding(ids, s) \in SUBSET Nat
    BY <2>1, Constants
  <2>3. Min(PoolsBinding(ids, s)) \in Stages
    BY <1>1, <2>1, <2>2, LeastIsIn
  <2>4. /\ Await(t, "aborting", ids, Min(PoolsBinding(ids, s)), {}) /\ UNCHANGED <<bound, known>>
        /\ work' = running /\ UNCHANGED <<nextReplica, entries>>
    BY <1>1 DEF Sweep
  <2>5. PoolTypeOK'
    BY <2>4 DEF PoolTypeOK
  <2>6. {} \in SUBSET Companions
    OBVIOUS
  <2>7. /\ TaskTypeOK' /\ \A u \in Tasks : u # t => task'[u] = task[u]
        /\ task'[t] = [at |-> "aborting", ids |-> ids, stage |-> Min(PoolsBinding(ids, s)), after |-> {}]
    BY <2>3, <2>4, <2>6, AwaitEffect
  <2>. QED
    BY <2>4, <2>5, <2>7
<1>2. CASE PoolsBinding(ids, s) = {}
  <2>1. /\ Rest(t) /\ Cleanup(ids) /\ work' = running /\ UNCHANGED <<nextReplica, entries>>
    BY <1>2 DEF Sweep
  <2>2. PoolTypeOK'
    BY <2>1, CleanupEffect DEF PoolTypeOK
  <2>. QED
    BY <2>1, <2>2, RestEffect, CleanupEffect
<1>. QED
  BY <1>1, <1>2

\* The same by what it leaves: a sweep forgets at its end, and only its ids.
SweepChanges(t, ids) ==
  /\ known' \subseteq known /\ known \ ids \subseteq known' /\ UNCHANGED entries
  /\ \A u \in Tasks : u # t => task'[u] = task[u]
  /\ \A s \in Stages, id \in Ids : bound'[s][id] \in {bound[s][id], Unbound}
  /\ \/ task'[t].at = "aborting" /\ task'[t].ids = ids
     \/ task'[t].at = "idle" /\ known' = known \ ids

LEMMA SweepKeeps ==
  ASSUME PoolTypeOK, TaskTypeOK, TableTypeOK,
         NEW t \in Tasks, NEW ids \in SUBSET Ids, NEW s \in Nat, NEW running \in [Stages -> SUBSET Ids],
         Sweep(t, ids, s, running)
  PROVE  PoolTypeOK' /\ TaskTypeOK' /\ SweepChanges(t, ids)
<1>1. /\ PoolTypeOK' /\ TaskTypeOK' /\ known' \subseteq known
      /\ UNCHANGED <<nextReplica, entries>>
      /\ \A u \in Tasks : u # t => task'[u] = task[u]
      /\ \/ /\ task'[t].at = "aborting" /\ task'[t].ids = ids
            /\ UNCHANGED <<bound, known>>
         \/ /\ task'[t] = Idle /\ known' = known \ ids
            /\ \A u \in Stages, id \in Ids :
                 bound'[u][id] = IF id \in ids THEN Unbound ELSE bound[u][id]
  BY SweepEffect
<1>2. CASE task'[t].at = "aborting" /\ task'[t].ids = ids /\ UNCHANGED <<bound, known>>
  BY <1>1, <1>2 DEF SweepChanges
<1>3. CASE /\ task'[t] = Idle /\ known' = known \ ids
           /\ \A u \in Stages, id \in Ids :
                bound'[u][id] = IF id \in ids THEN Unbound ELSE bound[u][id]
  <2>1. task'[t].at = "idle"
    BY <1>3, Constants
  <2>. QED
    BY <1>1, <1>3, <2>1 DEF SweepChanges
<1>. QED
  BY <1>1, <1>2, <1>3

\* Terminal messages are counted once for each request they are for.
LEMMA TellEffect ==
  ASSUME OutboxTypeOK, NEW ids \in SUBSET Ids, IsFiniteSet(ids),
         NEW type \in {"end", "bad", "error", "fatal"}, Tell(type, ids)
  PROVE  /\ OutboxTypeOK'
         /\ \A p \in Parents : replies'[p] = replies[p] + (IF p \in ids THEN 1 ELSE 0)
<1>. DEFINE S == {Msg(type, id) : id \in ids}
            T == [type : {"end", "bad", "error", "fatal"}, id : Ids \cup {NoId}]
<1>1. SetToSeq(S) \in Seq(S)
  BY MessagesList
<1>2. S \subseteq T
  BY DEF Msg
<1>3. SetToSeq(S) \in Seq(T)
  <2>. HIDE DEF S, T
  <2>. QED
    BY <1>1, <1>2, SeqMonotonic
<1>4. outbox' \in Seq(T)
  <2>1. outbox' = outbox \o SetToSeq(S) /\ outbox \in Seq(T)
    BY DEF Tell, OutboxTypeOK
  <2>. HIDE DEF S, T
  <2>. QED
    BY <1>3, <2>1, ConcatProperties
<1>5. /\ replies' \in [Parents -> Nat]
      /\ \A p \in Parents : replies'[p] = replies[p] + (IF p \in ids THEN 1 ELSE 0)
  BY DEF Tell, OutboxTypeOK
<1>. QED
  BY <1>4, <1>5 DEF OutboxTypeOK

\* The family of a parent is a set of ids.
LEMMA FamilyType ==
  ASSUME TrackerTypeOK, NEW p \in Parents
  PROVE  Family(p) \in SUBSET Ids /\ Family(p) \cap Parents = {p}
BY Constants DEF Family, TrackerTypeOK

LEMMA CleanupParentEffect ==
  ASSUME TrackerTypeOK, NEW p \in Parents, CleanupParent(p)
  PROVE  /\ TrackerTypeOK'
         /\ registered'[p] = {} /\ done'[p] = {} /\ deferred'[p] = NotDeferred
         /\ \A q \in Parents : q # p =>
              registered'[q] = registered[q] /\ done'[q] = done[q] /\ deferred'[q] = deferred[q]
BY DEF CleanupParent, TrackerTypeOK

\* The bindings of the ids in S are removed and all others kept.
BoundWithout(S) ==
  /\ \A s \in Stages, id \in Ids : bound'[s][id] = IF id \in S THEN Unbound ELSE bound[s][id]
  /\ bound' \in [Stages -> [Ids -> Int]]
  /\ \A s \in Stages : bound'[s] \in [Ids -> {Unbound} \cup 0..(Replicas[s] - 1)]

LEMMA BoundUnchanged == ASSUME PoolTypeOK, UNCHANGED bound PROVE BoundWithout({})
BY DEF BoundWithout, PoolTypeOK

LEMMA PoolAfter ==
  ASSUME PoolTypeOK, NEW S, BoundWithout(S), work' \in [Stages -> SUBSET Ids], UNCHANGED <<nextReplica, entries>>
  PROVE  PoolTypeOK'
BY DEF PoolTypeOK, BoundWithout

\* An output is ready for the next stage: its parent goes there or is held back.
LEMMA ForwardOrDeferEffect ==
  ASSUME PoolTypeOK, TaskTypeOK, TrackerTypeOK, NEW p \in Parents, NEW s \in Stages,
         ForwardOrDefer(p, s), UNCHANGED <<registered, done>>
  PROVE  /\ TaskTypeOK' /\ TrackerTypeOK' /\ UNCHANGED <<bound, known>>
         /\ task'["handler"] = task["handler"]
         /\ \/ /\ task' = task /\ Waiting(p) /\ deferred'[p] = s
               /\ \A q \in Parents : q # p => deferred'[q] = deferred[q]
            \/ /\ task'["router"] = [at |-> "forward", ids |-> {p}, stage |-> s, after |-> {}]
               /\ ~Waiting(p) /\ deferred' = deferred
<1>1. CASE Waiting(p)
  BY <1>1 DEF ForwardOrDefer, TaskTypeOK, TrackerTypeOK
<1>2. CASE ~Waiting(p)
  <2>1. Await("router", "forward", {p}, s, {}) /\ UNCHANGED <<bound, known, deferred>>
    BY <1>2 DEF ForwardOrDefer, GoForward
  <2>2. {p} \in SUBSET Ids /\ {} \in SUBSET Companions
    BY Constants
  <2>3. /\ TaskTypeOK' /\ \A u \in Tasks : u # "router" => task'[u] = task[u]
        /\ task'["router"] = [at |-> "forward", ids |-> {p}, stage |-> s, after |-> {}]
    BY <2>1, <2>2 DEF Await, TaskTypeOK, Tasks
  <2>. QED
    BY <1>2, <2>1, <2>3, Constants DEF TrackerTypeOK
<1>. QED
  BY <1>1, <1>2

\* A companion is ready: its parent, if it waited for it alone, goes on.
LEMMA CompanionReadyEffect ==
  ASSUME PoolTypeOK, TaskTypeOK, TrackerTypeOK, TableTypeOK,
         NEW c \in Companions, NEW after \in SUBSET Companions,
         CompanionReady(c, after), UNCHANGED registered
  PROVE  /\ TaskTypeOK' /\ TrackerTypeOK' /\ known' \subseteq known /\ known \cap Parents \subseteq known'
         /\ task'["handler"] = task["handler"]
         /\ \A q \in Parents : deferred'[q] \in {deferred[q], NotDeferred}
         /\ \A q \in Parents : deferred'[q] # NotDeferred /\ Waiting(q) => Waiting(q)'
         /\ \/ /\ task' = task /\ BoundWithout(after)
            \/ LET p == ParentOf[c] IN
               /\ task'["router"] = [at |-> "forward", ids |-> {p}, stage |-> deferred[p], after |-> after]
               /\ p \in known /\ deferred[p] # NotDeferred /\ deferred[p] + 1 \notin submitted[p]
               /\ UNCHANGED <<bound, known>>
<1>. DEFINE p == ParentOf[c]
            last == deferred[p] # NotDeferred /\ c \notin done[p] /\ registered[p] \subseteq done[p] \cup {c}
<1>1. p \in Parents /\ p \in Ids /\ c \in CompanionsOf(p)
  BY Constants DEF CompanionsOf
<1>2. done' = [done EXCEPT ![p] = @ \cup {c}]
  BY DEF CompanionReady
<1>3. deferred' = IF last THEN [deferred EXCEPT ![p] = NotDeferred] ELSE deferred
  BY DEF CompanionReady
<1>4. TrackerTypeOK'
  BY <1>1, <1>2, <1>3 DEF TrackerTypeOK, NotDeferred
<1>5. \A q \in Parents : deferred'[q] \in {deferred[q], NotDeferred}
  BY <1>1, <1>3 DEF TrackerTypeOK
<1>6. \A q \in Parents : deferred'[q] # NotDeferred /\ Waiting(q) => Waiting(q)'
  BY <1>1, <1>2, <1>3 DEF TrackerTypeOK, Waiting
<1>7. CASE last /\ p \in known /\ deferred[p] + 1 \notin submitted[p]
  <2>1. Await("router", "forward", {p}, deferred[p], after) /\ UNCHANGED <<bound, known>>
    BY <1>7 DEF CompanionReady, GoForward
  <2>2. {p} \in SUBSET Ids /\ deferred[p] \in Stages
    BY <1>1, <1>7 DEF TrackerTypeOK
  <2>3. /\ TaskTypeOK' /\ \A u \in Tasks : u # "router" => task'[u] = task[u]
        /\ task'["router"] = [at |-> "forward", ids |-> {p}, stage |-> deferred[p], after |-> after]
    BY <2>1, <2>2 DEF Await, TaskTypeOK, Tasks
  <2>. QED
    BY <1>4, <1>5, <1>6, <1>7, <2>1, <2>3, Constants
<1>8. CASE ~(last /\ p \in known /\ deferred[p] + 1 \notin submitted[p])
  <2>1. Cleanup(after) /\ task' = task
    BY <1>8 DEF CompanionReady
  <2>2. known' = known \ after /\ BoundWithout(after)
    BY <2>1, CleanupEffect DEF BoundWithout
  <2>. QED
    BY <1>4, <1>5, <1>6, <2>1, <2>2, Constants DEF TaskTypeOK
<1>. QED
  BY <1>7, <1>8
-----------------------------------------------------------------------------
(* The inbox                                                               *)

\* Aborts have been put at the end of the inbox, if anything.
AbortsAppended ==
  /\ inbox' \in Seq([type : {"add", "companion", "abort"}, id : Ids]) /\ Len(inbox) <= Len(inbox')
  /\ \A i \in 1..Len(inbox) : inbox'[i] = inbox[i]
  /\ \A i \in Len(inbox) + 1..Len(inbox') : inbox'[i].type = "abort"

LEMMA AppendAbort ==
  ASSUME InboxTypeOK, NEW p \in Parents, inbox' = Append(inbox, Msg("abort", p))
  PROVE  AbortsAppended
<1>1. Msg("abort", p) \in [type : {"add", "companion", "abort"}, id : Ids] /\ Msg("abort", p).type = "abort"
  BY Constants DEF Msg
<1>. HIDE DEF Msg
<1>. QED
  BY <1>1, AppendProperties DEF InboxTypeOK, AbortsAppended

LEMMA FailAllEffect ==
  ASSUME FrontTypeOK, InboxTypeOK, FinitelyMany, NEW after \in {"none", "dead"},
         FailAll(after), UNCHANGED expanding
  PROVE  /\ FrontTypeOK' /\ AbortsAppended
         /\ \A p \in Parents : phase'[p] = "new" <=> phase[p] = "new"
<1>. DEFINE S == {Msg("abort", p) : p \in Open}
            T == [type : {"add", "companion", "abort"}, id : Ids]
            s == SetToSeq(S)
<1>1. IsFiniteSet(Open)
  <2>1. Open \in SUBSET Asked
    BY DEF Open, Asked
  <2>. QED
    BY <2>1, FS_Subset DEF FinitelyMany
<1>2. s \in Seq(S)
  BY <1>1, MessagesList
<1>3. S \subseteq T /\ \A m \in S : m.type = "abort"
  BY Constants DEF Msg, Open
<1>4. inbox' = inbox \o s
  BY DEF FailAll
<1>. HIDE DEF S, s
<1>5. s \in Seq(T) /\ \A i \in 1..Len(s) : s[i].type = "abort"
  BY <1>2, <1>3, SeqMonotonic, ElementOfSeq
<1>6. AbortsAppended
  <2>1. inbox \in Seq(T)
    BY DEF InboxTypeOK
  <2>2. /\ inbox \o s \in Seq(T) /\ Len(inbox \o s) = Len(inbox) + Len(s)
        /\ \A i \in 1..Len(inbox) + Len(s) : (inbox \o s)[i] = IF i <= Len(inbox) THEN inbox[i] ELSE s[i - Len(inbox)]
    <3>. HIDE DEF T
    <3>. QED
      BY <1>5, <2>1, ConcatProperties
  <2>. QED
    BY <1>4, <1>5, <2>1, <2>2 DEF AbortsAppended
<1>7. FrontTypeOK' /\ \A p \in Parents : phase'[p] = "new" <=> phase[p] = "new"
  BY DEF FailAll, FrontTypeOK, Open
<1>. QED
  BY <1>6, <1>7

\* What is on the inbox is about some request or companion.
LEMMA InboxElement ==
  ASSUME InboxTypeOK
  PROVE  /\ \A i \in 1..Len(inbox) : inbox[i].id \in Ids
         /\ Len(inbox) \in Nat
<1>. DEFINE T == [type : {"add", "companion", "abort"}, id : Ids]
<1>1. \A m \in T : m.id \in Ids
  OBVIOUS
<1>2. inbox \in Seq(T)
  BY DEF InboxTypeOK
<1>. HIDE DEF T
<1>. QED
  BY <1>1, <1>2

\* Aborts add nothing.
LEMMA AbortsKeepAddedOnce ==
  ASSUME AddedOnce, InboxTypeOK, FrontTypeOK, AbortsAppended, UNCHANGED submitted,
         expanding' \subseteq expanding,
         \A p \in Parents : phase'[p] = "new" <=> phase[p] = "new"
  PROVE  AddedOnce'
<1>1. \A id \in Ids : Unseen(id)' => Unseen(id)
  BY Constants DEF Unseen, Ids
<1>2. \A i \in Adding' : i \in Adding /\ inbox'[i] = inbox[i] /\ inbox[i].id \in Ids
  <2>1. Len(inbox) \in Nat /\ Len(inbox') \in Nat /\ \A i \in 1..Len(inbox) : inbox[i].id \in Ids
    BY InboxElement DEF AbortsAppended
  <2>2. \A i \in Adding' : i \in 1..Len(inbox)
    BY <2>1 DEF Adding, AbortsAppended
  <2>. QED
    BY <2>1, <2>2 DEF Adding, AbortsAppended
<1>3. \A c \in expanding' : phase'[ParentOf[c]] # "new"
  BY Constants DEF AddedOnce, FrontTypeOK
<1>4. \A i, j \in Adding' : inbox'[i].id = inbox'[j].id => i = j
  BY <1>2 DEF AddedOnce
<1>5. (\A i \in Adding : ~Unseen(inbox[i].id) /\ submitted[inbox[i].id] = {})'
  BY <1>1, <1>2 DEF AddedOnce
<1>6. \A id \in Ids : Unseen(id)' => submitted'[id] = {}
  BY <1>1 DEF AddedOnce
<1>. QED
  BY <1>3, <1>4, <1>5, <1>6 DEF AddedOnce

\* The orchestrator takes messages off the inbox, and submits first what it has
\* just taken off it.
LEMMA TakingKeepsAddedOnce ==
  ASSUME AddedOnce, InboxTypeOK, UNCHANGED <<phase, expanding>>,
         \/ inbox' = inbox \/ inbox' = <<>>
         \/ inbox # <<>> /\ inbox' = Tail(inbox),
         \A id \in Ids : submitted[id] = {} => \/ submitted'[id] = {}
                                               \/ /\ inbox # <<>> /\ inbox' = Tail(inbox)
                                                  /\ Head(inbox).id = id /\ Head(inbox).type # "abort"
  PROVE  AddedOnce'
<1>1. \A id \in Ids : Unseen(id)' <=> Unseen(id)
  BY DEF Unseen
<1>2. ASSUME inbox' # <<>>
      PROVE  \E n \in {0, 1} :
               /\ n = 1 => inbox # <<>> /\ inbox' = Tail(inbox)
               /\ n = 0 => inbox' = inbox
               /\ \A i \in Adding' : i + n \in Adding /\ inbox'[i] = inbox[i + n]
  <2>1. CASE inbox' = inbox
    BY <2>1 DEF Adding, InboxTypeOK
  <2>2. CASE inbox # <<>> /\ inbox' = Tail(inbox)
    BY <2>2, HeadTailProperties DEF Adding, InboxTypeOK
  <2>. QED
    BY <1>2, <2>1, <2>2
<1>3. inbox' = <<>> => Adding' = {}
  BY DEF Adding
<1>4. \A i \in Adding : i \in Int /\ inbox[i].id \in Ids
  BY InboxElement DEF Adding
<1>5. inbox # <<>> /\ Head(inbox).type # "abort" => 1 \in Adding /\ Head(inbox) = inbox[1]
  BY DEF Adding, InboxTypeOK
<1>6. inbox # <<>> /\ Head(inbox).type # "abort" => ~Unseen(Head(inbox).id)
  BY <1>5 DEF AddedOnce
<1>7. \A id \in Ids : Unseen(id) => submitted'[id] = {}
  BY <1>6 DEF AddedOnce
<1>8. \A i, j \in Adding' : inbox'[i].id = inbox'[j].id => i = j
  <2>1. \A i \in Adding' : i \in Int
    BY DEF Adding
  <2>2. ASSUME NEW n \in {0, 1}, \A i \in Adding' : i + n \in Adding /\ inbox'[i] = inbox[i + n]
        PROVE  \A i, j \in Adding' : inbox'[i].id = inbox'[j].id => i = j
    <3>1. \A i, j \in Adding' : inbox'[i].id = inbox'[j].id => i + n = j + n
      BY <2>2 DEF AddedOnce
    <3>. QED
      BY <2>1, <3>1
  <2>. QED
    BY <1>2, <1>3, <2>2
<1>9. \A i \in Adding' : ~Unseen(inbox'[i].id) /\ submitted'[inbox'[i].id] = {} /\ inbox'[i].id \in Ids
  <2> SUFFICES ASSUME NEW i \in Adding'
               PROVE  ~Unseen(inbox'[i].id) /\ submitted'[inbox'[i].id] = {} /\ inbox'[i].id \in Ids
    OBVIOUS
  <2>1. PICK n \in {0, 1} : /\ n = 1 => inbox # <<>> /\ inbox' = Tail(inbox)
                            /\ n = 0 => inbox' = inbox
                            /\ i + n \in Adding /\ inbox'[i] = inbox[i + n] /\ i \in Nat \ {0}
    BY <1>2, <1>3 DEF Adding
  <2>2. ~Unseen(inbox[i + n].id) /\ submitted[inbox[i + n].id] = {} /\ inbox[i + n].id \in Ids
    BY <2>1, <1>4 DEF AddedOnce
  <2>3. ~(inbox # <<>> /\ inbox' = Tail(inbox) /\ Head(inbox).id = inbox[i + n].id /\ Head(inbox).type # "abort")
        \/ n = 0
    BY <2>1, <1>5 DEF AddedOnce
  <2>. QED
    BY <2>1, <2>2, <2>3, HeadTailProperties, ConcatEqualIffEmpty DEF InboxTypeOK
<1>. QED
  BY <1>1, <1>7, <1>8, <1>9 DEF AddedOnce
-----------------------------------------------------------------------------
(* Steps of AsyncOmni                                                      *)

\* The invariants that are not about AsyncOmni's own state.
BackIInv ==
  /\ UnsubmittedIsUntouched /\ HandlerInOrder /\ RouterForwards /\ EntriesAreMarked
  /\ ToldIsForgotten /\ CompanionsShareReplica /\ SweptIsNotDeferred /\ DeferredIsWaiting

LEMMA BackFrame ==
  ASSUME BackIInv, UNCHANGED <<known, submitted, tracker, task, pools, orch, fatal, asyncChunk, replies>>
  PROVE  BackIInv'
<1>. USE DEF tracker, pools
<1>1. UnsubmittedIsUntouched' /\ HandlerInOrder' /\ RouterForwards'
  BY DEF BackIInv, UnsubmittedIsUntouched, HandlerInOrder, RouterForwards
<1>2. EntriesAreMarked' /\ ToldIsForgotten'
  BY DEF BackIInv, EntriesAreMarked, ToldIsForgotten, RouterIsSubmitting
<1>3. CompanionsShareReplica' /\ SweptIsNotDeferred' /\ DeferredIsWaiting'
  BY DEF BackIInv, CompanionsShareReplica, SweptIsNotDeferred, DeferredIsWaiting, Waiting
<1>. QED
  BY <1>1, <1>2, <1>3 DEF BackIInv

\* A step of AsyncOmni leaves the orchestrator's own state alone.
LEMMA FrontFrame ==
  ASSUME OrchIInv, UNCHANGED <<known, submitted, tracker, task, pools, fate, replies>>,
         FrontTypeOK', InboxTypeOK', outbox' = outbox \/ (outbox # <<>> /\ outbox' = Tail(outbox)),
         AddedOnce', IsFiniteSet(Asked')
  PROVE  OrchIInv'
<1>1. OutboxTypeOK'
  <2>. DEFINE T == [type : {"end", "bad", "error", "fatal"}, id : Ids \cup {NoId}]
  <2>1. outbox \in Seq(T)
    BY TypeGroups DEF OrchIInv, OutboxTypeOK
  <2>2. outbox' \in Seq(T)
    <3>. HIDE DEF T
    <3>. QED
      BY <2>1, HeadTailProperties
  <2>. QED
    BY <2>2, TypeGroups DEF OrchIInv, OutboxTypeOK
<1>2. TableTypeOK' /\ TaskTypeOK' /\ FateTypeOK'
  BY TypeGroups DEF OrchIInv, TableTypeOK, TaskTypeOK, FateTypeOK, fate
<1>3. TrackerTypeOK'
  BY TypeGroups DEF OrchIInv, TrackerTypeOK, tracker
<1>4. PoolTypeOK'
  BY TypeGroups DEF OrchIInv, PoolTypeOK, pools
<1>5. CoreTypeOK'
  BY <1>1, <1>2, <1>3, <1>4, TypeGroupsNext
<1>6. FinitelyMany'
  BY DEF OrchIInv, FinitelyMany
<1>7. BackIInv'
  BY BackFrame DEF OrchIInv, BackIInv, fate
<1>. QED
  BY <1>5, <1>6, <1>7 DEF OrchIInv, BackIInv

LEMMA GenerateIInv == ASSUME OrchIInv, NEW p \in Parents, Generate(p) PROVE OrchIInv'
<1>. DEFINE T == [type : {"add", "companion", "abort"}, id : Ids]
<1>1. FrontTypeOK /\ InboxTypeOK /\ AddedOnce /\ IsFiniteSet(Asked)
  BY TypeGroups DEF OrchIInv, FinitelyMany
<1>2. FrontTypeOK'
  BY <1>1 DEF Generate, FrontTypeOK, CompanionsOf
<1>3. /\ Msg("add", p) \in T /\ Msg("add", p).id = p
      /\ inbox' = Append(inbox, Msg("add", p)) /\ inbox \in Seq(T)
  BY <1>1, Constants DEF Generate, Msg, InboxTypeOK
<1>4. /\ inbox' \in Seq(T) /\ Len(inbox') = Len(inbox) + 1 /\ Len(inbox) \in Nat
      /\ \A i \in 1..Len(inbox) : inbox'[i] = inbox[i]
      /\ inbox'[Len(inbox) + 1].id = p
  <2>. HIDE DEF T, Msg
  <2>. QED
    BY <1>3, AppendProperties
<1>5. \A q \in Parents : phase'[q] = IF q = p THEN "open" ELSE phase[q]
  BY <1>1 DEF Generate, FrontTypeOK
<1>6. Unseen(p) /\ ~Unseen(p)' /\ expanding' = CompanionsOf(p) /\ expanding = {}
  BY <1>5, Constants DEF Unseen, Generate
<1>7. \A id \in Ids : Unseen(id)' => Unseen(id)
  BY <1>5, <1>6, Constants DEF Unseen, CompanionsOf, Ids, Generate
<1>8. AddedOnce'
  <2>1. (\A c \in expanding : phase[ParentOf[c]] # "new")'
    BY <1>5, <1>6, Constants DEF CompanionsOf
  <2>2. \A i \in Adding' : \/ i = Len(inbox) + 1 /\ inbox'[i].id = p
                           \/ i \in Adding /\ inbox'[i] = inbox[i] /\ inbox[i].id \in Ids
    BY <1>1, <1>4, InboxElement DEF Adding
  <2>3. \A i \in Adding : inbox[i].id # p /\ i \in 1..Len(inbox)
    BY <1>1, <1>6 DEF AddedOnce, Adding
  <2>4. (\A i, j \in Adding : inbox[i].id = inbox[j].id => i = j)'
    BY <1>1, <2>2, <2>3 DEF AddedOnce
  <2>5. UNCHANGED submitted
    BY DEF Generate
  <2>6. (\A i \in Adding : ~Unseen(inbox[i].id) /\ submitted[inbox[i].id] = {})'
    BY <1>1, <1>6, <1>7, <2>2, <2>5, Constants DEF AddedOnce
  <2>7. (\A id \in Ids : Unseen(id) => submitted[id] = {})'
    BY <1>1, <1>7, <2>5 DEF AddedOnce
  <2>. QED
    BY <2>1, <2>4, <2>6, <2>7 DEF AddedOnce
<1>9. Asked' = Asked \cup {p}
  BY <1>5 DEF Asked
<1>10. IsFiniteSet(Asked')
  BY <1>1, <1>9, FS_AddElement
<1>11. InboxTypeOK'
  BY <1>4 DEF InboxTypeOK
<1>12. /\ UNCHANGED <<known, submitted, tracker, task, pools, fate, replies>>
       /\ outbox' = outbox \/ (outbox # <<>> /\ outbox' = Tail(outbox))
  BY DEF Generate
<1>. QED
  BY <1>2, <1>8, <1>10, <1>11, <1>12, FrontFrame

LEMMA EnqueueCompanionIInv == ASSUME OrchIInv, NEW c \in Companions, EnqueueCompanion(c) PROVE OrchIInv'
<1>. DEFINE T == [type : {"add", "companion", "abort"}, id : Ids]
<1>1. FrontTypeOK /\ InboxTypeOK /\ AddedOnce /\ IsFiniteSet(Asked)
  BY TypeGroups DEF OrchIInv, FinitelyMany
<1>2. FrontTypeOK' /\ Asked' = Asked
  BY <1>1 DEF EnqueueCompanion, FrontTypeOK, Asked
<1>3. /\ Msg("companion", c) \in T /\ Msg("companion", c).id = c
      /\ inbox' = Append(inbox, Msg("companion", c)) /\ inbox \in Seq(T)
  BY <1>1, Constants DEF EnqueueCompanion, Msg, InboxTypeOK
<1>4. /\ inbox' \in Seq(T) /\ Len(inbox') = Len(inbox) + 1 /\ Len(inbox) \in Nat
      /\ \A i \in 1..Len(inbox) : inbox'[i] = inbox[i]
      /\ inbox'[Len(inbox) + 1].id = c
  <2>. HIDE DEF T, Msg
  <2>. QED
    BY <1>3, AppendProperties
<1>6. Unseen(c) /\ ~Unseen(c)' /\ c \in Ids
  BY <1>1, Constants DEF Unseen, EnqueueCompanion, AddedOnce
<1>7. \A id \in Ids : Unseen(id)' => Unseen(id)
  BY Constants DEF Unseen, Ids, EnqueueCompanion
<1>8. AddedOnce'
  <2>1. (\A d \in expanding : phase[ParentOf[d]] # "new")'
    BY <1>1 DEF EnqueueCompanion, AddedOnce
  <2>2. \A i \in Adding' : \/ i = Len(inbox) + 1 /\ inbox'[i].id = c
                           \/ i \in Adding /\ inbox'[i] = inbox[i] /\ inbox[i].id \in Ids
    BY <1>1, <1>4, InboxElement DEF Adding
  <2>3. \A i \in Adding : inbox[i].id # c /\ i \in 1..Len(inbox)
    BY <1>1, <1>6 DEF AddedOnce, Adding
  <2>4. (\A i, j \in Adding : inbox[i].id = inbox[j].id => i = j)'
    BY <1>1, <2>2, <2>3 DEF AddedOnce
  <2>5. UNCHANGED submitted
    BY DEF EnqueueCompanion
  <2>6. (\A i \in Adding : ~Unseen(inbox[i].id) /\ submitted[inbox[i].id] = {})'
    BY <1>1, <1>6, <1>7, <2>2, <2>5 DEF AddedOnce
  <2>7. (\A id \in Ids : Unseen(id) => submitted[id] = {})'
    BY <1>1, <1>7, <2>5 DEF AddedOnce
  <2>. QED
    BY <2>1, <2>4, <2>6, <2>7 DEF AddedOnce
<1>11. InboxTypeOK'
  BY <1>4 DEF InboxTypeOK
<1>12. /\ UNCHANGED <<known, submitted, tracker, task, pools, fate, replies>>
       /\ outbox' = outbox \/ (outbox # <<>> /\ outbox' = Tail(outbox))
  BY DEF EnqueueCompanion
<1>13. IsFiniteSet(Asked')
  BY <1>1, <1>2
<1>. QED
  BY <1>2, <1>8, <1>11, <1>12, <1>13, FrontFrame

\* Steps that end or cancel requests only add aborts to the inbox.
LEMMA AbortingIInv ==
  ASSUME OrchIInv, UNCHANGED <<known, submitted, tracker, task, pools, fate, replies>>,
         outbox' = outbox \/ (outbox # <<>> /\ outbox' = Tail(outbox)),
         FrontTypeOK', AbortsAppended, expanding' \subseteq expanding,
         \A p \in Parents : phase'[p] = "new" <=> phase[p] = "new"
  PROVE  OrchIInv'
<1>1. FrontTypeOK /\ InboxTypeOK /\ AddedOnce /\ IsFiniteSet(Asked)
  BY TypeGroups DEF OrchIInv, FinitelyMany
<1>2. AddedOnce'
  BY <1>1, AbortsKeepAddedOnce
<1>3. InboxTypeOK'
  BY DEF AbortsAppended, InboxTypeOK
<1>4. Asked' = Asked
  BY DEF Asked
<1>. QED
  BY <1>1, <1>2, <1>3, <1>4, FrontFrame

LEMMA NothingAppended == ASSUME InboxTypeOK, UNCHANGED inbox PROVE AbortsAppended
BY InboxElement DEF InboxTypeOK, AbortsAppended

LEMMA CancelIInv == ASSUME OrchIInv, NEW p \in Parents, Cancel(p) PROVE OrchIInv'
<1>1. FrontTypeOK /\ InboxTypeOK
  BY TypeGroups DEF OrchIInv
<1>2. AbortsAppended
  BY <1>1, AppendAbort DEF Cancel
<1>3. FrontTypeOK' /\ expanding' \subseteq expanding /\ \A q \in Parents : phase'[q] = "new" <=> phase[q] = "new"
  BY <1>1 DEF Cancel, FrontTypeOK
<1>4. /\ UNCHANGED <<known, submitted, tracker, task, pools, fate, replies>>
      /\ outbox' = outbox \/ (outbox # <<>> /\ outbox' = Tail(outbox))
  BY DEF Cancel
<1>. QED
  BY <1>2, <1>3, <1>4, AbortingIInv

LEMMA ReadIInv == ASSUME OrchIInv, Read PROVE OrchIInv'
<1>1. FrontTypeOK /\ InboxTypeOK /\ FinitelyMany
  BY TypeGroups DEF OrchIInv
<1>2. UNCHANGED expanding
  BY DEF Read
<1>. DEFINE Kept == /\ FrontTypeOK' /\ AbortsAppended
                    /\ \A q \in Parents : phase'[q] = "new" <=> phase[q] = "new"
<1>3. ASSUME NEW id, ReadEnd(id) PROVE Kept
  <2>1. AbortsAppended
    BY <1>1, <1>3, NothingAppended DEF ReadEnd
  <2>2. FrontTypeOK' /\ \A q \in Parents : phase'[q] = "new" <=> phase[q] = "new"
    BY <1>1, <1>2, <1>3 DEF ReadEnd, FrontTypeOK, Open
  <2>. QED
    BY <2>1, <2>2
<1>4. ASSUME NEW id, ReadBad(id) PROVE Kept
  <2>1. AbortsAppended
    <3>1. CASE id \in Open
      BY <1>1, <1>4, <3>1, AppendAbort DEF ReadBad, Open
    <3>2. CASE id \notin Open
      BY <1>1, <1>4, <3>2, NothingAppended DEF ReadBad
    <3>. QED
      BY <3>1, <3>2
  <2>2. FrontTypeOK' /\ \A q \in Parents : phase'[q] = "new" <=> phase[q] = "new"
    BY <1>1, <1>2, <1>4 DEF ReadBad, FrontTypeOK, Open
  <2>. QED
    BY <2>1, <2>2
<1>5. ASSUME NEW after \in {"none", "dead"}, FailAll(after) PROVE Kept
  BY <1>1, <1>2, <1>5, FailAllEffect
<1>6. Kept
  BY <1>3, <1>4, <1>5 DEF Read
<1>7. expanding' \subseteq expanding
  BY <1>2
<1>8. outbox # <<>> /\ outbox' = Tail(outbox) /\ UNCHANGED <<known, submitted, tracker, task, pools, fate, replies>>
  BY DEF Read
<1>. QED
  BY <1>6, <1>7, <1>8, AbortingIInv

LEMMA NoticeDeathIInv == ASSUME OrchIInv, NoticeDeath PROVE OrchIInv'
<1>1. FrontTypeOK /\ InboxTypeOK /\ FinitelyMany
  BY TypeGroups DEF OrchIInv
<1>2. FailAll("none") /\ UNCHANGED <<expanding, outbox, known, submitted, tracker, task, pools, fate, replies>>
  BY DEF NoticeDeath
<1>3. /\ FrontTypeOK' /\ AbortsAppended
      /\ \A p \in Parents : phase'[p] = "new" <=> phase[p] = "new"
  BY <1>1, <1>2, FailAllEffect
<1>4. /\ UNCHANGED <<known, submitted, tracker, task, pools, fate, replies>>
      /\ outbox' = outbox \/ (outbox # <<>> /\ outbox' = Tail(outbox))
  BY <1>2
<1>5. expanding' \subseteq expanding
  BY <1>2
<1>. QED
  BY <1>3, <1>4, <1>5, AbortingIInv

\* An engine dies.
LEMMA DieIInv == ASSUME OrchIInv, NEW s \in Stages, Die(s) PROVE OrchIInv'
<1>1. UNCHANGED <<known, submitted, tracker, task, pools, orch, fatal, asyncChunk, replies>>
  BY DEF Die
<1>2. BackIInv'
  BY <1>1, BackFrame DEF OrchIInv, BackIInv
<1>3. UNCHANGED <<phase, expanding, reader, inbox, outbox>> /\ dead' \subseteq Stages
  BY OrchestratorAssumption DEF Die, front, Stages
<1>4. CoreTypeOK'
  <2>1. FrontTypeOK' /\ InboxTypeOK' /\ OutboxTypeOK' /\ TableTypeOK'
    BY <1>1, <1>3, TypeGroups DEF OrchIInv, FrontTypeOK, InboxTypeOK, OutboxTypeOK, TableTypeOK
  <2>2. TrackerTypeOK' /\ PoolTypeOK'
    BY <1>1, TypeGroups DEF OrchIInv, TrackerTypeOK, PoolTypeOK, tracker, pools
  <2>3. TaskTypeOK' /\ FateTypeOK'
    BY <1>1, <1>3, TypeGroups DEF OrchIInv, TaskTypeOK, FateTypeOK
  <2>. QED
    BY <2>1, <2>2, <2>3, TypeGroupsNext
<1>5. FinitelyMany'
  BY <1>1, <1>3 DEF OrchIInv, FinitelyMany, Asked
<1>6. AddedOnce'
  BY <1>1, <1>3 DEF OrchIInv, AddedOnce, Adding, Unseen
<1>. QED
  BY <1>2, <1>4, <1>5, <1>6 DEF OrchIInv, BackIInv
-----------------------------------------------------------------------------
(* What the parts of the invariant need of a step of the orchestrator      *)

LEMMA FinitelyManyKept ==
  ASSUME FinitelyMany, UNCHANGED phase, NEW S, IsFiniteSet(S), known' \subseteq known \cup S
  PROVE  FinitelyMany'
<1>1. IsFiniteSet(known \cup S)
  BY FS_Union DEF FinitelyMany
<1>2. IsFiniteSet(known')
  BY <1>1, FS_Subset
<1>3. IsFiniteSet(Asked')
  BY DEF FinitelyMany, Asked
<1>. QED
  BY <1>2, <1>3 DEF FinitelyMany

\* Messages only leave the inbox, and no stage is submitted for the first time.
LEMMA AddedOnceKept ==
  ASSUME AddedOnce, InboxTypeOK, UNCHANGED <<phase, expanding>>,
         \/ inbox' = inbox \/ inbox' = <<>>
         \/ inbox # <<>> /\ inbox' = Tail(inbox),
         \A id \in Ids : submitted[id] = {} => submitted'[id] = {}
  PROVE  AddedOnce' /\ InboxTypeOK'
<1>1. AddedOnce'
  BY TakingKeepsAddedOnce
<1>. DEFINE T == [type : {"add", "companion", "abort"}, id : Ids]
<1>2. inbox' \in Seq(T)
  <2>1. inbox \in Seq(T)
    BY DEF InboxTypeOK
  <2>2. <<>> \in Seq(T)
    OBVIOUS
  <2>3. inbox # <<>> => Tail(inbox) \in Seq(T)
    <3>. HIDE DEF T
    <3>. QED
      BY <2>1, HeadTailProperties
  <2>. HIDE DEF T
  <2>. QED
    BY <2>1, <2>2, <2>3
<1>. QED
  BY <1>1, <1>2 DEF InboxTypeOK

LEMMA UntouchedKept ==
  ASSUME UnsubmittedIsUntouched,
         \A id \in Ids : submitted[id] = {} <=> submitted'[id] = {},
         known' \subseteq known, UNCHANGED entries,
         \A s \in Stages, id \in Ids : bound'[s][id] \in {bound[s][id], Unbound},
         \A p \in Parents : replies'[p] = replies[p] \/ p \in known \/ orch' = "stopped",
         orch = "stopped" => orch' = "stopped"
  PROVE  UnsubmittedIsUntouched'
BY Constants DEF UnsubmittedIsUntouched

LEMMA ShareKept ==
  ASSUME CompanionsShareReplica,
         \A s \in Stages, id \in Ids : bound'[s][id] \in {bound[s][id], Unbound}
  PROVE  CompanionsShareReplica'
BY Constants DEF CompanionsShareReplica

-----------------------------------------------------------------------------
(* Steps of the request handler                                            *)

LEMMA HandleAddRequestIInv == ASSUME OrchIInv, NEW p \in Parents, HandleAddRequest(p) PROVE OrchIInv'
<1>. DEFINE h == task["handler"]  r == task["router"]
<1>1. /\ FrontTypeOK /\ InboxTypeOK /\ OutboxTypeOK /\ TableTypeOK /\ TrackerTypeOK /\ TaskTypeOK
      /\ FateTypeOK /\ PoolTypeOK /\ FinitelyMany /\ AddedOnce
      /\ UnsubmittedIsUntouched /\ HandlerInOrder /\ RouterForwards /\ EntriesAreMarked
      /\ ToldIsForgotten /\ CompanionsShareReplica /\ SweptIsNotDeferred /\ DeferredIsWaiting
  BY TypeGroups DEF OrchIInv
<1>2. /\ orch # "stopped" /\ h.at = "idle" /\ r.at # "forward"
      /\ inbox # <<>> /\ Head(inbox) = Msg("add", p) /\ inbox' = Tail(inbox)
  BY DEF HandleAddRequest, Received, Ready, Active
<1>3. UNCHANGED <<phase, expanding, reader, outbox, registered, done, deferred, fatal, dead, asyncChunk, replies>>
  BY DEF HandleAddRequest, front, tracker
<1>4. submitted[p] = {} /\ Head(inbox).id = p /\ Head(inbox).type # "abort"
  <2>1. 1 \in Adding /\ inbox[1] = Msg("add", p)
    BY <1>1, <1>2, InboxElement DEF Adding, InboxTypeOK, Msg
  <2>. QED
    BY <1>1, <1>2, <2>1 DEF AddedOnce, Msg
<1>5. /\ p \in Ids /\ p \notin known /\ replies[p] = 0
      /\ \A s \in Stages : entries[s][p] = 0 /\ bound[s][p] = Unbound
  BY <1>1, <1>2, <1>4, Constants DEF UnsubmittedIsUntouched
<1>6. known' = known \cup {p} /\ \A id \in Ids : submitted'[id] = IF id = p THEN {0} ELSE submitted[id]
  BY <1>1 DEF HandleAddRequest, TableTypeOK
<1>7. /\ StartSubmit("handler", p, 0, NoId, {}) /\ {} \in SUBSET Companions /\ NoId \in Ids \cup {NoId}
      /\ "handler" \in Tasks /\ "router" \in Tasks /\ 0 \in Stages
  BY Constants DEF HandleAddRequest
<1>8. /\ PoolTypeOK' /\ TaskTypeOK' /\ orch' \in {orch, "failing"} /\ task'["router"] = r
      /\ \A u \in Stages, x \in Ids : u # 0 \/ x # p =>
           bound'[u][x] = bound[u][x] /\ entries'[u][x] = entries[u][x]
      /\ \/ /\ entries'[0][p] = 1
            /\ task'["handler"] = [at |-> "submitting", ids |-> {p}, stage |-> 0, after |-> {}]
         \/ /\ entries'[0][p] = 0 /\ bound'[0][p] = Unbound
            /\ task'["handler"] = [at |-> "failed", ids |-> {}, stage |-> 0, after |-> {}]
  <2>1. /\ PoolTypeOK' /\ TaskTypeOK' /\ orch' \in {orch, "failing"}
        /\ SubmitChanges("handler", p, 0, NoId, {})
    BY <1>1, <1>5, <1>7, StartSubmitChanges
  <2>. QED
    BY <1>5, <1>7, <2>1 DEF SubmitChanges
<1>9. CoreTypeOK'
  <2>1. FrontTypeOK' /\ OutboxTypeOK' /\ TrackerTypeOK'
    BY <1>1, <1>3 DEF FrontTypeOK, OutboxTypeOK, TrackerTypeOK
  <2>2. TableTypeOK'
    BY <1>1, <1>5, Constants DEF TableTypeOK, HandleAddRequest
  <2>3. FateTypeOK'
    BY <1>1, <1>3, <1>8 DEF FateTypeOK
  <2>4. InboxTypeOK'
    BY <1>1, <1>2, HeadTailProperties DEF InboxTypeOK
  <2>. QED
    BY <1>8, <2>1, <2>2, <2>3, <2>4, TypeGroupsNext
<1>10. FinitelyMany'
  BY <1>1, <1>3, <1>6, FinitelyManyKept, FS_Singleton
<1>11. AddedOnce'
  <2>1. /\ \/ inbox' = inbox \/ inbox' = <<>>
           \/ inbox # <<>> /\ inbox' = Tail(inbox)
        /\ UNCHANGED <<phase, expanding>>
    BY <1>2, <1>3
  <2>2. \A id \in Ids : submitted[id] = {} => \/ submitted'[id] = {}
                                              \/ /\ inbox # <<>> /\ inbox' = Tail(inbox)
                                                 /\ Head(inbox).id = id /\ Head(inbox).type # "abort"
    BY <1>2, <1>4, <1>6
  <2>. QED
    BY <1>1, <2>1, <2>2, TakingKeepsAddedOnce
<1>12. UnsubmittedIsUntouched'
  <2>1. submitted'[p] # {} /\ \A id \in Ids : submitted[id] # {} => submitted'[id] # {}
    BY <1>5, <1>6
  <2>2. ASSUME NEW id \in Ids, id # p, submitted[id] = {}
        PROVE  /\ id \notin known'
               /\ \A s \in Stages : entries'[s][id] = 0 /\ bound'[s][id] = Unbound
               /\ id \in Parents => orch' = "stopped" \/ replies'[id] = 0
    BY <1>1, <1>2, <1>3, <1>6, <1>8, <2>2 DEF UnsubmittedIsUntouched
  <2>3. \A c \in Companions : submitted'[c] # {} => submitted'[ParentOf[c]] # {}
    BY <1>1, <1>6, <2>1, Constants DEF UnsubmittedIsUntouched
  <2>. QED
    BY <1>6, <2>1, <2>2, <2>3 DEF UnsubmittedIsUntouched
<1>13. HandlerInOrder'
  BY <1>5, <1>6, <1>8 DEF HandlerInOrder
<1>14. RouterForwards'
  BY <1>1, <1>2, <1>3, <1>6, <1>8, Constants DEF RouterForwards
<1>15. EntriesAreMarked'
  BY <1>1, <1>2, <1>5, <1>6, <1>8 DEF EntriesAreMarked, RouterIsSubmitting
<1>16. ToldIsForgotten'
  BY <1>1, <1>2, <1>3, <1>5, <1>6, <1>8 DEF ToldIsForgotten
<1>17. CompanionsShareReplica'
  BY <1>1, <1>4, <1>5, <1>8, Constants DEF CompanionsShareReplica, UnsubmittedIsUntouched
<1>18. SweptIsNotDeferred'
  BY <1>1, <1>3, <1>8, Constants DEF SweptIsNotDeferred, Tasks
<1>19. DeferredIsWaiting'
  BY <1>1, <1>3, <1>6, <1>8 DEF DeferredIsWaiting, Waiting
<1>. QED
  BY <1>9, <1>10, <1>11, <1>12, <1>13, <1>14, <1>15, <1>16, <1>17, <1>18, <1>19 DEF OrchIInv

\* A message that only leaves the inbox.
LEMMA DropIInv ==
  ASSUME OrchIInv, inbox # <<>>, inbox' = Tail(inbox),
         UNCHANGED <<front, outbox, known, submitted, tracker, task, pools, fate, replies>>
  PROVE  OrchIInv'
<1>1. FrontTypeOK /\ InboxTypeOK /\ AddedOnce /\ FinitelyMany
  BY TypeGroups DEF OrchIInv
<1>2. UNCHANGED <<phase, expanding, reader>> /\ UNCHANGED submitted
  BY DEF front
<1>3. AddedOnce' /\ InboxTypeOK'
  BY <1>1, <1>2, AddedOnceKept
<1>4. FrontTypeOK' /\ IsFiniteSet(Asked')
  BY <1>1, <1>2 DEF FrontTypeOK, FinitelyMany, Asked
<1>5. /\ UNCHANGED <<known, submitted, tracker, task, pools, fate, replies>>
      /\ outbox' = outbox \/ (outbox # <<>> /\ outbox' = Tail(outbox))
  OBVIOUS
<1>. QED
  BY <1>3, <1>4, <1>5, FrontFrame

LEMMA HandleAddCompanionIInv == ASSUME OrchIInv, NEW c \in Companions, HandleAddCompanion(c) PROVE OrchIInv'
<1>. DEFINE p == ParentOf[c]  h == task["handler"]  r == task["router"]
<1>1. /\ FrontTypeOK /\ InboxTypeOK /\ OutboxTypeOK /\ TableTypeOK /\ TrackerTypeOK /\ TaskTypeOK
      /\ FateTypeOK /\ PoolTypeOK /\ FinitelyMany /\ AddedOnce
      /\ UnsubmittedIsUntouched /\ HandlerInOrder /\ RouterForwards /\ EntriesAreMarked
      /\ ToldIsForgotten /\ CompanionsShareReplica /\ SweptIsNotDeferred /\ DeferredIsWaiting
  BY TypeGroups DEF OrchIInv
<1>2. /\ orch # "stopped" /\ h.at = "idle" /\ r.at # "forward"
      /\ inbox # <<>> /\ Head(inbox) = Msg("companion", c) /\ inbox' = Tail(inbox)
  BY DEF HandleAddCompanion, Received, Ready, Active
<1>3. UNCHANGED <<phase, expanding, reader, outbox, done, deferred, fatal, dead, asyncChunk, replies>>
  BY DEF HandleAddCompanion, front
<1>4. submitted[c] = {} /\ Head(inbox).id = c /\ Head(inbox).type # "abort"
  <2>1. 1 \in Adding /\ inbox[1] = Msg("companion", c)
    BY <1>1, <1>2, InboxElement DEF Adding, InboxTypeOK, Msg
  <2>. QED
    BY <1>1, <1>2, <2>1 DEF AddedOnce, Msg
<1>5. /\ p \in Parents /\ p \in Ids /\ c \in Ids /\ c \notin Parents /\ c \notin known /\ c # p
      /\ \A s \in Stages : entries[s][c] = 0 /\ bound[s][c] = Unbound
  BY <1>1, <1>2, <1>4, Constants DEF UnsubmittedIsUntouched
<1>. HIDE DEF p
<1>6. CASE p \notin known
  <2>1. UNCHANGED <<front, outbox, known, submitted, tracker, task, pools, fate, replies>>
    BY <1>3, <1>6 DEF HandleAddCompanion, front, tracker, fate, p
  <2>. QED
    BY <1>2, <2>1, DropIInv
<1>7. CASE p \in known
  <2>1. /\ known' = known \cup {c} /\ \A id \in Ids : submitted'[id] = IF id = c THEN {0} ELSE submitted[id]
        /\ \A q \in Parents : registered'[q] = IF q = p THEN registered[q] \cup {c} ELSE registered[q]
        /\ registered' \in [Parents -> SUBSET Companions] /\ submitted' \in [Ids -> SUBSET Stages]
    BY <1>1, <1>5, <1>7, Constants DEF HandleAddCompanion, TableTypeOK, TrackerTypeOK, p
  <2>2. submitted[p] # {}
    BY <1>1, <1>5, <1>7 DEF UnsubmittedIsUntouched
  <2>3. /\ StartSubmit("handler", c, 0, p, {}) /\ {} \in SUBSET Companions /\ p \in Ids \cup {NoId}
        /\ "handler" \in Tasks /\ "router" \in Tasks /\ 0 \in Stages
    BY <1>5, <1>7, Constants DEF HandleAddCompanion, p
  <2>4. /\ PoolTypeOK' /\ TaskTypeOK' /\ orch' \in {orch, "failing"}
        /\ SubmitChanges("handler", c, 0, p, {})
    BY <1>1, <1>5, <2>3, StartSubmitChanges
  <2>5. /\ task'["router"] = r
        /\ \A u \in Stages, x \in Ids : u # 0 \/ x # c =>
             bound'[u][x] = bound[u][x] /\ entries'[u][x] = entries[u][x]
        /\ \/ /\ entries'[0][c] = 1
              /\ bound[0][p] # Unbound => bound'[0][c] = bound[0][p]
              /\ task'["handler"] = [at |-> "submitting", ids |-> {c}, stage |-> 0, after |-> {}]
           \/ /\ entries'[0][c] = 0 /\ bound'[0][c] = Unbound
              /\ task'["handler"] = [at |-> "failed", ids |-> {}, stage |-> 0, after |-> {}]
    <3>1. Selected(0, c, p) = IF bound[0][p] # Unbound THEN bound[0][p] ELSE nextReplica[0]
      BY <1>5, <2>3, Constants DEF Selected
    <3>. QED
      BY <1>5, <2>3, <2>4, <3>1 DEF SubmitChanges
  <2>6. CoreTypeOK'
    <3>1. FrontTypeOK' /\ OutboxTypeOK'
      BY <1>1, <1>3 DEF FrontTypeOK, OutboxTypeOK
    <3>2. TrackerTypeOK'
      BY <1>1, <1>3, <2>1 DEF TrackerTypeOK, CompanionsOf, p
    <3>3. TableTypeOK'
      BY <1>1, <1>5, <2>1 DEF TableTypeOK
    <3>4. FateTypeOK'
      BY <1>1, <1>3, <2>4 DEF FateTypeOK
    <3>5. InboxTypeOK'
      BY <1>1, <1>2, HeadTailProperties DEF InboxTypeOK
    <3>. QED
      BY <2>4, <3>1, <3>2, <3>3, <3>4, <3>5, TypeGroupsNext
  <2>7. FinitelyMany'
    BY <1>1, <1>3, <2>1, FinitelyManyKept, FS_Singleton
  <2>8. AddedOnce'
    <3>1. /\ \/ inbox' = inbox \/ inbox' = <<>>
             \/ inbox # <<>> /\ inbox' = Tail(inbox)
          /\ UNCHANGED <<phase, expanding>>
      BY <1>2, <1>3
    <3>2. \A id \in Ids : submitted[id] = {} => \/ submitted'[id] = {}
                                                \/ /\ inbox # <<>> /\ inbox' = Tail(inbox)
                                                   /\ Head(inbox).id = id /\ Head(inbox).type # "abort"
      BY <1>2, <1>4, <2>1
    <3>. QED
      BY <1>1, <3>1, <3>2, TakingKeepsAddedOnce
  <2>9. UnsubmittedIsUntouched'
    <3>1. submitted'[c] # {} /\ \A id \in Ids : submitted[id] # {} => submitted'[id] # {}
      BY <1>5, <2>1
    <3>2. ASSUME NEW id \in Ids, id # c, submitted[id] = {}
          PROVE  /\ id \notin known'
                 /\ \A s \in Stages : entries'[s][id] = 0 /\ bound'[s][id] = Unbound
                 /\ id \in Parents => orch' = "stopped" \/ replies'[id] = 0
      BY <1>1, <1>2, <1>3, <2>1, <2>5, <3>2 DEF UnsubmittedIsUntouched
    <3>3. \A d \in Companions : submitted'[d] # {} => submitted'[ParentOf[d]] # {}
      BY <1>1, <1>5, <2>1, <2>2, <3>1, Constants DEF UnsubmittedIsUntouched, p
    <3>. QED
      BY <2>1, <3>1, <3>2, <3>3 DEF UnsubmittedIsUntouched
  <2>10. HandlerInOrder'
    BY <1>5, <2>1, <2>5 DEF HandlerInOrder
  <2>11. RouterForwards'
    BY <1>1, <1>2, <1>3, <1>5, <2>1, <2>5, Constants DEF RouterForwards
  <2>12. EntriesAreMarked'
    <3>1. entries'[0][c] <= 1 /\ 0 \in submitted'[c]
      BY <1>5, <2>1, <2>5
    <3>2. ASSUME NEW s \in Stages, NEW id \in Ids, s # 0 \/ id # c
          PROVE  /\ entries'[s][id] = entries[s][id] /\ submitted[id] \subseteq submitted'[id]
                 /\ RouterIsSubmitting(s, id)' <=> RouterIsSubmitting(s, id)
      BY <1>4, <2>1, <2>5, <3>2 DEF RouterIsSubmitting
    <3>3. orch # "stopped"
      BY <1>2
    <3>. QED
      BY <1>1, <3>1, <3>2, <3>3 DEF EntriesAreMarked
  <2>13. ToldIsForgotten'
    BY <1>1, <1>2, <1>3, <1>5, <2>1, <2>4, <2>5 DEF ToldIsForgotten
  <2>14. CompanionsShareReplica'
    <3>1. ASSUME NEW d \in Companions PROVE d # p /\ d # c => bound'[0][d] = bound[0][d]
      BY <2>3, <2>5, Constants
    <3>2. \A q \in Parents : bound'[0][q] = bound[0][q]
      BY <1>5, <2>3, <2>5, Constants
    <3>. QED
      BY <1>1, <1>5, <2>5, <3>1, <3>2, Constants DEF CompanionsShareReplica, p
  <2>15. SweptIsNotDeferred'
    BY <1>1, <1>3, <2>5, Constants DEF SweptIsNotDeferred, Tasks
  <2>16. DeferredIsWaiting'
    BY <1>1, <1>3, <2>1, <2>4 DEF DeferredIsWaiting, Waiting
  <2>. QED
    BY <2>6, <2>7, <2>8, <2>9, <2>10, <2>11, <2>12, <2>13, <2>14, <2>15, <2>16 DEF OrchIInv
<1>. QED
  BY <1>6, <1>7

LEMMA HandlerSubmittedIInv == ASSUME OrchIInv, NEW id \in Ids, HandlerSubmitted(id) PROVE OrchIInv'
<1>. DEFINE h == task["handler"]  r == task["router"]  next == h.stage + 1
<1>1. /\ FrontTypeOK /\ InboxTypeOK /\ OutboxTypeOK /\ TableTypeOK /\ TrackerTypeOK /\ TaskTypeOK
      /\ FateTypeOK /\ PoolTypeOK /\ FinitelyMany /\ AddedOnce
      /\ UnsubmittedIsUntouched /\ HandlerInOrder /\ RouterForwards /\ EntriesAreMarked
      /\ ToldIsForgotten /\ CompanionsShareReplica /\ SweptIsNotDeferred /\ DeferredIsWaiting
  BY TypeGroups DEF OrchIInv
<1>2. orch # "stopped" /\ h.at = "submitting" /\ h.ids = {id} /\ h.stage \in Stages /\ r.at # "forward"
  BY <1>1, Constants DEF HandlerSubmitted, Active, TaskTypeOK
<1>3. UNCHANGED <<phase, expanding, reader, inbox, outbox, known, registered, done, deferred, fatal, dead, asyncChunk, replies>>
  BY DEF HandlerSubmitted, front, tracker
<1>4. submitted[id] # {} /\ (asyncChunk => submitted[id] \subseteq 0..h.stage)
  BY <1>1, <1>2 DEF HandlerInOrder
<1>5. /\ FrontTypeOK' /\ InboxTypeOK' /\ OutboxTypeOK' /\ TrackerTypeOK' /\ FinitelyMany'
  BY <1>1, <1>3 DEF FrontTypeOK, InboxTypeOK, OutboxTypeOK, TrackerTypeOK, FinitelyMany, Asked
<1>6. CASE ~(asyncChunk /\ next <= FinalOf(id))
  <2>1. Rest("handler") /\ UNCHANGED <<submitted, bound, nextReplica, work, entries, orch>>
    BY <1>6 DEF HandlerSubmitted, pools
  <2>2. TaskTypeOK' /\ task'["handler"] = Idle /\ task'["router"] = r /\ Idle.at = "idle"
    BY <1>1, <2>1, Constants, RestEffect
  <2>3. TableTypeOK' /\ FateTypeOK' /\ PoolTypeOK'
    BY <1>1, <1>3, <2>1 DEF TableTypeOK, FateTypeOK, PoolTypeOK
  <2>4. CoreTypeOK'
    BY <1>5, <2>2, <2>3, TypeGroupsNext
  <2>5. AddedOnce' /\ UnsubmittedIsUntouched' /\ CompanionsShareReplica'
    BY <1>1, <1>3, <2>1 DEF AddedOnce, Adding, Unseen, UnsubmittedIsUntouched, CompanionsShareReplica
  <2>6. HandlerInOrder' /\ RouterForwards' /\ EntriesAreMarked'
    BY <1>1, <1>3, <2>1, <2>2 DEF HandlerInOrder, RouterForwards, EntriesAreMarked, RouterIsSubmitting
  <2>7. ToldIsForgotten' /\ SweptIsNotDeferred' /\ DeferredIsWaiting'
    BY <1>1, <1>3, <2>1, <2>2 DEF ToldIsForgotten, SweptIsNotDeferred, DeferredIsWaiting, Waiting, Tasks
  <2>. QED
    BY <1>5, <2>4, <2>5, <2>6, <2>7 DEF OrchIInv
<1>7. CASE asyncChunk /\ next <= FinalOf(id)
  <2>1. next \in Stages /\ next # 0 /\ next \notin submitted[id] /\ h.stage \in 0..next
    BY <1>2, <1>4, <1>7, Constants DEF Stages, Ids
  <2>. HIDE DEF next
  <2>2. /\ submitted' \in [Ids -> SUBSET Stages]
        /\ \A x \in Ids : submitted'[x] = IF x = id THEN submitted[x] \cup {next} ELSE submitted[x]
    BY <1>1, <1>7, <2>1 DEF HandlerSubmitted, TableTypeOK, next
  <2>3. /\ StartSubmit("handler", id, next, NoId, {}) /\ {} \in SUBSET Companions /\ NoId \in Ids \cup {NoId}
        /\ "handler" \in Tasks /\ "router" \in Tasks /\ 0 \in Stages
    BY <1>7, Constants DEF HandlerSubmitted, next
  <2>4. /\ PoolTypeOK' /\ TaskTypeOK' /\ orch' \in {orch, "failing"}
        /\ SubmitChanges("handler", id, next, NoId, {})
    BY <1>1, <2>1, <2>3, StartSubmitChanges
  <2>5. entries[next][id] = 0
    <3>1. entries[next][id] \in Nat
      BY <1>1, <2>1 DEF PoolTypeOK
    <3>2. ~RouterIsSubmitting(next, id)
      BY <1>1, <1>7 DEF RouterForwards, RouterIsSubmitting
    <3>. QED
      BY <1>1, <1>2, <2>1, <3>1, <3>2 DEF EntriesAreMarked
  <2>6. /\ task'["router"] = r
        /\ \A u \in Stages, x \in Ids : u # next \/ x # id =>
             bound'[u][x] = bound[u][x] /\ entries'[u][x] = entries[u][x]
        /\ \/ /\ entries'[next][id] = 1
              /\ task'["handler"] = [at |-> "submitting", ids |-> {id}, stage |-> next, after |-> {}]
           \/ /\ entries'[next][id] = 0
              /\ task'["handler"] = [at |-> "failed", ids |-> {}, stage |-> 0, after |-> {}]
    BY <2>3, <2>4, <2>5 DEF SubmitChanges
  <2>7. CoreTypeOK'
    <3>1. TableTypeOK' /\ FateTypeOK'
      BY <1>1, <1>3, <2>2, <2>4 DEF TableTypeOK, FateTypeOK
    <3>. QED
      BY <1>5, <2>4, <3>1, TypeGroupsNext
  <2>8. AddedOnce'
    BY <1>1, <1>3, <1>4, <2>2, AddedOnceKept
  <2>9. UnsubmittedIsUntouched'
    <3>1. \A x \in Ids : submitted'[x] = {} <=> submitted[x] = {}
      BY <1>4, <2>2
    <3>2. ASSUME NEW x \in Ids, submitted[x] = {}
          PROVE  \A s \in Stages : entries'[s][x] = 0 /\ bound'[s][x] = Unbound
      BY <1>1, <1>4, <2>6, <3>2 DEF UnsubmittedIsUntouched
    <3>3. orch' = "stopped" <=> orch = "stopped"
      BY <1>2, <2>4
    <3>. QED
      BY <1>1, <1>3, <3>1, <3>2, <3>3, Constants DEF UnsubmittedIsUntouched
  <2>10. HandlerInOrder'
    <3>1. submitted'[id] \subseteq 0..next
      BY <1>2, <1>4, <1>7, <2>1, <2>2, Constants
    <3>. QED
      BY <1>4, <2>2, <2>6, <3>1 DEF HandlerInOrder
  <2>11. RouterForwards'
    BY <1>1, <1>3, <1>2, <1>7, <2>6 DEF RouterForwards
  <2>12. EntriesAreMarked'
    BY <1>1, <1>2, <2>1, <2>2, <2>4, <2>6 DEF EntriesAreMarked, RouterIsSubmitting
  <2>13. ToldIsForgotten'
    BY <1>1, <1>2, <1>3, <2>4, <2>6 DEF ToldIsForgotten
  <2>14. CompanionsShareReplica'
    <3>1. \A x \in Ids : bound'[0][x] = bound[0][x]
      BY <2>1, <2>3, <2>6
    <3>. QED
      BY <1>1, <3>1, Constants DEF CompanionsShareReplica
  <2>15. SweptIsNotDeferred'
    BY <1>1, <1>3, <2>6, Constants DEF SweptIsNotDeferred, Tasks
  <2>16. DeferredIsWaiting'
    BY <1>1, <1>3, <2>4 DEF DeferredIsWaiting, Waiting
  <2>. QED
    BY <1>5, <2>7, <2>8, <2>9, <2>10, <2>11, <2>12, <2>13, <2>14, <2>15, <2>16 DEF OrchIInv
<1>. QED
  BY <1>6, <1>7

LEMMA HandleAbortIInv == ASSUME OrchIInv, NEW p \in Parents, HandleAbort(p) PROVE OrchIInv'
<1>. DEFINE h == task["handler"]  r == task["router"]  ids == Family(p)
<1>1. /\ FrontTypeOK /\ InboxTypeOK /\ OutboxTypeOK /\ TableTypeOK /\ TrackerTypeOK /\ TaskTypeOK
      /\ FateTypeOK /\ PoolTypeOK /\ FinitelyMany /\ AddedOnce
      /\ UnsubmittedIsUntouched /\ HandlerInOrder /\ RouterForwards /\ EntriesAreMarked
      /\ ToldIsForgotten /\ CompanionsShareReplica /\ SweptIsNotDeferred /\ DeferredIsWaiting
  BY TypeGroups DEF OrchIInv
<1>2. /\ orch # "stopped" /\ h.at = "idle" /\ r.at # "forward"
      /\ inbox # <<>> /\ inbox' = Tail(inbox)
  BY DEF HandleAbort, Received, Ready, Active
<1>3. UNCHANGED <<phase, expanding, reader, outbox, submitted, orch, fatal, dead, asyncChunk, replies>>
  BY DEF HandleAbort, front, fate
<1>4. /\ TrackerTypeOK' /\ registered'[p] = {} /\ deferred'[p] = NotDeferred
      /\ \A q \in Parents : q # p =>
           registered'[q] = registered[q] /\ done'[q] = done[q] /\ deferred'[q] = deferred[q]
  BY <1>1, CleanupParentEffect DEF HandleAbort
<1>5. /\ ids \in SUBSET Ids /\ ids \cap Parents = {p} /\ Sweep("handler", ids, 0, work)
      /\ work \in [Stages -> SUBSET Ids] /\ "handler" \in Tasks /\ "router" \in Tasks /\ 0 \in Nat
  BY <1>1, FamilyType, Constants DEF HandleAbort, PoolTypeOK
<1>. HIDE DEF ids
<1>6. PoolTypeOK' /\ TaskTypeOK' /\ SweepChanges("handler", ids)
  BY <1>1, <1>5, SweepKeeps
<1>7. /\ task'["router"] = r /\ task'["handler"].at \in {"idle", "aborting"}
      /\ task'["handler"].at = "aborting" => task'["handler"].ids = ids
      /\ \A s \in Stages, id \in Ids : bound'[s][id] \in {bound[s][id], Unbound}
      /\ known' \subseteq known /\ known \ ids \subseteq known' /\ UNCHANGED entries
  BY <1>5, <1>6 DEF SweepChanges
<1>8. AddedOnce' /\ InboxTypeOK'
  BY <1>1, <1>2, <1>3, AddedOnceKept
<1>9. CoreTypeOK'
  <2>1. FrontTypeOK' /\ OutboxTypeOK' /\ TableTypeOK' /\ FateTypeOK'
    BY <1>1, <1>3, <1>7 DEF FrontTypeOK, OutboxTypeOK, TableTypeOK, FateTypeOK
  <2>. QED
    BY <1>4, <1>6, <1>8, <2>1, TypeGroupsNext
<1>10. FinitelyMany'
  BY <1>1, <1>3, <1>7, FinitelyManyKept, FS_EmptySet
<1>11. UnsubmittedIsUntouched' /\ CompanionsShareReplica'
  BY <1>1, <1>3, <1>7, UntouchedKept, ShareKept
<1>12. HandlerInOrder'
  BY <1>7 DEF HandlerInOrder
<1>13. RouterForwards'
  BY <1>1, <1>2, <1>3, <1>4, <1>7 DEF RouterForwards
<1>14. EntriesAreMarked'
  BY <1>1, <1>3, <1>7 DEF EntriesAreMarked, RouterIsSubmitting
<1>15. ToldIsForgotten'
  BY <1>1, <1>3, <1>7 DEF ToldIsForgotten
<1>16. SweptIsNotDeferred'
  <2>1. \A q \in Parents : q # p => q \notin ids
    BY <1>5
  <2>2. \A q \in Parents : task'["handler"].at = "aborting" /\ q \in task'["handler"].ids => q = p
    BY <1>7, <2>1, Constants
  <2>3. \A q \in Parents : r.at = "aborting" /\ q \in r.ids => deferred'[q] = NotDeferred
    BY <1>1, <1>4, <1>5 DEF SweptIsNotDeferred
  <2>. QED
    BY <1>4, <1>7, <2>2, <2>3 DEF SweptIsNotDeferred, Tasks
<1>17. DeferredIsWaiting'
  <2>1. ASSUME NEW q \in Parents, deferred'[q] # NotDeferred
        PROVE  q # p /\ deferred'[q] = deferred[q] /\ (q \in known => q \in known') /\ (Waiting(q) => Waiting(q)')
    BY <1>4, <1>5, <1>7, <2>1 DEF Waiting
  <2>. QED
    BY <1>1, <1>3, <2>1 DEF DeferredIsWaiting
<1>. QED
  BY <1>8, <1>9, <1>10, <1>11, <1>12, <1>13, <1>14, <1>15, <1>16, <1>17 DEF OrchIInv

\* Either task goes on with its sweep.
LEMMA SweptIInv == ASSUME OrchIInv, NEW t \in Tasks, Swept(t) PROVE OrchIInv'
<1>. DEFINE ids == task[t].ids  s == task[t].stage
            running == [work EXCEPT ![s] = @ \ {id \in ids : bound[s][id] # Unbound}]
            next == s + 1
<1>1. /\ FrontTypeOK /\ InboxTypeOK /\ OutboxTypeOK /\ TableTypeOK /\ TrackerTypeOK /\ TaskTypeOK
      /\ FateTypeOK /\ PoolTypeOK /\ FinitelyMany /\ AddedOnce
      /\ UnsubmittedIsUntouched /\ HandlerInOrder /\ RouterForwards /\ EntriesAreMarked
      /\ ToldIsForgotten /\ CompanionsShareReplica /\ SweptIsNotDeferred /\ DeferredIsWaiting
  BY TypeGroups DEF OrchIInv
<1>2. orch # "stopped" /\ task[t].at = "aborting" /\ Sweep(t, ids, next, running)
  BY DEF Swept, Active
<1>3. UNCHANGED <<phase, expanding, reader, inbox, outbox, submitted, registered, done, deferred, orch, fatal, dead, asyncChunk, replies>>
  BY DEF Swept, front, tracker, fate
<1>4. ids \in SUBSET Ids /\ next \in Nat /\ running \in [Stages -> SUBSET Ids]
  <2>1. ids \in SUBSET Ids /\ s \in Stages
    BY <1>1, TaskFields
  <2>2. next \in Nat
    BY <2>1, OrchestratorAssumption DEF Stages
  <2>3. running \in [Stages -> SUBSET Ids]
    BY <1>1 DEF PoolTypeOK
  <2>. QED
    BY <2>1, <2>2, <2>3
<1>. HIDE DEF ids, s, running, next
<1>5. PoolTypeOK' /\ TaskTypeOK' /\ SweepChanges(t, ids)
  BY <1>1, <1>2, <1>4, SweepKeeps
<1>6. /\ \A u \in Tasks : u # t => task'[u] = task[u]
      /\ task'[t].at \in {"idle", "aborting"}
      /\ task'[t].at = "aborting" => task'[t].ids = ids
      /\ task'[t].at = "aborting" \/ known' = known \ ids
      /\ \A u \in Stages, id \in Ids : bound'[u][id] \in {bound[u][id], Unbound}
      /\ known' \subseteq known /\ known \ ids \subseteq known' /\ UNCHANGED entries
  BY <1>5 DEF SweepChanges
<1>7. AddedOnce' /\ InboxTypeOK'
  BY <1>1, <1>3, AddedOnceKept
<1>8. CoreTypeOK'
  <2>1. FrontTypeOK' /\ OutboxTypeOK' /\ TableTypeOK' /\ FateTypeOK' /\ TrackerTypeOK'
    BY <1>1, <1>3, <1>6 DEF FrontTypeOK, OutboxTypeOK, TableTypeOK, FateTypeOK, TrackerTypeOK
  <2>. QED
    BY <1>5, <1>7, <2>1, TypeGroupsNext
<1>9. FinitelyMany'
  BY <1>1, <1>3, <1>6, FinitelyManyKept, FS_EmptySet
<1>10. UnsubmittedIsUntouched' /\ CompanionsShareReplica'
  BY <1>1, <1>3, <1>6, UntouchedKept, ShareKept
<1>11. HandlerInOrder'
  BY <1>1, <1>3, <1>6 DEF HandlerInOrder, Tasks
<1>12. \A q \in Parents : q \in known' \/ q \in ids \/ q \notin known
  BY <1>6
<1>13. t = "router" \/ (t = "handler" /\ task'["router"] = task["router"])
  BY <1>6 DEF Tasks
<1>14. RouterForwards'
  <2>1. CASE t = "router"
    BY <1>1, <1>3, <1>6, <2>1 DEF RouterForwards
  <2>2. CASE t = "handler" /\ task'["router"] = task["router"] /\ task["router"].at # "forward"
    BY <1>1, <1>3, <2>2 DEF RouterForwards
  <2>. QED
    BY <1>13, <2>1, <2>2 DEF Swept, Active
<1>15. EntriesAreMarked'
  BY <1>1, <1>2, <1>3, <1>6, <1>13 DEF EntriesAreMarked, RouterIsSubmitting
<1>16. ToldIsForgotten'
  <2>1. CASE t = "router"
    <3>1. ~fatal
      BY <1>1, <1>2, <2>1 DEF ToldIsForgotten
    <3>2. \A p \in Parents : replies[p] = 1 /\ p \in known => p \in ids
      BY <1>1, <1>2, <2>1 DEF ToldIsForgotten, ids
    <3>3. task'[t].at = "aborting" \/ known' = known \ ids
      BY <1>6
    <3>. QED
      BY <1>1, <1>3, <1>6, <2>1, <3>1, <3>2, <3>3 DEF ToldIsForgotten
  <2>2. CASE t = "handler" /\ task'["router"] = task["router"]
    BY <1>1, <1>3, <1>6, <2>2 DEF ToldIsForgotten
  <2>. QED
    BY <1>13, <2>1, <2>2
<1>17. SweptIsNotDeferred'
  <2>. SUFFICES ASSUME NEW u \in Tasks, NEW p \in Parents, task'[u].at = "aborting", p \in task'[u].ids
                PROVE  deferred[p] = NotDeferred /\ (u = "handler" => registered[p] = {})
    BY <1>3 DEF SweptIsNotDeferred
  <2>1. task[u].at = "aborting" /\ p \in task[u].ids
    BY <1>2, <1>6 DEF ids
  <2>. QED
    BY <1>1, <2>1 DEF SweptIsNotDeferred
<1>18. DeferredIsWaiting'
  <2>1. \A q \in Parents : deferred[q] # NotDeferred => q \notin ids
    BY <1>1, <1>2 DEF SweptIsNotDeferred, ids
  <2>. QED
    BY <1>1, <1>3, <1>12, <2>1 DEF DeferredIsWaiting, Waiting
<1>. QED
  BY <1>7, <1>8, <1>9, <1>10, <1>11, <1>14, <1>15, <1>16, <1>17, <1>18 DEF OrchIInv
-----------------------------------------------------------------------------
(* Steps of the router                                                     *)

LEMMA ForwardToNextStageIInv == ASSUME OrchIInv, NEW p \in Parents, ForwardToNextStage(p) PROVE OrchIInv'
<1>. DEFINE h == task["handler"]  r == task["router"]  next == r.stage + 1
<1>1. /\ FrontTypeOK /\ InboxTypeOK /\ OutboxTypeOK /\ TableTypeOK /\ TrackerTypeOK /\ TaskTypeOK
      /\ FateTypeOK /\ PoolTypeOK /\ FinitelyMany /\ AddedOnce
      /\ UnsubmittedIsUntouched /\ HandlerInOrder /\ RouterForwards /\ EntriesAreMarked
      /\ ToldIsForgotten /\ CompanionsShareReplica /\ SweptIsNotDeferred /\ DeferredIsWaiting
  BY TypeGroups DEF OrchIInv
<1>2. orch # "stopped" /\ r.at = "forward" /\ r.ids = {p}
  BY DEF ForwardToNextStage, Forwards
<1>3. UNCHANGED <<phase, expanding, reader, inbox, outbox, known, submitted, registered, done, deferred, fatal, dead, asyncChunk, replies>>
  BY DEF ForwardToNextStage, front, tracker
<1>4. ~asyncChunk /\ p \in known /\ next \notin submitted[p] /\ r.stage < LastStage
  BY <1>1, <1>2 DEF RouterForwards
<1>5. r.stage \in Stages /\ r.after \in SUBSET Companions /\ p \in Ids
      /\ "handler" \in Tasks /\ "router" \in Tasks /\ 0 \in Stages
  BY <1>1, TaskFields, Constants
<1>6. next \in Stages /\ next # 0
  BY <1>4, <1>5, OrchestratorAssumption DEF Stages
<1>. HIDE DEF next
<1>7. StartSubmit("router", p, next, NoId, r.after) /\ NoId \in Ids \cup {NoId}
  BY DEF ForwardToNextStage, StartSubmit, next
<1>8. /\ PoolTypeOK' /\ TaskTypeOK' /\ orch' \in {orch, "failing"}
      /\ SubmitChanges("router", p, next, NoId, r.after)
  BY <1>1, <1>5, <1>6, <1>7, StartSubmitChanges
<1>9. submitted[p] # {}
  BY <1>1, <1>4, <1>5 DEF UnsubmittedIsUntouched
<1>10. entries[next][p] = 0
  <2>1. entries[next][p] \in Nat
    BY <1>1, <1>5, <1>6 DEF PoolTypeOK
  <2>2. ~RouterIsSubmitting(next, p)
    BY <1>2 DEF RouterIsSubmitting
  <2>. QED
    BY <1>1, <1>2, <1>4, <1>5, <1>6, <2>1, <2>2 DEF EntriesAreMarked
<1>11. /\ task'["handler"] = h
       /\ \A u \in Stages, x \in Ids : u # next \/ x # p =>
            bound'[u][x] = bound[u][x] /\ entries'[u][x] = entries[u][x]
       /\ \/ /\ entries'[next][p] = 1
             /\ task'["router"] = [at |-> "submitting", ids |-> {p}, stage |-> next, after |-> r.after]
          \/ /\ entries'[next][p] = 0
             /\ task'["router"] = [at |-> "failed", ids |-> {}, stage |-> 0, after |-> {}]
  BY <1>5, <1>8, <1>10 DEF SubmitChanges
<1>12. CoreTypeOK' /\ FinitelyMany' /\ AddedOnce'
  <2>1. FrontTypeOK' /\ InboxTypeOK' /\ OutboxTypeOK' /\ TrackerTypeOK' /\ TableTypeOK' /\ FinitelyMany'
    BY <1>1, <1>3 DEF FrontTypeOK, InboxTypeOK, OutboxTypeOK, TrackerTypeOK, TableTypeOK, FinitelyMany, Asked
  <2>2. FateTypeOK'
    BY <1>1, <1>3, <1>8 DEF FateTypeOK
  <2>3. AddedOnce'
    BY <1>1, <1>3, AddedOnceKept
  <2>. QED
    BY <1>8, <2>1, <2>2, <2>3, TypeGroupsNext
<1>13. UnsubmittedIsUntouched'
  <2>1. ASSUME NEW x \in Ids, submitted[x] = {}
        PROVE  \A s \in Stages : entries'[s][x] = 0 /\ bound'[s][x] = Unbound
    BY <1>1, <1>9, <1>11, <2>1 DEF UnsubmittedIsUntouched
  <2>2. orch' = "stopped" <=> orch = "stopped"
    BY <1>2, <1>8
  <2>. QED
    BY <1>1, <1>3, <2>1, <2>2, Constants DEF UnsubmittedIsUntouched
<1>14. HandlerInOrder'
  BY <1>1, <1>3, <1>11 DEF HandlerInOrder
<1>15. RouterForwards'
  BY <1>1, <1>3, <1>4, <1>9, <1>11 DEF RouterForwards
<1>16. EntriesAreMarked'
  <2>1. /\ entries'[next][p] <= 1
        /\ entries'[next][p] = 1 =>
             /\ task'["router"].at = "submitting" /\ task'["router"].ids = {p}
             /\ task'["router"].stage = next
    BY <1>11
  <2>2. \A s \in Stages, id \in Ids : ~RouterIsSubmitting(s, id)
    BY <1>2 DEF RouterIsSubmitting
  <2>3. ASSUME NEW s \in Stages, NEW id \in Ids, s # next \/ id # p
        PROVE  entries'[s][id] <= 1 /\ (entries'[s][id] = 1 => s \in submitted'[id])
    BY <1>1, <1>2, <1>3, <1>11, <2>2, <2>3 DEF EntriesAreMarked
  <2>4. \A s \in Stages : s = next =>
          /\ entries'[s][p] <= 1
          /\ entries'[s][p] = 1 => RouterIsSubmitting(s, p)'
    BY <2>1 DEF RouterIsSubmitting
  <2>. QED
    BY <2>3, <2>4 DEF EntriesAreMarked
<1>17. ToldIsForgotten'
  BY <1>1, <1>2, <1>3, <1>8, <1>11 DEF ToldIsForgotten
<1>18. CompanionsShareReplica'
  <2>1. \A x \in Ids : bound'[0][x] = bound[0][x]
    BY <1>5, <1>6, <1>11
  <2>. QED
    BY <1>1, <2>1, Constants DEF CompanionsShareReplica
<1>19. SweptIsNotDeferred'
  BY <1>1, <1>3, <1>11 DEF SweptIsNotDeferred, Tasks
<1>20. DeferredIsWaiting'
  BY <1>1, <1>3, <1>8 DEF DeferredIsWaiting, Waiting
<1>. QED
  BY <1>12, <1>13, <1>14, <1>15, <1>16, <1>17, <1>18, <1>19, <1>20 DEF OrchIInv

\* While the router does not sweep, a request that is known was told nothing.
LEMMA KnownIsUntold ==
  ASSUME OrchIInv, orch # "stopped", task["router"].at # "aborting", NEW p \in Parents, p \in known
  PROVE  replies[p] = 0
BY TypeGroups DEF OrchIInv, ToldIsForgotten, OutboxTypeOK

LEMMA NoValidInputsIInv == ASSUME OrchIInv, NEW p \in Parents, NoValidInputs(p) PROVE OrchIInv'
<1>. DEFINE h == task["handler"]  r == task["router"]  ids == Family(p) \cup r.after
<1>1. /\ FrontTypeOK /\ InboxTypeOK /\ OutboxTypeOK /\ TableTypeOK /\ TrackerTypeOK /\ TaskTypeOK
      /\ FateTypeOK /\ PoolTypeOK /\ FinitelyMany /\ AddedOnce
      /\ UnsubmittedIsUntouched /\ HandlerInOrder /\ RouterForwards /\ EntriesAreMarked
      /\ ToldIsForgotten /\ CompanionsShareReplica /\ SweptIsNotDeferred /\ DeferredIsWaiting
  BY TypeGroups DEF OrchIInv
<1>2. orch # "stopped" /\ r.at = "forward" /\ r.ids = {p}
  BY DEF NoValidInputs, Forwards
<1>3. UNCHANGED <<phase, expanding, reader, inbox, submitted, orch, fatal, dead, asyncChunk, nextReplica, work, entries>>
  BY DEF NoValidInputs, front
<1>4. p \in known /\ p \in Ids /\ replies[p] = 0
  BY <1>1, <1>2, KnownIsUntold, Constants DEF RouterForwards
<1>5. /\ "handler" \in Tasks /\ "router" \in Tasks
      /\ p \in ids /\ \A q \in Parents : q # p => q \notin ids
  BY <1>1, FamilyType, TaskFields, Constants
<1>6. Cleanup(ids) /\ CleanupParent(p) /\ Rest("router") /\ Tell("bad", {p})
  BY DEF NoValidInputs
<1>. HIDE DEF ids
<1>7. /\ known' = known \ ids
      /\ \A s \in Stages, id \in Ids : bound'[s][id] \in {bound[s][id], Unbound}
      /\ PoolTypeOK'
  <2>1. /\ known' = known \ ids
        /\ \A s \in Stages, id \in Ids : bound'[s][id] = IF id \in ids THEN Unbound ELSE bound[s][id]
        /\ BoundWithout(ids)
    BY <1>1, <1>6, CleanupEffect DEF BoundWithout
  <2>2. PoolTypeOK'
    BY <1>1, <1>3, <2>1, PoolAfter DEF PoolTypeOK
  <2>. QED
    BY <2>1, <2>2
<1>8. TaskTypeOK' /\ task'["handler"] = h /\ task'["router"].at = "idle"
  BY <1>1, <1>5, <1>6, RestEffect, Constants
<1>9. /\ TrackerTypeOK' /\ deferred'[p] = NotDeferred /\ registered'[p] = {}
      /\ \A q \in Parents : q # p =>
           registered'[q] = registered[q] /\ done'[q] = done[q] /\ deferred'[q] = deferred[q]
  BY <1>1, <1>6, CleanupParentEffect
<1>10. OutboxTypeOK' /\ \A q \in Parents : replies'[q] = replies[q] + (IF q \in {p} THEN 1 ELSE 0)
  BY <1>1, <1>4, <1>6, TellEffect, FS_Singleton
<1>11. CoreTypeOK' /\ FinitelyMany' /\ AddedOnce'
  <2>1. FrontTypeOK' /\ TableTypeOK' /\ FateTypeOK'
    BY <1>1, <1>3, <1>7 DEF FrontTypeOK, TableTypeOK, FateTypeOK
  <2>2. FinitelyMany'
    BY <1>1, <1>3, <1>7, FinitelyManyKept, FS_EmptySet
  <2>3. AddedOnce' /\ InboxTypeOK'
    BY <1>1, <1>3, AddedOnceKept
  <2>. QED
    BY <1>7, <1>8, <1>9, <1>10, <2>1, <2>2, <2>3, TypeGroupsNext
<1>12. UnsubmittedIsUntouched' /\ CompanionsShareReplica'
  <2>1. /\ known' \subseteq known
        /\ \A q \in Parents : replies'[q] = replies[q] \/ q \in known \/ orch' = "stopped"
    BY <1>1, <1>4, <1>7, <1>10 DEF OutboxTypeOK
  <2>. QED
    BY <1>1, <1>3, <1>7, <2>1, UntouchedKept, ShareKept
<1>13. HandlerInOrder'
  BY <1>1, <1>3, <1>8 DEF HandlerInOrder
<1>14. RouterForwards'
  BY <1>1, <1>3, <1>8, <1>9 DEF RouterForwards
<1>15. EntriesAreMarked'
  BY <1>1, <1>2, <1>3 DEF EntriesAreMarked, RouterIsSubmitting
<1>16. ToldIsForgotten'
  <2>1. ~fatal
    BY <1>1, <1>2 DEF ToldIsForgotten
  <2>2. \A q \in Parents : q # p => ~(replies[q] = 1 /\ q \in known) /\ replies[q] <= 1
    BY <1>1, <1>2 DEF ToldIsForgotten
  <2>3. \A q \in Parents : q # p => replies'[q] = replies[q]
    BY <1>1, <1>10 DEF OutboxTypeOK
  <2>4. replies'[p] = 1 /\ p \notin known'
    BY <1>4, <1>5, <1>7, <1>10
  <2>. QED
    BY <1>3, <1>7, <2>1, <2>2, <2>3, <2>4 DEF ToldIsForgotten
<1>17. SweptIsNotDeferred'
  BY <1>1, <1>8, <1>9 DEF SweptIsNotDeferred, Tasks
<1>18. DeferredIsWaiting'
  <2>1. \A q \in Parents : deferred'[q] # NotDeferred =>
          deferred'[q] = deferred[q] /\ (q \in known => q \in known') /\ (Waiting(q) => Waiting(q)')
    BY <1>5, <1>7, <1>9 DEF Waiting
  <2>. QED
    BY <1>1, <1>3, <2>1 DEF DeferredIsWaiting
<1>. QED
  BY <1>11, <1>12, <1>13, <1>14, <1>15, <1>16, <1>17, <1>18 DEF OrchIInv

LEMMA NoInputsIInv == ASSUME OrchIInv, NEW p \in Parents, NoInputs(p) PROVE OrchIInv'
<1>. DEFINE h == task["handler"]  r == task["router"]  ids == r.after  next == r.stage + 1
<1>1. /\ FrontTypeOK /\ InboxTypeOK /\ OutboxTypeOK /\ TableTypeOK /\ TrackerTypeOK /\ TaskTypeOK
      /\ FateTypeOK /\ PoolTypeOK /\ FinitelyMany /\ AddedOnce
      /\ UnsubmittedIsUntouched /\ HandlerInOrder /\ RouterForwards /\ EntriesAreMarked
      /\ ToldIsForgotten /\ CompanionsShareReplica /\ SweptIsNotDeferred /\ DeferredIsWaiting
  BY TypeGroups DEF OrchIInv
<1>2. orch # "stopped" /\ r.at = "forward" /\ ~asyncChunk /\ r.stage < LastStage /\ p \in known
  BY <1>1 DEF NoInputs, Forwards, RouterForwards
<1>3. UNCHANGED <<phase, expanding, reader, inbox, outbox, registered, done, deferred, orch, fatal, dead, asyncChunk,
                  nextReplica, work, entries, replies>>
  BY DEF NoInputs, front, tracker
<1>4. "handler" \in Tasks /\ "router" \in Tasks /\ p \in Ids /\ \A q \in Parents : q \notin ids
  BY <1>1, TaskFields, Constants
<1>5. next \in Stages /\ submitted[p] # {}
  <2>1. r.stage \in Stages
    BY <1>1, <1>4, TaskFields
  <2>. QED
    BY <1>1, <1>2, <1>4, <2>1, OrchestratorAssumption DEF Stages, UnsubmittedIsUntouched
<1>6. Cleanup(ids) /\ Rest("router") /\ submitted' = [submitted EXCEPT ![p] = @ \cup {next}]
  BY DEF NoInputs
<1>. HIDE DEF ids, next
<1>7. /\ submitted' \in [Ids -> SUBSET Stages]
      /\ \A x \in Ids : submitted'[x] = IF x = p THEN submitted[x] \cup {next} ELSE submitted[x]
  BY <1>1, <1>4, <1>5, <1>6 DEF TableTypeOK
<1>8. /\ known' = known \ ids
      /\ \A s \in Stages, id \in Ids : bound'[s][id] \in {bound[s][id], Unbound}
      /\ PoolTypeOK'
  <2>1. /\ known' = known \ ids
        /\ \A s \in Stages, id \in Ids : bound'[s][id] = IF id \in ids THEN Unbound ELSE bound[s][id]
        /\ BoundWithout(ids)
    BY <1>1, <1>6, CleanupEffect DEF BoundWithout
  <2>2. PoolTypeOK'
    BY <1>1, <1>3, <2>1, PoolAfter DEF PoolTypeOK
  <2>. QED
    BY <2>1, <2>2
<1>9. TaskTypeOK' /\ task'["handler"] = h /\ task'["router"].at = "idle"
  BY <1>1, <1>4, <1>6, RestEffect, Constants
<1>10. \A x \in Ids : (submitted[x] = {} <=> submitted'[x] = {}) /\ submitted[x] \subseteq submitted'[x]
  BY <1>5, <1>7
<1>11. CoreTypeOK' /\ FinitelyMany' /\ AddedOnce'
  <2>1. FrontTypeOK' /\ OutboxTypeOK' /\ TrackerTypeOK' /\ FateTypeOK'
    BY <1>1, <1>3 DEF FrontTypeOK, OutboxTypeOK, TrackerTypeOK, FateTypeOK
  <2>2. TableTypeOK'
    BY <1>1, <1>7, <1>8 DEF TableTypeOK
  <2>3. FinitelyMany'
    BY <1>1, <1>3, <1>8, FinitelyManyKept, FS_EmptySet
  <2>4. AddedOnce' /\ InboxTypeOK'
    BY <1>1, <1>3, <1>10, AddedOnceKept
  <2>. QED
    BY <1>8, <1>9, <2>1, <2>2, <2>3, <2>4, TypeGroupsNext
<1>12. UnsubmittedIsUntouched' /\ CompanionsShareReplica'
  BY <1>1, <1>3, <1>8, <1>10, UntouchedKept, ShareKept
<1>13. HandlerInOrder'
  BY <1>1, <1>2, <1>3, <1>9, <1>10 DEF HandlerInOrder
<1>14. RouterForwards'
  BY <1>1, <1>3, <1>9 DEF RouterForwards
<1>15. EntriesAreMarked'
  <2>1. \A s \in Stages, id \in Ids : ~RouterIsSubmitting(s, id)
    BY <1>2 DEF RouterIsSubmitting
  <2>. QED
    BY <1>1, <1>3, <1>10, <2>1 DEF EntriesAreMarked
<1>16. ToldIsForgotten'
  BY <1>1, <1>2, <1>3, <1>8, <1>9 DEF ToldIsForgotten
<1>17. SweptIsNotDeferred'
  BY <1>1, <1>3, <1>9 DEF SweptIsNotDeferred, Tasks
<1>18. DeferredIsWaiting'
  BY <1>1, <1>3, <1>4, <1>8 DEF DeferredIsWaiting, Waiting
<1>. QED
  BY <1>11, <1>12, <1>13, <1>14, <1>15, <1>16, <1>17, <1>18 DEF OrchIInv

LEMMA RouterSubmittedIInv == ASSUME OrchIInv, NEW p \in Parents, RouterSubmitted(p) PROVE OrchIInv'
<1>. DEFINE h == task["handler"]  r == task["router"]  ids == r.after
<1>1. /\ FrontTypeOK /\ InboxTypeOK /\ OutboxTypeOK /\ TableTypeOK /\ TrackerTypeOK /\ TaskTypeOK
      /\ FateTypeOK /\ PoolTypeOK /\ FinitelyMany /\ AddedOnce
      /\ UnsubmittedIsUntouched /\ HandlerInOrder /\ RouterForwards /\ EntriesAreMarked
      /\ ToldIsForgotten /\ CompanionsShareReplica /\ SweptIsNotDeferred /\ DeferredIsWaiting
  BY TypeGroups DEF OrchIInv
<1>2. orch # "stopped" /\ r.at = "submitting" /\ r.ids = {p} /\ ~asyncChunk /\ submitted[p] # {}
  BY <1>1 DEF RouterSubmitted, Active, RouterForwards
<1>3. UNCHANGED <<phase, expanding, reader, inbox, outbox, registered, done, deferred, orch, fatal, dead, asyncChunk,
                  nextReplica, work, entries, replies>>
  BY DEF RouterSubmitted, front, tracker, fate
<1>4. "handler" \in Tasks /\ "router" \in Tasks /\ r.stage \in Stages /\ p \in Ids /\ \A q \in Parents : q \notin ids
  BY <1>1, TaskFields, Constants
<1>5. Cleanup(ids) /\ Rest("router") /\ submitted' = [submitted EXCEPT ![p] = @ \cup {r.stage}]
  BY DEF RouterSubmitted
<1>. HIDE DEF ids
<1>6. /\ submitted' \in [Ids -> SUBSET Stages]
      /\ \A x \in Ids : submitted'[x] = IF x = p THEN submitted[x] \cup {r.stage} ELSE submitted[x]
  BY <1>1, <1>4, <1>5 DEF TableTypeOK
<1>7. /\ known' = known \ ids
      /\ \A s \in Stages, id \in Ids : bound'[s][id] \in {bound[s][id], Unbound}
      /\ PoolTypeOK'
  <2>1. /\ known' = known \ ids
        /\ \A s \in Stages, id \in Ids : bound'[s][id] = IF id \in ids THEN Unbound ELSE bound[s][id]
        /\ BoundWithout(ids)
    BY <1>1, <1>5, CleanupEffect DEF BoundWithout
  <2>2. PoolTypeOK'
    BY <1>1, <1>3, <2>1, PoolAfter DEF PoolTypeOK
  <2>. QED
    BY <2>1, <2>2
<1>8. TaskTypeOK' /\ task'["handler"] = h /\ task'["router"].at = "idle"
  BY <1>1, <1>4, <1>5, RestEffect, Constants
<1>9. \A x \in Ids : (submitted[x] = {} <=> submitted'[x] = {}) /\ submitted[x] \subseteq submitted'[x]
  BY <1>2, <1>6
<1>10. CoreTypeOK' /\ FinitelyMany' /\ AddedOnce'
  <2>1. FrontTypeOK' /\ OutboxTypeOK' /\ TrackerTypeOK' /\ FateTypeOK'
    BY <1>1, <1>3 DEF FrontTypeOK, OutboxTypeOK, TrackerTypeOK, FateTypeOK
  <2>2. TableTypeOK'
    BY <1>1, <1>6, <1>7 DEF TableTypeOK
  <2>3. FinitelyMany'
    BY <1>1, <1>3, <1>7, FinitelyManyKept, FS_EmptySet
  <2>4. AddedOnce' /\ InboxTypeOK'
    BY <1>1, <1>3, <1>9, AddedOnceKept
  <2>. QED
    BY <1>7, <1>8, <2>1, <2>2, <2>3, <2>4, TypeGroupsNext
<1>11. UnsubmittedIsUntouched' /\ CompanionsShareReplica'
  BY <1>1, <1>3, <1>7, <1>9, UntouchedKept, ShareKept
<1>12. HandlerInOrder'
  BY <1>1, <1>2, <1>3, <1>8, <1>9 DEF HandlerInOrder
<1>13. RouterForwards'
  BY <1>1, <1>3, <1>8 DEF RouterForwards
<1>14. EntriesAreMarked'
  <2>1. \A s \in Stages, id \in Ids : RouterIsSubmitting(s, id) => s \in submitted'[id]
    BY <1>2, <1>6 DEF RouterIsSubmitting
  <2>. QED
    BY <1>1, <1>3, <1>9, <2>1 DEF EntriesAreMarked
<1>15. ToldIsForgotten'
  BY <1>1, <1>2, <1>3, <1>7, <1>8 DEF ToldIsForgotten
<1>16. SweptIsNotDeferred'
  BY <1>1, <1>3, <1>8 DEF SweptIsNotDeferred, Tasks
<1>17. DeferredIsWaiting'
  BY <1>1, <1>3, <1>4, <1>7 DEF DeferredIsWaiting, Waiting
<1>. QED
  BY <1>10, <1>11, <1>12, <1>13, <1>14, <1>15, <1>16, <1>17 DEF OrchIInv

\* A poll that ends no request moves the router to a forward at most.
LEMMA PollFrame ==
  ASSUME OrchIInv, orch # "stopped", task["router"].at = "idle",
         UNCHANGED <<front, inbox, outbox, submitted, entries, orch, fatal, dead, asyncChunk, replies>>,
         PoolTypeOK', TaskTypeOK', TrackerTypeOK',
         task'["handler"] = task["handler"], task'["router"].at \in {"idle", "forward"},
         known' \subseteq known,
         \A s \in Stages, id \in Ids : bound'[s][id] \in {bound[s][id], Unbound},
         RouterForwards', SweptIsNotDeferred', DeferredIsWaiting'
  PROVE  OrchIInv'
<1>1. /\ FrontTypeOK /\ InboxTypeOK /\ OutboxTypeOK /\ TableTypeOK /\ FateTypeOK /\ FinitelyMany /\ AddedOnce
      /\ UnsubmittedIsUntouched /\ HandlerInOrder /\ EntriesAreMarked
      /\ ToldIsForgotten /\ CompanionsShareReplica
  BY TypeGroups DEF OrchIInv
<1>2. UNCHANGED <<phase, expanding, reader, inbox, outbox, submitted, entries, orch, fatal, dead, asyncChunk, replies>>
  BY DEF front
<1>3. CoreTypeOK' /\ FinitelyMany' /\ AddedOnce'
  <2>1. FrontTypeOK' /\ OutboxTypeOK' /\ FateTypeOK' /\ TableTypeOK'
    BY <1>1, <1>2 DEF FrontTypeOK, OutboxTypeOK, FateTypeOK, TableTypeOK
  <2>2. FinitelyMany'
    BY <1>1, <1>2, FinitelyManyKept, FS_EmptySet
  <2>3. AddedOnce' /\ InboxTypeOK'
    BY <1>1, <1>2, AddedOnceKept
  <2>. QED
    BY <2>1, <2>2, <2>3, TypeGroupsNext
<1>4. UnsubmittedIsUntouched' /\ CompanionsShareReplica'
  BY <1>1, <1>2, UntouchedKept, ShareKept
<1>5. HandlerInOrder'
  BY <1>1, <1>2 DEF HandlerInOrder
<1>6. EntriesAreMarked'
  BY <1>1, <1>2 DEF EntriesAreMarked, RouterIsSubmitting
<1>7. ToldIsForgotten'
  BY <1>1, <1>2 DEF ToldIsForgotten
<1>. QED
  BY <1>3, <1>4, <1>5, <1>6, <1>7 DEF OrchIInv

\* The polled output of a parent is ready for the next stage.
LEMMA ForwardOrDeferKeeps ==
  ASSUME OrchIInv, orch # "stopped", task["router"].at = "idle",
         NEW p \in Parents, NEW s \in Stages, p \in known, MayForward(p, s),
         ForwardOrDefer(p, s), UNCHANGED <<registered, done, orch, asyncChunk, submitted>>
  PROVE  /\ TaskTypeOK' /\ TrackerTypeOK' /\ UNCHANGED <<bound, known>>
         /\ task'["handler"] = task["handler"] /\ task'["router"].at \in {"idle", "forward"}
         /\ RouterForwards' /\ SweptIsNotDeferred' /\ DeferredIsWaiting'
<1>1. /\ PoolTypeOK /\ TaskTypeOK /\ TrackerTypeOK
      /\ RouterForwards /\ SweptIsNotDeferred /\ DeferredIsWaiting
  BY TypeGroups DEF OrchIInv
<1>2. ~asyncChunk /\ s < LastStage /\ s + 1 \notin submitted[p]
  <2>1. FinalStage[p] \in 0..LastStage /\ FinalOf(p) = FinalStage[p] /\ s \in Int
    BY Constants, OrchestratorAssumption DEF Stages
  <2>. QED
    BY <2>1, OrchestratorAssumption DEF MayForward
<1>3. /\ TaskTypeOK' /\ TrackerTypeOK' /\ UNCHANGED <<bound, known>>
      /\ task'["handler"] = task["handler"]
      /\ \/ /\ task' = task /\ Waiting(p) /\ deferred'[p] = s
            /\ \A q \in Parents : q # p => deferred'[q] = deferred[q]
         \/ /\ task'["router"] = [at |-> "forward", ids |-> {p}, stage |-> s, after |-> {}]
            /\ ~Waiting(p) /\ deferred' = deferred
  BY <1>1, ForwardOrDeferEffect
<1>4. CASE /\ task' = task /\ Waiting(p) /\ deferred'[p] = s
           /\ \A q \in Parents : q # p => deferred'[q] = deferred[q]
  <2>1. RouterForwards'
    BY <1>1, <1>2, <1>4 DEF RouterForwards
  <2>2. SweptIsNotDeferred'
    <3>1. ~(task["handler"].at = "aborting" /\ p \in task["handler"].ids)
      BY <1>1, <1>4, Constants DEF SweptIsNotDeferred, Waiting, TrackerTypeOK
    <3>. QED
      BY <1>1, <1>4, <3>1 DEF SweptIsNotDeferred, Tasks
  <2>3. DeferredIsWaiting'
    BY <1>1, <1>3, <1>4 DEF DeferredIsWaiting, Waiting
  <2>. QED
    BY <1>3, <1>4, <2>1, <2>2, <2>3
<1>5. CASE /\ task'["router"] = [at |-> "forward", ids |-> {p}, stage |-> s, after |-> {}]
           /\ ~Waiting(p) /\ deferred' = deferred
  <2>1. RouterForwards'
    BY <1>1, <1>2, <1>3, <1>5 DEF RouterForwards
  <2>2. SweptIsNotDeferred'
    BY <1>1, <1>3, <1>5 DEF SweptIsNotDeferred, Tasks
  <2>3. DeferredIsWaiting'
    BY <1>1, <1>3, <1>5 DEF DeferredIsWaiting, Waiting
  <2>. QED
    BY <1>3, <1>5, <2>1, <2>2, <2>3
<1>. QED
  BY <1>3, <1>4, <1>5

\* The polled output of a companion is ready for its parent.
LEMMA CompanionReadyKeeps ==
  ASSUME OrchIInv, orch # "stopped", task["router"].at = "idle",
         NEW c \in Companions, NEW after \in SUBSET Companions,
         CompanionReady(c, after), UNCHANGED <<registered, orch, asyncChunk, submitted, nextReplica, entries>>,
         work' \in [Stages -> SUBSET Ids]
  PROVE  /\ TaskTypeOK' /\ TrackerTypeOK' /\ PoolTypeOK' /\ known' \subseteq known
         /\ \A s \in Stages, id \in Ids : bound'[s][id] \in {bound[s][id], Unbound}
         /\ task'["handler"] = task["handler"] /\ task'["router"].at \in {"idle", "forward"}
         /\ RouterForwards' /\ SweptIsNotDeferred' /\ DeferredIsWaiting'
<1>. DEFINE p == ParentOf[c]
<1>1. /\ PoolTypeOK /\ TaskTypeOK /\ TrackerTypeOK /\ TableTypeOK
      /\ RouterForwards /\ SweptIsNotDeferred /\ DeferredIsWaiting
  BY TypeGroups DEF OrchIInv
<1>2. p \in Parents
  BY Constants
<1>. HIDE DEF p
<1>3. /\ TaskTypeOK' /\ TrackerTypeOK' /\ known' \subseteq known /\ known \cap Parents \subseteq known'
      /\ task'["handler"] = task["handler"]
      /\ \A q \in Parents : deferred'[q] \in {deferred[q], NotDeferred}
      /\ \A q \in Parents : deferred'[q] # NotDeferred /\ Waiting(q) => Waiting(q)'
      /\ \/ /\ task' = task /\ BoundWithout(after)
         \/ /\ task'["router"] = [at |-> "forward", ids |-> {p}, stage |-> deferred[p], after |-> after]
            /\ p \in known /\ deferred[p] # NotDeferred /\ deferred[p] + 1 \notin submitted[p]
            /\ UNCHANGED <<bound, known>>
  BY <1>1, CompanionReadyEffect DEF p
<1>4. SweptIsNotDeferred'
  <2>1. task'["router"].at \in {"idle", "forward"}
    BY <1>3
  <2>. QED
    BY <1>1, <1>3, <2>1 DEF SweptIsNotDeferred, Tasks
<1>5. DeferredIsWaiting'
  BY <1>1, <1>3 DEF DeferredIsWaiting
<1>6. PoolTypeOK' /\ \A s \in Stages, id \in Ids : bound'[s][id] \in {bound[s][id], Unbound}
  <2>1. CASE BoundWithout(after)
    <3>1. PoolTypeOK'
      BY <1>1, <2>1, PoolAfter
    <3>. QED
      BY <2>1, <3>1 DEF BoundWithout
  <2>2. CASE UNCHANGED bound
    BY <1>1, <2>2, BoundUnchanged, PoolAfter
  <2>. QED
    BY <1>3, <2>1, <2>2
<1>7. RouterForwards' /\ task'["router"].at \in {"idle", "forward"}
  <2>1. \A q \in Parents : deferred'[q] # NotDeferred => ~asyncChunk /\ deferred'[q] < LastStage
    BY <1>1, <1>3 DEF RouterForwards
  <2>2. CASE task' = task
    BY <2>1, <2>2 DEF RouterForwards
  <2>3. CASE /\ task'["router"] = [at |-> "forward", ids |-> {p}, stage |-> deferred[p], after |-> after]
             /\ p \in known /\ deferred[p] # NotDeferred /\ deferred[p] + 1 \notin submitted[p]
             /\ UNCHANGED <<bound, known>>
    <3>1. ~asyncChunk /\ deferred[p] < LastStage
      BY <1>1, <1>2, <2>3 DEF RouterForwards
    <3>. QED
      BY <1>2, <2>1, <2>3, <3>1 DEF RouterForwards
  <2>. QED
    BY <1>3, <2>2, <2>3
<1>. QED
  BY <1>3, <1>4, <1>5, <1>6, <1>7

\* A request forwarded somewhere is a parent: companions end at stage 0.
LEMMA ForwardedIsParent ==
  ASSUME NEW id \in Ids, NEW s \in Stages, s < FinalOf(id)
  PROVE  id \in Parents
<1>1. id \in Companions => FinalOf(id) = 0
  BY Constants
<1>2. s \in Nat
  BY Constants
<1>. QED
  BY <1>1, <1>2 DEF Ids

LEMMA PollKvReadyIInv ==
  ASSUME OrchIInv, NEW s \in Stages, NEW id \in Ids, PollKvReady(s, id)
  PROVE  OrchIInv'
<1>1. orch # "stopped" /\ task["router"].at = "idle" /\ id \in known
  BY DEF PollKvReady, Polls, Ready, Active
<1>2. /\ UNCHANGED <<front, inbox, outbox, submitted, entries, orch, fatal, dead, asyncChunk, replies>>
      /\ UNCHANGED <<orch, asyncChunk, submitted, registered, nextReplica, work, entries>>
  BY DEF PollKvReady
<1>3. PoolTypeOK /\ work' \in [Stages -> SUBSET Ids]
  BY <1>2, TypeGroups DEF OrchIInv, PoolTypeOK
<1>4. CASE IsCompanion(id) /\ CompanionReady(id, {})
  <2>1. id \in Companions /\ {} \in SUBSET Companions
    BY <1>4 DEF IsCompanion
  <2>2. /\ TaskTypeOK' /\ TrackerTypeOK' /\ PoolTypeOK' /\ known' \subseteq known
        /\ \A u \in Stages, x \in Ids : bound'[u][x] \in {bound[u][x], Unbound}
        /\ task'["handler"] = task["handler"] /\ task'["router"].at \in {"idle", "forward"}
        /\ RouterForwards' /\ SweptIsNotDeferred' /\ DeferredIsWaiting'
    BY <1>1, <1>2, <1>3, <1>4, <2>1, CompanionReadyKeeps
  <2>. QED
    BY <1>1, <1>2, <2>2, PollFrame
<1>5. CASE MayForward(id, s) /\ ForwardOrDefer(id, s) /\ UNCHANGED done
  <2>1. id \in Parents
    BY <1>5, ForwardedIsParent DEF MayForward
  <2>2. /\ TaskTypeOK' /\ TrackerTypeOK' /\ UNCHANGED <<bound, known>>
        /\ task'["handler"] = task["handler"] /\ task'["router"].at \in {"idle", "forward"}
        /\ RouterForwards' /\ SweptIsNotDeferred' /\ DeferredIsWaiting'
    BY <1>1, <1>2, <1>5, <2>1, ForwardOrDeferKeeps
  <2>3. PoolTypeOK' /\ known' \subseteq known
    BY <1>2, <1>3, <2>2 DEF PoolTypeOK
  <2>4. \A u \in Stages, x \in Ids : bound'[u][x] \in {bound[u][x], Unbound}
    BY <2>2
  <2>. QED
    BY <1>1, <1>2, <2>2, <2>3, <2>4, PollFrame
<1>. QED
  BY <1>4, <1>5 DEF PollKvReady

\* The request ends with its last output, and its companions with it.
LEMMA EndIInv ==
  ASSUME OrchIInv, orch # "stopped", task["router"].at = "idle", NEW id \in Ids, id \in known,
         UNCHANGED <<front, inbox, submitted, nextReplica, entries, fate, task>>,
         work' \in [Stages -> SUBSET Ids],
         Tell("end", {id}),
         IF id \in Parents THEN CleanupParent(id) ELSE UNCHANGED tracker,
         Cleanup(IF id \in Parents THEN Family(id) ELSE {id})
  PROVE  OrchIInv'
<1>. DEFINE ids == IF id \in Parents THEN Family(id) ELSE {id}
<1>1. /\ FrontTypeOK /\ InboxTypeOK /\ OutboxTypeOK /\ TableTypeOK /\ TrackerTypeOK /\ TaskTypeOK
      /\ FateTypeOK /\ PoolTypeOK /\ FinitelyMany /\ AddedOnce
      /\ UnsubmittedIsUntouched /\ HandlerInOrder /\ RouterForwards /\ EntriesAreMarked
      /\ ToldIsForgotten /\ CompanionsShareReplica /\ SweptIsNotDeferred /\ DeferredIsWaiting
  BY TypeGroups DEF OrchIInv
<1>2. UNCHANGED <<phase, expanding, reader, inbox, submitted, orch, fatal, dead, asyncChunk, nextReplica, entries, task>>
  BY DEF front, fate
<1>3. id \in ids /\ \A q \in Parents : q # id => q \notin ids
  BY <1>1, FamilyType, Constants
<1>4. id \in Parents => replies[id] = 0
  BY KnownIsUntold
<1>. HIDE DEF ids
<1>5. /\ known' = known \ ids
      /\ \A s \in Stages, x \in Ids : bound'[s][x] \in {bound[s][x], Unbound}
      /\ PoolTypeOK'
  <2>1. /\ known' = known \ ids
        /\ \A s \in Stages, x \in Ids : bound'[s][x] = IF x \in ids THEN Unbound ELSE bound[s][x]
        /\ BoundWithout(ids)
    BY <1>1, CleanupEffect DEF BoundWithout, ids
  <2>2. PoolTypeOK'
    BY <1>1, <1>2, <2>1, PoolAfter
  <2>. QED
    BY <2>1, <2>2
<1>6. /\ TrackerTypeOK'
      /\ \A q \in Parents : \/ q = id /\ deferred'[q] = NotDeferred /\ registered'[q] = {}
                            \/ q # id /\ registered'[q] = registered[q] /\ done'[q] = done[q] /\ deferred'[q] = deferred[q]
  <2>1. CASE id \in Parents
    BY <1>1, <2>1, CleanupParentEffect
  <2>2. CASE id \notin Parents
    BY <1>1, <2>2 DEF tracker, TrackerTypeOK
  <2>. QED
    BY <2>1, <2>2
<1>7. OutboxTypeOK' /\ \A q \in Parents : replies'[q] = replies[q] + (IF q \in {id} THEN 1 ELSE 0)
  BY <1>1, TellEffect, FS_Singleton
<1>8. CoreTypeOK' /\ FinitelyMany' /\ AddedOnce'
  <2>1. FrontTypeOK' /\ TableTypeOK' /\ FateTypeOK' /\ TaskTypeOK'
    BY <1>1, <1>2, <1>5 DEF FrontTypeOK, TableTypeOK, FateTypeOK, TaskTypeOK
  <2>2. FinitelyMany'
    BY <1>1, <1>2, <1>5, FinitelyManyKept, FS_EmptySet
  <2>3. AddedOnce' /\ InboxTypeOK'
    BY <1>1, <1>2, AddedOnceKept
  <2>. QED
    BY <1>5, <1>6, <1>7, <2>1, <2>2, <2>3, TypeGroupsNext
<1>9. UnsubmittedIsUntouched' /\ CompanionsShareReplica'
  <2>1. known' \subseteq known
    BY <1>5
  <2>2. \A q \in Parents : q # id => replies'[q] = replies[q]
    BY <1>1, <1>7 DEF OutboxTypeOK
  <2>3. \A q \in Parents : replies'[q] = replies[q] \/ q \in known \/ orch' = "stopped"
    BY <2>2
  <2>. QED
    BY <1>1, <1>2, <1>5, <2>1, <2>3, UntouchedKept, ShareKept
<1>10. HandlerInOrder' /\ EntriesAreMarked'
  BY <1>1, <1>2 DEF HandlerInOrder, EntriesAreMarked, RouterIsSubmitting
<1>11. RouterForwards'
  BY <1>1, <1>2, <1>6 DEF RouterForwards
<1>12. ToldIsForgotten'
  <2>1. ~fatal
    BY <1>1 DEF ToldIsForgotten
  <2>2. \A q \in Parents : q # id => ~(replies[q] = 1 /\ q \in known) /\ replies[q] <= 1
    BY <1>1 DEF ToldIsForgotten
  <2>3. \A q \in Parents : q # id => replies'[q] = replies[q]
    BY <1>1, <1>7 DEF OutboxTypeOK
  <2>4. id \in Parents => replies'[id] = 1 /\ id \notin known'
    BY <1>3, <1>4, <1>5, <1>7
  <2>. QED
    BY <1>2, <1>5, <2>1, <2>2, <2>3, <2>4 DEF ToldIsForgotten
<1>13. SweptIsNotDeferred'
  BY <1>1, <1>2, <1>6 DEF SweptIsNotDeferred
<1>14. DeferredIsWaiting'
  <2>1. \A q \in Parents : deferred'[q] # NotDeferred =>
          deferred'[q] = deferred[q] /\ (q \in known => q \in known') /\ (Waiting(q) => Waiting(q)')
    BY <1>3, <1>5, <1>6 DEF Waiting
  <2>. QED
    BY <1>1, <1>2, <2>1 DEF DeferredIsWaiting
<1>. QED
  BY <1>8, <1>9, <1>10, <1>11, <1>12, <1>13, <1>14 DEF OrchIInv

LEMMA PollFinishedIInv ==
  ASSUME OrchIInv, NEW s \in Stages, NEW id \in Ids, PollFinished(s, id)
  PROVE  OrchIInv'
<1>1. orch # "stopped" /\ task["router"].at = "idle"
  BY DEF PollFinished, Polls, Ready, Active
<1>2. /\ UNCHANGED <<front, inbox, submitted, nextReplica, entries, fate>>
      /\ UNCHANGED <<orch, asyncChunk>>
  BY DEF PollFinished, fate
<1>3. /\ PoolTypeOK /\ TaskTypeOK /\ TrackerTypeOK
      /\ RouterForwards /\ SweptIsNotDeferred /\ DeferredIsWaiting
  BY TypeGroups DEF OrchIInv
<1>4. work' \in [Stages -> SUBSET Ids]
  BY <1>3 DEF PollFinished, PoolTypeOK
<1>5. ASSUME UNCHANGED <<outbox, known, tracker, task, bound, replies>>
      PROVE  OrchIInv'
  <2>1. TaskTypeOK' /\ TrackerTypeOK' /\ PoolTypeOK'
    BY <1>2, <1>3, <1>4, <1>5 DEF TaskTypeOK, TrackerTypeOK, PoolTypeOK, tracker
  <2>2. /\ \A u \in Stages, x \in Ids : bound'[u][x] \in {bound[u][x], Unbound}
        /\ known' \subseteq known
    BY <1>5
  <2>3. RouterForwards' /\ SweptIsNotDeferred' /\ DeferredIsWaiting'
    BY <1>2, <1>3, <1>5 DEF RouterForwards, SweptIsNotDeferred, DeferredIsWaiting, Waiting, tracker
  <2>4. /\ task'["handler"] = task["handler"] /\ task'["router"].at \in {"idle", "forward"}
        /\ UNCHANGED <<front, inbox, outbox, submitted, entries, orch, fatal, dead, asyncChunk, replies>>
    BY <1>1, <1>2, <1>5 DEF fate
  <2>. QED
    BY <1>1, <2>1, <2>2, <2>3, <2>4, PollFrame
<1>6. ASSUME id \in known, IsCompanion(id), CompanionReady(id, {id}), UNCHANGED <<outbox, registered, replies>>
      PROVE  OrchIInv'
  <2>1. id \in Companions /\ {id} \in SUBSET Companions
    BY <1>6 DEF IsCompanion
  <2>2. /\ TaskTypeOK' /\ TrackerTypeOK' /\ PoolTypeOK' /\ known' \subseteq known
        /\ \A u \in Stages, x \in Ids : bound'[u][x] \in {bound[u][x], Unbound}
        /\ task'["handler"] = task["handler"] /\ task'["router"].at \in {"idle", "forward"}
        /\ RouterForwards' /\ SweptIsNotDeferred' /\ DeferredIsWaiting'
    BY <1>1, <1>2, <1>4, <1>6, <2>1, CompanionReadyKeeps
  <2>3. UNCHANGED <<front, inbox, outbox, submitted, entries, orch, fatal, dead, asyncChunk, replies>>
    BY <1>2, <1>6 DEF fate
  <2>. QED
    BY <1>1, <2>2, <2>3, PollFrame
<1>7. ASSUME id \in known, Tell("end", {id}),
             IF id \in Parents THEN CleanupParent(id) ELSE UNCHANGED tracker,
             Cleanup(IF id \in Parents THEN Family(id) ELSE {id}), UNCHANGED task
      PROVE  OrchIInv'
  <2>1. UNCHANGED <<front, inbox, submitted, nextReplica, entries, fate, task>>
    BY <1>2, <1>7
  <2>. QED
    BY <1>1, <1>4, <1>7, <2>1, EndIInv
<1>8. ASSUME id \in known, MayForward(id, s), ForwardOrDefer(id, s), UNCHANGED <<outbox, registered, done, replies>>
      PROVE  OrchIInv'
  <2>1. id \in Parents
    BY <1>8, ForwardedIsParent DEF MayForward
  <2>2. /\ TaskTypeOK' /\ TrackerTypeOK' /\ UNCHANGED <<bound, known>>
        /\ task'["handler"] = task["handler"] /\ task'["router"].at \in {"idle", "forward"}
        /\ RouterForwards' /\ SweptIsNotDeferred' /\ DeferredIsWaiting'
    BY <1>1, <1>2, <1>8, <2>1, ForwardOrDeferKeeps
  <2>3. PoolTypeOK' /\ known' \subseteq known
    BY <1>2, <1>3, <1>4, <2>2 DEF PoolTypeOK
  <2>4. \A u \in Stages, x \in Ids : bound'[u][x] \in {bound[u][x], Unbound}
    BY <2>2
  <2>5. UNCHANGED <<front, inbox, outbox, submitted, entries, orch, fatal, dead, asyncChunk, replies>>
    BY <1>2, <1>8 DEF fate
  <2>. QED
    BY <1>1, <2>2, <2>3, <2>4, <2>5, PollFrame
<1>9. ASSUME UNCHANGED <<deferred, task, bound, known>>, UNCHANGED <<outbox, registered, done, replies>>
      PROVE  OrchIInv'
  <2>1. UNCHANGED <<outbox, known, tracker, task, bound, replies>>
    BY <1>9 DEF tracker
  <2>. QED
    BY <1>5, <2>1
<1>. QED
  BY <1>5, <1>6, <1>7, <1>8, <1>9 DEF PollFinished

LEMMA PollErrorIInv ==
  ASSUME OrchIInv, NEW s \in Stages, NEW p \in Parents, PollError(s, p)
  PROVE  OrchIInv'
<1>. DEFINE h == task["handler"]  r == task["router"]  ids == Family(p)
            running == [work EXCEPT ![s] = @ \ {p}]
<1>1. /\ FrontTypeOK /\ InboxTypeOK /\ OutboxTypeOK /\ TableTypeOK /\ TrackerTypeOK /\ TaskTypeOK
      /\ FateTypeOK /\ PoolTypeOK /\ FinitelyMany /\ AddedOnce
      /\ UnsubmittedIsUntouched /\ HandlerInOrder /\ RouterForwards /\ EntriesAreMarked
      /\ ToldIsForgotten /\ CompanionsShareReplica /\ SweptIsNotDeferred /\ DeferredIsWaiting
  BY TypeGroups DEF OrchIInv
<1>2. orch # "stopped" /\ r.at = "idle" /\ p \in known
  BY DEF PollError, Polls, Ready, Active
<1>3. UNCHANGED <<phase, expanding, reader, inbox, submitted, orch, fatal, dead, asyncChunk>>
  BY DEF PollError, front, fate
<1>4. /\ p \in Ids /\ replies[p] = 0
  BY <1>1, <1>2, KnownIsUntold, Constants
<1>5. /\ ids \in SUBSET Ids /\ ids \cap Parents = {p} /\ Sweep("router", ids, 0, running)
      /\ running \in [Stages -> SUBSET Ids] /\ "handler" \in Tasks /\ "router" \in Tasks /\ 0 \in Nat
  BY <1>1, FamilyType, Constants DEF PollError, PoolTypeOK
<1>6. CleanupParent(p) /\ Tell("error", {p})
  BY DEF PollError
<1>. HIDE DEF ids, running
<1>7. PoolTypeOK' /\ TaskTypeOK' /\ SweepChanges("router", ids)
  BY <1>1, <1>5, SweepKeeps
<1>8. /\ task'["handler"] = h /\ task'["router"].at \in {"idle", "aborting"}
      /\ task'["router"].at = "aborting" => task'["router"].ids = ids
      /\ task'["router"].at = "aborting" \/ known' = known \ ids
      /\ \A u \in Stages, id \in Ids : bound'[u][id] \in {bound[u][id], Unbound}
      /\ known' \subseteq known /\ known \ ids \subseteq known' /\ UNCHANGED entries
  BY <1>5, <1>7 DEF SweepChanges
<1>9. /\ TrackerTypeOK' /\ registered'[p] = {} /\ deferred'[p] = NotDeferred
      /\ \A q \in Parents : q # p =>
           registered'[q] = registered[q] /\ done'[q] = done[q] /\ deferred'[q] = deferred[q]
  BY <1>1, <1>6, CleanupParentEffect
<1>10. OutboxTypeOK' /\ \A q \in Parents : replies'[q] = replies[q] + (IF q \in {p} THEN 1 ELSE 0)
  BY <1>1, <1>4, <1>6, TellEffect, FS_Singleton
<1>11. replies'[p] = 1 /\ \A q \in Parents : q # p => replies'[q] = replies[q]
  BY <1>1, <1>4, <1>10 DEF OutboxTypeOK
<1>12. CoreTypeOK' /\ FinitelyMany' /\ AddedOnce'
  <2>1. FrontTypeOK' /\ TableTypeOK' /\ FateTypeOK'
    BY <1>1, <1>3, <1>8 DEF FrontTypeOK, TableTypeOK, FateTypeOK
  <2>2. FinitelyMany'
    BY <1>1, <1>3, <1>8, FinitelyManyKept, FS_EmptySet
  <2>3. AddedOnce' /\ InboxTypeOK'
    BY <1>1, <1>3, AddedOnceKept
  <2>. QED
    BY <1>7, <1>9, <1>10, <2>1, <2>2, <2>3, TypeGroupsNext
<1>13. UnsubmittedIsUntouched' /\ CompanionsShareReplica'
  <2>1. \A q \in Parents : replies'[q] = replies[q] \/ q \in known \/ orch' = "stopped"
    BY <1>2, <1>11
  <2>. QED
    BY <1>1, <1>3, <1>8, <2>1, UntouchedKept, ShareKept
<1>14. HandlerInOrder'
  BY <1>1, <1>3, <1>8 DEF HandlerInOrder
<1>15. RouterForwards'
  BY <1>1, <1>3, <1>8, <1>9 DEF RouterForwards
<1>16. EntriesAreMarked'
  BY <1>1, <1>2, <1>3, <1>8 DEF EntriesAreMarked, RouterIsSubmitting
<1>17. ToldIsForgotten'
  <2>1. ~fatal
    BY <1>1, <1>2 DEF ToldIsForgotten
  <2>2. \A q \in Parents : q # p => ~(replies[q] = 1 /\ q \in known) /\ replies[q] <= 1
    BY <1>1, <1>2 DEF ToldIsForgotten
  <2>3. p \in known' => task'["router"].at = "aborting" /\ p \in task'["router"].ids
    BY <1>5, <1>8
  <2>. QED
    BY <1>3, <1>8, <1>11, <2>1, <2>2, <2>3 DEF ToldIsForgotten
<1>18. SweptIsNotDeferred'
  <2>1. \A q \in Parents : task'["router"].at = "aborting" /\ q \in task'["router"].ids => q = p
    BY <1>5, <1>8
  <2>2. \A q \in Parents : h.at = "aborting" /\ q \in h.ids => deferred'[q] = NotDeferred /\ registered'[q] = {}
    BY <1>1, <1>5, <1>9 DEF SweptIsNotDeferred
  <2>. QED
    BY <1>8, <1>9, <2>1, <2>2 DEF SweptIsNotDeferred, Tasks
<1>19. DeferredIsWaiting'
  <2>1. ASSUME NEW q \in Parents, deferred'[q] # NotDeferred
        PROVE  q # p /\ deferred'[q] = deferred[q] /\ (q \in known => q \in known') /\ (Waiting(q) => Waiting(q)')
    BY <1>5, <1>8, <1>9, <2>1 DEF Waiting
  <2>. QED
    BY <1>1, <1>3, <2>1 DEF DeferredIsWaiting
<1>. QED
  BY <1>12, <1>13, <1>14, <1>15, <1>16, <1>17, <1>18, <1>19 DEF OrchIInv

\* What the death of an LLM stage's engine tells, or a quiet end of the router.
LEMMA EngineDeadTells ==
  ASSUME OrchIInv, NEW s, EngineDead(s) \/ UNCHANGED <<fatal, outbox, known, replies>>
  PROVE  \E told \in SUBSET known :
           /\ known' = known \ told /\ fatal' \in BOOLEAN /\ OutboxTypeOK'
           /\ \A q \in Parents : replies'[q] = replies[q] + (IF q \in told THEN 1 ELSE 0)
<1>1. OutboxTypeOK /\ TableTypeOK /\ FateTypeOK /\ FinitelyMany
  BY TypeGroups DEF OrchIInv
<1>2. CASE EngineDead(s)
  <2>. DEFINE told == {id \in known : s \in submitted[id]}
  <2>1. Tell("fatal", told) /\ known' = known \ told /\ fatal' \in BOOLEAN
    BY <1>2 DEF EngineDead
  <2>2. told \in SUBSET known
    OBVIOUS
  <2>. HIDE DEF told
  <2>3. told \in SUBSET Ids /\ IsFiniteSet(told)
    BY <1>1, <2>2, FS_Subset DEF FinitelyMany, TableTypeOK
  <2>4. OutboxTypeOK' /\ \A q \in Parents : replies'[q] = replies[q] + (IF q \in told THEN 1 ELSE 0)
    BY <1>1, <2>1, <2>3, TellEffect
  <2>. QED
    BY <2>1, <2>2, <2>4
<1>3. CASE UNCHANGED <<fatal, outbox, known, replies>>
  <2>1. known' = known \ {} /\ fatal' \in BOOLEAN /\ OutboxTypeOK' /\ {} \in SUBSET known
    BY <1>1, <1>3 DEF FateTypeOK, OutboxTypeOK
  <2>2. \A q \in Parents : replies'[q] = replies[q] + (IF q \in {} THEN 1 ELSE 0)
    BY <1>1, <1>3 DEF OutboxTypeOK
  <2>. QED
    BY <2>1, <2>2
<1>. QED
  BY <1>2, <1>3

\* The router raises, at a poll or in a forward.
LEMMA RaisingIInv ==
  ASSUME OrchIInv, orch # "stopped", task["router"].at \in {"idle", "forward"},
         UNCHANGED <<front, inbox, submitted, tracker, pools, dead, asyncChunk>>, Raise("router"),
         NEW s, EngineDead(s) \/ UNCHANGED <<fatal, outbox, known, replies>>
  PROVE  OrchIInv'
<1>. DEFINE h == task["handler"]
<1>1. /\ FrontTypeOK /\ InboxTypeOK /\ OutboxTypeOK /\ TableTypeOK /\ TrackerTypeOK /\ TaskTypeOK
      /\ FateTypeOK /\ PoolTypeOK /\ FinitelyMany /\ AddedOnce
      /\ UnsubmittedIsUntouched /\ HandlerInOrder /\ RouterForwards /\ EntriesAreMarked
      /\ ToldIsForgotten /\ CompanionsShareReplica /\ SweptIsNotDeferred /\ DeferredIsWaiting
  BY TypeGroups DEF OrchIInv
<1>2. orch # "stopped" /\ task["router"].at # "submitting" /\ task["router"].at # "aborting"
  OBVIOUS
<1>3. UNCHANGED <<phase, expanding, reader, inbox, submitted, registered, done, deferred, dead, asyncChunk,
                  bound, nextReplica, work, entries>>
  BY DEF front, tracker, pools
<1>4. PICK told \in SUBSET known :
        /\ known' = known \ told /\ fatal' \in BOOLEAN /\ OutboxTypeOK'
        /\ \A q \in Parents : replies'[q] = replies[q] + (IF q \in told THEN 1 ELSE 0)
  BY EngineDeadTells
<1>5. TaskTypeOK' /\ task'["handler"] = h /\ task'["router"].at = "failed" /\ orch' = "failing"
  <2>1. Await("router", "failed", {}, 0, {}) /\ orch' = "failing"
    BY DEF Raise
  <2>2. {} \in SUBSET Ids /\ {} \in SUBSET Companions /\ 0 \in Stages /\ "router" \in Tasks /\ "handler" \in Tasks
    BY Constants
  <2>3. /\ TaskTypeOK' /\ \A u \in Tasks : u # "router" => task'[u] = task[u]
        /\ task'["router"] = [at |-> "failed", ids |-> {}, stage |-> 0, after |-> {}]
    BY <1>1, <2>1, <2>2 DEF Await, TaskTypeOK, Tasks
  <2>. QED
    BY <2>1, <2>2, <2>3
<1>6. \A q \in Parents : replies'[q] <= 1 /\ (replies'[q] = replies[q] \/ q \in known)
                         /\ (q \in known' => replies'[q] = 0)
  <2>. TAKE q \in Parents
  <2>1. replies[q] \in Nat /\ replies[q] <= 1
    BY <1>1 DEF OutboxTypeOK, ToldIsForgotten
  <2>2. q \in known => replies[q] = 0
    BY <1>2, KnownIsUntold
  <2>. QED
    BY <1>4, <2>1, <2>2
<1>7. CoreTypeOK' /\ FinitelyMany' /\ AddedOnce'
  <2>1. FrontTypeOK' /\ TableTypeOK' /\ FateTypeOK'
    BY <1>1, <1>3, <1>4, <1>5 DEF FrontTypeOK, TableTypeOK, FateTypeOK
  <2>2. TrackerTypeOK' /\ PoolTypeOK'
    BY <1>1, <1>3 DEF TrackerTypeOK, PoolTypeOK
  <2>3. FinitelyMany'
    BY <1>1, <1>3, <1>4, FinitelyManyKept, FS_EmptySet
  <2>4. AddedOnce' /\ InboxTypeOK'
    BY <1>1, <1>3, AddedOnceKept
  <2>. QED
    BY <1>4, <1>5, <2>1, <2>2, <2>3, <2>4, TypeGroupsNext
<1>8. UnsubmittedIsUntouched' /\ CompanionsShareReplica'
  <2>1. known' \subseteq known /\ \A q \in Parents : replies'[q] = replies[q] \/ q \in known \/ orch' = "stopped"
    BY <1>4, <1>6
  <2>. QED
    BY <1>1, <1>2, <1>3, <2>1, UntouchedKept, ShareKept
<1>9. HandlerInOrder' /\ RouterForwards'
  BY <1>1, <1>3, <1>5 DEF HandlerInOrder, RouterForwards
<1>10. EntriesAreMarked'
  BY <1>1, <1>2, <1>3, <1>5 DEF EntriesAreMarked, RouterIsSubmitting
<1>11. ToldIsForgotten'
  BY <1>5, <1>6 DEF ToldIsForgotten
<1>12. SweptIsNotDeferred'
  BY <1>1, <1>3, <1>5 DEF SweptIsNotDeferred, Tasks
<1>13. DeferredIsWaiting'
  BY <1>5 DEF DeferredIsWaiting
<1>. QED
  BY <1>7, <1>8, <1>9, <1>10, <1>11, <1>12, <1>13 DEF OrchIInv

LEMMA PollDeadIInv == ASSUME OrchIInv, NEW s \in Stages, PollDead(s) PROVE OrchIInv'
BY RaisingIInv DEF PollDead, Ready, Active

LEMMA ForwardRaisesIInv == ASSUME OrchIInv, NEW p \in Parents, ForwardRaises(p) PROVE OrchIInv'
<1>1. /\ orch # "stopped" /\ task["router"].at \in {"idle", "forward"} /\ Raise("router")
      /\ UNCHANGED <<front, inbox, submitted, tracker, pools, dead, asyncChunk>>
  BY DEF ForwardRaises, Forwards
<1>2. PICK s : EngineDead(s) \/ UNCHANGED <<fatal, outbox, known, replies>>
  BY DEF ForwardRaises
<1>. QED
  BY <1>1, <1>2, RaisingIInv

\* What a fatal error tells the requests whose message was not handled yet.
LEMMA QueuedIsUntouched ==
  ASSUME OrchIInv, orch # "stopped", NEW p \in Queued
  PROVE  p \in Asked /\ replies[p] = 0
<1>1. InboxTypeOK /\ AddedOnce /\ UnsubmittedIsUntouched
  BY TypeGroups DEF OrchIInv
<1>2. PICK i \in DOMAIN inbox : inbox[i] = Msg("add", p)
  BY DEF Queued
<1>3. p \in Parents /\ p \in Ids
  BY Constants DEF Queued
<1>4. i \in Adding /\ inbox[i].id = p
  BY <1>1, <1>2 DEF Adding, InboxTypeOK, Msg
<1>5. ~Unseen(p) /\ submitted[p] = {}
  BY <1>1, <1>4 DEF AddedOnce
<1>. QED
  BY <1>1, <1>3, <1>5, Constants DEF Unseen, Asked, UnsubmittedIsUntouched

\* The last messages of the thread: one for each told, and one for all.
LEMMA LastWords ==
  ASSUME OutboxTypeOK, NEW told \in SUBSET Ids, IsFiniteSet(told),
         outbox' = (outbox \o SetToSeq({Msg("fatal", id) : id \in told})) \o <<Msg("fatal", NoId)>>
  PROVE  outbox' \in Seq([type : {"end", "bad", "error", "fatal"}, id : Ids \cup {NoId}])
<1>. DEFINE S == {Msg("fatal", id) : id \in told}
            T == [type : {"end", "bad", "error", "fatal"}, id : Ids \cup {NoId}]
            one == <<Msg("fatal", NoId)>>
<1>1. SetToSeq(S) \in Seq(S)
  BY MessagesList
<1>2. S \subseteq T /\ Msg("fatal", NoId) \in T
  BY DEF Msg
<1>3. one \in Seq(T) /\ outbox \in Seq(T)
  BY <1>2 DEF OutboxTypeOK
<1>4. outbox' = (outbox \o SetToSeq(S)) \o one
  OBVIOUS
<1>. HIDE DEF S, T, one
<1>5. SetToSeq(S) \in Seq(T)
  BY <1>1, <1>2, SeqMonotonic
<1>6. outbox \o SetToSeq(S) \in Seq(T)
  BY <1>3, <1>5, ConcatProperties
<1>7. outbox' \in Seq(T)
  BY <1>3, <1>4, <1>6, ConcatProperties
<1>. QED
  BY <1>7 DEF T

LEMMA StopIInv == ASSUME OrchIInv, Stop PROVE OrchIInv'
<1>. DEFINE told == IF fatal THEN Queued \cup known ELSE {}
<1>1. /\ FrontTypeOK /\ InboxTypeOK /\ OutboxTypeOK /\ TableTypeOK /\ TrackerTypeOK /\ TaskTypeOK
      /\ FateTypeOK /\ PoolTypeOK /\ FinitelyMany /\ AddedOnce
      /\ UnsubmittedIsUntouched /\ HandlerInOrder /\ RouterForwards /\ EntriesAreMarked
      /\ ToldIsForgotten /\ CompanionsShareReplica /\ SweptIsNotDeferred /\ DeferredIsWaiting
  BY TypeGroups DEF OrchIInv
<1>2. /\ orch = "failing" /\ orch' = "stopped"
      /\ known' = known \ told
      /\ replies' = [q \in Parents |-> replies[q] + (IF q \in told THEN 1 ELSE 0)]
      /\ inbox' = inbox \/ inbox' = <<>>
  BY DEF Stop
<1>3. UNCHANGED <<phase, expanding, reader, submitted, registered, done, deferred, fatal, dead, asyncChunk,
                  bound, nextReplica, work, entries>>
  BY DEF Stop, front, tracker, pools
<1>4. told \in SUBSET Ids /\ IsFiniteSet(told)
  <2>1. Queued \subseteq Asked /\ Queued \subseteq Ids
    BY <1>2, QueuedIsUntouched, Constants DEF Queued
  <2>2. IsFiniteSet(Queued) /\ IsFiniteSet(known)
    BY <1>1, <2>1, FS_Subset DEF FinitelyMany
  <2>3. IsFiniteSet(Queued \cup known)
    BY <2>2, FS_Union
  <2>. QED
    BY <1>1, <2>1, <2>3, FS_EmptySet DEF TableTypeOK
<1>5. \A q \in Parents : q \in told => replies[q] = 0
  <2>1. \A q \in Queued : replies[q] = 0
    BY <1>2, QueuedIsUntouched
  <2>2. fatal => \A q \in Parents : q \in known => replies[q] = 0
    BY <1>1, <1>2, KnownIsUntold DEF ToldIsForgotten
  <2>. QED
    BY <2>1, <2>2
<1>6. outbox' = (outbox \o SetToSeq({Msg("fatal", id) : id \in told})) \o <<Msg("fatal", NoId)>>
  BY DEF Stop
<1>. HIDE DEF told
<1>7. replies' \in [Parents -> Nat] /\ \A q \in Parents : replies'[q] <= 1
  BY <1>1, <1>2, <1>5 DEF OutboxTypeOK, ToldIsForgotten
<1>8. OutboxTypeOK'
  BY <1>1, <1>4, <1>6, <1>7, LastWords DEF OutboxTypeOK
<1>9. TaskTypeOK' /\ \A t \in Tasks : task'[t].at = "failed"
  <2>1. task' = [t \in Tasks |-> [Idle EXCEPT !.at = "failed"]]
    BY DEF Stop
  <2>2. {} \in SUBSET Ids /\ {} \in SUBSET Companions /\ 0 \in Stages
    BY Constants
  <2>. QED
    BY <2>1, <2>2 DEF Idle, TaskTypeOK
<1>10. CoreTypeOK' /\ FinitelyMany' /\ AddedOnce'
  <2>1. FrontTypeOK' /\ TableTypeOK' /\ FateTypeOK' /\ TrackerTypeOK' /\ PoolTypeOK'
    BY <1>1, <1>2, <1>3 DEF FrontTypeOK, TableTypeOK, FateTypeOK, TrackerTypeOK, PoolTypeOK
  <2>2. FinitelyMany'
    BY <1>1, <1>2, <1>3, FinitelyManyKept, FS_EmptySet
  <2>3. AddedOnce' /\ InboxTypeOK'
    BY <1>1, <1>2, <1>3, AddedOnceKept
  <2>. QED
    BY <1>8, <1>9, <2>1, <2>2, <2>3, TypeGroupsNext
<1>11. UnsubmittedIsUntouched' /\ CompanionsShareReplica'
  BY <1>1, <1>2, <1>3, UntouchedKept, ShareKept
<1>12. HandlerInOrder' /\ RouterForwards'
  BY <1>1, <1>3, <1>9, Constants DEF HandlerInOrder, RouterForwards
<1>13. EntriesAreMarked'
  BY <1>1, <1>2, <1>3 DEF EntriesAreMarked
<1>14. ToldIsForgotten'
  BY <1>2, <1>7, <1>9, Constants DEF ToldIsForgotten
<1>15. SweptIsNotDeferred' /\ DeferredIsWaiting'
  BY <1>2, <1>9 DEF SweptIsNotDeferred, DeferredIsWaiting
<1>. QED
  BY <1>10, <1>11, <1>12, <1>13, <1>14, <1>15 DEF OrchIInv
-----------------------------------------------------------------------------
(* The theorems                                                            *)

LEMMA InitIInv == ASSUME Init PROVE OrchIInv
<1>. USE DEF Init
<1>1. /\ Stages \subseteq Nat /\ \A s \in Stages : Replicas[s] \in Nat /\ Replicas[s] > 0
  BY OrchestratorAssumption DEF Stages
<1>2. FrontTypeOK /\ InboxTypeOK /\ OutboxTypeOK /\ TableTypeOK /\ FateTypeOK
  <2>1. FrontTypeOK /\ TableTypeOK /\ FateTypeOK
    BY DEF FrontTypeOK, TableTypeOK, FateTypeOK
  <2>2. InboxTypeOK
    BY EmptySeq DEF InboxTypeOK
  <2>3. OutboxTypeOK
    BY EmptySeq DEF OutboxTypeOK
  <2>. QED
    BY <2>1, <2>2, <2>3
<1>3. TrackerTypeOK /\ TaskTypeOK
  BY Constants DEF TrackerTypeOK, TaskTypeOK
<1>4. PoolTypeOK
  BY <1>1 DEF PoolTypeOK, Unbound
<1>5. CoreTypeOK
  BY <1>2, <1>3, <1>4, TypeGroups
<1>6. FinitelyMany
  <2>1. Asked = {} /\ known = {}
    BY DEF Asked
  <2>. QED
    BY <2>1, FS_EmptySet DEF FinitelyMany
<1>7. AddedOnce
  BY DEF AddedOnce, Adding
<1>8. UnsubmittedIsUntouched /\ CompanionsShareReplica
  BY Constants DEF UnsubmittedIsUntouched, CompanionsShareReplica
<1>9. HandlerInOrder /\ RouterForwards /\ SweptIsNotDeferred /\ DeferredIsWaiting
  BY Constants DEF HandlerInOrder, RouterForwards, SweptIsNotDeferred, DeferredIsWaiting
<1>10. EntriesAreMarked /\ ToldIsForgotten
  BY DEF EntriesAreMarked, ToldIsForgotten
<1>. QED
  BY <1>5, <1>6, <1>7, <1>8, <1>9, <1>10 DEF OrchIInv

LEMMA NextIInv == ASSUME OrchIInv, [Next]_vars PROVE OrchIInv'
<1>1. ASSUME NEW p \in Parents, Generate(p) \/ Cancel(p) PROVE OrchIInv'
  BY <1>1, GenerateIInv, CancelIInv
<1>2. ASSUME NEW c \in Companions, EnqueueCompanion(c) PROVE OrchIInv'
  BY <1>2, EnqueueCompanionIInv
<1>3. CASE Read \/ NoticeDeath
  BY <1>3, ReadIInv, NoticeDeathIInv
<1>4. CASE Handler
  <2>1. ASSUME NEW id \in Ids, Dispatch(id) PROVE OrchIInv'
    BY <2>1, HandleAddRequestIInv, HandleAbortIInv, HandleAddCompanionIInv, HandlerSubmittedIInv DEF Dispatch
  <2>2. CASE Swept("handler")
    BY <2>2, SweptIInv, Constants
  <2>. QED
    BY <1>4, <2>1, <2>2 DEF Handler
<1>5. CASE RouterResumes
  <2>1. ASSUME NEW p \in Parents, \/ ForwardToNextStage(p) \/ NoInputs(p) \/ NoValidInputs(p)
                                 \/ ForwardRaises(p) \/ RouterSubmitted(p)
        PROVE  OrchIInv'
    BY <2>1, ForwardToNextStageIInv, NoInputsIInv, NoValidInputsIInv, ForwardRaisesIInv, RouterSubmittedIInv
  <2>2. CASE Swept("router")
    BY <2>2, SweptIInv, Constants
  <2>. QED
    BY <1>5, <2>1, <2>2 DEF RouterResumes
<1>6. ASSUME NEW s \in Stages, NEW id \in Ids, PollKvReady(s, id) \/ Finishes(s, id) PROVE OrchIInv'
  <2>1. CASE PollError(s, id)
    <3>1. id \in Parents
      BY <2>1 DEF PollError
    <3>. QED
      BY <2>1, <3>1, PollErrorIInv
  <2>. QED
    BY <1>6, <2>1, PollKvReadyIInv, PollFinishedIInv DEF Finishes
<1>7. ASSUME NEW s \in Stages, PollDead(s) \/ Die(s) PROVE OrchIInv'
  BY <1>7, PollDeadIInv, DieIInv
<1>8. CASE Stop
  BY <1>8, StopIInv
<1>9. CASE UNCHANGED vars
  <2>1. /\ UNCHANGED <<known, submitted, tracker, task, pools, fate, replies>>
        /\ outbox' = outbox \/ (outbox # <<>> /\ outbox' = Tail(outbox))
    BY <1>9 DEF vars
  <2>2. UNCHANGED <<phase, expanding, reader, inbox, submitted>>
    BY <1>9 DEF vars, front
  <2>3. FrontTypeOK' /\ IsFiniteSet(Asked')
    BY <2>2, TypeGroups DEF OrchIInv, FrontTypeOK, FinitelyMany, Asked
  <2>4. AddedOnce' /\ InboxTypeOK'
    BY <2>2, TypeGroups, AddedOnceKept DEF OrchIInv
  <2>. QED
    BY <2>1, <2>3, <2>4, FrontFrame
<1>. QED
  BY <1>1, <1>2, <1>3, <1>4, <1>5, <1>6, <1>7, <1>8, <1>9 DEF Next

\* The inductive invariant holds in every state the system reaches.
THEOREM OrchInvariant == Spec => []OrchIInv
<1>1. Init => OrchIInv
  BY InitIInv
<1>2. OrchIInv /\ [Next]_vars => OrchIInv'
  BY NextIInv
<1>. QED
  BY <1>1, <1>2, PTL DEF Spec

\* The router's forward lies inside the poll of a stage, and what the service
\* has lost was asked.
RouteOK ==
  /\ polled \in {NotPolled} \cup Stages /\ unfed \subseteq Parents
  /\ \A p \in unfed : phase[p] # "new"

\* A request stays asked.
LEMMA AskedForGood ==
  ASSUME FrontTypeOK, [Next]_vars, NEW p \in Parents, phase[p] # "new"
  PROVE  phase'[p] # "new"
<1>1. CASE \E q \in Parents : Generate(q) \/ Cancel(q)
  BY <1>1 DEF Generate, Cancel, FrontTypeOK
<1>2. CASE Read \/ NoticeDeath
  BY <1>2 DEF Read, NoticeDeath, ReadEnd, ReadBad, FailAll, Open, FrontTypeOK
<1>3. CASE Handler
  BY <1>3 DEF Handler, Dispatch, HandleAddRequest, HandleAddCompanion, HandlerSubmitted, HandleAbort, Swept, front
<1>4. CASE RouterResumes
  BY <1>4 DEF RouterResumes, ForwardToNextStage, NoInputs, NoValidInputs, ForwardRaises, RouterSubmitted, Swept, front
<1>5. CASE \E s \in Stages : (\E id \in Ids : PollKvReady(s, id) \/ Finishes(s, id)) \/ PollDead(s) \/ Die(s)
  BY <1>5 DEF PollKvReady, Finishes, PollFinished, PollError, PollDead, Die, front
<1>6. CASE (\E c \in Companions : EnqueueCompanion(c)) \/ Stop \/ UNCHANGED vars
  BY <1>6 DEF EnqueueCompanion, Stop, vars, front
<1>. QED
  BY <1>1, <1>2, <1>3, <1>4, <1>5, <1>6 DEF Next

LEMMA NoInputsRoutes == ASSUME OrchIInv, RouteOK, NEW p \in Parents, NoInputs(p) PROVE RouteOK'
<1>1. p \in known
  BY DEF NoInputs, Forwards, OrchIInv, RouterForwards
<1>2. p \in Ids /\ p \notin Companions /\ submitted[p] # {}
  BY <1>1, Constants DEF OrchIInv, UnsubmittedIsUntouched
<1>3. phase[p] # "new"
  BY <1>2 DEF OrchIInv, AddedOnce, Unseen
<1>. QED
  BY <1>3 DEF NoInputs, RouteOK, front

LEMMA RouteNext == ASSUME OrchIInv, RouteOK, [Next]_vars PROVE RouteOK'
<1>1. ASSUME UNCHANGED unfed, polled' = polled \/ polled' \in {NotPolled} \cup Stages PROVE RouteOK'
  <2>1. FrontTypeOK
    BY TypeGroups DEF OrchIInv
  <2>. QED
    BY <1>1, <2>1, AskedForGood DEF RouteOK
<1>2. CASE (\E p \in Parents : Generate(p) \/ Cancel(p)) \/ (\E c \in Companions : EnqueueCompanion(c))
  BY <1>1, <1>2 DEF Generate, Cancel, EnqueueCompanion, fate, forward
<1>3. CASE Read \/ NoticeDeath \/ Stop \/ UNCHANGED vars
  BY <1>1, <1>3 DEF Read, NoticeDeath, Stop, vars, fate, forward
<1>4. CASE Handler
  BY <1>1, <1>4 DEF Handler, Dispatch, HandleAddRequest, HandleAddCompanion, HandlerSubmitted, HandleAbort, Swept,
                    fate, forward
<1>5. ASSUME NEW p \in Parents, \/ ForwardToNextStage(p) \/ NoInputs(p) \/ NoValidInputs(p)
                                \/ ForwardRaises(p) \/ RouterSubmitted(p)
      PROVE  RouteOK'
  <2>1. CASE NoInputs(p)
    BY <2>1, NoInputsRoutes
  <2>. QED
    BY <1>1, <1>5, <2>1 DEF ForwardToNextStage, NoValidInputs, ForwardRaises, RouterSubmitted, fate, forward
<1>6. CASE Swept("router")
  BY <1>1, <1>6 DEF Swept, fate, forward
<1>7. ASSUME NEW s \in Stages, (\E id \in Ids : PollKvReady(s, id) \/ Finishes(s, id)) \/ PollDead(s) \/ Die(s)
      PROVE  RouteOK'
  BY <1>1, <1>7 DEF PollKvReady, Finishes, PollFinished, PollError, PollDead, Die, fate, forward
<1>. QED
  BY <1>2, <1>3, <1>4, <1>5, <1>6, <1>7 DEF Next, RouterResumes

\* In every reachable state the router forwards inside the poll of some stage or
\* of none, and only a request that was asked is lost.
THEOREM RouteInvariant == Spec => []RouteOK
<1>1. Init => RouteOK
  BY DEF Init, RouteOK
<1>2. OrchIInv /\ RouteOK /\ [Next]_vars => RouteOK'
  BY RouteNext
<1>. QED
  BY <1>1, <1>2, OrchInvariant, PTL DEF Spec

\* The state of AsyncOmni, of the orchestrator, of the tracker and of the
\* pools keeps its types: a task is where the code can stand, and a binding is
\* a replica of its pool.
THEOREM TypeCorrect == Spec => []OrchTypeOK
<1>1. CoreTypeOK /\ RouteOK => OrchTypeOK
  BY DEF CoreTypeOK, RouteOK, OrchTypeOK, FrontTypeOK, InboxTypeOK, OutboxTypeOK, TableTypeOK,
         TrackerTypeOK, TaskTypeOK, FateTypeOK, PoolTypeOK
<1>2. OrchIInv => CoreTypeOK
  BY DEF OrchIInv
<1>. QED
  BY <1>1, <1>2, OrchInvariant, RouteInvariant, PTL

\* No stage's engine gets a request twice: neither from the KV-ready signal and
\* the last output, nor from the last companion, nor from the prewarming.
THEOREM SubmittedAtMostOnce == Spec => []SubmittedOnce
<1>1. OrchIInv => SubmittedOnce
  BY DEF OrchIInv, EntriesAreMarked, SubmittedOnce
<1>. QED
  BY <1>1, OrchInvariant, PTL

\* The output queue gets at most one terminal message for a request, whichever
\* of its result, its error and the death of an engine comes first.
THEOREM RepliesAtMostOnce == Spec => []OneReplyEach
<1>1. OrchIInv => OneReplyEach
  BY DEF OrchIInv, ToldIsForgotten, OneReplyEach
<1>. QED
  BY <1>1, OrchInvariant, PTL

\* The affinity of submit_initial puts a companion on its parent's replica.
THEOREM CompanionsOnParentsReplica == Spec => []CompanionsShareReplica
<1>1. OrchIInv => CompanionsShareReplica
  BY DEF OrchIInv
<1>. QED
  BY <1>1, OrchInvariant, PTL

\* A parent in _pending_parents is known and has a companion still to come, so
\* that the last companion, or the parent's own end, takes it out again.
THEOREM DeferredWaits == Spec => []DeferredIsWaiting
<1>1. OrchIInv => DeferredIsWaiting
  BY DEF OrchIInv
<1>. QED
  BY <1>1, OrchInvariant, PTL
-----------------------------------------------------------------------------
(* Refinement: every step is a step of RequestLifecycle, or none of its    *)

LifecycleKept == [Lifecycle!Next]_(Lifecycle!vars)

LEMMA SeenUnchanged == ASSUME UNCHANGED <<phase, reader, unfed>> PROVE LifecycleKept
BY DEF LifecycleKept, Lifecycle!vars

LEMMA GenerateAsks ==
  ASSUME FrontTypeOK, RouteOK, NEW p \in Parents, Generate(p)
  PROVE  Lifecycle!Ask(p)
BY DEF FrontTypeOK, RouteOK, Generate, Lifecycle!Ask, fate, forward

LEMMA CancelCancels ==
  ASSUME FrontTypeOK, NEW p \in Parents, Cancel(p)
  PROVE  Lifecycle!Cancel(p)
BY DEF FrontTypeOK, Cancel, Lifecycle!Cancel, fate, forward

LEMMA FailAllFails ==
  ASSUME FrontTypeOK, reader = "reading", UNCHANGED unfed, NEW after \in {"none", "dead"}, FailAll(after)
  PROVE  Lifecycle!Fail \/ Lifecycle!GoDown
BY DEF FrontTypeOK, FailAll, Open, Lifecycle!Fail, Lifecycle!GoDown, Lifecycle!FailOpen

LEMMA ReadServes ==
  ASSUME FrontTypeOK, reader = "reading", UNCHANGED unfed, NEW id, ReadEnd(id) \/ ReadBad(id)
  PROVE  LifecycleKept
<1>1. CASE id \in Open
  <2>1. id \in Parents /\ phase[id] = "open"
    BY <1>1 DEF Open
  <2>2. Lifecycle!Serve(id)
    BY <1>1, <2>1 DEF FrontTypeOK, ReadEnd, ReadBad, Lifecycle!Serve
  <2>. QED
    BY <2>1, <2>2 DEF LifecycleKept, Lifecycle!Next
<1>2. CASE id \notin Open
  BY <1>2, SeenUnchanged DEF ReadEnd, ReadBad
<1>. QED
  BY <1>1, <1>2

\* A request that the service has lost is lost, unless its caller has its end.
LEMMA NoInputsLoses ==
  ASSUME FrontTypeOK, NEW p \in Parents, NoInputs(p)
  PROVE  LifecycleKept
<1>1. unfed' = unfed \cup {p} /\ UNCHANGED <<phase, reader>>
  BY DEF NoInputs, front
<1>2. CASE phase[p] = "open" /\ reader # "dead" /\ p \notin unfed
  <2>1. Lifecycle!Lose(p)
    BY <1>1, <1>2 DEF FrontTypeOK, Lifecycle!Lose
  <2>. QED
    BY <2>1 DEF LifecycleKept, Lifecycle!Next
<1>3. CASE ~(phase[p] = "open" /\ reader # "dead" /\ p \notin unfed)
  BY <1>1, <1>3 DEF LifecycleKept, Lifecycle!vars
<1>. QED
  BY <1>2, <1>3

LEMMA StepsOfLifecycle == ASSUME CoreTypeOK, RouteOK, [Next]_vars PROVE LifecycleKept
<1>1. FrontTypeOK
  BY TypeGroups
<1>2. ASSUME NEW p \in Parents, Generate(p) \/ Cancel(p) PROVE LifecycleKept
  BY <1>1, <1>2, GenerateAsks, CancelCancels DEF LifecycleKept, Lifecycle!Next
<1>3. CASE Read
  <2>1. reader = "reading" /\ UNCHANGED unfed
    BY <1>3 DEF Read, fate, forward
  <2>2. ASSUME NEW after \in {"none", "dead"}, FailAll(after) PROVE LifecycleKept
    BY <1>1, <2>1, <2>2, FailAllFails DEF LifecycleKept, Lifecycle!Next
  <2>3. (\E id : ReadEnd(id) \/ ReadBad(id)) \/ (\E after \in {"none", "dead"} : FailAll(after))
    BY <1>3 DEF Read
  <2>. QED
    BY <1>1, <2>1, <2>2, <2>3, ReadServes
<1>4. CASE NoticeDeath
  BY <1>1, <1>4, FailAllFails DEF NoticeDeath, LifecycleKept, Lifecycle!Next, fate, forward
<1>5. ASSUME UNCHANGED <<front, unfed>> PROVE LifecycleKept
  BY <1>5, SeenUnchanged DEF front
<1>6. ASSUME NEW c \in Companions, EnqueueCompanion(c) PROVE LifecycleKept
  BY <1>6, SeenUnchanged DEF EnqueueCompanion, fate, forward
<1>7. CASE Handler \/ RouterResumes
  <2>1. Handler => UNCHANGED <<front, unfed>>
    BY DEF Handler, Dispatch, HandleAddRequest, HandleAddCompanion, HandlerSubmitted, HandleAbort, Swept,
           fate, forward
  <2>2. RouterResumes => UNCHANGED <<front, unfed>> \/ \E p \in Parents : NoInputs(p)
    BY DEF RouterResumes, ForwardToNextStage, NoValidInputs, ForwardRaises, RouterSubmitted, Swept, fate, forward
  <2>. QED
    BY <1>1, <1>5, <1>7, <2>1, <2>2, NoInputsLoses
<1>8. ASSUME NEW s \in Stages, (\E id \in Ids : PollKvReady(s, id) \/ Finishes(s, id)) \/ PollDead(s) \/ Die(s)
      PROVE  LifecycleKept
  <2>1. UNCHANGED <<front, unfed>>
    BY <1>8 DEF PollKvReady, Finishes, PollFinished, PollError, PollDead, Die, fate, forward
  <2>. QED
    BY <1>5, <2>1
<1>9. CASE Stop \/ UNCHANGED vars
  <2>1. UNCHANGED <<front, unfed>>
    BY <1>9 DEF Stop, vars, fate, forward
  <2>. QED
    BY <1>5, <2>1
<1>. QED
  BY <1>2, <1>3, <1>4, <1>6, <1>7, <1>8, <1>9 DEF Next

\* To its callers AsyncOmni behaves as RequestLifecycle says, liveness apart: a
\* request is ended once, by its result, a failure or its caller, one asked
\* after the fatal error has been reported stays unheard, and one whose next
\* stage was submitted no input is lost, not ended twice.
THEOREM ImplementsLifecycle == Spec => Lifecycle!Init /\ [][Lifecycle!Next]_(Lifecycle!vars)
<1>1. Init => Lifecycle!Init
  BY DEF Init, Lifecycle!Init
<1>2. OrchIInv /\ RouteOK /\ [Next]_vars => [Lifecycle!Next]_(Lifecycle!vars)
  BY StepsOfLifecycle DEF LifecycleKept, OrchIInv
<1>. QED
  BY <1>1, <1>2, OrchInvariant, RouteInvariant, PTL DEF Spec
-----------------------------------------------------------------------------
(* Bindings.  With async chunks the handler goes on prewarming a request   *)
(* that a diffusion engine may already have ended with an error: bindings  *)
(* cannot be orphaned if that engine is at the request's last stage.       *)

DiffusionIsLast == \A s \in Diffusion, p \in Parents : FinalStage[p] <= s

\* What an engine computes was submitted to it.
WorkWasEntered == \A s \in Stages, id \in Ids : id \in work[s] => entries[s][id] = 1

RouterSweeps(id) == task["router"].at = "aborting" /\ id \in task["router"].ids

RouterSweepsSubmitted == \A p \in Parents : RouterSweeps(p) => submitted[p] # {}

\* The handler will submit p to more stages.
Prewarming(p) ==
  /\ asyncChunk /\ task["handler"].at = "submitting"
  /\ task["handler"].ids = {p} /\ task["handler"].stage < FinalStage[p]

\* The request that is being prewarmed is known until its last stage has it.
PrewarmsKnown ==
  orch = "running" => \A p \in Parents : Prewarming(p) => p \in known /\ ~RouterSweeps(p)

BindIInv ==
  /\ OrchIInv /\ (asyncChunk => DiffusionIsLast)
  /\ WorkWasEntered /\ RouterSweepsSubmitted /\ PrewarmsKnown /\ NoOrphanBinding

\* Submitting is the only way into an engine.
LEMMA WorkEnteredKept ==
  ASSUME OrchIInv, OrchIInv', WorkWasEntered,
         \A s \in Stages, id \in Ids :
           /\ entries'[s][id] \in {entries[s][id], entries[s][id] + 1}
           /\ id \in work'[s] => id \in work[s] \/ entries'[s][id] = entries[s][id] + 1
  PROVE  WorkWasEntered'
<1>1. \A s \in Stages, id \in Ids : entries[s][id] \in Nat /\ entries'[s][id] \in Nat /\ entries'[s][id] <= 1
  BY TypeGroups, TypeGroupsNext DEF OrchIInv, PoolTypeOK, EntriesAreMarked
<1>. QED
  BY <1>1 DEF WorkWasEntered

\* Bindings are only removed, and those of every id that is forgotten.
Unbinds ==
  /\ \A s \in Stages, id \in Ids : bound'[s][id] \in {bound[s][id], Unbound}
  /\ \A s \in Stages, id \in Ids : id \in known \ known' => bound'[s][id] = Unbound

LEMMA CleanupUnbinds == ASSUME PoolTypeOK, TableTypeOK, NEW ids, Cleanup(ids) PROVE Unbinds
<1>1. known' = known \ ids /\ \A s \in Stages, id \in Ids :
        bound'[s][id] = IF id \in ids THEN Unbound ELSE bound[s][id]
  BY CleanupEffect
<1>. QED
  BY <1>1 DEF Unbinds

LEMMA SweepUnbinds ==
  ASSUME PoolTypeOK, TableTypeOK, NEW t, NEW ids, NEW s, NEW running, Sweep(t, ids, s, running)
  PROVE  Unbinds
<1>1. CASE UNCHANGED <<bound, known>>
  BY <1>1 DEF Unbinds
<1>. QED
  BY <1>1, CleanupUnbinds DEF Sweep

\* A step that gives no engine anything and starts no prewarming.
LEMMA BindKept ==
  ASSUME BindIInv, OrchIInv', UNCHANGED <<asyncChunk, entries>>,
         orch' = "running" => orch = "running" /\ Unbinds /\ PrewarmsKnown',
         \A s \in Stages : work'[s] \subseteq work[s],
         \A p \in Parents : submitted[p] # {} => submitted'[p] # {},
         \A p \in Parents : RouterSweeps(p)' => RouterSweeps(p) \/ submitted[p] # {}
  PROVE  BindIInv'
<1>1. WorkWasEntered'
  BY WorkEnteredKept DEF BindIInv
<1>2. RouterSweepsSubmitted'
  BY DEF BindIInv, RouterSweepsSubmitted
<1>3. PrewarmsKnown'
  BY DEF PrewarmsKnown
<1>4. NoOrphanBinding'
  BY DEF BindIInv, NoOrphanBinding, Unbinds
<1>. QED
  BY <1>1, <1>2, <1>3, <1>4 DEF BindIInv, DiffusionIsLast

LEMMA BindFrame ==
  ASSUME BindIInv, OrchIInv', UNCHANGED <<known, submitted, task, bound, work, entries, orch, asyncChunk>>
  PROVE  BindIInv'
<1>1. Unbinds
  BY DEF Unbinds
<1>2. PrewarmsKnown'
  BY DEF BindIInv, PrewarmsKnown, Prewarming, RouterSweeps
<1>3. \A p \in Parents : RouterSweeps(p)' => RouterSweeps(p)
  BY DEF RouterSweeps
<1>. QED
  BY <1>1, <1>2, <1>3, BindKept

\* A step that submits a known id.
LEMMA SubmittingBinds ==
  ASSUME BindIInv, OrchIInv', UNCHANGED asyncChunk,
         NEW t \in Tasks, NEW id \in Ids, NEW s \in Stages, NEW affinity, NEW after,
         StartSubmit(t, id, s, affinity, after), SubmitChanges(t, id, s, affinity, after),
         orch' = "running" => orch = "running" /\ id \in known' /\ known \subseteq known' /\ PrewarmsKnown',
         \A p \in Parents : submitted[p] # {} => submitted'[p] # {},
         \A p \in Parents : RouterSweeps(p)' => RouterSweeps(p)
  PROVE  BindIInv'
<1>1. \A u \in Stages, x \in Ids :
        /\ entries'[u][x] \in {entries[u][x], entries[u][x] + 1}
        /\ x \in work'[u] => x \in work[u] \/ entries'[u][x] = entries[u][x] + 1
  <2>1. PoolTypeOK
    BY TypeGroups DEF BindIInv, OrchIInv
  <2>2. CASE Submit(s, id, affinity)
    BY <2>1, <2>2 DEF Submit, PoolTypeOK
  <2>3. CASE UNCHANGED pools
    BY <2>3 DEF pools
  <2>. QED
    BY <2>2, <2>3 DEF StartSubmit
<1>2. WorkWasEntered'
  BY <1>1, WorkEnteredKept DEF BindIInv
<1>3. RouterSweepsSubmitted'
  BY DEF BindIInv, RouterSweepsSubmitted
<1>4. PrewarmsKnown'
  BY DEF PrewarmsKnown
<1>5. NoOrphanBinding'
  BY DEF BindIInv, NoOrphanBinding, SubmitChanges
<1>. QED
  BY <1>2, <1>3, <1>4, <1>5 DEF BindIInv, DiffusionIsLast

\* What an engine computes of a request being prewarmed is not its last stage.
LEMMA PrewarmedIsYoung ==
  ASSUME BindIInv, task["router"].at = "idle", orch # "stopped",
         NEW p \in Parents, Prewarming(p), NEW s \in Stages, p \in work[s]
  PROVE  s < FinalStage[p]
<1>1. entries[s][p] = 1 /\ p \in Ids
  BY Constants DEF BindIInv, WorkWasEntered
<1>2. s \in submitted[p]
  BY <1>1 DEF BindIInv, OrchIInv, EntriesAreMarked, RouterIsSubmitting
<1>3. submitted[p] \subseteq 0..task["handler"].stage
  BY DEF BindIInv, OrchIInv, HandlerInOrder, Prewarming
<1>4. task["handler"].stage \in Int /\ FinalStage[p] \in Int
  <2>1. TaskTypeOK
    BY TypeGroups DEF BindIInv, OrchIInv
  <2>. QED
    BY <2>1, TaskFields, OrchestratorAssumption, Constants DEF Stages
<1>. QED
  BY <1>2, <1>3, <1>4 DEF Prewarming

\* What is prewarmed stays known while the handler stands still.
LEMMA PrewarmKept ==
  ASSUME BindIInv, UNCHANGED <<orch, asyncChunk>>, task'["handler"] = task["handler"],
         \A p \in Parents : Prewarming(p) /\ p \in known /\ ~RouterSweeps(p)
                              => p \in known' /\ ~RouterSweeps(p)'
  PROVE  PrewarmsKnown'
BY DEF BindIInv, PrewarmsKnown, Prewarming

LEMMA HandleAddRequestBinds == ASSUME BindIInv, OrchIInv', NEW p \in Parents, HandleAddRequest(p) PROVE BindIInv'
<1>. USE DEF BindIInv
<1>1. /\ InboxTypeOK /\ TableTypeOK /\ TaskTypeOK /\ FateTypeOK /\ PoolTypeOK
      /\ AddedOnce /\ RouterSweepsSubmitted
  BY TypeGroups DEF OrchIInv
<1>2. /\ inbox # <<>> /\ Head(inbox) = Msg("add", p) /\ known' = known \cup {p}
      /\ StartSubmit("handler", p, 0, NoId, {}) /\ UNCHANGED asyncChunk
      /\ submitted' = [submitted EXCEPT ![p] = {0}]
  BY DEF HandleAddRequest, Received
<1>3. /\ "handler" \in Tasks /\ "router" \in Tasks /\ "router" # "handler" /\ p \in Ids
      /\ 0 \in Stages /\ NoId \in Ids \cup {NoId} /\ {} \in SUBSET Companions
  BY Constants
<1>4. SubmitChanges("handler", p, 0, NoId, {}) /\ orch' \in {orch, "failing"}
  BY <1>1, <1>2, <1>3, StartSubmitChanges
<1>5. submitted[p] = {}
  <2>1. 1 \in Adding /\ inbox[1] = Msg("add", p)
    BY <1>1, <1>2, InboxElement DEF Adding, InboxTypeOK, Msg
  <2>. QED
    BY <1>1, <2>1 DEF AddedOnce, Msg
<1>6. \A q \in Parents : submitted[q] # {} => submitted'[q] # {}
  BY <1>1, <1>2, Constants DEF TableTypeOK
<1>7. \A q \in Parents : RouterSweeps(q)' <=> RouterSweeps(q)
  BY <1>3, <1>4 DEF SubmitChanges, RouterSweeps
<1>8. ~RouterSweeps(p)
  BY <1>1, <1>5 DEF RouterSweepsSubmitted
<1>9. PrewarmsKnown'
  BY <1>2, <1>4, <1>7, <1>8 DEF SubmitChanges, PrewarmsKnown, Prewarming
<1>. HIDE DEF BindIInv
<1>10. orch' = "running" => orch = "running" /\ p \in known' /\ known \subseteq known' /\ PrewarmsKnown'
  BY <1>2, <1>4, <1>9
<1>. QED
  BY <1>2, <1>3, <1>4, <1>6, <1>7, <1>10, SubmittingBinds

LEMMA HandleAddCompanionBinds == ASSUME BindIInv, OrchIInv', NEW c \in Companions, HandleAddCompanion(c) PROVE BindIInv'
<1>. DEFINE p == ParentOf[c]
<1>1. TableTypeOK /\ TaskTypeOK /\ FateTypeOK /\ PoolTypeOK
  BY TypeGroups DEF OrchIInv, BindIInv
<1>2. UNCHANGED asyncChunk
  BY DEF HandleAddCompanion
<1>3. CASE p \notin known
  <2>1. UNCHANGED <<known, submitted, task, bound, work, entries, orch>>
    BY <1>3 DEF HandleAddCompanion, pools
  <2>. QED
    BY <1>2, <2>1, BindFrame
<1>4. CASE p \in known
  <2>1. /\ known' = known \cup {c} /\ StartSubmit("handler", c, 0, p, {})
        /\ submitted' = [submitted EXCEPT ![c] = {0}]
    BY <1>4 DEF HandleAddCompanion
  <2>2. /\ "handler" \in Tasks /\ "router" \in Tasks /\ "router" # "handler" /\ c \in Ids /\ c \notin Parents
        /\ 0 \in Stages /\ p \in Ids \cup {NoId} /\ {} \in SUBSET Companions
    BY Constants
  <2>3. SubmitChanges("handler", c, 0, p, {}) /\ orch' \in {orch, "failing"}
    BY <1>1, <2>1, <2>2, StartSubmitChanges
  <2>4. \A q \in Parents : submitted[q] # {} => submitted'[q] # {}
    BY <1>1, <2>1, <2>2, Constants DEF TableTypeOK
  <2>5. \A q \in Parents : RouterSweeps(q)' <=> RouterSweeps(q)
    BY <2>2, <2>3 DEF SubmitChanges, RouterSweeps
  <2>6. PrewarmsKnown'
    BY <2>2, <2>3 DEF SubmitChanges, PrewarmsKnown, Prewarming
  <2>7. orch' = "running" => orch = "running" /\ c \in known' /\ known \subseteq known' /\ PrewarmsKnown'
    BY <2>1, <2>3, <2>6
  <2>. QED
    BY <1>2, <2>1, <2>2, <2>3, <2>4, <2>5, <2>7, SubmittingBinds
<1>. QED
  BY <1>3, <1>4

LEMMA HandlerSubmittedBinds == ASSUME BindIInv, OrchIInv', NEW id \in Ids, HandlerSubmitted(id) PROVE BindIInv'
<1>. DEFINE next == task["handler"].stage + 1
<1>1. TableTypeOK /\ TaskTypeOK /\ FateTypeOK /\ PoolTypeOK
  BY TypeGroups DEF OrchIInv, BindIInv
<1>2. UNCHANGED <<asyncChunk, known>> /\ task["handler"].at = "submitting" /\ task["handler"].ids = {id}
  BY DEF HandlerSubmitted
<1>3. "handler" \in Tasks /\ "router" \in Tasks /\ "router" # "handler" /\ Idle.at # "submitting"
  BY Constants
<1>4. CASE asyncChunk /\ next <= FinalOf(id)
  <2>1. /\ StartSubmit("handler", id, next, NoId, {})
        /\ submitted' = [submitted EXCEPT ![id] = @ \cup {next}]
    BY <1>4 DEF HandlerSubmitted
  <2>2. task["handler"].stage \in Nat /\ next \in Stages /\ task["handler"].stage < FinalOf(id)
    <3>1. task["handler"].stage \in Stages
      BY <1>1, <1>3, TaskFields
    <3>2. FinalOf(id) \in Stages
      BY Constants DEF Ids
    <3>. QED
      BY <1>4, <3>1, <3>2, OrchestratorAssumption DEF Stages
  <2>3. id \in Parents /\ FinalOf(id) = FinalStage[id]
    BY <1>1, <2>2, ForwardedIsParent, <1>3, TaskFields, Constants
  <2>4. NoId \in Ids \cup {NoId} /\ {} \in SUBSET Companions
    OBVIOUS
  <2>5. SubmitChanges("handler", id, next, NoId, {}) /\ orch' \in {orch, "failing"}
    BY <1>1, <1>3, <2>1, <2>2, <2>4, StartSubmitChanges
  <2>6. \A q \in Parents : submitted[q] # {} => submitted'[q] # {}
    BY <1>1, <2>1, Constants DEF TableTypeOK
  <2>7. \A q \in Parents : RouterSweeps(q)' <=> RouterSweeps(q)
    BY <1>3, <2>5 DEF SubmitChanges, RouterSweeps
  <2>8. Prewarming(id)
    BY <1>2, <1>4, <2>2, <2>3 DEF Prewarming
  <2>9. orch = "running" => id \in known /\ ~RouterSweeps(id)
    BY <2>3, <2>8 DEF BindIInv, PrewarmsKnown
  <2>10. orch' = "running" => orch = "running"
    BY <2>5
  <2>11. \A q \in Parents : Prewarming(q)' => q = id
    BY <2>5 DEF SubmitChanges, Prewarming
  <2>12. PrewarmsKnown'
    BY <1>2, <2>7, <2>9, <2>10, <2>11 DEF PrewarmsKnown
  <2>13. orch' = "running" => orch = "running" /\ id \in known' /\ known \subseteq known' /\ PrewarmsKnown'
    BY <1>2, <2>9, <2>10, <2>12
  <2>. HIDE DEF next
  <2>. QED
    BY <1>2, <1>3, <2>1, <2>2, <2>5, <2>6, <2>7, <2>13, SubmittingBinds
<1>5. CASE ~(asyncChunk /\ next <= FinalOf(id))
  <2>1. Rest("handler") /\ UNCHANGED <<submitted, bound, work, entries, orch>>
    BY <1>5 DEF HandlerSubmitted, pools
  <2>2. task'["handler"] = Idle /\ task'["router"] = task["router"]
    BY <1>1, <1>3, <2>1, RestEffect
  <2>3. \A q \in Parents : RouterSweeps(q)' <=> RouterSweeps(q)
    BY <2>2 DEF RouterSweeps
  <2>4. PrewarmsKnown'
    BY <1>3, <2>2 DEF PrewarmsKnown, Prewarming
  <2>5. Unbinds
    BY <1>2, <2>1 DEF Unbinds
  <2>. QED
    BY <1>2, <2>1, <2>3, <2>4, <2>5, BindKept
<1>. QED
  BY <1>4, <1>5

\* The handler begins a sweep or goes on with it.
LEMMA HandlerSweepBinds ==
  ASSUME BindIInv, OrchIInv', UNCHANGED <<asyncChunk, orch, submitted>>,
         NEW ids \in SUBSET Ids, NEW s \in Nat, NEW running \in [Stages -> SUBSET Ids],
         Sweep("handler", ids, s, running), \A u \in Stages : running[u] \subseteq work[u]
  PROVE  BindIInv'
<1>1. TableTypeOK /\ TaskTypeOK /\ PoolTypeOK /\ "handler" \in Tasks /\ "router" \in Tasks /\ "router" # "handler"
  BY TypeGroups, Constants DEF OrchIInv, BindIInv
<1>2. Unbinds
  BY <1>1, SweepUnbinds
<1>3. SweepChanges("handler", ids)
  BY <1>1, SweepKeeps
<1>4. UNCHANGED entries /\ work' = running /\ task'["router"] = task["router"] /\ task'["handler"].at # "submitting"
  BY <1>1, <1>3 DEF SweepChanges, Sweep
<1>5. \A p \in Parents : RouterSweeps(p)' <=> RouterSweeps(p)
  BY <1>4 DEF RouterSweeps
<1>6. PrewarmsKnown'
  BY <1>4 DEF PrewarmsKnown, Prewarming
<1>. QED
  BY <1>2, <1>4, <1>5, <1>6, BindKept

LEMMA HandleAbortBinds == ASSUME BindIInv, OrchIInv', NEW p \in Parents, HandleAbort(p) PROVE BindIInv'
<1>1. Sweep("handler", Family(p), 0, work) /\ UNCHANGED <<asyncChunk, orch, submitted>>
  BY DEF HandleAbort, fate
<1>2. Family(p) \in SUBSET Ids /\ work \in [Stages -> SUBSET Ids] /\ 0 \in Nat
  BY TypeGroups, FamilyType DEF OrchIInv, BindIInv, PoolTypeOK
<1>. QED
  BY <1>1, <1>2, HandlerSweepBinds

LEMMA SweptBinds == ASSUME BindIInv, OrchIInv', NEW t \in Tasks, Swept(t) PROVE BindIInv'
<1>. DEFINE ids == task[t].ids
            s == task[t].stage
            running == [work EXCEPT ![s] = @ \ {id \in ids : bound[s][id] # Unbound}]
<1>1. TableTypeOK /\ TaskTypeOK /\ PoolTypeOK
  BY TypeGroups DEF OrchIInv, BindIInv
<1>2. Sweep(t, ids, s + 1, running) /\ task[t].at = "aborting" /\ UNCHANGED <<asyncChunk, orch, submitted>>
  BY DEF Swept, fate
<1>3. ids \in SUBSET Ids /\ s + 1 \in Nat
  <2>1. ids \in SUBSET Ids /\ s \in Stages
    BY <1>1, TaskFields
  <2>. QED
    BY <2>1, OrchestratorAssumption DEF Stages
<1>4. running \in [Stages -> SUBSET Ids] /\ \A u \in Stages : running[u] \subseteq work[u]
  BY <1>1 DEF PoolTypeOK
<1>. HIDE DEF running, s
<1>5. CASE t = "handler"
  BY <1>2, <1>3, <1>4, <1>5, HandlerSweepBinds
<1>6. CASE t = "router"
  <2>1. Unbinds /\ SweepChanges("router", ids)
    BY <1>1, <1>2, <1>3, <1>4, <1>6, SweepUnbinds, SweepKeeps
  <2>2. UNCHANGED entries /\ work' = running /\ task'["handler"] = task["handler"]
    BY <1>2, <2>1, Constants DEF SweepChanges, Sweep
  <2>3. \A p \in Parents : /\ RouterSweeps(p)' => RouterSweeps(p)
                           /\ ~RouterSweeps(p) /\ p \in known => p \in known'
    BY <1>2, <1>6, <2>1 DEF SweepChanges, RouterSweeps
  <2>4. PrewarmsKnown'
    BY <1>2, <2>2, <2>3, PrewarmKept
  <2>. QED
    BY <1>2, <1>4, <2>1, <2>2, <2>3, <2>4, BindKept
<1>. QED
  BY <1>5, <1>6 DEF Tasks

LEMMA ForwardToNextStageBinds ==
  ASSUME BindIInv, OrchIInv', NEW p \in Parents, ForwardToNextStage(p) PROVE BindIInv'
<1>. DEFINE s == task["router"].stage
            after == task["router"].after
<1>1. TableTypeOK /\ TaskTypeOK /\ FateTypeOK /\ PoolTypeOK /\ RouterForwards
  BY TypeGroups DEF OrchIInv, BindIInv
<1>2. /\ task["router"].at = "forward" /\ task["router"].ids = {p} /\ orch # "stopped"
      /\ StartSubmit("router", p, s + 1, NoId, after) /\ UNCHANGED <<asyncChunk, known, submitted>>
  BY DEF ForwardToNextStage, Forwards, StartSubmit
<1>3. p \in known /\ ~asyncChunk /\ s < LastStage
  BY <1>1, <1>2 DEF RouterForwards
<1>4. /\ "handler" \in Tasks /\ "router" \in Tasks /\ p \in Ids /\ NoId \in Ids \cup {NoId}
      /\ s + 1 \in Stages /\ after \in SUBSET Companions
  BY <1>1, <1>3, TaskFields, Constants, OrchestratorAssumption DEF Stages
<1>. HIDE DEF s, after
<1>5. SubmitChanges("router", p, s + 1, NoId, after) /\ orch' \in {orch, "failing"}
  BY <1>1, <1>2, <1>4, StartSubmitChanges
<1>6. \A q \in Parents : RouterSweeps(q)' => RouterSweeps(q)
  BY <1>5 DEF SubmitChanges, RouterSweeps
<1>7. PrewarmsKnown'
  BY <1>2, <1>3 DEF PrewarmsKnown, Prewarming
<1>8. orch' = "running" => orch = "running" /\ p \in known' /\ known \subseteq known' /\ PrewarmsKnown'
  BY <1>2, <1>3, <1>5, <1>7
<1>. QED
  BY <1>2, <1>4, <1>5, <1>6, <1>8, SubmittingBinds

LEMMA NoValidInputsBinds == ASSUME BindIInv, OrchIInv', NEW p \in Parents, NoValidInputs(p) PROVE BindIInv'
<1>. DEFINE ids == Family(p) \cup task["router"].after
<1>1. TableTypeOK /\ TaskTypeOK /\ PoolTypeOK /\ RouterForwards
  BY TypeGroups DEF OrchIInv, BindIInv
<1>2. /\ Cleanup(ids) /\ Rest("router") /\ task["router"].at = "forward"
      /\ UNCHANGED <<submitted, work, entries, orch, asyncChunk>>
  BY DEF NoValidInputs, Forwards
<1>3. Unbinds
  BY <1>1, <1>2, CleanupUnbinds
<1>4. task'["router"] = Idle /\ Idle.at # "aborting"
  BY <1>1, <1>2, RestEffect, Constants
<1>5. \A q \in Parents : RouterSweeps(q)' => RouterSweeps(q)
  BY <1>4 DEF RouterSweeps
<1>6. PrewarmsKnown'
  BY <1>1, <1>2 DEF RouterForwards, PrewarmsKnown, Prewarming
<1>. QED
  BY <1>2, <1>3, <1>5, <1>6, BindKept

LEMMA NoInputsBinds == ASSUME BindIInv, OrchIInv', NEW p \in Parents, NoInputs(p) PROVE BindIInv'
<1>. DEFINE ids == task["router"].after
<1>1. TableTypeOK /\ TaskTypeOK /\ PoolTypeOK /\ RouterForwards
  BY TypeGroups DEF OrchIInv, BindIInv
<1>2. /\ Cleanup(ids) /\ Rest("router") /\ task["router"].at = "forward"
      /\ UNCHANGED <<work, entries, orch, asyncChunk>>
      /\ submitted' = [submitted EXCEPT ![p] = @ \cup {task["router"].stage + 1}]
  BY DEF NoInputs, Forwards
<1>3. Unbinds
  BY <1>1, <1>2, CleanupUnbinds
<1>4. task'["router"] = Idle /\ Idle.at # "aborting"
  BY <1>1, <1>2, RestEffect, Constants
<1>5. \A q \in Parents : RouterSweeps(q)' => RouterSweeps(q)
  BY <1>4 DEF RouterSweeps
<1>6. PrewarmsKnown'
  BY <1>1, <1>2 DEF RouterForwards, PrewarmsKnown, Prewarming
<1>7. \A q \in Parents : submitted[q] # {} => submitted'[q] # {}
  BY <1>1, <1>2, Constants DEF TableTypeOK
<1>. QED
  BY <1>2, <1>3, <1>5, <1>6, <1>7, BindKept

LEMMA RouterSubmittedBinds == ASSUME BindIInv, OrchIInv', NEW p \in Parents, RouterSubmitted(p) PROVE BindIInv'
<1>. DEFINE ids == task["router"].after
<1>1. TableTypeOK /\ TaskTypeOK /\ PoolTypeOK /\ RouterForwards
  BY TypeGroups DEF OrchIInv, BindIInv
<1>2. /\ Cleanup(ids) /\ Rest("router") /\ task["router"].at = "submitting"
      /\ UNCHANGED <<work, entries, orch, asyncChunk>>
      /\ submitted' = [submitted EXCEPT ![p] = @ \cup {task["router"].stage}]
  BY DEF RouterSubmitted, fate
<1>3. Unbinds
  BY <1>1, <1>2, CleanupUnbinds
<1>4. task'["router"] = Idle /\ Idle.at # "aborting"
  BY <1>1, <1>2, RestEffect, Constants
<1>5. \A q \in Parents : RouterSweeps(q)' => RouterSweeps(q)
  BY <1>4 DEF RouterSweeps
<1>6. PrewarmsKnown'
  BY <1>1, <1>2 DEF RouterForwards, PrewarmsKnown, Prewarming
<1>7. \A q \in Parents : submitted[q] # {} => submitted'[q] # {}
  BY <1>1, <1>2, Constants DEF TableTypeOK
<1>. QED
  BY <1>2, <1>3, <1>5, <1>6, <1>7, BindKept

\* A poll of a request that does not end another parent with it.
LEMMA PollBinds ==
  ASSUME BindIInv, OrchIInv', orch # "stopped", task["router"].at = "idle",
         UNCHANGED <<submitted, entries, orch, asyncChunk>>, task'["handler"] = task["handler"],
         \A s \in Stages : work'[s] \subseteq work[s], Unbinds,
         \A p \in Parents : Prewarming(p) /\ p \in known => p \in known',
         \A p \in Parents : RouterSweeps(p)' => submitted[p] # {} /\ (Prewarming(p) => p \notin known)
  PROVE  BindIInv'
<1>1. PrewarmsKnown'
  BY PrewarmKept
<1>. QED
  BY <1>1, BindKept

LEMMA CompanionReadyUnbinds ==
  ASSUME PoolTypeOK, TableTypeOK, NEW c, NEW after \in SUBSET Companions, CompanionReady(c, after)
  PROVE  Unbinds /\ known \cap Parents \subseteq known'
<1>1. CASE UNCHANGED <<bound, known>>
  BY <1>1 DEF Unbinds
<1>2. CASE Cleanup(after)
  BY <1>2, CleanupUnbinds, CleanupEffect, Constants
<1>. QED
  BY <1>1, <1>2 DEF CompanionReady, GoForward

LEMMA RouterStays ==
  ASSUME task["router"].at = "idle", task'["router"] = task["router"] \/ task'["router"].at # "aborting"
  PROVE  \A p \in Parents : ~RouterSweeps(p)'
BY DEF RouterSweeps

LEMMA PollKvReadyBinds ==
  ASSUME BindIInv, OrchIInv', NEW s \in Stages, NEW id \in Ids, PollKvReady(s, id)
  PROVE  BindIInv'
<1>1. /\ ~asyncChunk /\ orch # "stopped" /\ task["router"].at = "idle"
      /\ UNCHANGED <<submitted, work, entries, orch, asyncChunk>>
  BY DEF PollKvReady, Polls, Ready, Active
<1>2. TableTypeOK /\ TaskTypeOK /\ PoolTypeOK /\ "router" \in Tasks /\ "handler" \in Tasks
  BY TypeGroups, Constants DEF OrchIInv, BindIInv
<1>3. Unbinds
  <2>1. CASE CompanionReady(id, {})
    BY <1>2, <2>1, CompanionReadyUnbinds
  <2>2. CASE ForwardOrDefer(id, s)
    BY <2>2 DEF ForwardOrDefer, GoForward, Unbinds
  <2>. QED
    BY <2>1, <2>2 DEF PollKvReady
<1>4. \A p \in Parents : ~RouterSweeps(p)'
  <2>1. UNCHANGED task \/ \E p, u, after : Await("router", "forward", {p}, u, after)
    BY DEF PollKvReady, CompanionReady, ForwardOrDefer, GoForward
  <2>2. task'["router"] = task["router"] \/ task'["router"].at # "aborting"
    BY <1>2, <2>1 DEF Await, TaskTypeOK
  <2>. QED
    BY <1>1, <2>2, RouterStays
<1>5. PrewarmsKnown'
  BY <1>1 DEF PrewarmsKnown, Prewarming
<1>. QED
  BY <1>1, <1>3, <1>4, <1>5, BindKept

LEMMA PollFinishedBinds ==
  ASSUME BindIInv, OrchIInv', NEW s \in Stages, NEW id \in Ids, PollFinished(s, id)
  PROVE  BindIInv'
<1>1. /\ orch # "stopped" /\ task["router"].at = "idle" /\ id \in work[s]
      /\ work' = [work EXCEPT ![s] = @ \ {id}]
      /\ UNCHANGED <<submitted, entries, orch, asyncChunk>>
  BY DEF PollFinished, Polls, Ready, Active, fate
<1>2. /\ TableTypeOK /\ TaskTypeOK /\ PoolTypeOK /\ TrackerTypeOK
      /\ "router" \in Tasks /\ "handler" \in Tasks /\ "handler" # "router"
  BY TypeGroups, Constants DEF OrchIInv, BindIInv
<1>3. \A u \in Stages : work'[u] \subseteq work[u]
  BY <1>1, <1>2 DEF PoolTypeOK
<1>4. UNCHANGED task \/ \E p, u, after : Await("router", "forward", {p}, u, after)
  BY DEF PollFinished, CompanionReady, ForwardOrDefer, GoForward
<1>5. \A p \in Parents : ~RouterSweeps(p)'
  <2>1. task'["router"] = task["router"] \/ task'["router"].at # "aborting"
    BY <1>2, <1>4 DEF Await, TaskTypeOK
  <2>. QED
    BY <1>1, <2>1, RouterStays
<1>6. task'["handler"] = task["handler"]
  BY <1>2, <1>4 DEF Await, TaskTypeOK
<1>7. ASSUME Unbinds, \A p \in Parents : Prewarming(p) /\ p \in known => p \in known'
      PROVE  BindIInv'
  BY <1>1, <1>3, <1>5, <1>6, <1>7, PollBinds
<1>8. CASE UNCHANGED <<known, bound>>
  BY <1>7, <1>8 DEF Unbinds
<1>9. CASE IsCompanion(id) /\ CompanionReady(id, {id})
  <2>1. {id} \in SUBSET Companions
    BY <1>9 DEF IsCompanion
  <2>2. Unbinds /\ known \cap Parents \subseteq known'
    BY <1>2, <1>9, <2>1, CompanionReadyUnbinds
  <2>. QED
    BY <1>7, <2>2
<1>10. CASE s = FinalOf(id) /\ Cleanup(IF id \in Parents THEN Family(id) ELSE {id})
  <2>. DEFINE ids == IF id \in Parents THEN Family(id) ELSE {id}
  <2>1. Unbinds /\ known' = known \ ids
    BY <1>2, <1>10, CleanupUnbinds, CleanupEffect
  <2>2. ASSUME NEW p \in Parents, Prewarming(p) PROVE p \notin ids
    <3>1. FinalOf(p) = FinalStage[p] /\ FinalStage[p] \in Int
      BY Constants DEF Stages
    <3>2. p # id
      BY <1>1, <1>10, <2>2, <3>1, PrewarmedIsYoung
    <3>3. id \in Parents => Family(id) \cap Parents = {id}
      BY <1>2, FamilyType
    <3>. QED
      BY <3>2, <3>3
  <2>. QED
    BY <1>7, <2>1, <2>2
<1>11. CASE ForwardOrDefer(id, s)
  BY <1>8, <1>11 DEF ForwardOrDefer, GoForward
<1>. QED
  BY <1>8, <1>9, <1>10, <1>11 DEF PollFinished

LEMMA PollErrorBinds ==
  ASSUME BindIInv, OrchIInv', NEW s \in Stages, NEW id \in Ids, PollError(s, id)
  PROVE  BindIInv'
<1>. DEFINE running == [work EXCEPT ![s] = @ \ {id}]
            ids == Family(id)
<1>1. /\ orch # "stopped" /\ task["router"].at = "idle" /\ id \in work[s]
      /\ s \in Diffusion /\ id \in known \cap Parents
      /\ Sweep("router", ids, 0, running)
      /\ UNCHANGED <<submitted, orch, asyncChunk>>
  BY DEF PollError, Polls, Ready, Active, fate
<1>2. /\ TableTypeOK /\ TaskTypeOK /\ PoolTypeOK /\ TrackerTypeOK /\ UnsubmittedIsUntouched
      /\ "router" \in Tasks /\ "handler" \in Tasks /\ "handler" # "router" /\ 0 \in Nat
  BY TypeGroups, Constants DEF OrchIInv, BindIInv
<1>3. running \in [Stages -> SUBSET Ids] /\ \A u \in Stages : running[u] \subseteq work[u]
  BY <1>2 DEF PoolTypeOK
<1>4. ids \in SUBSET Ids /\ ids \cap Parents = {id}
  BY <1>1, <1>2, FamilyType
<1>. HIDE DEF running, ids
<1>5. Unbinds /\ SweepChanges("router", ids)
  BY <1>1, <1>2, <1>3, <1>4, SweepUnbinds, SweepKeeps
<1>6. UNCHANGED entries /\ work' = running /\ task'["handler"] = task["handler"]
  BY <1>1, <1>2, <1>5 DEF SweepChanges, Sweep
<1>7. ~Prewarming(id)
  <2>1. asyncChunk => FinalStage[id] <= s
    BY <1>1 DEF BindIInv, DiffusionIsLast
  <2>2. FinalStage[id] \in Int /\ s \in Int
    BY <1>1, Constants DEF Stages
  <2>. QED
    BY <1>1, <2>1, <2>2, PrewarmedIsYoung DEF Prewarming
<1>8. \A p \in Parents : Prewarming(p) /\ p \in known => p \in known'
  BY <1>4, <1>5, <1>7 DEF SweepChanges
<1>9. submitted[id] # {}
  BY <1>1, <1>2 DEF UnsubmittedIsUntouched
<1>10. \A p \in Parents : RouterSweeps(p)' => p = id
  BY <1>4, <1>5 DEF SweepChanges, RouterSweeps
<1>. QED
  BY <1>1, <1>3, <1>5, <1>6, <1>7, <1>8, <1>9, <1>10, PollBinds

\* The death of an engine and the end of the thread: nothing is promised of the
\* bindings any more.
LEMMA FailingBinds ==
  ASSUME BindIInv, OrchIInv', orch' # "running",
         UNCHANGED <<work, entries, submitted, asyncChunk>>, task'["router"].at = "failed"
  PROVE  BindIInv'
<1>1. \A p \in Parents : RouterSweeps(p)' => RouterSweeps(p) \/ submitted[p] # {}
  BY DEF RouterSweeps
<1>. QED
  BY <1>1, BindKept

LEMMA RaisingBinds ==
  ASSUME BindIInv, OrchIInv', Raise("router"), UNCHANGED <<pools, submitted, asyncChunk>>
  PROVE  BindIInv'
<1>1. Await("router", "failed", {}, 0, {}) /\ orch' = "failing" /\ UNCHANGED <<work, entries, submitted, asyncChunk>>
  BY DEF Raise, pools
<1>2. task'["router"].at = "failed"
  BY <1>1, TypeGroups, Constants DEF BindIInv, OrchIInv, TaskTypeOK, Await
<1>. QED
  BY <1>1, <1>2, FailingBinds

LEMMA ForwardRaisesBinds == ASSUME BindIInv, OrchIInv', NEW p \in Parents, ForwardRaises(p) PROVE BindIInv'
BY RaisingBinds DEF ForwardRaises

LEMMA BindNext == ASSUME BindIInv, [Next]_vars PROVE BindIInv'
<1>1. OrchIInv'
  BY NextIInv DEF BindIInv
<1>2. ASSUME UNCHANGED <<known, submitted, tracker, task, pools, orch, asyncChunk, replies>> PROVE BindIInv'
  BY <1>1, <1>2, BindFrame DEF pools
<1>3. ASSUME NEW p \in Parents, Generate(p) \/ Cancel(p) PROVE BindIInv'
  BY <1>2, <1>3 DEF Generate, Cancel, fate
<1>4. ASSUME NEW c \in Companions, EnqueueCompanion(c) PROVE BindIInv'
  BY <1>2, <1>4 DEF EnqueueCompanion, fate
<1>5. CASE Read \/ NoticeDeath
  BY <1>2, <1>5 DEF Read, NoticeDeath, fate
<1>6. CASE Handler
  <2>1. ASSUME NEW id \in Ids, Dispatch(id) PROVE BindIInv'
    BY <1>1, <2>1, HandleAddRequestBinds, HandleAbortBinds, HandleAddCompanionBinds, HandlerSubmittedBinds
       DEF Dispatch
  <2>. QED
    BY <1>1, <1>6, <2>1, SweptBinds, Constants DEF Handler
<1>7. CASE RouterResumes
  <2>1. ASSUME NEW p \in Parents, \/ ForwardToNextStage(p) \/ NoInputs(p) \/ NoValidInputs(p)
                                 \/ ForwardRaises(p) \/ RouterSubmitted(p)
        PROVE  BindIInv'
    BY <1>1, <2>1, ForwardToNextStageBinds, NoInputsBinds, NoValidInputsBinds, ForwardRaisesBinds, RouterSubmittedBinds
  <2>. QED
    BY <1>1, <1>7, <2>1, SweptBinds, Constants DEF RouterResumes
<1>8. ASSUME NEW s \in Stages, NEW id \in Ids, PollKvReady(s, id) \/ Finishes(s, id) PROVE BindIInv'
  BY <1>1, <1>8, PollKvReadyBinds, PollFinishedBinds, PollErrorBinds DEF Finishes
<1>9. ASSUME NEW s \in Stages, PollDead(s) PROVE BindIInv'
  BY <1>1, <1>9, RaisingBinds DEF PollDead
<1>10. ASSUME NEW s \in Stages, Die(s) PROVE BindIInv'
  BY <1>2, <1>10 DEF Die
<1>11. CASE Stop
  <2>1. /\ task' = [t \in Tasks |-> [Idle EXCEPT !.at = "failed"]] /\ orch' = "stopped"
        /\ UNCHANGED <<work, entries, submitted, asyncChunk>>
    BY <1>11 DEF Stop, pools
  <2>2. task'["router"].at = "failed"
    BY <2>1, Constants DEF Idle
  <2>. QED
    BY <1>1, <2>1, <2>2, FailingBinds
<1>12. CASE UNCHANGED vars
  BY <1>2, <1>12 DEF vars, fate
<1>. QED
  BY <1>3, <1>4, <1>5, <1>6, <1>7, <1>8, <1>9, <1>10, <1>11, <1>12 DEF Next

LEMMA BindInit == ASSUME Init, asyncChunk => DiffusionIsLast PROVE BindIInv
<1>1. WorkWasEntered /\ RouterSweepsSubmitted /\ PrewarmsKnown /\ NoOrphanBinding
  BY Constants DEF Init, WorkWasEntered, RouterSweepsSubmitted, RouterSweeps, PrewarmsKnown,
     Prewarming, NoOrphanBinding
<1>. QED
  BY <1>1, InitIInv DEF BindIInv

\* A pool keeps a binding only of a request the orchestrator still knows,
\* whichever of abort, result, error and prewarming overtake each other, if in
\* async-chunk mode a diffusion engine is only at the end of a request.
THEOREM BindingsOfKnown == Spec /\ (asyncChunk => DiffusionIsLast) => []NoOrphanBinding
<1>1. Init /\ (asyncChunk => DiffusionIsLast) => BindIInv
  BY BindInit
<1>2. BindIInv /\ [Next]_vars => BindIInv'
  BY BindNext
<1>3. BindIInv => NoOrphanBinding
  BY DEF BindIInv
<1>. QED
  BY <1>1, <1>2, <1>3, PTL DEF Spec
-----------------------------------------------------------------------------
(* Work.  No engine goes on computing for a request that was given up,      *)
(* because a sweep meets every engine that has it: engines it has passed    *)
(* have dropped it, and what the router forwards goes to a later one.       *)

WorkIsBound == \A s \in Stages, p \in Parents : p \in work[s] /\ p \in known => bound[s][p] # Unbound

WorkIsDue == \A s \in Stages, p \in Parents : p \in work[s] => s <= FinalStage[p]

\* The engines a sweep has passed have dropped its request.
SweptBy(t) ==
  \A p \in Parents, s \in Stages :
    task[t].at = "aborting" /\ p \in task[t].ids /\ p \in known /\ s < task[t].stage => p \notin work[s]
SweptBehind == SweptBy("handler") /\ SweptBy("router")

StagesInOrder == \A p \in Parents : \A s \in submitted[p] : 0..s \subseteq submitted[p]

\* The router forwards from a stage that was submitted, short of the last.
ForwardsInOrder ==
  LET r == task["router"]  h == task["handler"] IN
  \A p \in Parents :
    /\ deferred[p] # NotDeferred => deferred[p] \in submitted[p] /\ deferred[p] < FinalStage[p]
    /\ r.at = "forward" /\ r.ids = {p} => r.stage \in submitted[p] /\ r.stage < FinalStage[p]
    /\ r.at = "submitting" /\ r.ids = {p} => 0..(r.stage - 1) \subseteq submitted[p] /\ r.stage <= FinalStage[p]
    /\ h.at = "submitting" /\ h.ids = {p} /\ asyncChunk => h.stage \in submitted[p]

\* The handler's sweep has not passed the stage the router forwards to.
SweepCatchesUp ==
  LET r == task["router"]  h == task["handler"] IN
  \A p \in Parents :
    r.at = "forward" /\ r.ids = {p} /\ h.at = "aborting" /\ p \in h.ids => h.stage <= r.stage

WorkOK ==
  /\ WorkIsBound /\ WorkIsDue /\ SweptBehind
  /\ StagesInOrder /\ ForwardsInOrder /\ SweepCatchesUp /\ NoOrphanWork

WorkIInv == BindIInv /\ (orch = "running" => WorkOK)

\* Nothing is promised once a task has failed.
LEMMA FailingWorks == ASSUME BindIInv', orch' # "running" PROVE WorkIInv'
BY DEF WorkIInv

\* Engines drop requests, and the orchestrator forgets some that no engine
\* computes any more or that were told.
Drops ==
  \A p \in Parents, s \in Stages :
    /\ p \in work'[s] => p \in work[s]
    /\ p \in known' => p \in known /\ bound'[s][p] = bound[s][p]
    /\ p \in work'[s] /\ p \notin known' =>
         IF p \in known THEN replies'[p] = 1 /\ s < FinalStage[p] ELSE replies'[p] = replies[p]

LEMMA DropsWork ==
  ASSUME WorkIInv, BindIInv', orch = "running", Drops,
         SweptBehind', StagesInOrder', ForwardsInOrder', SweepCatchesUp'
  PROVE  WorkIInv'
<1>1. WorkIsBound'
  BY DEF WorkIInv, WorkOK, WorkIsBound, Drops
<1>2. WorkIsDue'
  BY DEF WorkIInv, WorkOK, WorkIsDue, Drops
<1>3. NoOrphanWork'
  BY DEF WorkIInv, WorkOK, NoOrphanWork, Drops
<1>. QED
  BY <1>1, <1>2, <1>3 DEF WorkIInv, WorkOK

LEMMA SweptByKept ==
  ASSUME NEW t \in Tasks, SweptBy(t), Drops, task'[t].at = "aborting" => task'[t] = task[t]
  PROVE  SweptBy(t)'
BY DEF SweptBy, Drops

\* The stages are submitted as before, and the tasks neither forward nor submit
\* anything new.
LEMMA OrderKept ==
  ASSUME StagesInOrder, ForwardsInOrder, UNCHANGED <<submitted, asyncChunk>>,
         \A p \in Parents : deferred'[p] \in {deferred[p], NotDeferred},
         \A t \in Tasks : task'[t].at \in {"forward", "submitting"} => task'[t] = task[t]
  PROVE  StagesInOrder' /\ ForwardsInOrder'
<1>1. "handler" \in Tasks /\ "router" \in Tasks
  BY Constants
<1>. QED
  BY <1>1 DEF StagesInOrder, ForwardsInOrder

\* One turn of a sweep: from the pool it awaited, if any, it goes on to the next
\* that holds a binding, and so leaves no engine behind that computes.
LEMMA SweepDrops ==
  ASSUME PoolTypeOK, TaskTypeOK, TableTypeOK, WorkIsBound,
         NEW t \in Tasks, NEW ids \in SUBSET Ids, NEW s \in Nat, NEW running \in [Stages -> SUBSET Ids],
         Sweep(t, ids, s, running),
         \A u \in Stages : running[u] \subseteq work[u],
         \A p \in Parents, u \in Stages : p \in ids /\ p \in known /\ u < s => p \notin running[u],
         \A p \in Parents : p \in known \/ replies'[p] = replies[p]
  PROVE  Drops /\ SweptBy(t)'
<1>. DEFINE pb == PoolsBinding(ids, s)
<1>1. work' = running
  BY DEF Sweep
<1>2. ASSUME NEW p \in Parents, NEW u \in Stages, p \in ids, p \in known, u >= s, u \notin pb
      PROVE  p \notin running[u]
  <2>1. u \in s..LastStage
    BY <1>2, Constants DEF Stages
  <2>2. bound[u][p] = Unbound
    BY <1>2, <2>1 DEF PoolsBinding
  <2>. QED
    BY <1>2, <2>2 DEF WorkIsBound
<1>3. CASE pb # {}
  <2>1. pb \subseteq s..LastStage /\ s..LastStage \subseteq Stages
    BY Constants DEF PoolsBinding, Stages
  <2>2. pb \in SUBSET Nat
    BY <2>1, Constants
  <2>3. Min(pb) \in pb /\ \A x \in pb : Min(pb) <= x
    BY <1>3, <2>2, LeastIsIn
  <2>4. UNCHANGED <<bound, known>> /\ Await(t, "aborting", ids, Min(pb), {})
    BY <1>3 DEF Sweep
  <2>5. task'[t] = [at |-> "aborting", ids |-> ids, stage |-> Min(pb), after |-> {}]
    BY <2>4 DEF Await, TaskTypeOK
  <2>6. ASSUME NEW p \in Parents, NEW u \in Stages, p \in ids, p \in known, u < Min(pb)
        PROVE  p \notin running[u]
    <3>1. u \in Int /\ Min(pb) \in Int /\ \A x \in pb : x \in Int
      BY <2>1, <2>2, <2>3, Constants
    <3>2. u \notin pb
      BY <2>3, <2>6, <3>1
    <3>3. CASE u < s
      BY <2>6, <3>3
    <3>4. CASE u >= s
      BY <1>2, <2>6, <3>2, <3>4
    <3>. QED
      BY <3>1, <3>3, <3>4
  <2>7. SweptBy(t)'
    BY <1>1, <2>4, <2>5, <2>6 DEF SweptBy
  <2>. QED
    BY <1>1, <2>4, <2>7 DEF Drops
<1>4. CASE pb = {}
  <2>1. Rest(t) /\ Cleanup(ids)
    BY <1>4 DEF Sweep
  <2>2. task'[t] = Idle /\ Idle.at = "idle"
    BY <2>1, RestEffect, Constants
  <2>3. known' = known \ ids /\ \A u \in Stages, id \in Ids :
          bound'[u][id] = IF id \in ids THEN Unbound ELSE bound[u][id]
    BY <2>1, CleanupEffect
  <2>4. ASSUME NEW p \in Parents, NEW u \in Stages, p \in ids, p \in known
        PROVE  p \notin running[u]
    <3>1. u \in Int
      BY Constants
    <3>2. CASE u < s
      BY <2>4, <3>2
    <3>3. CASE u >= s
      BY <1>2, <1>4, <2>4, <3>3
    <3>. QED
      BY <3>1, <3>2, <3>3
  <2>5. Drops
    BY <1>1, <2>3, <2>4, Constants DEF Drops
  <2>. QED
    BY <2>2, <2>5 DEF SweptBy
<1>. QED
  BY <1>3, <1>4

\* A known request goes to an engine that the sweeps have still before them.
LEMMA SubmittingWorks ==
  ASSUME WorkIInv, BindIInv', UNCHANGED replies,
         NEW t \in Tasks, NEW p \in Parents, NEW s \in Stages, NEW after,
         StartSubmit(t, p, s, NoId, after), SubmitChanges(t, p, s, NoId, after),
         orch' = "running" => orch = "running",
         known' = known \cup {p}, s <= FinalStage[p],
         p \notin known => \A u \in Stages : p \notin work[u],
         \A u \in Tasks : u # t /\ task[u].at = "aborting" /\ p \in task[u].ids => task[u].stage <= s,
         orch' = "running" => StagesInOrder' /\ ForwardsInOrder'
  PROVE  WorkIInv'
<1>1. CASE orch' # "running"
  BY <1>1, FailingWorks
<1>2. CASE orch' = "running"
  <2>1. WorkOK /\ PoolTypeOK /\ TaskTypeOK /\ "handler" \in Tasks /\ "router" \in Tasks
    BY <1>2, TypeGroups, Constants DEF WorkIInv, BindIInv, OrchIInv
  <2>2. Submit(s, p, NoId) /\ task'[t].at = "submitting"
    BY <1>2, <2>1, Constants DEF StartSubmit, Raise, Await, TaskTypeOK
  <2>3. \A u \in Stages, q \in Parents : q \in work'[u] => q \in work[u] \/ (u = s /\ q = p)
    BY <2>1, <2>2 DEF Submit, PoolTypeOK
  <2>4. bound'[s][p] # Unbound /\ p \in Ids
    BY <2>1, <2>2, SubmitEffect, Constants
  <2>5. \A u \in Stages, q \in Parents : u # s \/ q # p => bound'[u][q] = bound[u][q]
    BY Constants DEF SubmitChanges
  <2>6. WorkIsBound'
    BY <2>1, <2>3, <2>4, <2>5 DEF WorkOK, WorkIsBound
  <2>7. WorkIsDue'
    BY <2>1, <2>3 DEF WorkOK, WorkIsDue
  <2>8. ASSUME NEW u \in Tasks, SweptBy(u) PROVE SweptBy(u)'
    <3>1. CASE u = t
      BY <2>2, <3>1 DEF SweptBy
    <3>2. CASE u # t
      <4>1. task'[u] = task[u]
        BY <3>2 DEF SubmitChanges
      <4>2. task[u].stage \in Int /\ s \in Int
        <5>1. task[u].stage \in Stages
          BY <2>1, TaskFields
        <5>. QED
          BY <5>1 DEF Stages
      <4>3. ASSUME NEW q \in Parents, NEW v \in Stages, task[u].at = "aborting", q \in task[u].ids,
                   q \in known', v < task[u].stage
            PROVE  q \notin work'[v]
        <5>1. CASE q = p /\ v = s
          BY <3>2, <4>2, <4>3, <5>1
        <5>2. CASE q \in known /\ (q # p \/ v # s)
          BY <2>3, <2>8, <4>3, <5>2 DEF SweptBy
        <5>3. CASE q \notin known /\ q = p /\ v # s
          BY <2>3, <5>3
        <5>. QED
          BY <4>3, <5>1, <5>2, <5>3
      <4>. QED
        BY <4>1, <4>3 DEF SweptBy
    <3>. QED
      BY <3>1, <3>2
  <2>9. SweptBehind'
    BY <2>1, <2>8 DEF WorkOK, SweptBehind
  <2>10. SweepCatchesUp'
    BY <2>1, <2>2 DEF WorkOK, SweepCatchesUp, SubmitChanges, Tasks
  <2>11. NoOrphanWork'
    BY <1>2, <2>1, <2>3 DEF WorkOK, NoOrphanWork
  <2>. QED
    BY <1>2, <2>6, <2>7, <2>9, <2>10, <2>11 DEF WorkIInv, WorkOK
<1>. QED
  BY <1>1, <1>2

\* A task begins a sweep or goes on with it.
LEMMA SweepWorks ==
  ASSUME WorkIInv, BindIInv', orch = "running", UNCHANGED <<asyncChunk, submitted>>,
         \A p \in Parents : p \in known \/ replies'[p] = replies[p],
         \A p \in Parents : deferred'[p] \in {deferred[p], NotDeferred},
         NEW t \in Tasks, t = "handler" => task["router"].at # "forward",
         NEW ids \in SUBSET Ids, NEW s \in Nat, NEW running \in [Stages -> SUBSET Ids],
         Sweep(t, ids, s, running),
         \A u \in Stages : running[u] \subseteq work[u],
         \A p \in Parents, u \in Stages : p \in ids /\ p \in known /\ u < s => p \notin running[u]
  PROVE  WorkIInv'
<1>1. WorkOK /\ TableTypeOK /\ TaskTypeOK /\ PoolTypeOK
  BY TypeGroups DEF WorkIInv, BindIInv, OrchIInv
<1>2. Drops /\ SweptBy(t)'
  BY <1>1, SweepDrops DEF WorkOK
<1>3. SweepChanges(t, ids)
  BY <1>1, SweepKeeps
<1>4. SweptBehind'
  <2>1. \A u \in Tasks : u # t => task'[u] = task[u]
    BY <1>3 DEF SweepChanges
  <2>2. ASSUME NEW u \in Tasks, SweptBy(u) PROVE SweptBy(u)'
    BY <1>2, <2>1, <2>2, SweptByKept
  <2>. QED
    BY <1>1, <2>2, Constants DEF WorkOK, SweptBehind
<1>5. \A u \in Tasks : task'[u].at \in {"forward", "submitting"} => task'[u] = task[u]
  BY <1>3 DEF SweepChanges
<1>6. StagesInOrder' /\ ForwardsInOrder'
  BY <1>1, <1>5, OrderKept DEF WorkOK
<1>7. task'["router"].at # "forward"
  BY <1>3 DEF SweepChanges, Tasks
<1>8. SweepCatchesUp'
  BY <1>7 DEF SweepCatchesUp
<1>. QED
  BY <1>2, <1>4, <1>6, <1>8, DropsWork

LEMMA HandleAbortWorks == ASSUME WorkIInv, BindIInv', NEW p \in Parents, HandleAbort(p) PROVE WorkIInv'
<1>1. /\ Sweep("handler", Family(p), 0, work) /\ CleanupParent(p)
      /\ task["router"].at # "forward"
      /\ UNCHANGED <<asyncChunk, orch, submitted, replies>>
  BY DEF HandleAbort, Received, Ready, Active, fate
<1>2. TrackerTypeOK /\ PoolTypeOK
  BY TypeGroups DEF WorkIInv, BindIInv, OrchIInv
<1>3. Family(p) \in SUBSET Ids /\ work \in [Stages -> SUBSET Ids] /\ 0 \in Nat /\ "handler" \in Tasks
  BY <1>2, FamilyType, Constants DEF PoolTypeOK
<1>4. \A q \in Parents : deferred'[q] \in {deferred[q], NotDeferred}
  BY <1>1, <1>2, CleanupParentEffect
<1>5. \A q \in Parents, u \in Stages : u >= 0
  BY Constants
<1>6. CASE orch = "running"
  BY <1>1, <1>3, <1>4, <1>5, <1>6, Constants, SweepWorks
<1>. QED
  BY <1>1, <1>6, FailingWorks

LEMMA SweptWorks == ASSUME WorkIInv, BindIInv', NEW t \in Tasks, Swept(t) PROVE WorkIInv'
<1>. DEFINE ids == task[t].ids
            s == task[t].stage
            running == [work EXCEPT ![s] = @ \ {id \in ids : bound[s][id] # Unbound}]
            next == s + 1
<1>1. TaskTypeOK /\ PoolTypeOK
  BY TypeGroups DEF WorkIInv, BindIInv, OrchIInv
<1>2. /\ Sweep(t, ids, next, running) /\ task[t].at = "aborting"
      /\ t = "handler" => task["router"].at # "forward"
  BY DEF Swept, Active
<1>3. UNCHANGED <<asyncChunk, orch, submitted, replies, deferred>>
  BY DEF Swept, fate, tracker
<1>4. ids \in SUBSET Ids /\ s \in Stages
  BY <1>1, TaskFields
<1>5. next \in Nat /\ s \in Int
  BY <1>4, OrchestratorAssumption DEF Stages
<1>6. running \in [Stages -> SUBSET Ids] /\ \A u \in Stages : running[u] \subseteq work[u]
  BY <1>1 DEF PoolTypeOK
<1>7. ASSUME orch = "running", NEW p \in Parents, NEW u \in Stages, p \in ids, p \in known, u < next
      PROVE  p \notin running[u]
  <2>1. WorkOK /\ u \in Int /\ p \in Ids
    BY <1>7, Constants DEF WorkIInv
  <2>2. CASE u < s
    <3>1. SweptBy(t)
      BY <2>1 DEF WorkOK, SweptBehind, Tasks
    <3>2. p \notin work[u]
      BY <1>2, <1>7, <2>2, <3>1 DEF SweptBy
    <3>. QED
      BY <1>6, <3>2
  <2>3. CASE u = s
    <3>1. p \in work[s] => bound[s][p] # Unbound
      BY <1>7, <2>1, <2>3 DEF WorkOK, WorkIsBound
    <3>2. running[s] = work[s] \ {id \in ids : bound[s][id] # Unbound}
      BY <1>1, <1>4 DEF PoolTypeOK
    <3>. QED
      BY <1>7, <2>3, <3>1, <3>2
  <2>. QED
    BY <1>5, <1>7, <2>1, <2>2, <2>3
<1>. HIDE DEF running, s, next, ids
<1>8. CASE orch = "running"
  BY <1>2, <1>3, <1>4, <1>5, <1>6, <1>7, <1>8, SweepWorks
<1>. QED
  BY <1>3, <1>8, FailingWorks

\* Steps that change nothing the work of the parents depends on.
LEMMA WorkFrame ==
  ASSUME WorkIInv, BindIInv', UNCHANGED <<task, deferred, orch, asyncChunk, replies>>,
         \A p \in Parents : submitted'[p] = submitted[p] /\ (p \in known' <=> p \in known),
         \A p \in Parents, s \in Stages : /\ p \in work'[s] => p \in work[s]
                                          /\ bound'[s][p] = bound[s][p]
  PROVE  WorkIInv'
<1>1. CASE orch = "running"
  <2>1. Drops /\ WorkOK
    BY <1>1 DEF Drops, WorkIInv
  <2>2. SweptBehind'
    BY <2>1, SweptByKept, Constants DEF WorkOK, SweptBehind
  <2>3. StagesInOrder' /\ ForwardsInOrder' /\ SweepCatchesUp'
    BY <2>1 DEF WorkOK, StagesInOrder, ForwardsInOrder, SweepCatchesUp
  <2>. QED
    BY <1>1, <2>1, <2>2, <2>3, DropsWork
<1>. QED
  BY <1>1, FailingWorks

LEMMA HandleAddRequestWorks == ASSUME WorkIInv, BindIInv', NEW p \in Parents, HandleAddRequest(p) PROVE WorkIInv'
<1>. USE DEF WorkIInv, BindIInv
<1>1. /\ InboxTypeOK /\ TableTypeOK /\ TaskTypeOK /\ FateTypeOK /\ PoolTypeOK
      /\ AddedOnce /\ RouterSweepsSubmitted /\ UnsubmittedIsUntouched /\ WorkWasEntered /\ RouterForwards
  BY TypeGroups DEF OrchIInv
<1>2. /\ inbox # <<>> /\ Head(inbox) = Msg("add", p) /\ known' = known \cup {p}
      /\ StartSubmit("handler", p, 0, NoId, {}) /\ UNCHANGED <<asyncChunk, deferred, replies>>
      /\ submitted' = [submitted EXCEPT ![p] = {0}]
  BY DEF HandleAddRequest, Received, tracker
<1>3. /\ "handler" \in Tasks /\ "router" \in Tasks /\ "router" # "handler" /\ p \in Ids
      /\ 0 \in Stages /\ NoId \in Ids \cup {NoId} /\ {} \in SUBSET Companions
  BY Constants
<1>4. SubmitChanges("handler", p, 0, NoId, {}) /\ orch' \in {orch, "failing"}
  BY <1>1, <1>2, <1>3, StartSubmitChanges
<1>5. submitted[p] = {}
  <2>1. 1 \in Adding /\ inbox[1] = Msg("add", p)
    BY <1>1, <1>2, InboxElement DEF Adding, InboxTypeOK, Msg
  <2>. QED
    BY <1>1, <2>1 DEF AddedOnce, Msg
<1>6. p \notin known /\ \A u \in Stages : p \notin work[u]
  BY <1>1, <1>3, <1>5 DEF UnsubmittedIsUntouched, WorkWasEntered
<1>7. ~RouterSweeps(p)
  BY <1>1, <1>5 DEF RouterSweepsSubmitted
<1>8. \A u \in Tasks : u # "handler" /\ task[u].at = "aborting" /\ p \in task[u].ids => task[u].stage <= 0
  BY <1>7 DEF RouterSweeps, Tasks
<1>9. 0 <= FinalStage[p]
  BY OrchestratorAssumption
<1>10. orch' = "running" => orch = "running"
  BY <1>4
<1>11. ASSUME orch' = "running" PROVE StagesInOrder' /\ ForwardsInOrder'
  <2>1. WorkOK
    BY <1>10, <1>11
  <2>2. \A q \in Parents : submitted'[q] = IF q = p THEN {0} ELSE submitted[q]
    BY <1>1, <1>2, Constants DEF TableTypeOK
  <2>3. StagesInOrder'
    BY <2>1, <2>2 DEF WorkOK, StagesInOrder
  <2>4. task'["router"] = task["router"]
    BY <1>3, <1>4 DEF SubmitChanges
  <2>5. deferred[p] = NotDeferred
    BY <1>5, <2>1 DEF WorkOK, ForwardsInOrder
  <2>6. task["router"].at \in {"forward", "submitting"} => task["router"].ids # {p}
    BY <1>1, <1>5, <1>6 DEF RouterForwards
  <2>7. task'["handler"].at = "submitting" => task'["handler"].stage = 0 /\ task'["handler"].ids = {p}
    BY <1>4 DEF SubmitChanges
  <2>8. ForwardsInOrder'
    BY <1>2, <2>1, <2>2, <2>4, <2>5, <2>6, <2>7 DEF WorkOK, ForwardsInOrder
  <2>. QED
    BY <2>3, <2>8
<1>. HIDE DEF WorkIInv, BindIInv
<1>. QED
  BY <1>2, <1>3, <1>4, <1>6, <1>8, <1>9, <1>10, <1>11, SubmittingWorks

LEMMA HandleAddCompanionWorks == ASSUME WorkIInv, BindIInv', NEW c \in Companions, HandleAddCompanion(c) PROVE WorkIInv'
<1>. DEFINE p == ParentOf[c]
<1>1. TableTypeOK /\ TaskTypeOK /\ FateTypeOK /\ PoolTypeOK
  BY TypeGroups DEF OrchIInv, BindIInv, WorkIInv
<1>2. UNCHANGED <<asyncChunk, deferred, replies>>
  BY DEF HandleAddCompanion
<1>3. CASE p \notin known
  <2>1. UNCHANGED <<known, submitted, task, bound, work, orch>>
    BY <1>3 DEF HandleAddCompanion, pools
  <2>. QED
    BY <1>2, <2>1, WorkFrame
<1>4. CASE p \in known
  <2>1. /\ known' = known \cup {c} /\ StartSubmit("handler", c, 0, p, {})
        /\ submitted' = [submitted EXCEPT ![c] = {0}]
    BY <1>4 DEF HandleAddCompanion
  <2>2. /\ "handler" \in Tasks /\ "router" \in Tasks /\ "router" # "handler" /\ c \in Ids /\ c \notin Parents
        /\ 0 \in Stages /\ p \in Ids \cup {NoId} /\ {} \in SUBSET Companions
    BY Constants
  <2>3. SubmitChanges("handler", c, 0, p, {}) /\ orch' \in {orch, "failing"}
    BY <1>1, <2>1, <2>2, StartSubmitChanges
  <2>4. CASE orch' # "running"
    BY <2>4, FailingWorks
  <2>5. CASE orch' = "running"
    <3>1. WorkOK /\ orch = "running"
      BY <2>3, <2>5 DEF WorkIInv
    <3>2. \A q \in Parents : submitted'[q] = submitted[q] /\ (q \in known' <=> q \in known)
      BY <1>1, <2>1, <2>2, Constants DEF TableTypeOK
    <3>3. \A q \in Parents, u \in Stages : q \in work'[u] => q \in work[u]
      <4>1. Submit(0, c, p) \/ UNCHANGED work
        BY <2>1 DEF StartSubmit, pools
      <4>. QED
        BY <1>1, <2>2, <4>1 DEF Submit, PoolTypeOK
    <3>4. \A q \in Parents, u \in Stages : bound'[u][q] = bound[u][q]
      BY <2>2, <2>3, Constants DEF SubmitChanges
    <3>5. Drops
      BY <1>2, <3>1, <3>2, <3>3, <3>4 DEF Drops
    <3>6. /\ task'["router"] = task["router"] /\ task'["handler"].at # "aborting"
          /\ task'["handler"].at = "submitting" => task'["handler"].ids = {c}
      BY <2>2, <2>3 DEF SubmitChanges
    <3>7. SweptBehind'
      BY <2>2, <3>1, <3>5, <3>6, SweptByKept DEF WorkOK, SweptBehind
    <3>8. StagesInOrder' /\ SweepCatchesUp'
      BY <3>1, <3>2, <3>6 DEF WorkOK, StagesInOrder, SweepCatchesUp
    <3>9. ForwardsInOrder'
      BY <1>2, <2>2, <3>1, <3>2, <3>6 DEF WorkOK, ForwardsInOrder
    <3>. QED
      BY <3>1, <3>5, <3>7, <3>8, <3>9, DropsWork
  <2>. QED
    BY <2>4, <2>5
<1>. QED
  BY <1>3, <1>4

LEMMA HandlerSubmittedWorks == ASSUME WorkIInv, BindIInv', NEW id \in Ids, HandlerSubmitted(id) PROVE WorkIInv'
<1>. DEFINE next == task["handler"].stage + 1
<1>1. TableTypeOK /\ TaskTypeOK /\ FateTypeOK /\ PoolTypeOK
  BY TypeGroups DEF OrchIInv, BindIInv, WorkIInv
<1>2. /\ UNCHANGED <<asyncChunk, known, deferred, replies>>
      /\ task["handler"].at = "submitting" /\ task["handler"].ids = {id}
  BY DEF HandlerSubmitted, tracker
<1>3. "handler" \in Tasks /\ "router" \in Tasks /\ "router" # "handler" /\ Idle.at = "idle"
  BY Constants
<1>4. CASE asyncChunk /\ next <= FinalOf(id)
  <2>1. /\ StartSubmit("handler", id, next, NoId, {})
        /\ submitted' = [submitted EXCEPT ![id] = @ \cup {next}]
    BY <1>4 DEF HandlerSubmitted
  <2>2. task["handler"].stage \in Nat /\ next \in Stages /\ task["handler"].stage < FinalOf(id)
    <3>1. task["handler"].stage \in Stages
      BY <1>1, <1>3, TaskFields
    <3>2. FinalOf(id) \in Stages
      BY Constants DEF Ids
    <3>. QED
      BY <1>4, <3>1, <3>2, OrchestratorAssumption DEF Stages
  <2>3. id \in Parents /\ FinalOf(id) = FinalStage[id]
    BY <1>1, <2>2, ForwardedIsParent, <1>3, TaskFields, Constants
  <2>4. NoId \in Ids \cup {NoId} /\ {} \in SUBSET Companions
    OBVIOUS
  <2>5. SubmitChanges("handler", id, next, NoId, {}) /\ orch' \in {orch, "failing"}
    BY <1>1, <1>3, <2>1, <2>2, <2>4, StartSubmitChanges
  <2>6. Prewarming(id)
    BY <1>2, <1>4, <2>2, <2>3 DEF Prewarming
  <2>7. orch = "running" => id \in known /\ ~RouterSweeps(id)
    BY <2>3, <2>6 DEF WorkIInv, BindIInv, PrewarmsKnown
  <2>8. orch' = "running" => orch = "running"
    BY <2>5
  <2>9. ASSUME orch' = "running" PROVE StagesInOrder' /\ ForwardsInOrder'
    <3>1. WorkOK
      BY <2>8, <2>9 DEF WorkIInv
    <3>2. \A q \in Parents : submitted'[q] = IF q = id THEN submitted[q] \cup {next} ELSE submitted[q]
      BY <1>1, <2>1, Constants DEF TableTypeOK
    <3>3. task["handler"].stage \in submitted[id]
      BY <1>2, <1>4, <2>3, <3>1 DEF WorkOK, ForwardsInOrder
    <3>4. 0..next \subseteq submitted[id] \cup {next}
      <4>1. 0..task["handler"].stage \subseteq submitted[id]
        BY <2>3, <3>1, <3>3 DEF WorkOK, StagesInOrder
      <4>. QED
        BY <2>2, <4>1
    <3>. HIDE DEF next
    <3>5. StagesInOrder'
      BY <2>3, <3>1, <3>2, <3>4 DEF WorkOK, StagesInOrder
    <3>6. /\ task'["router"] = task["router"]
          /\ task'["handler"].at = "submitting" => task'["handler"].stage = next /\ task'["handler"].ids = {id}
      BY <1>3, <2>5 DEF SubmitChanges
    <3>7. ForwardsInOrder'
      BY <1>2, <3>1, <3>2, <3>6 DEF WorkOK, ForwardsInOrder
    <3>. QED
      BY <3>5, <3>7
  <2>10. ASSUME orch = "running"
         PROVE  \A u \in Tasks : u # "handler" /\ task[u].at = "aborting" /\ id \in task[u].ids => task[u].stage <= next
    BY <2>7, <2>10 DEF RouterSweeps, Tasks
  <2>11. next <= FinalStage[id]
    BY <1>4, <2>3
  <2>. HIDE DEF next
  <2>12. CASE orch = "running"
    <3>1. known' = known \cup {id}
      BY <1>2, <2>7, <2>12
    <3>. QED
      BY <1>2, <1>3, <2>1, <2>2, <2>3, <2>5, <2>7, <2>8, <2>9, <2>10, <2>11, <2>12, <3>1, SubmittingWorks
  <2>. QED
    BY <2>8, <2>12, FailingWorks
<1>5. CASE ~(asyncChunk /\ next <= FinalOf(id))
  <2>1. Rest("handler") /\ UNCHANGED <<submitted, bound, work, orch>>
    BY <1>5 DEF HandlerSubmitted, pools
  <2>2. task'["handler"].at = "idle" /\ task'["router"] = task["router"]
    BY <1>1, <1>3, <2>1, RestEffect
  <2>3. CASE orch = "running"
    <3>1. WorkOK /\ Drops
      BY <1>2, <2>1, <2>3 DEF WorkIInv, Drops
    <3>2. SweptBehind'
      BY <1>3, <2>2, <3>1, SweptByKept DEF WorkOK, SweptBehind
    <3>3. StagesInOrder' /\ ForwardsInOrder'
      BY <1>2, <2>1, <2>2, <3>1, OrderKept DEF WorkOK, Tasks
    <3>4. SweepCatchesUp'
      BY <2>2 DEF SweepCatchesUp
    <3>. QED
      BY <2>3, <3>1, <3>2, <3>3, <3>4, DropsWork
  <2>. QED
    BY <2>1, <2>3, FailingWorks
<1>. QED
  BY <1>4, <1>5

LEMMA ForwardToNextStageWorks ==
  ASSUME WorkIInv, BindIInv', NEW p \in Parents, ForwardToNextStage(p) PROVE WorkIInv'
<1>. DEFINE s == task["router"].stage
            next == s + 1
            after == task["router"].after
<1>1. TableTypeOK /\ TaskTypeOK /\ FateTypeOK /\ PoolTypeOK /\ RouterForwards
  BY TypeGroups DEF OrchIInv, BindIInv, WorkIInv
<1>2. /\ task["router"].at = "forward" /\ task["router"].ids = {p} /\ orch # "stopped"
      /\ StartSubmit("router", p, next, NoId, after)
      /\ UNCHANGED <<asyncChunk, known, submitted, deferred, replies>>
  BY DEF ForwardToNextStage, Forwards, StartSubmit, tracker
<1>3. p \in known /\ ~asyncChunk /\ s < LastStage
  BY <1>1, <1>2 DEF RouterForwards
<1>4. s \in Stages /\ after \in SUBSET Companions
  BY <1>1, TaskFields, Constants
<1>5. s \in Nat /\ next \in Stages
  BY <1>3, <1>4, OrchestratorAssumption DEF Stages
<1>6. "handler" \in Tasks /\ "router" \in Tasks /\ p \in Ids /\ NoId \in Ids \cup {NoId}
  BY Constants
<1>. HIDE DEF after
<1>7. SubmitChanges("router", p, next, NoId, after) /\ orch' \in {orch, "failing"}
  BY <1>1, <1>2, <1>4, <1>5, <1>6, StartSubmitChanges
<1>8. CASE orch = "running"
  <2>1. WorkOK
    BY <1>8 DEF WorkIInv
  <2>2. s \in submitted[p] /\ s < FinalStage[p]
    BY <1>2, <2>1 DEF WorkOK, ForwardsInOrder
  <2>3. next <= FinalStage[p]
    BY <1>5, <2>2, OrchestratorAssumption
  <2>4. \A u \in Tasks : u # "router" /\ task[u].at = "aborting" /\ p \in task[u].ids => task[u].stage <= next
    <3>1. task["handler"].stage \in Stages
      BY <1>1, <1>6, TaskFields
    <3>2. task["handler"].stage \in Int
      BY <3>1 DEF Stages
    <3>3. task["handler"].at = "aborting" /\ p \in task["handler"].ids => task["handler"].stage <= s
      BY <1>2, <2>1 DEF WorkOK, SweepCatchesUp
    <3>. QED
      BY <1>5, <3>2, <3>3 DEF Tasks
  <2>5. StagesInOrder' /\ ForwardsInOrder'
    <3>1. StagesInOrder'
      BY <1>2, <2>1 DEF WorkOK, StagesInOrder
    <3>2. 0..(next - 1) \subseteq submitted[p]
      BY <1>5, <2>1, <2>2 DEF WorkOK, StagesInOrder
    <3>. HIDE DEF next
    <3>3. /\ task'["handler"] = task["handler"] /\ task'["router"].at # "forward"
          /\ task'["router"].at = "submitting" => task'["router"].stage = next /\ task'["router"].ids = {p}
      BY <1>6, <1>7 DEF SubmitChanges
    <3>4. ForwardsInOrder'
      BY <1>2, <1>3, <2>1, <2>3, <3>2, <3>3 DEF WorkOK, ForwardsInOrder
    <3>. QED
      BY <3>1, <3>4
  <2>6. known' = known \cup {p}
    BY <1>2, <1>3
  <2>. HIDE DEF next, s
  <2>. QED
    BY <1>2, <1>3, <1>5, <1>6, <1>7, <1>8, <2>3, <2>4, <2>5, <2>6, SubmittingWorks
<1>9. orch' = "running" => orch = "running"
  BY <1>7
<1>. QED
  BY <1>8, <1>9, FailingWorks

LEMMA NoValidInputsWorks == ASSUME WorkIInv, BindIInv', NEW p \in Parents, NoValidInputs(p) PROVE WorkIInv'
<1>. DEFINE ids == Family(p) \cup task["router"].after
            s == task["router"].stage
<1>1. /\ TableTypeOK /\ TaskTypeOK /\ PoolTypeOK /\ TrackerTypeOK /\ OutboxTypeOK
      /\ RouterForwards /\ WorkWasEntered /\ EntriesAreMarked /\ OrchIInv
  BY TypeGroups DEF OrchIInv, BindIInv, WorkIInv
<1>2. /\ Cleanup(ids) /\ Rest("router") /\ CleanupParent(p) /\ Tell("bad", {p})
      /\ task["router"].at = "forward" /\ task["router"].ids = {p} /\ orch # "stopped"
      /\ UNCHANGED <<submitted, work, entries, orch, asyncChunk>>
  BY DEF NoValidInputs, Forwards
<1>3. "handler" \in Tasks /\ "router" \in Tasks /\ "router" # "handler" /\ Idle.at = "idle" /\ p \in Ids
  BY Constants
<1>4. task'["router"].at = "idle" /\ task'["handler"] = task["handler"]
  BY <1>1, <1>2, <1>3, RestEffect
<1>5. \A q \in Parents : replies'[q] = IF q = p THEN 1 ELSE replies[q]
  <2>1. replies[p] = 0
    BY <1>1, <1>2, KnownIsUntold DEF RouterForwards
  <2>2. {p} \in SUBSET Ids /\ IsFiniteSet({p})
    BY <1>3, FS_Singleton
  <2>3. \A q \in Parents : replies'[q] = replies[q] + (IF q \in {p} THEN 1 ELSE 0) /\ replies[q] \in Nat
    BY <1>1, <1>2, <2>2, TellEffect DEF OutboxTypeOK
  <2>. QED
    BY <2>1, <2>3
<1>6. /\ known' = known \ ids /\ ids \cap Parents = {p}
      /\ \A u \in Stages, id \in Ids : bound'[u][id] = IF id \in ids THEN Unbound ELSE bound[u][id]
  <2>1. Family(p) \cap Parents = {p}
    BY <1>1, FamilyType
  <2>2. task["router"].after \in SUBSET Companions
    BY <1>1, <1>3, TaskFields
  <2>. QED
    BY <1>1, <1>2, <2>1, <2>2, CleanupEffect, Constants
<1>7. CASE orch = "running"
  <2>1. WorkOK
    BY <1>7 DEF WorkIInv
  <2>2. ASSUME NEW u \in Stages, p \in work[u] PROVE u < FinalStage[p]
    <3>1. u \in submitted[p]
      BY <1>1, <1>2, <1>3, <2>2 DEF WorkWasEntered, EntriesAreMarked, RouterIsSubmitting
    <3>2. s < FinalStage[p] /\ s + 1 \notin submitted[p]
      BY <1>1, <1>2, <2>1 DEF WorkOK, ForwardsInOrder, RouterForwards
    <3>3. 0..u \subseteq submitted[p]
      BY <2>1, <3>1 DEF WorkOK, StagesInOrder
    <3>4. s \in Stages
      BY <1>1, <1>3, TaskFields
    <3>5. s \in Nat /\ u \in Nat /\ FinalStage[p] \in Int
      BY <3>4, OrchestratorAssumption DEF Stages
    <3>. QED
      BY <3>2, <3>3, <3>5
  <2>3. Drops
    <3>1. \A u \in Stages : p \in work'[u] => p \in work[u] /\ u < FinalStage[p]
      BY <1>2, <2>2
    <3>2. p \in known /\ p \notin known' /\ replies'[p] = 1
      BY <1>1, <1>2, <1>5, <1>6 DEF RouterForwards
    <3>3. \A q \in Parents : q # p => /\ replies'[q] = replies[q] /\ (q \in known' <=> q \in known)
                                      /\ \A u \in Stages : bound'[u][q] = bound[u][q]
      BY <1>5, <1>6, Constants
    <3>. QED
      BY <1>2, <3>1, <3>2, <3>3 DEF Drops
  <2>4. SweptBehind'
    BY <1>3, <1>4, <2>1, <2>3, SweptByKept DEF WorkOK, SweptBehind
  <2>5. StagesInOrder' /\ ForwardsInOrder'
    <3>1. \A q \in Parents : deferred'[q] \in {deferred[q], NotDeferred}
      BY <1>1, <1>2, CleanupParentEffect
    <3>. QED
      BY <1>2, <1>4, <2>1, <3>1, OrderKept DEF WorkOK, Tasks
  <2>6. SweepCatchesUp'
    BY <1>4 DEF SweepCatchesUp
  <2>. QED
    BY <1>7, <2>3, <2>4, <2>5, <2>6, DropsWork
<1>. QED
  BY <1>2, <1>7, FailingWorks

LEMMA NoInputsWorks == ASSUME WorkIInv, BindIInv', NEW p \in Parents, NoInputs(p) PROVE WorkIInv'
<1>. DEFINE s == task["router"].stage
            next == s + 1
            after == task["router"].after
<1>1. TableTypeOK /\ TaskTypeOK /\ PoolTypeOK
  BY TypeGroups DEF OrchIInv, BindIInv, WorkIInv
<1>2. /\ Cleanup(after) /\ Rest("router") /\ task["router"].at = "forward" /\ task["router"].ids = {p}
      /\ submitted' = [submitted EXCEPT ![p] = @ \cup {next}]
      /\ UNCHANGED <<work, orch, asyncChunk, deferred, replies>>
  BY DEF NoInputs, Forwards, tracker
<1>3. "handler" \in Tasks /\ "router" \in Tasks /\ "router" # "handler" /\ Idle.at = "idle"
  BY Constants
<1>4. task'["router"].at = "idle" /\ task'["handler"] = task["handler"]
  BY <1>1, <1>2, <1>3, RestEffect
<1>5. CASE orch = "running"
  <2>1. WorkOK
    BY <1>5 DEF WorkIInv
  <2>2. \A q \in Parents : /\ q \in known' <=> q \in known
                           /\ \A u \in Stages : bound'[u][q] = bound[u][q]
    <3>1. after \in SUBSET Companions
      BY <1>1, <1>3, TaskFields
    <3>. QED
      BY <1>1, <1>2, <3>1, CleanupEffect, Constants
  <2>3. Drops
    BY <1>2, <2>2 DEF Drops
  <2>4. SweptBehind'
    BY <1>3, <1>4, <2>1, <2>3, SweptByKept DEF WorkOK, SweptBehind
  <2>5. \A q \in Parents : submitted'[q] = IF q = p THEN submitted[q] \cup {next} ELSE submitted[q]
    BY <1>1, <1>2, Constants DEF TableTypeOK
  <2>6. 0..next \subseteq submitted[p] \cup {next}
    <3>1. 0..s \subseteq submitted[p]
      BY <1>2, <2>1 DEF WorkOK, ForwardsInOrder, StagesInOrder
    <3>2. s \in Stages
      BY <1>1, <1>3, TaskFields
    <3>3. s \in Nat
      BY <3>2, Constants
    <3>. QED
      BY <3>1, <3>3
  <2>. HIDE DEF next
  <2>7. StagesInOrder'
    BY <2>1, <2>5, <2>6 DEF WorkOK, StagesInOrder
  <2>8. ForwardsInOrder'
    BY <1>2, <1>4, <2>1, <2>5 DEF WorkOK, ForwardsInOrder
  <2>9. SweepCatchesUp'
    BY <1>4 DEF SweepCatchesUp
  <2>. QED
    BY <1>5, <2>3, <2>4, <2>7, <2>8, <2>9, DropsWork
<1>. QED
  BY <1>2, <1>5, FailingWorks

LEMMA RouterSubmittedWorks == ASSUME WorkIInv, BindIInv', NEW p \in Parents, RouterSubmitted(p) PROVE WorkIInv'
<1>. DEFINE s == task["router"].stage
            after == task["router"].after
<1>1. TableTypeOK /\ TaskTypeOK /\ PoolTypeOK
  BY TypeGroups DEF OrchIInv, BindIInv, WorkIInv
<1>2. /\ Cleanup(after) /\ Rest("router") /\ task["router"].at = "submitting" /\ task["router"].ids = {p}
      /\ submitted' = [submitted EXCEPT ![p] = @ \cup {s}]
      /\ UNCHANGED <<work, orch, asyncChunk, deferred, replies>>
  BY DEF RouterSubmitted, fate, tracker
<1>3. "handler" \in Tasks /\ "router" \in Tasks /\ "router" # "handler" /\ Idle.at = "idle"
  BY Constants
<1>4. task'["router"].at = "idle" /\ task'["handler"] = task["handler"]
  BY <1>1, <1>2, <1>3, RestEffect
<1>5. CASE orch = "running"
  <2>1. WorkOK
    BY <1>5 DEF WorkIInv
  <2>2. \A q \in Parents : /\ q \in known' <=> q \in known
                           /\ \A u \in Stages : bound'[u][q] = bound[u][q]
    <3>1. after \in SUBSET Companions
      BY <1>1, <1>3, TaskFields
    <3>. QED
      BY <1>1, <1>2, <3>1, CleanupEffect, Constants
  <2>3. Drops
    BY <1>2, <2>2 DEF Drops
  <2>4. SweptBehind'
    BY <1>3, <1>4, <2>1, <2>3, SweptByKept DEF WorkOK, SweptBehind
  <2>5. \A q \in Parents : submitted'[q] = IF q = p THEN submitted[q] \cup {s} ELSE submitted[q]
    BY <1>1, <1>2, Constants DEF TableTypeOK
  <2>6. 0..s \subseteq submitted[p] \cup {s}
    <3>1. 0..(s - 1) \subseteq submitted[p]
      BY <1>2, <2>1 DEF WorkOK, ForwardsInOrder
    <3>2. s \in Stages
      BY <1>1, <1>3, TaskFields
    <3>3. s \in Nat
      BY <3>2, Constants
    <3>. QED
      BY <3>1, <3>3
  <2>. HIDE DEF s
  <2>7. StagesInOrder'
    BY <2>1, <2>5, <2>6 DEF WorkOK, StagesInOrder
  <2>8. ForwardsInOrder'
    BY <1>2, <1>4, <2>1, <2>5 DEF WorkOK, ForwardsInOrder
  <2>9. SweepCatchesUp'
    BY <1>4 DEF SweepCatchesUp
  <2>. QED
    BY <1>5, <2>3, <2>4, <2>7, <2>8, <2>9, DropsWork
<1>. QED
  BY <1>2, <1>5, FailingWorks

\* A stage from which p can be forwarded: it was submitted, it is not the last,
\* and the handler's sweep, if there is one, has not passed it.
ForwardableFrom(p, s) ==
  /\ s \in submitted[p] /\ s < FinalStage[p]
  /\ task["handler"].at = "aborting" /\ p \in task["handler"].ids => task["handler"].stage <= s

\* What a poll does to the parents: at most one is held back or forwarded.
LEMMA PollWorks ==
  ASSUME WorkIInv, BindIInv', orch = "running", UNCHANGED <<submitted, asyncChunk>>, Drops,
         task["router"].at = "idle", task'["handler"] = task["handler"],
         \A p \in Parents :
           \/ deferred'[p] \in {deferred[p], NotDeferred}
           \/ ForwardableFrom(p, deferred'[p]),
         \/ task'["router"].at = "idle"
         \/ \E p \in Parents : /\ task'["router"].at = "forward" /\ task'["router"].ids = {p}
                               /\ ForwardableFrom(p, task'["router"].stage)
  PROVE  WorkIInv'
<1>1. WorkOK
  BY DEF WorkIInv
<1>2. SweptBehind'
  <2>1. "handler" \in Tasks /\ "router" \in Tasks
    BY Constants
  <2>. QED
    BY <1>1, <2>1, SweptByKept DEF WorkOK, SweptBehind
<1>3. StagesInOrder'
  BY <1>1 DEF WorkOK, StagesInOrder
<1>4. ForwardsInOrder'
  BY <1>1 DEF WorkOK, ForwardsInOrder, ForwardableFrom
<1>5. SweepCatchesUp'
  BY DEF SweepCatchesUp, ForwardableFrom
<1>. QED
  BY <1>2, <1>3, <1>4, <1>5, DropsWork

\* An engine that computes a known request has not been passed by a sweep.
LEMMA PolledIsForwardable ==
  ASSUME WorkIInv, orch = "running", task["router"].at = "idle",
         NEW p \in Parents, NEW s \in Stages, p \in known, p \in work[s], s < FinalStage[p]
  PROVE  ForwardableFrom(p, s)
<1>1. WorkOK /\ WorkWasEntered /\ EntriesAreMarked /\ TaskTypeOK
  BY TypeGroups DEF WorkIInv, BindIInv, OrchIInv
<1>2. s \in submitted[p]
  BY <1>1, Constants DEF WorkWasEntered, EntriesAreMarked, RouterIsSubmitting
<1>3. task["handler"].stage \in Int /\ s \in Int
  <2>1. task["handler"].stage \in Stages
    BY <1>1, TaskFields, Constants
  <2>. QED
    BY <2>1 DEF Stages
<1>4. task["handler"].at = "aborting" /\ p \in task["handler"].ids => ~(s < task["handler"].stage)
  BY <1>1 DEF WorkOK, SweptBehind, SweptBy
<1>. QED
  BY <1>2, <1>3, <1>4 DEF ForwardableFrom

\* What the router goes on to do is a forward; nothing else of the router moves.
LEMMA GoForwardEffect ==
  ASSUME TaskTypeOK, NEW p \in Parents, NEW s, NEW after, GoForward(p, s, after)
  PROVE  /\ task'["router"].at = "forward" /\ task'["router"].ids = {p} /\ task'["router"].stage = s
         /\ task'["handler"] = task["handler"] /\ UNCHANGED <<bound, known>>
BY Constants DEF GoForward, Await, TaskTypeOK

\* The conclusion PollWorks needs, for an output that makes its request move on.
MovesOn ==
  /\ task'["handler"] = task["handler"]
  /\ \A p \in Parents : \/ deferred'[p] \in {deferred[p], NotDeferred}
                        \/ ForwardableFrom(p, deferred'[p])
  /\ \/ task'["router"].at = "idle"
     \/ \E p \in Parents : /\ task'["router"].at = "forward" /\ task'["router"].ids = {p}
                           /\ ForwardableFrom(p, task'["router"].stage)
  /\ \A p \in Parents : /\ p \in known' <=> p \in known
                        /\ \A s \in Stages : bound'[s][p] = bound[s][p]

LEMMA ForwardOrDeferMoves ==
  ASSUME WorkIInv, orch = "running", task["router"].at = "idle",
         NEW p \in Parents, NEW s \in Stages, p \in known, p \in work[s], MayForward(p, s), ForwardOrDefer(p, s)
  PROVE  MovesOn
<1>1. TaskTypeOK /\ TrackerTypeOK
  BY TypeGroups DEF WorkIInv, BindIInv, OrchIInv
<1>2. ForwardableFrom(p, s)
  BY PolledIsForwardable, Constants DEF MayForward
<1>3. CASE Waiting(p)
  BY <1>1, <1>2, <1>3 DEF ForwardOrDefer, TrackerTypeOK, MovesOn
<1>4. CASE ~Waiting(p)
  <2>1. GoForward(p, s, {}) /\ UNCHANGED deferred
    BY <1>4 DEF ForwardOrDefer
  <2>. QED
    BY <1>1, <1>2, <2>1, GoForwardEffect DEF MovesOn
<1>. QED
  BY <1>3, <1>4

LEMMA CompanionReadyMoves ==
  ASSUME WorkIInv, orch = "running", task["router"].at = "idle",
         NEW c \in Companions, NEW after \in SUBSET Companions, CompanionReady(c, after)
  PROVE  MovesOn
<1>. DEFINE p == ParentOf[c]
            last == deferred[p] # NotDeferred /\ c \notin done[p] /\ registered[p] \subseteq done[p] \cup {c}
<1>1. TaskTypeOK /\ TrackerTypeOK /\ PoolTypeOK /\ TableTypeOK /\ WorkOK /\ SweptIsNotDeferred /\ p \in Parents
  BY TypeGroups, Constants DEF WorkIInv, BindIInv, OrchIInv
<1>2. deferred' = IF last THEN [deferred EXCEPT ![p] = NotDeferred] ELSE deferred
  BY DEF CompanionReady
<1>3. \A q \in Parents : deferred'[q] \in {deferred[q], NotDeferred}
  BY <1>1, <1>2 DEF TrackerTypeOK
<1>4. CASE last /\ GoForward(p, deferred[p], after)
  <2>1. ForwardableFrom(p, deferred[p])
    BY <1>1, <1>4, Constants DEF WorkOK, ForwardsInOrder, ForwardableFrom, SweptIsNotDeferred
  <2>. QED
    BY <1>1, <1>3, <1>4, <2>1, GoForwardEffect DEF MovesOn
<1>5. CASE Cleanup(after) /\ UNCHANGED task
  <2>1. \A q \in Parents : /\ q \in known' <=> q \in known
                           /\ \A s \in Stages : bound'[s][q] = bound[s][q]
    BY <1>1, <1>5, CleanupEffect, Constants
  <2>. QED
    BY <1>3, <1>5, <2>1 DEF MovesOn
<1>. QED
  BY <1>4, <1>5 DEF CompanionReady

LEMMA MovesOnWorks ==
  ASSUME WorkIInv, BindIInv', orch = "running", task["router"].at = "idle", MovesOn,
         UNCHANGED <<submitted, asyncChunk, replies>>, \A s \in Stages : work'[s] \subseteq work[s]
  PROVE  WorkIInv'
<1>1. Drops
  BY DEF MovesOn, Drops
<1>. QED
  BY <1>1, PollWorks DEF MovesOn

LEMMA PollKvReadyWorks ==
  ASSUME WorkIInv, BindIInv', NEW s \in Stages, NEW id \in Ids, PollKvReady(s, id)
  PROVE  WorkIInv'
<1>1. /\ task["router"].at = "idle" /\ id \in work[s] /\ id \in known
      /\ UNCHANGED <<submitted, work, orch, asyncChunk, replies>>
  BY DEF PollKvReady, Polls, Ready, Active
<1>2. CASE orch = "running"
  <2>1. CASE IsCompanion(id) /\ CompanionReady(id, {})
    BY <1>1, <1>2, <2>1, CompanionReadyMoves, MovesOnWorks DEF IsCompanion
  <2>2. CASE MayForward(id, s) /\ ForwardOrDefer(id, s)
    <3>1. id \in Parents
      BY <2>2, ForwardedIsParent DEF MayForward
    <3>. QED
      BY <1>1, <1>2, <2>2, <3>1, ForwardOrDeferMoves, MovesOnWorks
  <2>. QED
    BY <2>1, <2>2 DEF PollKvReady
<1>. QED
  BY <1>1, <1>2, FailingWorks

LEMMA PollFinishedWorks ==
  ASSUME WorkIInv, BindIInv', NEW s \in Stages, NEW id \in Ids, PollFinished(s, id)
  PROVE  WorkIInv'
<1>1. /\ task["router"].at = "idle" /\ id \in work[s] /\ orch # "stopped"
      /\ work' = [work EXCEPT ![s] = @ \ {id}]
      /\ UNCHANGED <<submitted, entries, orch, asyncChunk>>
  BY DEF PollFinished, Polls, Ready, Active, fate
<1>2. /\ TableTypeOK /\ TaskTypeOK /\ PoolTypeOK /\ TrackerTypeOK /\ OutboxTypeOK /\ OrchIInv
  BY TypeGroups DEF WorkIInv, OrchIInv, BindIInv
<1>3. \A u \in Stages : work'[u] \subseteq work[u] /\ (u = s => id \notin work'[u])
  BY <1>1, <1>2 DEF PoolTypeOK
<1>4. CASE orch = "running"
  <2>. USE <1>4
  <2>1. CASE UNCHANGED <<known, tracker, task, bound, replies>>
    BY <1>1, <1>3, <2>1, WorkFrame DEF tracker
  <2>2. CASE id \in known /\ IsCompanion(id) /\ CompanionReady(id, {id}) /\ UNCHANGED replies
    <3>1. id \in Companions /\ {id} \in SUBSET Companions
      BY <2>2 DEF IsCompanion
    <3>. QED
      BY <1>1, <1>3, <2>2, <3>1, CompanionReadyMoves, MovesOnWorks
  <2>3. CASE id \in known /\ s < FinalOf(id) /\ UNCHANGED replies /\ MayForward(id, s) /\ ForwardOrDefer(id, s)
    <3>1. id \in Parents
      BY <2>3, ForwardedIsParent
    <3>. QED
      BY <1>1, <1>3, <2>3, <3>1, ForwardOrDeferMoves, MovesOnWorks
  <2>4. CASE /\ id \in known /\ s = FinalOf(id) /\ Tell("end", {id})
             /\ IF id \in Parents THEN CleanupParent(id) ELSE UNCHANGED tracker
             /\ Cleanup(IF id \in Parents THEN Family(id) ELSE {id})
             /\ UNCHANGED task
    <3>. DEFINE ids == IF id \in Parents THEN Family(id) ELSE {id}
    <3>1. WorkOK
      BY DEF WorkIInv
    <3>2. \A q \in Parents : q \in ids <=> q = id
      BY <1>2, FamilyType
    <3>3. /\ \A q \in Parents : q \in known' <=> q \in known /\ q # id
          /\ \A q \in Parents, u \in Stages : q # id => bound'[u][q] = bound[u][q]
      <4>1. known' = known \ ids /\ \A u \in Stages, x \in Ids :
              bound'[u][x] = IF x \in ids THEN Unbound ELSE bound[u][x]
        BY <1>2, <2>4, CleanupEffect
      <4>. HIDE DEF ids
      <4>. QED
        BY <3>2, <4>1, Constants
    <3>4. \A q \in Parents : replies'[q] = IF q = id THEN 1 ELSE replies[q]
      <4>1. {id} \in SUBSET Ids /\ IsFiniteSet({id})
        BY FS_Singleton
      <4>2. \A q \in Parents : replies'[q] = replies[q] + (IF q \in {id} THEN 1 ELSE 0) /\ replies[q] \in Nat
        BY <1>2, <2>4, <4>1, TellEffect DEF OutboxTypeOK
      <4>3. id \in Parents => replies[id] = 0
        BY <1>1, <1>2, <2>4, KnownIsUntold
      <4>. QED
        BY <4>2, <4>3
    <3>5. ASSUME NEW u \in Stages, id \in Parents, id \in work'[u] PROVE u < FinalStage[id]
      <4>1. u <= FinalStage[id] /\ u # FinalStage[id]
        BY <1>3, <2>4, <3>1, <3>5, Constants DEF WorkOK, WorkIsDue
      <4>2. u \in Int /\ FinalStage[id] \in Int
        BY <3>5, Constants DEF Stages
      <4>. QED
        BY <4>1, <4>2
    <3>6. Drops
      BY <1>3, <2>4, <3>3, <3>4, <3>5 DEF Drops
    <3>7. \A q \in Parents : deferred'[q] \in {deferred[q], NotDeferred}
      BY <1>2, <2>4, CleanupParentEffect DEF tracker
    <3>8. task'["router"].at = "idle" /\ task'["handler"] = task["handler"]
      BY <1>1, <2>4
    <3>. QED
      BY <1>1, <3>6, <3>7, <3>8, PollWorks
  <2>5. CASE UNCHANGED <<deferred, task, bound, known, replies>>
    BY <1>1, <1>3, <2>5, WorkFrame
  <2>. QED
    BY <2>1, <2>2, <2>3, <2>4, <2>5 DEF PollFinished
<1>. QED
  BY <1>1, <1>4, FailingWorks

LEMMA PollErrorWorks ==
  ASSUME WorkIInv, BindIInv', NEW s \in Stages, NEW id \in Ids, PollError(s, id)
  PROVE  WorkIInv'
<1>. DEFINE running == [work EXCEPT ![s] = @ \ {id}]
            ids == Family(id)
<1>1. /\ orch # "stopped" /\ id \in known \cap Parents /\ Tell("error", {id})
      /\ CleanupParent(id) /\ Sweep("router", ids, 0, running)
      /\ UNCHANGED <<submitted, orch, asyncChunk>>
  BY DEF PollError, Polls, Ready, Active, fate
<1>2. /\ TableTypeOK /\ TaskTypeOK /\ PoolTypeOK /\ TrackerTypeOK /\ OutboxTypeOK
      /\ "router" \in Tasks /\ "handler" # "router" /\ 0 \in Nat
  BY TypeGroups, Constants DEF OrchIInv, BindIInv, WorkIInv
<1>3. running \in [Stages -> SUBSET Ids] /\ \A u \in Stages : running[u] \subseteq work[u]
  BY <1>2 DEF PoolTypeOK
<1>4. ids \in SUBSET Ids
  BY <1>1, <1>2, FamilyType
<1>5. \A q \in Parents : deferred'[q] \in {deferred[q], NotDeferred}
  BY <1>1, <1>2, CleanupParentEffect
<1>6. \A q \in Parents : q \in known \/ replies'[q] = replies[q]
  <2>1. {id} \in SUBSET Ids /\ IsFiniteSet({id})
    BY FS_Singleton
  <2>2. \A q \in Parents : replies'[q] = replies[q] + (IF q \in {id} THEN 1 ELSE 0) /\ replies[q] \in Nat
    BY <1>1, <1>2, <2>1, TellEffect DEF OutboxTypeOK
  <2>. QED
    BY <1>1, <2>2
<1>. HIDE DEF running, ids
<1>7. \A q \in Parents, u \in Stages : q \in ids /\ q \in known /\ u < 0 => q \notin running[u]
  BY OrchestratorAssumption DEF Stages
<1>8. CASE orch = "running"
  BY <1>1, <1>2, <1>3, <1>4, <1>5, <1>6, <1>7, <1>8, SweepWorks
<1>. QED
  BY <1>1, <1>8, FailingWorks

LEMMA WorkNext == ASSUME WorkIInv, [Next]_vars PROVE WorkIInv'
<1>1. BindIInv'
  BY BindNext DEF WorkIInv
<1>2. ASSUME UNCHANGED <<known, submitted, tracker, task, pools, orch, asyncChunk, replies>> PROVE WorkIInv'
  BY <1>1, <1>2, WorkFrame DEF pools, tracker
<1>3. ASSUME NEW p \in Parents, Generate(p) \/ Cancel(p) PROVE WorkIInv'
  BY <1>2, <1>3 DEF Generate, Cancel, fate
<1>4. ASSUME NEW c \in Companions, EnqueueCompanion(c) PROVE WorkIInv'
  BY <1>2, <1>4 DEF EnqueueCompanion, fate
<1>5. CASE Read \/ NoticeDeath
  BY <1>2, <1>5 DEF Read, NoticeDeath, fate
<1>6. CASE Handler
  <2>1. ASSUME NEW id \in Ids, Dispatch(id) PROVE WorkIInv'
    BY <1>1, <2>1, HandleAddRequestWorks, HandleAbortWorks, HandleAddCompanionWorks, HandlerSubmittedWorks
       DEF Dispatch
  <2>. QED
    BY <1>1, <1>6, <2>1, SweptWorks, Constants DEF Handler
<1>7. CASE RouterResumes
  <2>1. ASSUME NEW p \in Parents, \/ ForwardToNextStage(p) \/ NoInputs(p) \/ NoValidInputs(p)
                                 \/ ForwardRaises(p) \/ RouterSubmitted(p)
        PROVE  WorkIInv'
    <3>1. CASE ForwardRaises(p)
      BY <1>1, <3>1, FailingWorks DEF ForwardRaises, Raise
    <3>. QED
      BY <1>1, <2>1, <3>1, ForwardToNextStageWorks, NoInputsWorks, NoValidInputsWorks, RouterSubmittedWorks
  <2>. QED
    BY <1>1, <1>7, <2>1, SweptWorks, Constants DEF RouterResumes
<1>8. ASSUME NEW s \in Stages, NEW id \in Ids, PollKvReady(s, id) \/ Finishes(s, id) PROVE WorkIInv'
  BY <1>1, <1>8, PollKvReadyWorks, PollFinishedWorks, PollErrorWorks DEF Finishes
<1>9. ASSUME NEW s \in Stages, PollDead(s) PROVE WorkIInv'
  BY <1>1, <1>9, FailingWorks DEF PollDead, Raise
<1>10. ASSUME NEW s \in Stages, Die(s) PROVE WorkIInv'
  BY <1>2, <1>10 DEF Die
<1>11. CASE Stop
  BY <1>1, <1>11, FailingWorks DEF Stop
<1>12. CASE UNCHANGED vars
  BY <1>2, <1>12 DEF vars, fate
<1>. QED
  BY <1>3, <1>4, <1>5, <1>6, <1>7, <1>8, <1>9, <1>10, <1>11, <1>12 DEF Next

\* No engine computes for a request that was aborted or failed once the
\* orchestrator has forgotten it, under the same condition on diffusion engines.
THEOREM WorkOfKnown == Spec /\ (asyncChunk => DiffusionIsLast) => []NoOrphanWork
<1>1. Init /\ (asyncChunk => DiffusionIsLast) => WorkIInv
  <2>1. ASSUME Init PROVE WorkOK
    <3>1. \A p \in Parents : p \in Ids
      BY Constants
    <3>2. WorkIsBound /\ WorkIsDue /\ StagesInOrder /\ NoOrphanWork
      BY <2>1, <3>1 DEF Init, WorkIsBound, WorkIsDue, StagesInOrder, NoOrphanWork
    <3>3. \A t \in Tasks : task[t].at = "idle"
      BY <2>1, Constants DEF Init
    <3>4. SweptBehind /\ SweepCatchesUp
      BY <3>3, Constants DEF SweptBehind, SweptBy, SweepCatchesUp
    <3>5. ForwardsInOrder
      BY <2>1, <3>3, Constants DEF Init, ForwardsInOrder
    <3>. QED
      BY <3>2, <3>4, <3>5 DEF WorkOK
  <2>2. Init /\ (asyncChunk => DiffusionIsLast) => BindIInv
    BY BindInit
  <2>. QED
    BY <2>1, <2>2 DEF WorkIInv
<1>2. WorkIInv /\ [Next]_vars => WorkIInv'
  BY WorkNext
<1>3. WorkIInv => NoOrphanWork
  BY DEF WorkIInv, WorkOK, NoOrphanWork
<1>. QED
  BY <1>1, <1>2, <1>3, PTL DEF Spec
=============================================================================
