---------------------------- MODULE Orchestrator ----------------------------
(***************************************************************************)
(* The orchestrator thread between AsyncOmni, which callers use, and the   *)
(* engines of the stages: its request handler and its output task (the     *)
(* router), the stage pools, the CFG companion tracker, and the task of    *)
(* AsyncOmni that dispatches the output queue (the reader).                *)
(*                                                                         *)
(* Handler and router are coroutines of one loop: a step runs to the next  *)
(* await that really suspends, which is the submission to an engine or     *)
(* the abort sent to one (puts on the unbounded queues do not suspend).    *)
(* The engines are external: work[s] is what stage s is computing, and any *)
(* of it may turn out next.  An output is polled as it is produced; of an  *)
(* id that is no longer known a later poll would drop it.                  *)
(*                                                                         *)
(* Abstracted: prompts and parameters, messages that neither end a request *)
(* nor report an error (they only make generate() yield), metrics, the     *)
(* running counter, streaming input, prefill/decode disaggregation (PD),   *)
(* control RPCs, and forwarding one output as several inputs.  A prompt    *)
(* comes with token ids, so prewarming is not skipped.                     *)
(***************************************************************************)
EXTENDS Integers, FiniteSets, Sequences, SequencesExt

CONSTANTS
  Parents,      \* requests of callers, by id; an id is used once
  Companions,   \* CFG companion requests
  ParentOf,     \* companion -> parent
  LastStage,    \* stages are 0..LastStage
  FinalStage,   \* parent -> final_stage_id
  Diffusion,    \* stages whose engine is a diffusion engine
  Replicas,     \* stage -> number of replicas
  MayDie,       \* stages whose engine may die
  MayRaise,     \* stages whose input processing may raise
  NoId          \* "no request", in a message

ASSUME OrchestratorAssumption ==
  /\ LastStage \in Nat
  /\ Parents \cap Companions = {} /\ NoId \notin Parents \cup Companions
  /\ ParentOf \in [Companions -> Parents]
  /\ FinalStage \in [Parents -> 0..LastStage]
  /\ Replicas \in [0..LastStage -> Nat \ {0}]
  /\ Diffusion \subseteq 0..LastStage /\ MayDie \subseteq 0..LastStage
  /\ MayRaise \subseteq 0..LastStage

VARIABLES
  phase,       \* per parent: how its generate() call stands
  expanding,   \* companions that the current generate() has still to queue
  reader,      \* final_output_task: "none", "reading", or "dead" (done, kept)
  inbox,       \* request_async_queue
  outbox,      \* output_async_queue
  known,       \* DOMAIN request_states
  submitted,   \* per id: DOMAIN stage_submit_ts
  registered,  \* per parent: the companions in _companion_map
  done,        \* per parent: the companions in _done
  deferred,    \* per parent: the stage of its entry in _pending_parents
  task,        \* where the handler and the router stand
  orch,        \* "running", "failing" (a task has raised) or "stopped"
  polled,      \* the LLM stage inside whose poll the router forwards
  fatal,       \* _fatal_error is set
  bound,       \* per stage: _request_bindings, id -> replica
  nextReplica, \* per stage: _next_replica_id
  work,        \* external: ids each stage's engines are computing
  dead,        \* external: stages whose engine has died
  asyncChunk,  \* the pipeline runs in async-chunk mode (fixed)
  unfed,       \* history: parents whose next stage was submitted no input
  replies,     \* history, per parent: terminal messages put on the outbox
  entries      \* history, per stage and id: how often its engine got the id

front == <<phase, expanding, reader>>
tracker == <<registered, done, deferred>>
pools == <<bound, nextReplica, work, entries>>
forward == <<polled, unfed>>
fate == <<orch, fatal, dead, asyncChunk, forward>>
vars == <<front, inbox, outbox, known, submitted, tracker, task, pools, fate, replies>>

Stages == 0..LastStage
Ids == Parents \cup Companions
Tasks == {"handler", "router"}
Unbound == -1
NotDeferred == -1
NotPolled == -1
FinalOf(id) == IF id \in Companions THEN 0 ELSE FinalStage[id]
CompanionsOf(p) == {c \in Companions : ParentOf[c] = p}
Idle == [at |-> "idle", ids |-> {}, stage |-> 0, after |-> {}]

Init ==
  /\ phase = [p \in Parents |-> "new"] /\ expanding = {} /\ reader = "none"
  /\ inbox = <<>> /\ outbox = <<>>
  /\ known = {} /\ submitted = [id \in Ids |-> {}]
  /\ registered = [p \in Parents |-> {}] /\ done = [p \in Parents |-> {}] 
  /\ deferred = [p \in Parents |-> NotDeferred]
  /\ task = [t \in Tasks |-> Idle]
  /\ orch = "running" /\ fatal = FALSE /\ dead = {} /\ polled = NotPolled /\ unfed = {}
  /\ asyncChunk \in BOOLEAN
  /\ bound = [s \in Stages |-> [id \in Ids |-> Unbound]]
  /\ nextReplica = [s \in Stages |-> 0]
  /\ work = [s \in Stages |-> {}]
  /\ replies = [p \in Parents |-> 0] /\ entries = [s \in Stages |-> [id \in Ids |-> 0]]
-----------------------------------------------------------------------------
(* AsyncOmni                                                               *)

Msg(type, id) == [type |-> type, id |-> id]

\* generate(): the request is queued at once, its companions one by one while
\* the orchestrator already runs (the caller's loop does nothing else).
Generate(p) ==
  /\ phase[p] = "new" /\ expanding = {}
  /\ phase' = [phase EXCEPT ![p] = "open"]
  /\ expanding' = CompanionsOf(p)
  /\ reader' = IF reader = "none" THEN "reading" ELSE reader
  /\ inbox' = Append(inbox, Msg("add", p))
  /\ UNCHANGED <<outbox, known, submitted, tracker, task, pools, fate, replies>>

EnqueueCompanion(c) ==
  /\ c \in expanding
  /\ expanding' = expanding \ {c}
  /\ inbox' = Append(inbox, Msg("companion", c))
  /\ UNCHANGED <<phase, reader, outbox, known, submitted, tracker, task, pools, fate, replies>>

\* The caller goes away, or the input of a companion is refused.
Cancel(p) ==
  /\ phase[p] = "open" /\ expanding \subseteq CompanionsOf(p)
  /\ phase' = [phase EXCEPT ![p] = "cancelled"]
  /\ expanding' = {}
  /\ inbox' = Append(inbox, Msg("abort", p))
  /\ UNCHANGED <<reader, outbox, known, submitted, tracker, task, pools, fate, replies>>

Open == {p \in Parents : phase[p] = "open"}

\* Mutant: the requests that wait are not told of a fatal error.
FailAllQuietly(readerAfter) == reader' = readerAfter /\ UNCHANGED <<phase, inbox>>

\* The reader ends with an error, which each waiting generate() raises after
\* having queued an abort; only a non-fatal one lets it be started again.
FailAll(readerAfter) ==
  /\ phase' = [p \in Parents |-> IF p \in Open THEN "failed" ELSE phase[p]]
  /\ inbox' = inbox \o SetToSeq({Msg("abort", p) : p \in Open})
  /\ reader' = readerAfter

ReadEnd(id) ==
  /\ IF id \in Open THEN phase' = [phase EXCEPT ![id] = "done"] ELSE UNCHANGED phase
  /\ UNCHANGED <<inbox, reader>>

\* The output says itself that it failed: generate() raises and aborts.
ReadBad(id) ==
  /\ IF id \in Open THEN phase' = [phase EXCEPT ![id] = "failed"] /\ inbox' = Append(inbox, Msg("abort", id))
     ELSE UNCHANGED <<phase, inbox>>
  /\ UNCHANGED reader

Read ==
  /\ reader = "reading" /\ expanding = {} /\ outbox # <<>>
  /\ outbox' = Tail(outbox)
  /\ LET m == Head(outbox) IN
       \/ m.type = "end" /\ ReadEnd(m.id)
       \/ m.type = "bad" /\ ReadBad(m.id)
       \/ m.type = "error" /\ FailAll("none")
       \/ m.type = "fatal" /\ FailAll("dead")
  /\ UNCHANGED <<expanding, known, submitted, tracker, task, pools, fate, replies>>

\* try_get_output_async(): the queue was found empty, and then the thread
\* dead; what it put in between stays in the queue.
NoticeDeath ==
  /\ reader = "reading" /\ expanding = {} /\ orch = "stopped"
  /\ \A i \in DOMAIN outbox : outbox[i].type = "fatal"
  /\ FailAll("none")
  /\ UNCHANGED <<expanding, outbox, known, submitted, tracker, task, pools, fate, replies>>
-----------------------------------------------------------------------------
(* StagePool                                                               *)

\* Mutant: the affinity request is ignored.
SelectedAnywhere(s, id, affinity) ==
  IF bound[s][id] # Unbound THEN bound[s][id] ELSE nextReplica[s]

\* select_replica_id: the replica already bound, else that of the affinity
\* request, else round robin.
Selected(s, id, affinity) ==
  IF bound[s][id] # Unbound THEN bound[s][id]
  ELSE IF affinity # NoId /\ bound[s][affinity] # Unbound THEN bound[s][affinity]
  ELSE nextReplica[s]

RoundRobinUsed(s, id, affinity) ==
  bound[s][id] = Unbound /\ (affinity = NoId \/ bound[s][affinity] = Unbound)

\* Mutant: the round robin does not start over.
SubmitUnwrapped(s, id, affinity) ==
  /\ bound' = [bound EXCEPT ![s][id] = Selected(s, id, affinity)]
  /\ nextReplica' = IF RoundRobinUsed(s, id, affinity) THEN [nextReplica EXCEPT ![s] = @ + 1] ELSE nextReplica
  /\ work' = [work EXCEPT ![s] = @ \cup {id}]
  /\ entries' = [entries EXCEPT ![s][id] = @ + 1]

\* submit_initial up to its await.
Submit(s, id, affinity) ==
  /\ bound' = [bound EXCEPT ![s][id] = Selected(s, id, affinity)]
  /\ nextReplica' = IF RoundRobinUsed(s, id, affinity)
                    THEN [nextReplica EXCEPT ![s] = (@ + 1) % Replicas[s]] ELSE nextReplica
  /\ work' = [work EXCEPT ![s] = @ \cup {id}]
  /\ entries' = [entries EXCEPT ![s][id] = @ + 1]

\* The pools of the stages from s on that hold a binding of one of ids.
PoolsBinding(ids, s) == {u \in s..LastStage : \E id \in ids : bound[u][id] # Unbound}
-----------------------------------------------------------------------------
(* What both tasks do                                                      *)

Rest(t) == task' = [task EXCEPT ![t] = Idle]
Await(t, at, ids, s, after) ==
  task' = [task EXCEPT ![t] = [at |-> at, ids |-> ids, stage |-> s, after |-> after]]

\* One loop runs both: while the router is inside a forward that has not
\* reached its await, the handler does not run.
Active(t) ==
  /\ orch # "stopped" /\ task[t].at # "failed"
  /\ t = "handler" => task["router"].at # "forward"
Ready(t) == Active(t) /\ task[t].at = "idle"

\* The task raises: run() will cancel the other one and end the thread.
Raise(t) == Await(t, "failed", {}, 0, {}) /\ orch' = "failing"

\* Submit and await; the client of an engine found dead raises instead.
StartSubmit(t, id, s, affinity, after) ==
  \/ Submit(s, id, affinity) /\ Await(t, "submitting", {id}, s, after) /\ UNCHANGED orch
  \/ s \in dead /\ Raise(t) /\ UNCHANGED pools

\* Mutant: the bindings stay.
CleanupOfStates(ids) == known' = known \ ids /\ UNCHANGED bound

\* _cleanup_request_ids(ids): does not suspend.
Cleanup(ids) ==
  /\ bound' = [s \in Stages |-> [id \in Ids |-> IF id \in ids THEN Unbound ELSE bound[s][id]]]
  /\ known' = known \ ids

\* Mutant: the bindings are released before the aborts that need them.
SweepReleased(t, ids, s, running) ==
  work' = running /\ Rest(t) /\ Cleanup(ids) /\ UNCHANGED <<nextReplica, entries>>

\* _cleanup_request_ids(ids, abort=True) from the pool of stage s on: each
\* pool that holds a binding sends the abort and is awaited.
Sweep(t, ids, s, running) ==
  /\ work' = running
  /\ IF PoolsBinding(ids, s) # {}
     THEN Await(t, "aborting", ids, Min(PoolsBinding(ids, s)), {}) /\ UNCHANGED <<bound, known>>
     ELSE Rest(t) /\ Cleanup(ids)
  /\ UNCHANGED <<nextReplica, entries>>

\* The await for pool s is over: its engines have dropped the requests.
Swept(t) ==
  LET ids == task[t].ids  s == task[t].stage IN
  /\ Active(t) /\ task[t].at = "aborting"
  /\ Sweep(t, ids, s + 1, [work EXCEPT ![s] = @ \ {id \in ids : bound[s][id] # Unbound}])
  /\ UNCHANGED <<front, inbox, outbox, submitted, tracker, fate, replies>>

\* Mutant: the entry of a parent held back stays.
CleanupParentUndeferred(p) ==
  registered' = [registered EXCEPT ![p] = {}] /\ done' = [done EXCEPT ![p] = {}] /\ UNCHANGED deferred

\* CfgCompanionTracker.cleanup_parent
CleanupParent(p) ==
  /\ registered' = [registered EXCEPT ![p] = {}]
  /\ done' = [done EXCEPT ![p] = {}]
  /\ deferred' = [deferred EXCEPT ![p] = NotDeferred]

Family(p) == {p} \cup registered[p]
IsCompanion(id) == id \in Companions /\ id \in registered[ParentOf[id]]

\* Terminal messages for the given ids.
Tell(type, ids) ==
  /\ outbox' = outbox \o SetToSeq({Msg(type, id) : id \in ids})
  /\ replies' = [p \in Parents |-> replies[p] + (IF p \in ids THEN 1 ELSE 0)]

\* Mutant: those that were told stay known.
EngineDeadKeeps(s) ==
  fatal' = TRUE /\ Tell("fatal", {id \in known : s \in submitted[id]}) /\ UNCHANGED known

\* EngineDeadError inside the poll of an LLM stage: the requests submitted to
\* that stage are told before the router raises.
EngineDead(s) ==
  LET told == {id \in known : s \in submitted[id]} IN
  /\ fatal' = TRUE
  /\ Tell("fatal", told)
  /\ known' = known \ told
-----------------------------------------------------------------------------
(* The request handler                                                     *)

Received(type, id) == Ready("handler") /\ inbox # <<>> /\ Head(inbox) = Msg(type, id) /\ inbox' = Tail(inbox)

HandleAddRequest(p) ==
  /\ Received("add", p)
  /\ known' = known \cup {p}
  /\ submitted' = [submitted EXCEPT ![p] = {0}]
  /\ StartSubmit("handler", p, 0, NoId, {})
  /\ UNCHANGED <<front, outbox, tracker, fatal, dead, asyncChunk, forward, replies>>

\* A companion whose parent is no longer known is dropped.
HandleAddCompanion(c) ==
  LET p == ParentOf[c] IN
  /\ Received("companion", c)
  /\ IF p \in known
     THEN /\ registered' = [registered EXCEPT ![p] = @ \cup {c}]
          /\ known' = known \cup {c}
          /\ submitted' = [submitted EXCEPT ![c] = {0}]
          /\ StartSubmit("handler", c, 0, p, {})
     ELSE UNCHANGED <<registered, known, submitted, task, pools, orch>>
  /\ UNCHANGED <<front, outbox, done, deferred, fatal, dead, asyncChunk, forward, replies>>

\* Back from submit_initial: _prewarm_async_chunk_stages goes on to the next
\* stage, which it marks as submitted before it awaits.
HandlerSubmitted(id) ==
  LET next == task["handler"].stage + 1 IN
  /\ Active("handler") /\ task["handler"].at = "submitting" /\ task["handler"].ids = {id}
  /\ IF asyncChunk /\ next <= FinalOf(id)
     THEN /\ submitted' = [submitted EXCEPT ![id] = @ \cup {next}]
          /\ StartSubmit("handler", id, next, NoId, {})
     ELSE Rest("handler") /\ UNCHANGED <<submitted, pools, orch>>
  /\ UNCHANGED <<front, inbox, outbox, known, tracker, fatal, dead, asyncChunk, forward, replies>>

HandleAbort(p) ==
  /\ Received("abort", p)
  /\ CleanupParent(p)
  /\ Sweep("handler", Family(p), 0, work)
  /\ UNCHANGED <<front, outbox, submitted, fate, replies>>
-----------------------------------------------------------------------------
(* The router: _orchestration_loop and what it calls                       *)

\* Mutant: only the mode and the position count.
MayForwardAgain(id, s) == s < FinalOf(id) /\ ~asyncChunk

\* The next stage was not submitted yet.
MayForward(id, s) == s < FinalOf(id) /\ s + 1 \notin submitted[id] /\ ~asyncChunk

Waiting(p) == ~(registered[p] \subseteq done[p])

\* The router goes on, without a suspension, to _forward_to_next_stage(p, s),
\* after which it cleans up the companions in `after`.
GoForward(p, s, after) == Await("router", "forward", {p}, s, after) /\ UNCHANGED <<bound, known>>

Forwards(p) == task["router"].at = "forward" /\ task["router"].ids = {p} /\ orch # "stopped"

\* The input is submitted to the next stage.
ForwardToNextStage(p) ==
  LET next == task["router"].stage + 1 IN
  /\ Forwards(p)
  /\ Submit(next, p, NoId)
  /\ Await("router", "submitting", {p}, next, task["router"].after)
  /\ polled' = NotPolled
  /\ UNCHANGED <<front, inbox, outbox, known, submitted, tracker, orch, fatal, dead, asyncChunk, unfed, replies>>

\* process_engine_inputs makes no input of the output for an LLM stage: the
\* stage is marked as submitted and nothing is.
NoInputs(p) ==
  LET next == task["router"].stage + 1 IN
  /\ Forwards(p) /\ next \notin Diffusion
  /\ submitted' = [submitted EXCEPT ![p] = @ \cup {next}]
  /\ unfed' = unfed \cup {p}
  /\ Cleanup(task["router"].after)
  /\ Rest("router")
  /\ polled' = NotPolled
  /\ UNCHANGED <<front, inbox, outbox, tracker, nextReplica, work, entries, orch, fatal, dead, asyncChunk, replies>>

\* Making the input raises, or the client of the next stage finds its engine
\* dead.  Inside the poll of an LLM stage the latter counts as a death of that
\* stage; elsewhere the router just raises.
ForwardRaises(p) ==
  LET next == task["router"].stage + 1 IN
  /\ Forwards(p)
  /\ \/ next \in MayRaise /\ UNCHANGED <<fatal, outbox, known, replies>>
     \/ next \in dead /\ polled = NotPolled /\ UNCHANGED <<fatal, outbox, known, replies>>
     \/ next \in dead /\ polled # NotPolled /\ EngineDead(polled)
  /\ Raise("router")
  /\ polled' = NotPolled
  /\ UNCHANGED <<front, inbox, submitted, tracker, pools, dead, asyncChunk, unfed>>

\* The diffusion stage gets no valid input: the request ends with an output
\* that carries the error.
NoValidInputs(p) ==
  /\ Forwards(p) /\ task["router"].stage + 1 \in Diffusion
  /\ Tell("bad", {p})
  /\ CleanupParent(p)
  /\ Cleanup(Family(p) \cup task["router"].after)
  /\ Rest("router")
  /\ polled' = NotPolled
  /\ UNCHANGED <<front, inbox, submitted, nextReplica, work, entries, orch, fatal, dead, asyncChunk, unfed>>

\* Back from submit_initial: only now is the stage marked as submitted.
RouterSubmitted(p) ==
  /\ Active("router") /\ task["router"].at = "submitting" /\ task["router"].ids = {p}
  /\ submitted' = [submitted EXCEPT ![p] = @ \cup {task["router"].stage}]
  /\ Cleanup(task["router"].after)
  /\ Rest("router")
  /\ UNCHANGED <<front, inbox, outbox, tracker, nextReplica, work, entries, fate, replies>>

\* A parent whose output is ready for the next stage waits for its companions.
ForwardOrDefer(p, s) ==
  IF Waiting(p)
  THEN deferred' = [deferred EXCEPT ![p] = s] /\ UNCHANGED <<task, bound, known>>
  ELSE GoForward(p, s, {}) /\ UNCHANGED deferred

\* Mutant: a companion that is ready releases nobody.
CompanionReadyAlone(c, after) ==
  /\ done' = [done EXCEPT ![ParentOf[c]] = @ \cup {c}]
  /\ Cleanup(after) /\ UNCHANGED <<task, deferred>>

\* _handle_cfg_companion_ready, then cleaning up the companions in `after`.
CompanionReady(c, after) ==
  LET p == ParentOf[c]
      last == deferred[p] # NotDeferred /\ c \notin done[p] /\ registered[p] \subseteq done[p] \cup {c} IN
  /\ done' = [done EXCEPT ![p] = @ \cup {c}]
  /\ deferred' = IF last THEN [deferred EXCEPT ![p] = NotDeferred] ELSE deferred
  /\ IF last /\ p \in known /\ deferred[p] + 1 \notin submitted[p]
     THEN GoForward(p, deferred[p], after)
     ELSE Cleanup(after) /\ UNCHANGED task

Polls(s, id) == Ready("router") /\ s \notin dead /\ id \in work[s]

\* _handle_kv_ready_raw_outputs, inside the try of the poll of stage s: the
\* request goes on computing there.
PollKvReady(s, id) ==
  /\ Polls(s, id) /\ s \notin Diffusion /\ ~asyncChunk /\ id \in known
  /\ \/ IsCompanion(id) /\ CompanionReady(id, {})
     \/ ~IsCompanion(id) /\ MayForward(id, s) /\ ForwardOrDefer(id, s) /\ UNCHANGED done
  /\ polled' = IF task'["router"].at = "forward" THEN s ELSE NotPolled
  /\ UNCHANGED <<front, inbox, outbox, submitted, registered, nextReplica, work, entries,
                 orch, fatal, dead, asyncChunk, unfed, replies>>

\* The last output of id at stage s.
PollFinished(s, id) ==
  /\ Polls(s, id)
  /\ work' = [work EXCEPT ![s] = @ \ {id}]
  /\ \/ /\ id \notin known
        /\ UNCHANGED <<outbox, known, tracker, task, bound, replies>>
     \/ /\ id \in known /\ IsCompanion(id)
        /\ CompanionReady(id, {id})
        /\ UNCHANGED <<outbox, registered, replies>>
     \/ /\ id \in known /\ ~IsCompanion(id) /\ s = FinalOf(id)
        /\ Tell("end", {id})
        /\ IF id \in Parents THEN CleanupParent(id) ELSE UNCHANGED tracker
        /\ Cleanup(IF id \in Parents THEN Family(id) ELSE {id})
        /\ UNCHANGED task
     \/ /\ id \in known /\ s < FinalOf(id)
        /\ IF MayForward(id, s) THEN ForwardOrDefer(id, s) ELSE UNCHANGED <<deferred, task, bound, known>>
        /\ UNCHANGED <<outbox, registered, done, replies>>
  /\ UNCHANGED <<front, inbox, submitted, nextReplica, entries, fate>>

\* A diffusion engine ends id with an error (_handle_stage_error).
PollError(s, id) ==
  /\ Polls(s, id) /\ s \in Diffusion /\ id \in known \cap Parents
  /\ Tell("error", {id})
  /\ CleanupParent(id)
  /\ Sweep("router", Family(id), 0, [work EXCEPT ![s] = @ \ {id}])
  /\ UNCHANGED <<front, inbox, submitted, fate>>

\* EngineDeadError at a poll; that of a diffusion stage is not caught there.
PollDead(s) ==
  /\ Ready("router") /\ s \in dead
  /\ IF s \in Diffusion THEN UNCHANGED <<fatal, outbox, known, replies>> ELSE EngineDead(s)
  /\ Raise("router")
  /\ UNCHANGED <<front, inbox, submitted, tracker, pools, dead, asyncChunk, forward>>
-----------------------------------------------------------------------------
(* The end of the thread, and the engines                                  *)

Queued == {p \in Parents : \E i \in DOMAIN inbox : inbox[i] = Msg("add", p)}

\* The finally of run(), with _drain_pending_requests_on_fatal if an LLM stage
\* has died, and the message of the thread that crashed.
Stop ==
  LET told == IF fatal THEN Queued \cup known ELSE {} IN
  /\ orch = "failing" /\ task["router"].at # "forward"
  /\ orch' = "stopped"
  /\ outbox' = (outbox \o SetToSeq({Msg("fatal", id) : id \in told})) \o <<Msg("fatal", NoId)>>
  /\ replies' = [p \in Parents |-> replies[p] + (IF p \in told THEN 1 ELSE 0)]
  /\ inbox' = IF fatal THEN <<>> ELSE inbox
  /\ known' = known \ told
  /\ task' = [t \in Tasks |-> [Idle EXCEPT !.at = "failed"]]
  /\ UNCHANGED <<front, submitted, tracker, pools, fatal, dead, asyncChunk, forward>>

Die(s) ==
  /\ s \in MayDie /\ dead = {} /\ dead' = {s}
  /\ UNCHANGED <<front, inbox, outbox, known, submitted, tracker, task, pools, orch, fatal, asyncChunk, forward, replies>>
-----------------------------------------------------------------------------
Dispatch(id) ==
  \/ id \in Parents /\ (HandleAddRequest(id) \/ HandleAbort(id))
  \/ id \in Companions /\ HandleAddCompanion(id)
  \/ HandlerSubmitted(id)

Handler == (\E id \in Ids : Dispatch(id)) \/ Swept("handler")

RouterResumes ==
  \/ \E p \in Parents : \/ ForwardToNextStage(p) \/ NoInputs(p) \/ NoValidInputs(p)
                        \/ ForwardRaises(p) \/ RouterSubmitted(p)
  \/ Swept("router")

Finishes(s, id) == PollFinished(s, id) \/ PollError(s, id)

Next ==
  \/ \E p \in Parents : Generate(p) \/ Cancel(p)
  \/ \E c \in Companions : EnqueueCompanion(c)
  \/ Read \/ NoticeDeath
  \/ Handler \/ RouterResumes
  \/ \E s \in Stages : \/ \E id \in Ids : PollKvReady(s, id) \/ Finishes(s, id)
                       \/ PollDead(s)
                       \/ Die(s)
  \/ Stop

\* The router always has something to do while a living engine, which finishes
\* some of its work in the end, has any, or a dead one is to be noticed.
Router ==
  \/ RouterResumes
  \/ \E s \in Stages : PollDead(s) \/ \E id \in Ids : Finishes(s, id)

\* The loops keep running.
Fairness ==
  /\ WF_vars(\E c \in Companions : EnqueueCompanion(c))
  /\ WF_vars(Read \/ NoticeDeath)
  /\ WF_vars(Handler) /\ WF_vars(Router) /\ WF_vars(Stop)

Spec == Init /\ [][Next]_vars /\ Fairness
-----------------------------------------------------------------------------
(* Properties                                                              *)

\* Type correctness of the state of AsyncOmni, the orchestrator, its tracker
\* and its pools.
OrchTypeOK ==
  /\ phase \in [Parents -> {"new", "open", "done", "failed", "cancelled"}]
  /\ expanding \subseteq Companions
  /\ reader \in {"none", "reading", "dead"}
  /\ inbox \in Seq([type : {"add", "companion", "abort"}, id : Ids])
  /\ outbox \in Seq([type : {"end", "bad", "error", "fatal"}, id : Ids \cup {NoId}])
  /\ known \subseteq Ids
  /\ submitted \in [Ids -> SUBSET Stages]
  /\ registered \in [Parents -> SUBSET Companions] /\ done \in [Parents -> SUBSET Companions]
  /\ \A p \in Parents : registered[p] \subseteq CompanionsOf(p) /\ done[p] \subseteq CompanionsOf(p)
  /\ deferred \in [Parents -> {NotDeferred} \cup Stages]
  /\ task \in [Tasks -> [at : {"idle", "submitting", "forward", "aborting", "failed"},
                         ids : SUBSET Ids, stage : Stages, after : SUBSET Companions]]
  /\ orch \in {"running", "failing", "stopped"} /\ fatal \in BOOLEAN
  /\ bound \in [Stages -> [Ids -> Int]] /\ nextReplica \in [Stages -> Int]
  /\ \A s \in Stages : bound[s] \in [Ids -> {Unbound} \cup 0..(Replicas[s] - 1)]
  /\ \A s \in Stages : nextReplica[s] \in 0..(Replicas[s] - 1)
  /\ polled \in {NotPolled} \cup Stages /\ unfed \subseteq Parents
  /\ work \in [Stages -> SUBSET Ids] /\ dead \subseteq Stages /\ asyncChunk \in BOOLEAN
  /\ replies \in [Parents -> Nat] /\ entries \in [Stages -> [Ids -> Nat]]

\* No engine is given a request twice, whether its stage is reached by the
\* KV-ready signal, the last output, the last companion or the prewarming.
SubmittedOnce == \A s \in Stages, id \in Ids : entries[s][id] <= 1

\* At most one terminal message is put on the output queue for a request,
\* aborts, stage errors and the death of a stage included.
OneReplyEach == \A p \in Parents : replies[p] <= 1

\* A pool keeps a binding only of a request the orchestrator still knows.
NoOrphanBinding ==
  orch = "running" => \A s \in Stages, id \in Ids : bound[s][id] # Unbound => id \in known

\* Once the orchestrator has forgotten a request whose result it has not
\* delivered (it was aborted or failed), no engine computes it any more: the
\* sweep over the pools catches up with a forward that is under way.
NoOrphanWork ==
  orch = "running" =>
    \A s \in Stages, p \in Parents :
      p \in work[s] /\ p \notin known => replies[p] = 1 /\ s < FinalStage[p]

\* A companion is computed by the replica that computes its parent, where the
\* diffusion stage looks for the caches of both.
CompanionsShareReplica ==
  \A c \in Companions :
    LET p == ParentOf[c] IN
    bound[0][c] # Unbound /\ bound[0][p] # Unbound => bound[0][c] = bound[0][p]

\* A parent is held back only for a companion that is still to come.
DeferredIsWaiting ==
  orch = "running" =>
    \A p \in Parents : deferred[p] # NotDeferred => Waiting(p) /\ p \in known

\* AsyncOmni keeps its promise to its callers (RequestLifecycle).
Lifecycle == INSTANCE RequestLifecycle WITH
  Requests <- Parents,
  phase <- [p \in Parents |-> IF phase[p] = "open" /\ reader = "dead" THEN "unheard"
                              ELSE IF phase[p] = "open" /\ p \in unfed THEN "lost" ELSE phase[p]],
  down <- (reader = "dead")
LifecycleSpec == Lifecycle!Spec

\* Whatever the orchestrator comes to know it forgets, unless it stops or has
\* made no input of the request for its next stage: that one stays.
KnownIsForgotten ==
  \A id \in Ids : (id \in known) ~> (id \notin known \/ id \in unfed \/ orch = "stopped")

\* While every engine lives, a request fails only if an error of its own was
\* reported.
OnlyOwnError ==
  \A p \in Parents : phase[p] = "failed" /\ dead = {} => replies[p] = 1
=============================================================================
