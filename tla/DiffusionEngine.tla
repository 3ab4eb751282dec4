--------------------------- MODULE DiffusionEngine ---------------------------
(***************************************************************************)
(* DiffusionEngine around its scheduler: the asyncio event loop, where one *)
(* task per request calls step() -> async_add_req_and_wait_for_response(), *)
(* the busy-loop thread that purges aborts, schedules, executes, updates   *)
(* and hands out results, and the step-mode model runner behind execute_fn.*)
(*                                                                         *)
(* The two threads share the scheduler, _out_queue and abort_queue.  Only  *)
(* add_request(), abort() and the schedule() call hold the condition's     *)
(* lock; everything else the busy loop does runs unlocked and is split     *)
(* here where the event loop can come in between: the rebuild of the deque *)
(* when a waiting request is aborted, and pop_request_state().             *)
(*                                                                         *)
(* Abstracted: tensors, pre/post processing, lock timeouts, collective_rpc *)
(* and profiling, close(), the dummy run of __init__ (it has ended when    *)
(* the loop starts and leaves only its own id in _finished_req_ids), a     *)
(* pipeline's interrupt flag (nothing in the code sets it). A call into a  *)
(* pipeline returns or raises, and the executor stays alive.               *)
(***************************************************************************)
EXTENDS DiffusionScheduler

CONSTANTS
  Steps,     \* number of denoise steps of every request
  Faulty,    \* requests whose own execution may raise
  AbortId,   \* the request id the client of each request aborts it with
  NoId       \* no scheduler request id yet

ASSUME EngineAssumption ==
  /\ Steps \in [Requests -> Nat \ {0}]
  /\ Faulty \subseteq Requests
  /\ AbortId \in [Requests -> PublicIds]
  /\ NoId \notin SchedIds
  /\ ~StepMode => MaxRunning = 1

VARIABLES
  client,      \* per request: what its task in the event loop is doing
  schedIdOf,   \* per request: the sched_req_id add_request() returned
  outQueue,    \* _out_queue: sched id -> the request whose future it holds
  abortQueue,  \* abort_queue
  callbacks,   \* call_soon_threadsafe(fut.set_result, out) not yet run
  pc,          \* where the busy-loop thread is
  purging,     \* sched ids _abort_requests() has still to finish
  rebuild,     \* the deque rebuild under way: [id, from], or {}
  handling,    \* the popped request being finalized: [id, ids, client, out]
  stateCache,  \* the runner's state_cache: sched id -> step_index
  outcome,     \* the RunnerOutput of the batch just executed
  raced        \* history: which of Races have happened

loopVars == <<client, schedIdOf, outQueue, abortQueue, callbacks>>
busyVars == <<pc, purging, rebuild, handling, stateCache, outcome>>
vars == <<schedVars, loopVars, busyVars, raced>>

Answers == {"result", "error", "aborted"}
ClientStates == {"idle", "added", "awaiting", "failed", "cancelled"} \cup Answers

Init ==
  /\ SchedInit
  /\ client = [r \in Requests |-> "idle"]
  /\ schedIdOf = [r \in Requests |-> NoId]
  /\ outQueue = <<>>
  /\ abortQueue = <<>>
  /\ callbacks = {}
  /\ pc = "top"
  /\ purging = {}
  /\ rebuild = {}
  /\ handling = {}
  /\ stateCache = <<>>
  /\ outcome = <<>>
  /\ raced = {}
-----------------------------------------------------------------------------
(* The event loop.  Between add_request() and the await in get_result() a  *)
(* task does not yield, so no other task runs.                             *)

\* What can go wrong with an id in use: "append", an add_request() meets the
\* rebuild of the deque; "abort", an abort meant for one request finds another
\* under its id; "release", ids are unregistered under a request that reuses them.
Races == {"append", "abort", "release"}

RacesOfSubmit(r) ==
  (IF rebuild # {} THEN {"append"} ELSE {})
    \cup (IF IdsOf(r) \cap ToSet(abortQueue) # {} THEN {"abort"} ELSE {})
    \cup (IF \E h \in handling : IdsOf(r) \cap h.ids # {} THEN {"release"} ELSE {})

\* The request an abort of id would reach, if any.
Reached(id) ==
  {requestStates[s].req : s \in {t \in Known : id \in DOMAIN requestIdToSched
                                               /\ requestIdToSched[id] = t}}

RacesOfAbort(r) == IF Reached(AbortId[r]) \subseteq {r} THEN {} ELSE {"abort"}

LoopIsFree == \A r \in Requests : client[r] # "added"

\* add_request(): the scheduler call, the future and the notify, under _cv.
Submit(r) ==
  /\ LoopIsFree
  /\ client[r] = "idle"
  /\ \E s \in SchedIds :
       \/ /\ AddAccepted(r, s)
          /\ client' = [client EXCEPT ![r] = "added"]
          /\ schedIdOf' = [schedIdOf EXCEPT ![r] = s]
          /\ outQueue' = Put(outQueue, {s}, r)
          /\ raced' = raced \cup RacesOfSubmit(r)
       \/ /\ AddRefused(r, s)
          /\ client' = [client EXCEPT ![r] = "failed"]
          /\ UNCHANGED <<schedIdOf, outQueue, raced>>
  /\ UNCHANGED <<abortQueue, callbacks, busyVars>>

\* get_result(): await the future, or RuntimeError if it is gone already.
GetResult(r) ==
  /\ client[r] = "added"
  /\ client' = [client EXCEPT ![r] =
                  IF schedIdOf[r] \in DOMAIN outQueue THEN "awaiting" ELSE "failed"]
  /\ UNCHANGED <<schedVars, schedIdOf, outQueue, abortQueue, callbacks, busyVars, raced>>

\* The event loop runs fut.set_result; a cancelled future ignores it.
Deliver(r) ==
  /\ LoopIsFree
  /\ \E c \in callbacks :
       /\ c.client = r
       /\ callbacks' = callbacks \ {c}
       /\ client' = IF client[r] = "awaiting" THEN [client EXCEPT ![r] = c.out] ELSE client
  /\ UNCHANGED <<schedVars, schedIdOf, outQueue, abortQueue, busyVars, raced>>

\* An abort message: the task is cancelled, then abort() queues the id.
CancelAndAbort(r) ==
  /\ LoopIsFree
  /\ client[r] = "awaiting"
  /\ client' = [client EXCEPT ![r] = "cancelled"]
  /\ abortQueue' = Append(abortQueue, AbortId[r])
  /\ raced' = raced \cup RacesOfAbort(r)
  /\ UNCHANGED <<schedVars, schedIdOf, outQueue, callbacks, busyVars>>
-----------------------------------------------------------------------------
(* The busy loop: _process_aborts_queue()                                  *)

\* Drain the queue and resolve the ids, before schedule and after execution.
DrainAborts ==
  /\ pc \in {"top", "executed"}
  /\ purging' = {requestIdToSched[id] : id \in ToSet(abortQueue) \cap DOMAIN requestIdToSched}
  /\ abortQueue' = <<>>
  /\ pc' = IF pc = "top" THEN "purgeFirst" ELSE "purgeLast"
  /\ UNCHANGED <<schedVars, client, schedIdOf, outQueue, callbacks, rebuild, handling,
                 stateCache, outcome, raced>>

Purging == pc \in {"purgeFirst", "purgeLast"} /\ rebuild = {}

\* finish_requests() of an id that is not queued, finished, or gone.
PurgeOne(s) ==
  /\ Purging
  /\ s \in purging
  /\ s \notin Unfinished(ToSet(waiting))
  /\ AbortRequest(s)
  /\ purging' = purging \ {s}
  /\ UNCHANGED <<loopVars, pc, rebuild, handling, stateCache, outcome, raced>>

\* finish_requests() of a queued id: the deque is first copied without it ...
RebuildBegin(s) ==
  /\ Purging
  /\ s \in purging
  /\ s \in Unfinished(ToSet(waiting))
  /\ rebuild' = {[id |-> s, from |-> waiting]}
  /\ UNCHANGED <<schedVars, loopVars, pc, purging, handling, stateCache, outcome, raced>>

\* ... and the copy then replaces it: an id appended since then is lost.
RebuildAssign ==
  \E b \in rebuild :
    /\ FinishRequestsFrom(b.from, [t \in {b.id} |-> "ABORTED"])
    /\ purging' = purging \ {b.id}
    /\ rebuild' = {}
    /\ UNCHANGED <<schedOutput, returned, loopVars, pc, handling, stateCache, outcome,
                   raced>>

\* An append while the copy iterates: RuntimeError, and the thread ends.
RebuildRaises ==
  \E b \in rebuild :
    /\ waiting # b.from
    /\ pc' = "dead"
    /\ rebuild' = {}
    /\ UNCHANGED <<schedVars, loopVars, purging, handling, stateCache, outcome, raced>>

PurgeDone ==
  /\ Purging
  /\ purging = {}
  /\ pc' = IF pc = "purgeFirst" THEN "lock" ELSE "update"
  /\ UNCHANGED <<schedVars, loopVars, purging, rebuild, handling, stateCache, outcome,
                 raced>>
-----------------------------------------------------------------------------
(* The busy loop: schedule, execute, update                                *)

\* Mutant: the thread waits for a new request although others are running.
LockAndScheduleNew ==
  /\ pc = "lock"
  /\ waiting # <<>>
  /\ Schedule
  /\ pc' = "execute"
  /\ UNCHANGED <<loopVars, purging, rebuild, handling, stateCache, outcome, raced>>

\* Mutant: one wait is taken for the arrival of a request.
LockAndScheduleAnyway ==
  /\ pc = "lock"
  /\ Schedule
  /\ pc' = "execute"
  /\ UNCHANGED <<loopVars, purging, rebuild, handling, stateCache, outcome, raced>>

\* Under _cv; while there are no requests the thread waits inside.  The branch
\* for an empty batch (lines 380-382) is left out: see BatchIsExecutable.
LockAndSchedule ==
  /\ pc = "lock"
  /\ HasRequests
  /\ Schedule
  /\ pc' = "execute"
  /\ UNCHANGED <<loopVars, purging, rebuild, handling, stateCache, outcome, raced>>

Batch == Scheduled(schedOutput)

\* Mutant: the finished requests are not dropped.
RetainedAll == DOMAIN stateCache

\* state_cache after _update_states has dropped the finished requests.
Retained == DOMAIN stateCache \ schedOutput.finished

\* Otherwise _update_states raises: a new id that is cached, or a cached id that
\* is not.  That branch is left out: see BatchIsExecutable.
InSync == schedOutput.new \cap Retained = {} /\ schedOutput.cached \subseteq Retained

StepIndex(s) == IF s \in schedOutput.new THEN 0 ELSE stateCache[s]
StepsDone(s) == StepIndex(s) + 1 >= Steps[requestStates[s].req]

\* execute_stepwise(): every request of the batch advances by one step, and
\* those that completed leave the cache.
ExecuteStep ==
  /\ pc = "execute"
  /\ StepMode /\ InSync
  /\ outcome' = [s \in Batch |-> IF StepsDone(s) THEN "done" ELSE "more"]
  /\ stateCache' = [s \in {t \in Retained \cup Batch : t \in Batch => ~StepsDone(t)} |->
                      IF s \in Batch THEN StepIndex(s) + 1 ELSE stateCache[s]]
  /\ pc' = "executed"
  /\ UNCHANGED <<schedVars, loopVars, purging, rebuild, handling, raced>>

\* execute_stepwise() raises while it runs one request of the batch: the worker
\* replies with one error, which execute_step() gives to the first request, so
\* the others have no output.  The states created in this call stay cached,
\* except when it is _update_states that refuses a request.
ExecuteStepRaises ==
  /\ pc = "execute"
  /\ StepMode /\ InSync
  /\ \E s \in Batch : requestStates[s].req \in Faulty
  /\ \E first \in IF schedOutput.new # {} THEN schedOutput.new ELSE Batch :
       outcome' = [s \in Batch |-> IF s = first THEN "error" ELSE "missing"]
  /\ \E cached \in {Retained, Retained \cup Batch} :
       stateCache' = [s \in cached |-> IF s \in Batch THEN StepIndex(s) ELSE stateCache[s]]
  /\ pc' = "executed"
  /\ UNCHANGED <<schedVars, loopVars, purging, rebuild, handling, raced>>

\* execute_request(): the whole request at once; an error comes back as such.
ExecuteRequest ==
  /\ pc = "execute"
  /\ ~StepMode
  /\ outcome' \in [Batch -> {"done", "error"}]
  /\ \A s \in Batch : outcome'[s] = "error" => requestStates[s].req \in Faulty
  /\ pc' = "executed"
  /\ UNCHANGED <<schedVars, loopVars, purging, rebuild, handling, stateCache, raced>>

UpdateBatch ==
  /\ pc = "update"
  /\ UpdateFromOutput(outcome)
  /\ outcome' = <<>>
  /\ pc' = "handle"
  /\ UNCHANGED <<loopVars, purging, rebuild, handling, stateCache, raced>>
-----------------------------------------------------------------------------
(* The busy loop: _handle_finished_requests()                              *)

\* Mutant: the scheduler's status is handed out as the answer.
AnswerIsStatus(s) == requestStates[s].status

\* _finalize_finished_request: aborted, the runner's result, or its error.
AnswerFor(s) ==
  CASE requestStates[s].status = "ABORTED" -> "aborted"
    [] requestStates[s].status = "COMPLETED" -> "result"
    [] OTHER -> "error"

\* Mutant: the future is read, not popped.
OutQueueKept(s) == outQueue

OutQueueWithout(s) == Restrict(outQueue, DOMAIN outQueue \ {s})

\* The future leaves _out_queue and the state leaves _request_states ...
TakeFinished(s) ==
  /\ pc = "handle"
  /\ s \in returned
  /\ IF s \in DOMAIN outQueue
     THEN /\ handling' = {[id |-> s, ids |-> IdsOf(requestStates[s].req),
                           client |-> outQueue[s], out |-> AnswerFor(s)]}
          /\ outQueue' = OutQueueWithout(s)
          /\ requestStates' = Restrict(requestStates, Known \ {s})
          /\ progress' = progress \ {s}
          /\ refused' = refused \ {s}
          /\ pc' = "unregister"
     ELSE UNCHANGED <<handling, outQueue, requestStates, progress, refused, pc>>
  /\ returned' = returned \ {s}
  /\ UNCHANGED <<requestIdToSched, queueVars, finishedReqIds, schedOutput, client,
                 schedIdOf, abortQueue, callbacks, purging, rebuild, stateCache, outcome,
                 raced>>

\* ... then its public ids are released and the result is posted.
UnregisterAndPost ==
  /\ pc = "unregister"
  /\ \E h \in handling :
       /\ requestIdToSched' =
            Restrict(requestIdToSched,
                     {id \in DOMAIN requestIdToSched :
                        id \in h.ids => requestIdToSched[id] # h.id})
       /\ callbacks' = IF client[h.client] \in {"added", "awaiting", "failed"}
                       THEN callbacks \cup {[client |-> h.client, out |-> h.out]}
                       ELSE callbacks
  /\ handling' = {}
  /\ pc' = "handle"
  /\ UNCHANGED <<requestStates, progress, refused, queueVars, finishedReqIds, schedOutput,
                 returned, client, schedIdOf, outQueue, abortQueue, purging, rebuild,
                 stateCache, outcome, raced>>

\* Mutant: the loop over the finished ids may end before the last of them.
HandleDoneEarly ==
  /\ pc = "handle"
  /\ returned' = {}
  /\ pc' = "top"
  /\ UNCHANGED <<tableVars, queueVars, finishedReqIds, schedOutput, loopVars, purging,
                 rebuild, handling, stateCache, outcome, raced>>

HandleDone ==
  /\ pc = "handle"
  /\ returned = {}
  /\ pc' = "top"
  /\ UNCHANGED <<schedVars, loopVars, purging, rebuild, handling, stateCache, outcome,
                 raced>>
-----------------------------------------------------------------------------
EventLoop == \E r \in Requests : Submit(r) \/ CancelAndAbort(r)

EventLoopReady == \E r \in Requests : GetResult(r) \/ Deliver(r)

BusyLoop ==
  \/ DrainAborts
  \/ \E s \in SchedIds : PurgeOne(s) \/ RebuildBegin(s) \/ TakeFinished(s)
  \/ RebuildAssign \/ RebuildRaises \/ PurgeDone
  \/ LockAndSchedule
  \/ ExecuteStep \/ ExecuteStepRaises \/ ExecuteRequest
  \/ UpdateBatch
  \/ UnregisterAndPost \/ HandleDone

Next == EventLoop \/ EventLoopReady \/ BusyLoop

\* The thread is never starved and execute_fn returns; asyncio runs every ready
\* callback.  Nobody is obliged to submit or to abort.
Fairness == WF_vars(BusyLoop) /\ \A r \in Requests : WF_vars(GetResult(r) \/ Deliver(r))

Spec == Init /\ [][Next]_vars /\ Fairness
-----------------------------------------------------------------------------
(* Properties                                                              *)

EngineTypeOK ==
  /\ SchedTypeOK
  /\ client \in [Requests -> ClientStates]
  /\ schedIdOf \in [Requests -> SchedIds \cup {NoId}]
  /\ outQueue \in [DOMAIN outQueue -> Requests] /\ DOMAIN outQueue \subseteq SchedIds
  /\ abortQueue \in Seq(PublicIds)
  /\ callbacks \subseteq [client : Requests, out : Answers]
  /\ pc \in {"top", "purgeFirst", "lock", "execute", "executed", "purgeLast", "update",
             "handle", "unregister", "dead"}
  /\ purging \subseteq SchedIds
  /\ \A b \in rebuild : b.id \in SchedIds /\ b.from \in Seq(SchedIds)
  /\ \A h \in handling : h.id \in SchedIds /\ h.client \in Requests /\ h.out \in Answers
  /\ stateCache \in [DOMAIN stateCache -> Nat] /\ DOMAIN stateCache \subseteq SchedIds
  /\ outcome \in [DOMAIN outcome -> Outcomes]
  /\ raced \subseteq Races

\* Every pending future is filed under the scheduler id of its own request, and
\* that request's state is still there: no answer can reach another task and
\* _finalize_finished_request never finds the state lost (line 679).
FutureMatchesRequest ==
  \A s \in DOMAIN outQueue :
    /\ schedIdOf[outQueue[s]] = s
    /\ s \in Known \ refused
    /\ requestStates[s].req = outQueue[s]

\* The scheduler's own invariants survive the unlocked aborts, updates and pops
\* of the busy loop interleaved with add_request().  The two exceptions are the
\* code's: an add_request() during a deque rebuild may lose its request, and one
\* between the pop of a state and the release of its ids may lose an id it took.
SchedulerStaysConsistent ==
  "append" \notin raced =>
    /\ QueuesMatchStatuses
    /\ BatchIsUniform
    /\ BatchStaysVisible
    /\ pc # "unregister" /\ "release" \notin raced => PublicIdsResolve

\* What schedule() hands to execute_fn under has_requests() can be executed: it
\* is not empty; in step mode every new id is absent from the runner's
\* state_cache and every cached id present, whatever was aborted, finished or
\* re-added since; in request mode it is one new request.
BatchIsExecutable ==
  pc = "execute" =>
    /\ Batch # {}
    /\ StepMode => InSync
    /\ ~StepMode => Cardinality(schedOutput.new) = 1 /\ schedOutput.cached = {}

\* The runner caches states only of running requests and of finished ones that
\* the current or the next batch tells it to drop.
CacheIsAccountedFor ==
  DOMAIN stateCache \subseteq ToSet(running) \cup finishedReqIds \cup schedOutput.finished

\* A finished request whose future is still in _out_queue is about to be handed
\* out, except when its own client has cancelled it, or an abort meant for an
\* earlier request with its id has hit it.
ForgottenOnlyIfCancelled ==
  \A s \in DOMAIN outQueue :
    IsFinished(s) => \/ s \in returned \cup Batch
                     \/ client[outQueue[s]] = "cancelled"
                     \/ "abort" \in raced

\* Every task that awaits its future is eventually answered, whatever happens to
\* the requests batched, aborted or failing around it - unless an add_request()
\* fell into a deque rebuild, which can lose a request or end the busy loop, or
\* an abort has hit a request it was not meant for.
AwaitersAreAnswered ==
  \A r \in Requests :
    client[r] = "awaiting" ~> (client[r] # "awaiting" \/ raced \cap {"append", "abort"} # {})

\* The documents' "per-request progress and completion remain independent": a
\* request is answered with an error only when its own execution may raise.
\* The code disagrees: see ExecuteStepRaises.
IndependentCompletion == \A r \in Requests : client[r] = "error" => r \in Faulty

\* The documents' "Abort during denoise does not leak cached state": the runner
\* eventually drops what it cached for an aborted request.  It is told to only
\* with the next batch, and an idle engine never has one.
NoLeakedCache ==
  \A s \in SchedIds :
    (s \in DOMAIN stateCache /\ s \in Known /\ IsFinished(s)) ~> (s \notin DOMAIN stateCache)
==============================================================================
