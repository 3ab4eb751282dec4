------------------------- MODULE DiffusionScheduler -------------------------
(***************************************************************************)
(* The diffusion request scheduler: _BaseScheduler with its two policies,  *)
(* RequestScheduler (one dispatch runs a whole request) and StepScheduler  *)
(* (one dispatch runs one denoise step of a batch of compatible requests). *)
(* Each method is one action; schedule() and update_from_output() pass     *)
(* their result through schedOutput and returned, as _busy_loop does       *)
(* through its local variables.  A scheduler request id is <<base, k>>:    *)
(* the first public id of the request, suffixed "#k" when k > 0.           *)
(*                                                                         *)
(* Abstracted: prompts and sampling parameters (only the batch key counts),*)
(* error texts, step_id (never read), and the value of a request's         *)
(* progress, which no decision of the scheduler reads; whether a progress  *)
(* entry exists is kept.                                                   *)
(***************************************************************************)
EXTENDS Containers

CONSTANTS
  Requests,     \* OmniDiffusionRequest objects
  PublicIds,    \* public request ids
  Keys,         \* SamplingParamsKey values
  NoKey,        \* the key None: a request with several prompts
  RequestIds,   \* request.request_ids of every request
  SamplingKey,  \* get_sampling_params_key of every request
  MaxRunning,   \* max_num_running_reqs
  MaxSuffix,    \* bound: largest "#k" suffix of a scheduler request id
  StepMode      \* TRUE for StepScheduler, FALSE for RequestScheduler

ASSUME SchedulerAssumption ==
  /\ NoKey \notin Keys
  /\ RequestIds \in [Requests -> Seq(PublicIds) \ {<<>>}]
  /\ SamplingKey \in [Requests -> Keys \cup {NoKey}]
  /\ MaxRunning \in Nat \ {0}
  /\ MaxSuffix \in Nat
  /\ StepMode \in BOOLEAN

VARIABLES
  requestStates,    \* _request_states: sched id -> [req, status]
  requestIdToSched, \* _request_id_to_sched_req_id: public id -> sched id
  waiting,          \* _waiting, the deque
  running,          \* _running, the list
  runningKey,       \* _running_sampling_params_key
  finishedReqIds,   \* _finished_req_ids: finished since the last schedule()
  progress,         \* keys of StepScheduler._request_progress
  schedOutput,      \* the DiffusionSchedulerOutput its caller still holds
  returned,         \* what the last update_from_output() returned
  refused           \* history: ids whose add_request() raised half way

queueVars == <<waiting, running, runningKey>>
tableVars == <<requestStates, requestIdToSched, progress, refused>>
schedVars == <<queueVars, tableVars, finishedReqIds, schedOutput, returned>>

SchedIds == PublicIds \X (0..MaxSuffix)
FinishedStatuses == {"COMPLETED", "ABORTED", "ERROR"}
Statuses == {"WAITING", "RUNNING", "PREEMPTED"} \cup FinishedStatuses
RequestState == [req : Requests, status : Statuses]
SchedulerOutput ==
  [new : SUBSET SchedIds, cached : SUBSET SchedIds, finished : SUBSET SchedIds]
EmptyOutput == [new |-> {}, cached |-> {}, finished |-> {}]

\* What the runner says of one scheduled request: no (usable) output, an
\* error, a final result or, in step mode, that more steps remain.
Outcomes == {"missing", "error", "done"} \cup (IF StepMode THEN {"more"} ELSE {})

Known == DOMAIN requestStates
IsFinished(s) == requestStates[s].status \in FinishedStatuses
KeyOf(s) == SamplingKey[requestStates[s].req]
IdsOf(r) == ToSet(RequestIds[r])
Scheduled(out) == out.new \cup out.cached
HasRequests == waiting # <<>> \/ running # <<>>

SchedInit ==
  /\ requestStates = <<>>
  /\ requestIdToSched = <<>>
  /\ waiting = <<>>
  /\ running = <<>>
  /\ runningKey = NoKey
  /\ finishedReqIds = {}
  /\ progress = {}
  /\ schedOutput = EmptyOutput
  /\ returned = {}
  /\ refused = {}
-----------------------------------------------------------------------------
(* add_request                                                             *)

\* Mutant: the base id whether or not it is in use.
IsBaseSchedId(r, s) == s = <<Head(RequestIds[r]), 0>>

\* _make_sched_req_id: the first of base, base#1, base#2, ... without a state.
IsFreshSchedId(r, s) ==
  /\ s[1] = Head(RequestIds[r])
  /\ s \notin Known
  /\ \A j \in 0..MaxSuffix : j < s[2] => <<s[1], j>> \in Known

\* Positions of r's public ids that _register_request_ids refuses.
Conflicts(r, s) ==
  {i \in DOMAIN RequestIds[r] :
     /\ RequestIds[r][i] \in DOMAIN requestIdToSched
     /\ requestIdToSched[RequestIds[r][i]] # s}

\* The public ids registered before the first refused one.
Registered(r, s) ==
  {RequestIds[r][i] : i \in {j \in DOMAIN RequestIds[r] :
                               \A c \in Conflicts(r, s) : j < c}}

\* The part of add_request() before _waiting.append: the state is stored and
\* the ids are registered one by one, up to the first conflict.
InsertRequest(r, s) ==
  /\ IsFreshSchedId(r, s)
  /\ requestStates' = Put(requestStates, {s}, [req |-> r, status |-> "WAITING"])
  /\ requestIdToSched' = Put(requestIdToSched, Registered(r, s), s)

AddAccepted(r, s) ==
  /\ Conflicts(r, s) = {}
  /\ InsertRequest(r, s)
  /\ waiting' = Append(waiting, s)
  /\ progress' = IF StepMode THEN progress \cup {s} ELSE progress
  /\ UNCHANGED <<running, runningKey, finishedReqIds, schedOutput, returned, refused>>

\* ValueError out of _register_request_ids: nothing done so far is undone.
AddRefused(r, s) ==
  /\ Conflicts(r, s) # {}
  /\ InsertRequest(r, s)
  /\ refused' = refused \cup {s}
  /\ UNCHANGED <<queueVars, progress, finishedReqIds, schedOutput, returned>>
-----------------------------------------------------------------------------
(* schedule                                                                *)

Capacity == MaxRunning - Len(running)

\* The key a request must have to join: that of the running batch or, when
\* nothing runs, of the head of the queue, which is admitted whatever its key.
BatchKey ==
  IF running = <<>> THEN KeyOf(Head(waiting))
  ELSE IF runningKey # NoKey \/ running[1] \notin Known THEN runningKey
  ELSE KeyOf(running[1])

\* Mutant: compatible whenever the batch has a key at all.
JoinsAnyKey(i) == (running = <<>> /\ i = 1) \/ BatchKey # NoKey

\* _can_schedule_waiting for the i-th queued request, those before it admitted.
Joins(i) ==
  \/ running = <<>> /\ i = 1
  \/ BatchKey # NoKey /\ BatchKey = KeyOf(waiting[i])

\* The loop over _waiting stops after n admissions.
StopsAfter(n) ==
  /\ n <= Capacity
  /\ \A i \in 1..n : Joins(i)
  /\ n < Capacity /\ n < Len(waiting) => ~Joins(n + 1)

\* The branch that drops a queued id without a state (lines 93-95) is left
\* out: by QueuesMatchStatuses every queued id has a state.
Schedule ==
  /\ Scheduled(schedOutput) = {}
  /\ \E n \in 0..Len(waiting) :
       LET admitted == SubSeq(waiting, 1, n)
           isNew(s) == requestStates[s].status = "WAITING"
       IN  /\ StopsAfter(n)
           /\ running' = running \o admitted
           /\ waiting' = SubSeq(waiting, n + 1, Len(waiting))
           /\ runningKey' = IF waiting # <<>> /\ Capacity > 0 THEN BatchKey ELSE runningKey
           /\ requestStates' =
                [s \in Known |-> IF s \in ToSet(admitted)
                                 THEN [requestStates[s] EXCEPT !.status = "RUNNING"]
                                 ELSE requestStates[s]]
           /\ schedOutput' =
                [new      |-> {s \in ToSet(admitted) : isNew(s)},
                 cached   |-> (ToSet(running) \cap Known)
                                \cup {s \in ToSet(admitted) : ~isNew(s)},
                 finished |-> finishedReqIds]
  /\ finishedReqIds' = {}
  /\ UNCHANGED <<requestIdToSched, progress, refused, returned>>
-----------------------------------------------------------------------------
(* finish_requests, update_from_output                                     *)

\* Mutant: is_finished() is not consulted.
UnfinishedOrNot(ids) == ids \cap Known

\* Those of the ids that _finish_requests does not skip.
Unfinished(ids) == {s \in ids \cap Known : ~IsFinished(s)}

\* _finish_requests: status is a function from ids to finished statuses, queue
\* the contents of _waiting that the rebuild of the deque reads.
FinishRequestsFrom(queue, status) ==
  LET hit == Unfinished(DOMAIN status)
  IN  /\ running' = Keep(running, hit)
      /\ waiting' = Keep(queue, hit)
      /\ runningKey' = IF ToSet(running) \cap hit # {} /\ ToSet(running) \subseteq hit
                       THEN NoKey ELSE runningKey
      /\ requestStates' =
           [s \in Known |-> IF s \in hit
                            THEN [requestStates[s] EXCEPT !.status = status[s]]
                            ELSE requestStates[s]]
      /\ finishedReqIds' = finishedReqIds \cup hit
      /\ UNCHANGED <<requestIdToSched, progress, refused>>

FinishRequests(status) == FinishRequestsFrom(waiting, status)

\* finish_requests(s, FINISHED_ABORTED), the only caller's use of it.
AbortRequest(s) ==
  /\ FinishRequests([t \in {s} |-> "ABORTED"])
  /\ UNCHANGED <<schedOutput, returned>>

\* Mutant: a request without output keeps running under no status of its own.
TerminalOrMissing(outcome) ==
  [s \in {t \in DOMAIN outcome : outcome[t] # "more"} |->
     IF outcome[s] = "done" THEN "COMPLETED" ELSE outcome[s]]

\* The terminal statuses update_from_output derives from the runner's output.
TerminalStatuses(outcome) ==
  [s \in {t \in DOMAIN outcome : /\ outcome[t] # "more"
                                 /\ StepMode => t \in progress} |->
     IF outcome[s] = "done" THEN "COMPLETED" ELSE "ERROR"]

\* Mutant: requests aborted while the batch was out are not surfaced.
UpdateForgetsAborts(outcome) ==
  LET status == TerminalStatuses(outcome)
  IN  /\ Scheduled(schedOutput) # {}
      /\ FinishRequests(status)
      /\ returned' = Unfinished(DOMAIN status)
      /\ schedOutput' = EmptyOutput

\* update_from_output with _finalize_update_from_output: ids finished by an
\* abort while the batch was out are returned with those it finishes itself.
UpdateFromOutput(outcome) ==
  LET status == TerminalStatuses(outcome)
  IN  /\ Scheduled(schedOutput) # {}
      /\ FinishRequests(status)
      /\ returned' = (Scheduled(schedOutput) \cap finishedReqIds)
                       \cup Unfinished(DOMAIN status)
      /\ schedOutput' = EmptyOutput
-----------------------------------------------------------------------------
(* preempt_request, pop_request_state, close / initialize                  *)

PreemptRequest(s) ==
  /\ s \in Known
  /\ s \in ToSet(running)
  /\ running' = Keep(running, {s})
  /\ runningKey' = IF ToSet(running) = {s} THEN NoKey ELSE runningKey
  /\ waiting' = <<s>> \o waiting
  /\ requestStates' = [requestStates EXCEPT ![s].status = "PREEMPTED"]
  /\ UNCHANGED <<requestIdToSched, progress, refused, finishedReqIds,
                 schedOutput, returned>>

\* Mutant: every id of the request is freed, whoever holds it.
UnregisteredUnowned(s) == IdsOf(requestStates[s].req) \cap DOMAIN requestIdToSched

\* The public ids _unregister_request_ids frees when s is popped.
Unregistered(s) ==
  {id \in IdsOf(requestStates[s].req) \cap DOMAIN requestIdToSched :
     requestIdToSched[id] = s}

PopRequestState(s) ==
  /\ s \in Known
  /\ requestStates' = Restrict(requestStates, Known \ {s})
  /\ requestIdToSched' =
       Restrict(requestIdToSched, DOMAIN requestIdToSched \ Unregistered(s))
  /\ progress' = progress \ {s}
  /\ refused' = refused \ {s}
  /\ returned' = returned \ {s}
  /\ UNCHANGED <<queueVars, finishedReqIds, schedOutput>>

Close ==
  /\ requestStates' = <<>>
  /\ requestIdToSched' = <<>>
  /\ waiting' = <<>>
  /\ running' = <<>>
  /\ runningKey' = NoKey
  /\ finishedReqIds' = {}
  /\ progress' = {}
  /\ refused' = {}
  /\ UNCHANGED <<schedOutput, returned>>
-----------------------------------------------------------------------------
(* The scheduler under a caller that, like _busy_loop, holds one batch at  *)
(* a time and pops only finished requests that are not in that batch.      *)

Add == \E r \in Requests, s \in SchedIds : AddAccepted(r, s) \/ AddRefused(r, s)
Abort == \E s \in Unfinished(Known) : AbortRequest(s)
Update == \E outcome \in [Scheduled(schedOutput) -> Outcomes] : UpdateFromOutput(outcome)
Preempt == \E s \in Known : PreemptRequest(s)
\* Mutant: a finished request is popped although its batch is still out.
PopEarly == \E s \in Known : IsFinished(s) /\ PopRequestState(s)

Pop == \E s \in Known \ Scheduled(schedOutput) : IsFinished(s) /\ PopRequestState(s)
Reset == Scheduled(schedOutput) = {} /\ returned = {} /\ Close

SchedNext == Add \/ Schedule \/ Abort \/ Update \/ Preempt \/ Pop \/ Reset

SchedSpec == SchedInit /\ [][SchedNext]_schedVars
-----------------------------------------------------------------------------
(* Properties                                                              *)

SchedTypeOK ==
  /\ requestStates \in [Known -> RequestState]
  /\ Known \subseteq SchedIds
  /\ requestIdToSched \in [DOMAIN requestIdToSched -> SchedIds]
  /\ DOMAIN requestIdToSched \subseteq PublicIds
  /\ waiting \in Seq(SchedIds)
  /\ running \in Seq(SchedIds)
  /\ runningKey \in Keys \cup {NoKey}
  /\ finishedReqIds \subseteq SchedIds
  /\ progress \subseteq SchedIds
  /\ schedOutput \in SchedulerOutput
  /\ returned \subseteq SchedIds
  /\ refused \subseteq SchedIds

\* The running list holds exactly the RUNNING requests, the deque exactly the
\* WAITING and PREEMPTED ones, each once: no request is lost or run twice.
\* The only WAITING states outside the deque are those a refused add_request
\* (ValueError after the state was stored, lines 73-74) has left behind.
QueuesMatchStatuses ==
  /\ NoDuplicates(running) /\ NoDuplicates(waiting)
  /\ ToSet(running) = {s \in Known : requestStates[s].status = "RUNNING"}
  /\ ToSet(waiting) =
       {s \in Known \ refused : requestStates[s].status \in {"WAITING", "PREEMPTED"}}
  /\ \A s \in refused :
       s \in Known /\ requestStates[s].status \notin {"RUNNING", "PREEMPTED"}

\* The batch never exceeds max_num_running_reqs, several requests run together
\* only under one common key, and the cached _running_sampling_params_key is
\* the key of the batch (None when nothing runs).
BatchIsUniform ==
  /\ Len(running) <= MaxRunning
  /\ runningKey = (IF running = <<>> THEN NoKey ELSE KeyOf(running[1]))
  /\ Len(running) > 1 =>
       \A i \in 1..Len(running) : KeyOf(running[i]) = runningKey /\ runningKey # NoKey

\* Every public id of an accepted request resolves to it (get_sched_req_id), so
\* an abort by public id reaches it and no other, and no id resolves to a
\* request that does not own it - whatever adds were refused meanwhile.
PublicIdsResolve ==
  /\ \A s \in Known \ refused : \A id \in IdsOf(requestStates[s].req) :
       id \in DOMAIN requestIdToSched /\ requestIdToSched[id] = s
  /\ \A id \in DOMAIN requestIdToSched :
       /\ requestIdToSched[id] \in Known
       /\ id \in IdsOf(requestStates[requestIdToSched[id]].req)

\* While a batch is out, each of its requests is still running, was preempted,
\* or has been finished by an abort and is in _finished_req_ids, which is what
\* lets the next update_from_output surface it (lines 218-224).  What the last
\* update returned is finished and still has its state for the engine to read.
BatchStaysVisible ==
  /\ \A s \in Scheduled(schedOutput) :
       \/ s \in ToSet(running)
       \/ s \in ToSet(waiting) /\ requestStates[s].status = "PREEMPTED"
       \/ s \in finishedReqIds \cap Known /\ IsFinished(s)
  /\ \A s \in returned : s \in Known /\ IsFinished(s)

\* A finished request keeps its terminal status until its state is popped: no
\* schedule, late runner output, abort or preemption overwrites it.
FinishedIsFinal ==
  [][\A s \in Known \cap Known' : IsFinished(s) => requestStates'[s] = requestStates[s]]_schedVars

\* update_from_output accounts for its whole batch: every request of it is
\* returned as finished or is queued again; none disappears between the two.
UpdateAccountsForBatch ==
  [][schedOutput' = EmptyOutput =>
       \A s \in Scheduled(schedOutput) :
         s \in returned' \cup ToSet(running') \cup ToSet(waiting')]_schedVars
=============================================================================
