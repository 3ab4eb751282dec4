------------------------ MODULE DiffusionEngineProofs ------------------------
(***************************************************************************)
(* The invariants of the engine around its scheduler, for every set of     *)
(* requests, every assignment of ids, keys, steps and abort ids, every     *)
(* batch size and both modes.  The scheduler's own invariant is not one of *)
(* the engine: an add_request() during a rebuild of the deque, or between  *)
(* the pop of a state and the release of its ids, breaks parts of it.      *)
(* What is proved here is a weaker one that every step keeps, with those   *)
(* parts under the condition that the race has not happened.               *)
(***************************************************************************)
EXTENDS DiffusionEngine, DiffusionSchedulerProofs

\* Where the busy loop holds no batch, and where it holds one that has run.
Resting == pc \in {"top", "purgeFirst", "lock", "handle", "unregister"}
BatchHasRun == pc \in {"executed", "purgeLast", "update"}

\* QueuesMatchStatuses without the converse for the deque, which a rebuild may
\* break; the busy loop never preempts.
QueuesAreSound ==
  /\ NoDuplicates(running) /\ NoDuplicates(waiting)
  /\ ToSet(running) = {s \in Known : requestStates[s].status = "RUNNING"}
  /\ ToSet(waiting) \subseteq {s \in Known \ refused : requestStates[s].status = "WAITING"}
  /\ "append" \notin raced =>
       {s \in Known \ refused : requestStates[s].status = "WAITING"} \subseteq ToSet(waiting)
  /\ \A s \in Known : requestStates[s].status # "PREEMPTED"
  /\ \A s \in refused : s \in Known /\ requestStates[s].status # "RUNNING"
  /\ StepMode => Known \ refused \subseteq progress

\* The id is still registered under the scheduler id of a popped request.
Releasing(id) == \E h \in handling : id \in h.ids /\ requestIdToSched[id] = h.id

\* PublicIdsResolve but for the ids about to be released and, in its first
\* part, only while no such id has been taken by another request.
IdsAreSound ==
  /\ \A id \in DOMAIN requestIdToSched :
       ~Releasing(id) => /\ requestIdToSched[id] \in Known
                         /\ id \in IdsOf(requestStates[requestIdToSched[id]].req)
  /\ "release" \notin raced =>
       \A s \in Known \ refused : \A id \in IdsOf(requestStates[s].req) :
         id \in DOMAIN requestIdToSched /\ requestIdToSched[id] = s /\ ~Releasing(id)

\* The copy of the deque is of ids that are all still in it.
RebuildIsSound ==
  \A b \in rebuild :
    /\ pc \in {"purgeFirst", "purgeLast"} /\ b.id \in purging
    /\ NoDuplicates(b.from) /\ b.id \in ToSet(b.from) /\ ToSet(b.from) \subseteq ToSet(waiting)
    /\ "append" \notin raced => b.from = waiting

\* What the local variables of the busy loop hold, by where it is.
StagesAreSound ==
  /\ pc # "unregister" => handling = {}
  /\ \A g, h \in handling : g = h
  /\ pc \notin {"handle", "unregister"} => returned = {}
  /\ pc \notin {"purgeFirst", "purgeLast", "dead"} => purging = {}
  /\ purging \subseteq Known
  /\ Resting => schedOutput = EmptyOutput
  /\ pc = "execute" => Batch = ToSet(running) /\ finishedReqIds = {}
  /\ BatchHasRun => ToSet(running) \subseteq Batch /\ outcome \in [Batch -> Outcomes]

\* The runner caches the running requests, once they have run a step and while
\* more remain, and otherwise only what it is still to be told has finished.
CacheIsSound ==
  /\ ~StepMode => DOMAIN stateCache = {}
  /\ pc # "execute" => DOMAIN stateCache \subseteq ToSet(running) \cup finishedReqIds
  /\ pc = "execute" => DOMAIN stateCache \subseteq ToSet(running) \cup schedOutput.finished
  /\ Resting => ToSet(running) \subseteq DOMAIN stateCache
  /\ BatchHasRun => \A s \in Batch : outcome[s] = "more" => s \in DOMAIN stateCache

\* Until an abort has met another request's id, every queued or resolved abort
\* is for a request whose client is gone, or for one nobody waits for.
AbortsAreMeant ==
  "abort" \notin raced =>
    /\ \A id \in ToSet(abortQueue) \cap DOMAIN requestIdToSched :
         ~Releasing(id) /\ requestIdToSched[id] \in DOMAIN outQueue
           => client[outQueue[requestIdToSched[id]]] = "cancelled"
    /\ \A s \in purging \cap DOMAIN outQueue : client[outQueue[s]] = "cancelled"

IdleHasNoId == \A r \in Requests : client[r] = "idle" => schedIdOf[r] = NoId

\* The scheduler's part of the inductive invariant, and all of it.
SchedulerSide ==
  /\ SchedTypeOK
  /\ QueuesAreSound
  /\ BatchIsUniform
  /\ IdsAreSound
  /\ BatchStaysVisible
  /\ FinishedIdsAreOld

EngineIInv ==
  /\ EngineTypeOK
  /\ SchedulerSide
  /\ RebuildIsSound
  /\ StagesAreSound
  /\ CacheIsSound
  /\ BatchIsExecutable
  /\ FutureMatchesRequest
  /\ IdleHasNoId
  /\ AbortsAreMeant
  /\ ForgottenOnlyIfCancelled
-----------------------------------------------------------------------------
(* The initial state, and steps that leave the scheduler alone             *)

LEMMA EngineInitIInv == ASSUME Init PROVE EngineIInv
<1>1. /\ client = [r \in Requests |-> "idle"] /\ schedIdOf = [r \in Requests |-> NoId]
      /\ outQueue = <<>> /\ abortQueue = <<>> /\ callbacks = {} /\ pc = "top" /\ purging = {}
      /\ rebuild = {} /\ handling = {} /\ stateCache = <<>> /\ outcome = <<>> /\ raced = {}
  BY DEF Init
<1>2. /\ requestStates = <<>> /\ requestIdToSched = <<>> /\ waiting = <<>> /\ running = <<>>
      /\ finishedReqIds = {} /\ schedOutput = EmptyOutput /\ returned = {} /\ refused = {}
  BY DEF Init, SchedInit
<1>3. SchedIInv
  BY SchedInitIInv DEF Init
<1>4. \A S : <<>> \in Seq(S) /\ DOMAIN <<>> = {} /\ <<>> \in [DOMAIN <<>> -> S]
  OBVIOUS
<1>5. /\ Known = {} /\ DOMAIN requestIdToSched = {} /\ DOMAIN outQueue = {}
      /\ DOMAIN stateCache = {} /\ ToSet(running) = {} /\ ToSet(abortQueue) = {}
  BY <1>1, <1>2, <1>4 DEF Known, ToSet
<1>6. EngineTypeOK
  BY <1>1, <1>3, <1>4 DEF SchedIInv, EngineTypeOK, ClientStates
<1>7. SchedulerSide
  BY <1>1, <1>2, <1>3, <1>5
  DEF SchedIInv, SchedulerSide, QueuesAreSound, QueuesMatchStatuses, IdsAreSound
<1>. QED
  BY <1>1, <1>2, <1>5, <1>6, <1>7
  DEF EngineIInv, RebuildIsSound, StagesAreSound, Resting, BatchHasRun, CacheIsSound,
      BatchIsExecutable, FutureMatchesRequest, IdleHasNoId, AbortsAreMeant,
      ForgottenOnlyIfCancelled

\* The scheduler's part does not read the other variables, but for the ids
\* being released and the races.
LEMMA SchedulerSideKept ==
  ASSUME SchedulerSide, UNCHANGED <<schedVars, handling>>,
         raced' = raced \/ raced' = raced \cup {"abort"}
  PROVE  SchedulerSide'
<1>1. /\ UNCHANGED <<requestStates, requestIdToSched, waiting, running, runningKey,
                     finishedReqIds, progress, schedOutput, returned, refused, handling>>
      /\ "append" \in raced' <=> "append" \in raced
      /\ "release" \in raced' <=> "release" \in raced
  BY DEF schedVars, queueVars, tableVars
<1>2. SchedTypeOK' /\ BatchIsUniform' /\ BatchStaysVisible' /\ FinishedIdsAreOld'
  BY <1>1
  DEF SchedulerSide, SchedTypeOK, BatchIsUniform, BatchStaysVisible, FinishedIdsAreOld, Known,
      KeyOf, IsFinished, Scheduled
<1>3. QueuesAreSound'
  BY <1>1 DEF SchedulerSide, QueuesAreSound, Known
<1>4. IdsAreSound'
  BY <1>1 DEF SchedulerSide, IdsAreSound, Releasing, Known
<1>. QED
  BY <1>2, <1>3, <1>4 DEF SchedulerSide

\* What the states hold, for the steps that read them.
LEMMA EngineFacts ==
  ASSUME EngineIInv
  PROVE  /\ SchedTypeOK /\ QueuesAreSound /\ BatchIsUniform /\ IdsAreSound /\ BatchStaysVisible
         /\ FinishedIdsAreOld /\ EngineTypeOK /\ RebuildIsSound /\ StagesAreSound /\ CacheIsSound
         /\ BatchIsExecutable /\ FutureMatchesRequest /\ IdleHasNoId /\ AbortsAreMeant
         /\ ForgottenOnlyIfCancelled
         /\ ToSet(running) \subseteq Known /\ ToSet(waiting) \subseteq Known \ refused
         /\ ToSet(running) \cap ToSet(waiting) = {}
         /\ \A s \in Known : requestStates[s] \in RequestState
         /\ \A s \in ToSet(running) \cup ToSet(waiting) : ~IsFinished(s)
         /\ DOMAIN outQueue \subseteq Known \ refused
<1>1. /\ SchedTypeOK /\ QueuesAreSound /\ BatchIsUniform /\ IdsAreSound /\ BatchStaysVisible
      /\ FinishedIdsAreOld /\ EngineTypeOK /\ RebuildIsSound /\ StagesAreSound /\ CacheIsSound
      /\ BatchIsExecutable /\ FutureMatchesRequest /\ IdleHasNoId /\ AbortsAreMeant
      /\ ForgottenOnlyIfCancelled
  BY DEF EngineIInv, SchedulerSide
<1>2. /\ ToSet(running) \subseteq Known /\ ToSet(waiting) \subseteq Known \ refused
      /\ \A s \in ToSet(running) : requestStates[s].status = "RUNNING"
      /\ \A s \in ToSet(waiting) : requestStates[s].status = "WAITING"
  BY <1>1 DEF QueuesAreSound
<1>3. /\ ToSet(running) \cap ToSet(waiting) = {}
      /\ \A s \in ToSet(running) \cup ToSet(waiting) : ~IsFinished(s)
  BY <1>2 DEF IsFinished, FinishedStatuses
<1>4. \A s \in Known : requestStates[s] \in RequestState
  BY <1>1 DEF SchedTypeOK
<1>5. DOMAIN outQueue \subseteq Known \ refused
  BY <1>1 DEF FutureMatchesRequest
<1>. QED
  BY <1>1, <1>2, <1>3, <1>4, <1>5

-----------------------------------------------------------------------------
(* The event loop                                                          *)

\* A task of the event loop that does not submit changes what its client does
\* and what the queue of aborts holds.
LEMMA TaskStep ==
  ASSUME EngineIInv,
         UNCHANGED <<schedVars, schedIdOf, outQueue, busyVars>>,
         raced' = raced \/ raced' = raced \cup {"abort"},
         client' \in [Requests -> ClientStates],
         \A r \in Requests : /\ client[r] = "cancelled" => client'[r] = "cancelled"
                             /\ client'[r] = "idle" => client[r] = "idle",
         abortQueue' \in Seq(PublicIds), callbacks' \subseteq [client : Requests, out : Answers],
         AbortsAreMeant'
  PROVE  EngineIInv'
<1>1. /\ UNCHANGED <<requestStates, requestIdToSched, waiting, running, runningKey,
                     finishedReqIds, progress, schedOutput, returned, refused>>
      /\ UNCHANGED <<pc, purging, rebuild, handling, stateCache, outcome>>
  BY DEF schedVars, queueVars, tableVars, busyVars
<1>2. /\ "append" \in raced' <=> "append" \in raced
      /\ "abort" \in raced => "abort" \in raced'
      /\ raced \subseteq Races => raced' \subseteq Races
  BY DEF Races
<1>3. SchedulerSide' /\ SchedTypeOK'
  BY <1>1, SchedulerSideKept DEF EngineIInv, SchedulerSide
<1>4. EngineTypeOK'
  BY <1>1, <1>2, <1>3 DEF EngineIInv, EngineTypeOK
<1>5. RebuildIsSound' /\ StagesAreSound' /\ CacheIsSound' /\ BatchIsExecutable'
  BY <1>1, <1>2
  DEF EngineIInv, RebuildIsSound, StagesAreSound, Resting, BatchHasRun, CacheIsSound,
      BatchIsExecutable, InSync, Retained, Batch, Scheduled, Known
<1>6. FutureMatchesRequest' /\ IdleHasNoId'
  BY <1>1 DEF EngineIInv, FutureMatchesRequest, IdleHasNoId, Known
<1>7. ForgottenOnlyIfCancelled'
  <2>1. \A s \in DOMAIN outQueue : outQueue[s] \in Requests
    BY DEF EngineIInv, EngineTypeOK
  <2>. QED
    BY <1>1, <1>2, <2>1 DEF EngineIInv, ForgottenOnlyIfCancelled, IsFinished, Batch, Scheduled
<1>. QED
  BY <1>3, <1>4, <1>5, <1>6, <1>7 DEF EngineIInv

\* Tasks that leave the queue of aborts alone.
LEMMA QuietTaskStep ==
  ASSUME EngineIInv,
         UNCHANGED <<schedVars, schedIdOf, outQueue, abortQueue, busyVars, raced>>,
         client' \in [Requests -> ClientStates],
         \A r \in Requests : /\ client[r] = "cancelled" => client'[r] = "cancelled"
                             /\ client'[r] = "idle" => client[r] = "idle",
         callbacks' \subseteq callbacks
  PROVE  EngineIInv'
<1>1. /\ UNCHANGED <<requestIdToSched, handling, purging, outQueue, abortQueue, raced>>
      /\ abortQueue \in Seq(PublicIds) /\ callbacks' \subseteq [client : Requests, out : Answers]
      /\ \A s \in DOMAIN outQueue : outQueue[s] \in Requests
  BY DEF schedVars, tableVars, busyVars, EngineIInv, EngineTypeOK
<1>2. AbortsAreMeant'
  BY <1>1 DEF EngineIInv, AbortsAreMeant, Releasing
<1>. QED
  BY <1>1, <1>2, TaskStep

LEMMA GetResultIInv ==
  ASSUME EngineIInv, NEW r \in Requests, GetResult(r) PROVE EngineIInv'
<1>1. /\ client[r] = "added"
      /\ client' = [client EXCEPT ![r] =
                      IF schedIdOf[r] \in DOMAIN outQueue THEN "awaiting" ELSE "failed"]
      /\ UNCHANGED <<schedVars, schedIdOf, outQueue, abortQueue, callbacks, busyVars, raced>>
  BY DEF GetResult
<1>2. client \in [Requests -> ClientStates]
  BY DEF EngineIInv, EngineTypeOK
<1>3. /\ client' \in [Requests -> ClientStates]
      /\ \A q \in Requests : /\ client[q] = "cancelled" => client'[q] = "cancelled"
                             /\ client'[q] = "idle" => client[q] = "idle"
  BY <1>1, <1>2 DEF ClientStates
<1>. QED
  BY <1>1, <1>3, QuietTaskStep

LEMMA DeliverIInv ==
  ASSUME EngineIInv, NEW r \in Requests, Deliver(r) PROVE EngineIInv'
<1>1. PICK c \in callbacks :
        /\ callbacks' = callbacks \ {c}
        /\ client' = IF client[r] = "awaiting" THEN [client EXCEPT ![r] = c.out] ELSE client
  BY DEF Deliver
<1>2. UNCHANGED <<schedVars, schedIdOf, outQueue, abortQueue, busyVars, raced>>
  BY DEF Deliver
<1>3. client \in [Requests -> ClientStates] /\ c.out \in Answers
  BY DEF EngineIInv, EngineTypeOK
<1>4. /\ client' \in [Requests -> ClientStates]
      /\ \A q \in Requests : /\ client[q] = "cancelled" => client'[q] = "cancelled"
                             /\ client'[q] = "idle" => client[q] = "idle"
  BY <1>1, <1>3 DEF ClientStates, Answers
<1>. QED
  BY <1>1, <1>2, <1>4, QuietTaskStep

LEMMA CancelIInv ==
  ASSUME EngineIInv, NEW r \in Requests, CancelAndAbort(r) PROVE EngineIInv'
<1>1. /\ client[r] = "awaiting"
      /\ client' = [client EXCEPT ![r] = "cancelled"]
      /\ abortQueue' = Append(abortQueue, AbortId[r])
      /\ raced' = raced \cup RacesOfAbort(r)
      /\ UNCHANGED <<schedVars, schedIdOf, outQueue, callbacks, busyVars>>
  BY DEF CancelAndAbort
<1>2. /\ client \in [Requests -> ClientStates] /\ abortQueue \in Seq(PublicIds)
      /\ callbacks \subseteq [client : Requests, out : Answers]
      /\ \A s \in DOMAIN outQueue : outQueue[s] \in Requests
      /\ AbortId[r] \in PublicIds
  BY EngineAssumption DEF EngineIInv, EngineTypeOK
<1>3. /\ client' \in [Requests -> ClientStates]
      /\ \A q \in Requests : /\ client[q] = "cancelled" => client'[q] = "cancelled"
                             /\ client'[q] = "idle" => client[q] = "idle"
      /\ client'[r] = "cancelled"
  BY <1>1, <1>2 DEF ClientStates
<1>4. abortQueue' \in Seq(PublicIds) /\ ToSet(abortQueue') = ToSet(abortQueue) \cup {AbortId[r]}
  BY <1>1, <1>2, ListAppend
<1>5. UNCHANGED <<requestIdToSched, handling, purging, outQueue, requestStates>>
  BY <1>1 DEF schedVars, tableVars, busyVars
<1>6. (raced' = raced \/ raced' = raced \cup {"abort"}) /\ ("abort" \in raced => "abort" \in raced')
  BY <1>1 DEF RacesOfAbort
<1>7. AbortsAreMeant'
  <2>. SUFFICES ASSUME "abort" \notin raced' PROVE AbortsAreMeant'
    BY DEF AbortsAreMeant
  <2>1. AbortsAreMeant /\ FutureMatchesRequest
    BY DEF EngineIInv
  <2>2. Reached(AbortId[r]) \subseteq {r}
    BY <1>1 DEF RacesOfAbort
  <2>3. ASSUME AbortId[r] \in DOMAIN requestIdToSched,
               requestIdToSched[AbortId[r]] \in DOMAIN outQueue
        PROVE  outQueue[requestIdToSched[AbortId[r]]] = r
    <3>. DEFINE s == requestIdToSched[AbortId[r]]
    <3>1. s \in Known /\ requestStates[s].req = outQueue[s]
      BY <2>1, <2>3 DEF FutureMatchesRequest
    <3>2. requestStates[s].req \in Reached(AbortId[r])
      BY <2>3, <3>1 DEF Reached
    <3>. QED
      BY <2>2, <3>1, <3>2
  <2>4. ASSUME NEW id \in ToSet(abortQueue') \cap DOMAIN requestIdToSched, ~Releasing(id)',
               requestIdToSched[id] \in DOMAIN outQueue
        PROVE  client'[outQueue[requestIdToSched[id]]] = "cancelled"
    <3>1. ~Releasing(id)
      BY <1>5, <2>4 DEF Releasing
    <3>2. CASE id = AbortId[r]
      BY <1>3, <2>3, <2>4, <3>2
    <3>3. CASE id # AbortId[r]
      <4>1. id \in ToSet(abortQueue) /\ "abort" \notin raced
        BY <1>4, <1>6, <2>4, <3>3
      <4>. QED
        BY <1>2, <1>3, <2>1, <2>4, <3>1, <4>1 DEF AbortsAreMeant
    <3>. QED
      BY <3>2, <3>3
  <2>5. \A s \in purging \cap DOMAIN outQueue : client'[outQueue[s]] = "cancelled"
    BY <1>2, <1>3, <1>6, <2>1 DEF AbortsAreMeant
  <2>. QED
    BY <1>5, <2>4, <2>5 DEF AbortsAreMeant
<1>. QED
  BY <1>1, <1>2, <1>3, <1>4, <1>6, <1>7, TaskStep

\* Storing a state and registering its ids: an id registered before the first
\* conflict is a new one, or still that of a popped request with the same
\* scheduler id.
LEMMA SubmitInserts ==
  ASSUME EngineIInv, NEW r \in Requests, NEW s \in SchedIds, InsertRequest(r, s)
  PROVE  /\ s \notin Known /\ Known' = Known \cup {s}
         /\ requestStates' \in [Known' -> RequestState] /\ Known' \subseteq SchedIds
         /\ requestStates'[s] = [req |-> r, status |-> "WAITING"]
         /\ \A t \in Known : requestStates'[t] = requestStates[t]
         /\ DOMAIN requestIdToSched' = Registered(r, s) \cup DOMAIN requestIdToSched
         /\ requestIdToSched' \in [DOMAIN requestIdToSched' -> SchedIds]
         /\ DOMAIN requestIdToSched' \subseteq PublicIds
         /\ \A id \in Registered(r, s) : /\ requestIdToSched'[id] = s
                                         /\ id \in DOMAIN requestIdToSched => requestIdToSched[id] = s
         /\ \A id \in DOMAIN requestIdToSched : requestIdToSched'[id] = requestIdToSched[id]
         /\ Registered(r, s) \subseteq IdsOf(r)
         /\ Conflicts(r, s) = {} => Registered(r, s) = IdsOf(r)
<1>1. SchedTypeOK
  BY EngineFacts
<1>2. s \notin Known
  BY DEF InsertRequest, IsFreshSchedId
<1>. DEFINE state == [req |-> r, status |-> "WAITING"]
<1>3. state \in RequestState
  BY DEF RequestState, Statuses
<1>. HIDE DEF state
<1>4. requestStates' = Put(requestStates, {s}, state)
  BY DEF InsertRequest, state
<1>5. Known' = Known \cup {s} /\ requestStates' \in [Known' -> RequestState]
  BY <1>1, <1>3, <1>4 DEF Put, Known, SchedTypeOK
<1>6. requestStates'[s] = state /\ \A t \in Known : requestStates'[t] = requestStates[t]
  BY <1>2, <1>4 DEF Put, Known
<1>7. RequestIds[r] \in Seq(PublicIds) /\ DOMAIN RequestIds[r] = 1..Len(RequestIds[r])
  BY SchedulerAssumption
<1>8. IdsOf(r) \subseteq PublicIds /\ \A i \in DOMAIN RequestIds[r] : RequestIds[r][i] \in IdsOf(r)
  BY <1>7 DEF IdsOf, ToSet
<1>9. Registered(r, s) \subseteq IdsOf(r)
  BY <1>8 DEF Registered
<1>10. Conflicts(r, s) = {} => Registered(r, s) = IdsOf(r)
  BY DEF Registered, IdsOf, ToSet
<1>11. ASSUME NEW id \in Registered(r, s), id \in DOMAIN requestIdToSched
       PROVE  requestIdToSched[id] = s
  <2>1. PICK i \in DOMAIN RequestIds[r] :
          id = RequestIds[r][i] /\ \A c \in Conflicts(r, s) : i < c
    BY DEF Registered
  <2>2. i \notin Conflicts(r, s)
    BY <1>7, <2>1
  <2>. QED
    BY <1>11, <2>1, <2>2 DEF Conflicts
<1>12. requestIdToSched' = Put(requestIdToSched, Registered(r, s), s)
  BY DEF InsertRequest
<1>13. /\ DOMAIN requestIdToSched' = Registered(r, s) \cup DOMAIN requestIdToSched
       /\ requestIdToSched' \in [DOMAIN requestIdToSched' -> SchedIds]
  BY <1>1, <1>12 DEF Put, SchedTypeOK
<1>14. /\ \A id \in Registered(r, s) : requestIdToSched'[id] = s
       /\ \A id \in DOMAIN requestIdToSched : requestIdToSched'[id] = requestIdToSched[id]
  BY <1>11, <1>12 DEF Put
<1>15. Known' \subseteq SchedIds /\ DOMAIN requestIdToSched' \subseteq PublicIds
  BY <1>1, <1>5, <1>8, <1>9, <1>13 DEF SchedTypeOK
<1>. QED
  BY <1>2, <1>5, <1>6, <1>9, <1>10, <1>11, <1>13, <1>14, <1>15 DEF state

\* What an add_request(), accepted or refused, does to the scheduler's part.
LEMMA SubmitKeepsScheduler ==
  ASSUME EngineIInv, NEW r \in Requests, NEW s \in SchedIds, InsertRequest(r, s),
         UNCHANGED <<running, runningKey, finishedReqIds, schedOutput, returned, handling>>,
         \/ /\ Conflicts(r, s) = {} /\ refused' = refused
            /\ waiting' = Append(waiting, s)
            /\ progress' = IF StepMode THEN progress \cup {s} ELSE progress
            /\ \A h \in handling : IdsOf(r) \cap h.ids # {} => "release" \in raced'
         \/ /\ refused' = refused \cup {s} /\ UNCHANGED <<waiting, progress>>,
         raced \subseteq raced'
  PROVE  SchedulerSide'
<1>1. /\ s \notin Known /\ Known' = Known \cup {s}
      /\ requestStates' \in [Known' -> RequestState] /\ Known' \subseteq SchedIds
      /\ requestStates'[s] = [req |-> r, status |-> "WAITING"]
      /\ \A t \in Known : requestStates'[t] = requestStates[t]
      /\ DOMAIN requestIdToSched' = Registered(r, s) \cup DOMAIN requestIdToSched
      /\ requestIdToSched' \in [DOMAIN requestIdToSched' -> SchedIds]
      /\ DOMAIN requestIdToSched' \subseteq PublicIds
      /\ \A id \in Registered(r, s) : /\ requestIdToSched'[id] = s
                                      /\ id \in DOMAIN requestIdToSched => requestIdToSched[id] = s
      /\ \A id \in DOMAIN requestIdToSched : requestIdToSched'[id] = requestIdToSched[id]
      /\ Registered(r, s) \subseteq IdsOf(r)
      /\ Conflicts(r, s) = {} => Registered(r, s) = IdsOf(r)
  BY SubmitInserts
<1>2. /\ SchedTypeOK /\ QueuesAreSound /\ BatchIsUniform /\ IdsAreSound /\ BatchStaysVisible
      /\ FinishedIdsAreOld /\ ToSet(running) \subseteq Known
      /\ ToSet(waiting) \subseteq Known \ refused
  BY EngineFacts
<1>3. \/ /\ waiting' \in Seq(SchedIds) /\ ToSet(waiting') = ToSet(waiting) \cup {s}
         /\ NoDuplicates(waiting') /\ Conflicts(r, s) = {} /\ refused' = refused
         /\ progress' = IF StepMode THEN progress \cup {s} ELSE progress
         /\ \A h \in handling : IdsOf(r) \cap h.ids # {} => "release" \in raced'
      \/ /\ refused' = refused \cup {s} /\ UNCHANGED <<waiting, progress>>
  <2>1. waiting \in Seq(SchedIds) /\ NoDuplicates(waiting) /\ s \notin ToSet(waiting)
    BY <1>1, <1>2 DEF SchedTypeOK, QueuesAreSound
  <2>2. /\ Append(waiting, s) \in Seq(SchedIds)
        /\ ToSet(Append(waiting, s)) = ToSet(waiting) \cup {s}
        /\ NoDuplicates(Append(waiting, s))
    BY <2>1, ListAppend
  <2>. QED
    BY <2>2, Zenon
<1>4. s \notin refused
  BY <1>1, <1>2 DEF QueuesAreSound
<1>5. SchedTypeOK'
  BY <1>1, <1>2, <1>3 DEF SchedTypeOK
<1>6. QueuesAreSound'
  <2>1. NoDuplicates(running') /\ NoDuplicates(waiting')
    BY <1>2, <1>3 DEF QueuesAreSound
  <2>2. ToSet(running') = {t \in Known' : requestStates'[t].status = "RUNNING"}
    BY <1>1, <1>2 DEF QueuesAreSound
  <2>3. ToSet(waiting') \subseteq {t \in Known' \ refused' : requestStates'[t].status = "WAITING"}
    BY <1>1, <1>2, <1>3, <1>4 DEF QueuesAreSound
  <2>4. "append" \notin raced' =>
          {t \in Known' \ refused' : requestStates'[t].status = "WAITING"} \subseteq ToSet(waiting')
    BY <1>1, <1>2, <1>3 DEF QueuesAreSound
  <2>5. \A t \in Known' : requestStates'[t].status # "PREEMPTED"
    BY <1>1, <1>2 DEF QueuesAreSound
  <2>6. \A t \in refused' : t \in Known' /\ requestStates'[t].status # "RUNNING"
    BY <1>1, <1>2, <1>3 DEF QueuesAreSound
  <2>7. StepMode => Known' \ refused' \subseteq progress'
    BY <1>1, <1>2, <1>3 DEF QueuesAreSound
  <2>. QED
    BY <2>1, <2>2, <2>3, <2>4, <2>5, <2>6, <2>7 DEF QueuesAreSound
<1>7. BatchIsUniform'
  <2>1. \A i \in 1..Len(running) : running[i] \in Known
    BY <1>2 DEF ToSet, SchedTypeOK
  <2>2. running # <<>> => 1 \in 1..Len(running)
    BY <1>2 DEF SchedTypeOK
  <2>. QED
    BY <1>1, <1>2, <2>1, <2>2 DEF BatchIsUniform, KeyOf
<1>8. IdsAreSound'
  <2>1. ASSUME NEW id \in DOMAIN requestIdToSched', ~Releasing(id)'
        PROVE  /\ requestIdToSched'[id] \in Known'
               /\ id \in IdsOf(requestStates'[requestIdToSched'[id]].req)
    <3>1. CASE id \in Registered(r, s)
      BY <1>1, <3>1
    <3>2. CASE id \notin Registered(r, s)
      <4>1. id \in DOMAIN requestIdToSched /\ requestIdToSched'[id] = requestIdToSched[id]
        BY <1>1, <2>1, <3>2
      <4>2. ~Releasing(id)
        BY <2>1, <4>1 DEF Releasing
      <4>. QED
        BY <1>1, <1>2, <4>1, <4>2 DEF IdsAreSound
    <3>. QED
      BY <3>1, <3>2
  <2>2. ASSUME "release" \notin raced', NEW t \in Known' \ refused',
               NEW id \in IdsOf(requestStates'[t].req)
        PROVE  id \in DOMAIN requestIdToSched' /\ requestIdToSched'[id] = t /\ ~Releasing(id)'
    <3>1. CASE t = s
      <4>1. id \in IdsOf(r) /\ Registered(r, s) = IdsOf(r)
            /\ \A h \in handling : IdsOf(r) \cap h.ids = {}
        BY <1>1, <1>3, <2>2, <3>1
      <4>. QED
        BY <1>1, <3>1, <4>1 DEF Releasing
    <3>2. CASE t # s
      <4>1. t \in Known \ refused /\ id \in IdsOf(requestStates[t].req) /\ "release" \notin raced
        BY <1>1, <1>3, <2>2, <3>2
      <4>2. id \in DOMAIN requestIdToSched /\ requestIdToSched[id] = t /\ ~Releasing(id)
        BY <1>2, <4>1 DEF IdsAreSound
      <4>. QED
        BY <1>1, <4>2 DEF Releasing
    <3>. QED
      BY <3>1, <3>2
  <2>. QED
    BY <2>1, <2>2 DEF IdsAreSound
<1>9. BatchStaysVisible'
  <2>1. \A t \in Known : IsFinished(t)' <=> IsFinished(t)
    BY <1>1 DEF IsFinished
  <2>2. Scheduled(schedOutput)' = Scheduled(schedOutput) /\ ToSet(waiting) \subseteq ToSet(waiting')
    BY <1>3 DEF Scheduled
  <2>3. \A t \in Scheduled(schedOutput) :
          \/ t \in ToSet(running')
          \/ t \in ToSet(waiting') /\ requestStates'[t].status = "PREEMPTED"
          \/ t \in finishedReqIds' \cap Known' /\ IsFinished(t)'
    BY <1>1, <1>2, <2>1, <2>2 DEF BatchStaysVisible
  <2>4. \A t \in returned' : t \in Known' /\ IsFinished(t)'
    BY <1>1, <1>2, <2>1 DEF BatchStaysVisible
  <2>. QED
    BY <2>2, <2>3, <2>4 DEF BatchStaysVisible
<1>10. FinishedIdsAreOld'
  BY <1>1, <1>2 DEF FinishedIdsAreOld
<1>. QED
  BY <1>5, <1>6, <1>7, <1>8, <1>9, <1>10 DEF SchedulerSide

\* What an add_request() leaves of the rest: it touches no id that is cached,
\* being purged, batched or waited for.
LEMMA SubmitKeepsLoop ==
  ASSUME EngineIInv, NEW r \in Requests, NEW s \in SchedIds, InsertRequest(r, s),
         UNCHANGED <<running, runningKey, finishedReqIds, schedOutput, returned, busyVars>>,
         \/ waiting' = Append(waiting, s) /\ (rebuild # {} => "append" \in raced')
         \/ waiting' = waiting,
         raced \subseteq raced'
  PROVE  RebuildIsSound' /\ StagesAreSound' /\ CacheIsSound' /\ BatchIsExecutable'
<1>1. /\ s \notin Known /\ Known' = Known \cup {s}
      /\ \A t \in Known : requestStates'[t] = requestStates[t]
  BY SubmitInserts
<1>2. UNCHANGED <<pc, purging, rebuild, handling, stateCache, outcome>>
  BY DEF busyVars
<1>3. waiting \in Seq(SchedIds)
  BY EngineFacts DEF SchedTypeOK
<1>4. RebuildIsSound'
  <2>1. ToSet(Append(waiting, s)) = ToSet(waiting) \cup {s}
    BY <1>3, ListAppend
  <2>2. ToSet(waiting) \subseteq ToSet(waiting')
    BY <2>1
  <2>. QED
    BY <1>2, <2>2 DEF EngineIInv, RebuildIsSound
<1>5. StagesAreSound'
  BY <1>1, <1>2 DEF EngineIInv, StagesAreSound, Resting, BatchHasRun, Batch, Scheduled
<1>6. CacheIsSound'
  BY <1>1, <1>2 DEF EngineIInv, CacheIsSound, Resting, BatchHasRun, Batch, Scheduled
<1>7. BatchIsExecutable'
  BY <1>1, <1>2 DEF EngineIInv, BatchIsExecutable, InSync, Retained, Batch, Scheduled
<1>. QED
  BY <1>4, <1>5, <1>6, <1>7

LEMMA SubmitAcceptedIInv ==
  ASSUME EngineIInv, NEW r \in Requests, NEW s \in SchedIds, AddAccepted(r, s),
         client[r] = "idle", client' = [client EXCEPT ![r] = "added"],
         schedIdOf' = [schedIdOf EXCEPT ![r] = s], outQueue' = Put(outQueue, {s}, r),
         raced' = raced \cup RacesOfSubmit(r),
         UNCHANGED <<abortQueue, callbacks, busyVars>>
  PROVE  EngineIInv'
<1>1. /\ Conflicts(r, s) = {} /\ InsertRequest(r, s)
      /\ waiting' = Append(waiting, s)
      /\ progress' = IF StepMode THEN progress \cup {s} ELSE progress
      /\ UNCHANGED <<running, runningKey, finishedReqIds, schedOutput, returned, refused>>
  BY DEF AddAccepted
<1>2. /\ raced \subseteq raced' /\ (raced \subseteq Races => raced' \subseteq Races)
      /\ rebuild # {} => "append" \in raced'
      /\ "abort" \notin raced' => "abort" \notin raced /\ IdsOf(r) \cap ToSet(abortQueue) = {}
      /\ \A h \in handling : IdsOf(r) \cap h.ids # {} => "release" \in raced'
  BY DEF RacesOfSubmit, Races
<1>3. UNCHANGED <<pc, purging, rebuild, handling, stateCache, outcome>>
  BY DEF busyVars
<1>4. /\ s \notin Known /\ Known' = Known \cup {s}
      /\ requestStates'[s] = [req |-> r, status |-> "WAITING"]
      /\ \A t \in Known : requestStates'[t] = requestStates[t]
      /\ DOMAIN requestIdToSched' = Registered(r, s) \cup DOMAIN requestIdToSched
      /\ \A id \in DOMAIN requestIdToSched : requestIdToSched'[id] = requestIdToSched[id]
      /\ Registered(r, s) = IdsOf(r)
  BY <1>1, SubmitInserts
<1>5. /\ client \in [Requests -> ClientStates] /\ schedIdOf \in [Requests -> SchedIds \cup {NoId}]
      /\ outQueue \in [DOMAIN outQueue -> Requests] /\ DOMAIN outQueue \subseteq SchedIds
      /\ s \notin DOMAIN outQueue /\ s \notin refused
  BY <1>4, EngineFacts DEF EngineTypeOK, QueuesAreSound
<1>6. /\ DOMAIN outQueue' = DOMAIN outQueue \cup {s} /\ outQueue'[s] = r
      /\ \A t \in DOMAIN outQueue : outQueue'[t] = outQueue[t]
      /\ outQueue' \in [DOMAIN outQueue' -> Requests]
  BY <1>5 DEF Put
<1>7. /\ client' \in [Requests -> ClientStates] /\ client'[r] = "added"
      /\ \A q \in Requests \ {r} : client'[q] = client[q]
      /\ schedIdOf' \in [Requests -> SchedIds \cup {NoId}] /\ schedIdOf'[r] = s
      /\ \A q \in Requests \ {r} : schedIdOf'[q] = schedIdOf[q]
  BY <1>5 DEF ClientStates
<1>8. \A t \in DOMAIN outQueue : outQueue[t] # r /\ outQueue[t] \in Requests
  <2>1. schedIdOf[r] = NoId /\ NoId \notin SchedIds
    BY EngineFacts, EngineAssumption DEF IdleHasNoId
  <2>. QED
    BY <1>5, <2>1, EngineFacts DEF FutureMatchesRequest
<1>9. SchedulerSide'
  BY <1>1, <1>2, <1>3, SubmitKeepsScheduler
<1>10. RebuildIsSound' /\ StagesAreSound' /\ CacheIsSound' /\ BatchIsExecutable'
  BY <1>1, <1>2, SubmitKeepsLoop
<1>11. EngineTypeOK'
  BY <1>2, <1>3, <1>5, <1>6, <1>7, <1>9, EngineFacts DEF EngineTypeOK, SchedulerSide
<1>12. FutureMatchesRequest'
  <2>. SUFFICES ASSUME NEW t \in DOMAIN outQueue'
                PROVE  /\ schedIdOf'[outQueue'[t]] = t /\ t \in Known' \ refused'
                       /\ requestStates'[t].req = outQueue'[t]
    BY DEF FutureMatchesRequest
  <2>1. CASE t = s
    BY <1>1, <1>4, <1>5, <1>6, <1>7, <2>1
  <2>2. CASE t # s
    <3>1. t \in DOMAIN outQueue
      BY <1>6, <2>2
    <3>2. schedIdOf[outQueue[t]] = t /\ t \in Known \ refused /\ requestStates[t].req = outQueue[t]
      BY <3>1, EngineFacts DEF FutureMatchesRequest
    <3>. QED
      BY <1>1, <1>4, <1>6, <1>7, <1>8, <3>1, <3>2
  <2>. QED
    BY <2>1, <2>2
<1>13. IdleHasNoId'
  BY <1>7, EngineFacts DEF IdleHasNoId
<1>14. AbortsAreMeant'
  <2>. SUFFICES ASSUME "abort" \notin raced' PROVE AbortsAreMeant'
    BY DEF AbortsAreMeant
  <2>1. "abort" \notin raced /\ AbortsAreMeant
    BY <1>2, EngineFacts
  <2>2. ASSUME NEW id \in ToSet(abortQueue) \cap DOMAIN requestIdToSched', ~Releasing(id)',
               requestIdToSched'[id] \in DOMAIN outQueue'
        PROVE  client'[outQueue'[requestIdToSched'[id]]] = "cancelled"
    <3>1. id \notin IdsOf(r)
      BY <1>2, <2>2
    <3>2. id \in DOMAIN requestIdToSched /\ requestIdToSched'[id] = requestIdToSched[id]
      BY <1>4, <2>2, <3>1
    <3>3. ~Releasing(id)
      BY <1>3, <2>2, <3>2 DEF Releasing
    <3>4. requestIdToSched[id] \in Known
      BY <3>2, <3>3, EngineFacts DEF IdsAreSound
    <3>5. requestIdToSched[id] \in DOMAIN outQueue
      BY <1>4, <1>6, <2>2, <3>2, <3>4
    <3>6. client[outQueue[requestIdToSched[id]]] = "cancelled"
      BY <2>1, <2>2, <3>2, <3>3, <3>5 DEF AbortsAreMeant
    <3>. QED
      BY <1>6, <1>7, <1>8, <3>2, <3>5, <3>6
  <2>3. ASSUME NEW t \in purging \cap DOMAIN outQueue'
        PROVE  client'[outQueue'[t]] = "cancelled"
    <3>1. t \in DOMAIN outQueue
      BY <1>4, <1>6, <2>3, EngineFacts DEF StagesAreSound
    <3>2. client[outQueue[t]] = "cancelled"
      BY <2>1, <2>3, <3>1 DEF AbortsAreMeant
    <3>. QED
      BY <1>6, <1>7, <1>8, <3>1, <3>2
  <2>4. UNCHANGED <<abortQueue, purging>>
    BY <1>3
  <2>. QED
    BY <2>2, <2>3, <2>4 DEF AbortsAreMeant
<1>15. ForgottenOnlyIfCancelled'
  <2>. SUFFICES ASSUME NEW t \in DOMAIN outQueue', IsFinished(t)'
                PROVE  \/ t \in returned' \cup Batch' \/ client'[outQueue'[t]] = "cancelled"
                       \/ "abort" \in raced'
    BY DEF ForgottenOnlyIfCancelled
  <2>1. t # s
    BY <1>4 DEF IsFinished, FinishedStatuses
  <2>2. t \in DOMAIN outQueue /\ t \in Known
    BY <1>6, <2>1, EngineFacts
  <2>3. IsFinished(t)
    BY <1>4, <2>2 DEF IsFinished
  <2>4. \/ t \in returned \cup Batch \/ client[outQueue[t]] = "cancelled" \/ "abort" \in raced
    BY <2>2, <2>3, EngineFacts DEF ForgottenOnlyIfCancelled
  <2>. QED
    BY <1>1, <1>2, <1>6, <1>7, <1>8, <2>2, <2>4 DEF Batch, Scheduled
<1>. QED
  BY <1>9, <1>10, <1>11, <1>12, <1>13, <1>14, <1>15 DEF EngineIInv

LEMMA SubmitRefusedIInv ==
  ASSUME EngineIInv, NEW r \in Requests, NEW s \in SchedIds, AddRefused(r, s),
         client[r] = "idle", client' = [client EXCEPT ![r] = "failed"],
         UNCHANGED <<schedIdOf, outQueue, raced, abortQueue, callbacks, busyVars>>
  PROVE  EngineIInv'
<1>1. /\ InsertRequest(r, s) /\ refused' = refused \cup {s}
      /\ UNCHANGED <<waiting, running, runningKey, progress, finishedReqIds, schedOutput,
                     returned>>
  BY DEF AddRefused, queueVars
<1>2. UNCHANGED <<pc, purging, rebuild, handling, stateCache, outcome>>
  BY DEF busyVars
<1>3. /\ s \notin Known /\ Known' = Known \cup {s}
      /\ \A t \in Known : requestStates'[t] = requestStates[t]
      /\ DOMAIN requestIdToSched' = Registered(r, s) \cup DOMAIN requestIdToSched
      /\ \A id \in Registered(r, s) : /\ requestIdToSched'[id] = s
                                      /\ id \in DOMAIN requestIdToSched => requestIdToSched[id] = s
      /\ \A id \in DOMAIN requestIdToSched : requestIdToSched'[id] = requestIdToSched[id]
  BY <1>1, SubmitInserts
<1>4. /\ client \in [Requests -> ClientStates] /\ s \notin DOMAIN outQueue
      /\ DOMAIN outQueue \subseteq Known \ refused
      /\ \A t \in DOMAIN outQueue : outQueue[t] \in Requests
  BY <1>3, EngineFacts DEF EngineTypeOK
<1>5. /\ client' \in [Requests -> ClientStates] /\ client'[r] = "failed"
      /\ \A q \in Requests \ {r} : client'[q] = client[q]
  BY <1>4 DEF ClientStates
<1>6. SchedulerSide'
  BY <1>1, <1>2, SubmitKeepsScheduler
<1>7. RebuildIsSound' /\ StagesAreSound' /\ CacheIsSound' /\ BatchIsExecutable'
  BY <1>1, SubmitKeepsLoop
<1>8. EngineTypeOK'
  BY <1>2, <1>5, <1>6, EngineFacts DEF EngineTypeOK, SchedulerSide
<1>9. FutureMatchesRequest'
  BY <1>1, <1>3, <1>4, EngineFacts DEF FutureMatchesRequest
<1>10. IdleHasNoId'
  BY <1>5, EngineFacts DEF IdleHasNoId
<1>11. \A q \in Requests : client[q] = "cancelled" => client'[q] = "cancelled"
  BY <1>5
<1>12. AbortsAreMeant'
  <2>. SUFFICES ASSUME "abort" \notin raced PROVE AbortsAreMeant'
    BY DEF AbortsAreMeant
  <2>1. ASSUME NEW id \in ToSet(abortQueue) \cap DOMAIN requestIdToSched', ~Releasing(id)',
               requestIdToSched'[id] \in DOMAIN outQueue
        PROVE  client'[outQueue[requestIdToSched'[id]]] = "cancelled"
    <3>1. id \in DOMAIN requestIdToSched /\ requestIdToSched'[id] = requestIdToSched[id]
      BY <1>3, <1>4, <2>1
    <3>2. ~Releasing(id)
      BY <1>2, <2>1, <3>1 DEF Releasing
    <3>3. client[outQueue[requestIdToSched[id]]] = "cancelled"
      BY <2>1, <3>1, <3>2, EngineFacts DEF AbortsAreMeant
    <3>. QED
      BY <1>4, <1>11, <2>1, <3>1, <3>3
  <2>2. \A t \in purging \cap DOMAIN outQueue : client'[outQueue[t]] = "cancelled"
    BY <1>4, <1>11, EngineFacts DEF AbortsAreMeant
  <2>. QED
    BY <1>2, <2>1, <2>2 DEF AbortsAreMeant
<1>13. ForgottenOnlyIfCancelled'
  <2>1. \A t \in DOMAIN outQueue : IsFinished(t)' <=> IsFinished(t)
    BY <1>3, <1>4 DEF IsFinished
  <2>. QED
    BY <1>1, <1>4, <1>11, <2>1, EngineFacts DEF ForgottenOnlyIfCancelled, Batch, Scheduled
<1>. QED
  BY <1>6, <1>7, <1>8, <1>9, <1>10, <1>12, <1>13 DEF EngineIInv

LEMMA SubmitIInv ==
  ASSUME EngineIInv, NEW r \in Requests, Submit(r) PROVE EngineIInv'
<1>1. PICK s \in SchedIds :
        \/ /\ AddAccepted(r, s)
           /\ client' = [client EXCEPT ![r] = "added"]
           /\ schedIdOf' = [schedIdOf EXCEPT ![r] = s]
           /\ outQueue' = Put(outQueue, {s}, r)
           /\ raced' = raced \cup RacesOfSubmit(r)
        \/ /\ AddRefused(r, s)
           /\ client' = [client EXCEPT ![r] = "failed"]
           /\ UNCHANGED <<schedIdOf, outQueue, raced>>
  BY DEF Submit
<1>2. client[r] = "idle" /\ UNCHANGED <<abortQueue, callbacks, busyVars>>
  BY DEF Submit
<1>. QED
  BY <1>1, <1>2, SubmitAcceptedIInv, SubmitRefusedIInv

-----------------------------------------------------------------------------
(* The busy loop, between two calls of the scheduler                       *)

\* What a step that only moves the busy loop leaves as it was.
LEMMA BusyStep ==
  ASSUME EngineIInv,
         UNCHANGED <<schedVars, client, schedIdOf, outQueue, callbacks, handling, raced>>
  PROVE  /\ SchedulerSide' /\ FutureMatchesRequest' /\ IdleHasNoId' /\ ForgottenOnlyIfCancelled'
         /\ UNCHANGED <<requestStates, requestIdToSched, waiting, running, runningKey,
                        finishedReqIds, progress, schedOutput, returned, refused>>
         /\ Known' = Known /\ Batch' = Batch
<1>1. /\ UNCHANGED <<requestStates, requestIdToSched, waiting, running, runningKey,
                     finishedReqIds, progress, schedOutput, returned, refused>>
      /\ Known' = Known /\ Batch' = Batch
  BY DEF schedVars, queueVars, tableVars, Known, Batch, Scheduled
<1>2. SchedulerSide'
  BY SchedulerSideKept DEF EngineIInv
<1>3. FutureMatchesRequest' /\ IdleHasNoId' /\ ForgottenOnlyIfCancelled'
  BY <1>1
  DEF EngineIInv, FutureMatchesRequest, IdleHasNoId, ForgottenOnlyIfCancelled, IsFinished
<1>. QED
  BY <1>1, <1>2, <1>3

LEMMA DrainIInv == ASSUME EngineIInv, DrainAborts PROVE EngineIInv'
<1>1. /\ pc \in {"top", "executed"}
      /\ purging' = {requestIdToSched[id] : id \in ToSet(abortQueue) \cap DOMAIN requestIdToSched}
      /\ abortQueue' = <<>>
      /\ pc' = IF pc = "top" THEN "purgeFirst" ELSE "purgeLast"
      /\ UNCHANGED <<schedVars, client, schedIdOf, outQueue, callbacks, rebuild, handling,
                     stateCache, outcome, raced>>
  BY DEF DrainAborts
<1>2. /\ SchedulerSide' /\ FutureMatchesRequest' /\ IdleHasNoId' /\ ForgottenOnlyIfCancelled'
      /\ UNCHANGED <<requestStates, requestIdToSched, waiting, running, runningKey,
                     finishedReqIds, progress, schedOutput, returned, refused>>
      /\ Known' = Known /\ Batch' = Batch
  BY <1>1, BusyStep
<1>3. handling = {} /\ rebuild = {}
  BY <1>1, EngineFacts DEF StagesAreSound, RebuildIsSound
<1>4. \A id \in DOMAIN requestIdToSched : ~Releasing(id) /\ requestIdToSched[id] \in Known
  BY <1>3, EngineFacts DEF Releasing, IdsAreSound
<1>5. purging' \subseteq Known /\ Known \subseteq SchedIds
  BY <1>1, <1>4, EngineFacts DEF SchedTypeOK
<1>6. abortQueue' \in Seq(PublicIds) /\ ToSet(abortQueue') = {}
  <2>1. <<>> \in Seq(PublicIds) /\ DOMAIN <<>> = {}
    OBVIOUS
  <2>. QED
    BY <1>1, <2>1 DEF ToSet
<1>7. EngineTypeOK'
  BY <1>1, <1>2, <1>5, <1>6, EngineFacts DEF EngineTypeOK, SchedulerSide
<1>8. RebuildIsSound'
  BY <1>1, <1>3 DEF RebuildIsSound
<1>9. StagesAreSound'
  BY <1>1, <1>2, <1>5, EngineFacts DEF StagesAreSound, Resting, BatchHasRun
<1>10. CacheIsSound' /\ BatchIsExecutable'
  BY <1>1, <1>2, EngineFacts DEF CacheIsSound, Resting, BatchHasRun, BatchIsExecutable
<1>11. AbortsAreMeant'
  <2>. SUFFICES ASSUME "abort" \notin raced PROVE AbortsAreMeant'
    BY <1>1 DEF AbortsAreMeant
  <2>1. ASSUME NEW s \in purging' \cap DOMAIN outQueue PROVE client[outQueue[s]] = "cancelled"
    <3>1. PICK id \in ToSet(abortQueue) \cap DOMAIN requestIdToSched : s = requestIdToSched[id]
      BY <1>1, <2>1
    <3>. QED
      BY <1>4, <2>1, <3>1, EngineFacts DEF AbortsAreMeant
  <2>. QED
    BY <1>1, <1>6, <2>1 DEF AbortsAreMeant
<1>. QED
  BY <1>2, <1>7, <1>8, <1>9, <1>10, <1>11 DEF EngineIInv

LEMMA RebuildBeginIInv ==
  ASSUME EngineIInv, NEW s \in SchedIds, RebuildBegin(s) PROVE EngineIInv'
<1>1. /\ pc \in {"purgeFirst", "purgeLast"} /\ s \in purging /\ s \in Unfinished(ToSet(waiting))
      /\ rebuild' = {[id |-> s, from |-> waiting]}
      /\ UNCHANGED <<schedVars, loopVars, pc, purging, handling, stateCache, outcome, raced>>
  BY DEF RebuildBegin, Purging
<1>2. UNCHANGED <<client, schedIdOf, outQueue, abortQueue, callbacks>>
  BY <1>1 DEF loopVars
<1>3. /\ SchedulerSide' /\ FutureMatchesRequest' /\ IdleHasNoId' /\ ForgottenOnlyIfCancelled'
      /\ UNCHANGED <<requestStates, requestIdToSched, waiting, running, runningKey,
                     finishedReqIds, progress, schedOutput, returned, refused>>
      /\ Known' = Known /\ Batch' = Batch
  BY <1>1, <1>2, BusyStep
<1>4. waiting \in Seq(SchedIds) /\ NoDuplicates(waiting) /\ s \in ToSet(waiting)
  BY <1>1, EngineFacts DEF SchedTypeOK, QueuesAreSound, Unfinished
<1>5. \A b \in rebuild' : b.id = s /\ b.from = waiting
  BY <1>1
<1>6. EngineTypeOK'
  BY <1>1, <1>2, <1>3, <1>4, <1>5, EngineFacts DEF EngineTypeOK, SchedulerSide
<1>7. RebuildIsSound'
  BY <1>1, <1>3, <1>4, <1>5 DEF RebuildIsSound
<1>8. StagesAreSound' /\ CacheIsSound' /\ BatchIsExecutable'
  BY <1>1, <1>3, EngineFacts
  DEF StagesAreSound, CacheIsSound, Resting, BatchHasRun, BatchIsExecutable
<1>9. AbortsAreMeant'
  BY <1>1, <1>2, <1>3, EngineFacts DEF AbortsAreMeant, Releasing
<1>. QED
  BY <1>3, <1>6, <1>7, <1>8, <1>9 DEF EngineIInv

LEMMA RebuildRaisesIInv == ASSUME EngineIInv, RebuildRaises PROVE EngineIInv'
<1>1. /\ rebuild # {} /\ pc' = "dead" /\ rebuild' = {}
      /\ UNCHANGED <<schedVars, loopVars, purging, handling, stateCache, outcome, raced>>
  BY DEF RebuildRaises
<1>2. UNCHANGED <<client, schedIdOf, outQueue, abortQueue, callbacks>>
  BY <1>1 DEF loopVars
<1>3. /\ SchedulerSide' /\ FutureMatchesRequest' /\ IdleHasNoId' /\ ForgottenOnlyIfCancelled'
      /\ UNCHANGED <<requestStates, requestIdToSched, waiting, running, runningKey,
                     finishedReqIds, progress, schedOutput, returned, refused>>
      /\ Known' = Known /\ Batch' = Batch
  BY <1>1, <1>2, BusyStep
<1>4. pc \in {"purgeFirst", "purgeLast"}
  BY <1>1, EngineFacts DEF RebuildIsSound
<1>5. EngineTypeOK'
  BY <1>1, <1>2, <1>3, EngineFacts DEF EngineTypeOK, SchedulerSide
<1>6. RebuildIsSound' /\ StagesAreSound'
  BY <1>1, <1>3, <1>4, EngineFacts DEF RebuildIsSound, StagesAreSound, Resting, BatchHasRun
<1>7. CacheIsSound' /\ BatchIsExecutable'
  BY <1>1, <1>3, <1>4, EngineFacts DEF CacheIsSound, BatchIsExecutable, Resting, BatchHasRun
<1>8. AbortsAreMeant'
  BY <1>1, <1>2, <1>3, EngineFacts DEF AbortsAreMeant, Releasing
<1>. QED
  BY <1>3, <1>5, <1>6, <1>7, <1>8 DEF EngineIInv

LEMMA PurgeDoneIInv == ASSUME EngineIInv, PurgeDone PROVE EngineIInv'
<1>1. /\ pc \in {"purgeFirst", "purgeLast"} /\ rebuild = {} /\ purging = {}
      /\ pc' = IF pc = "purgeFirst" THEN "lock" ELSE "update"
      /\ UNCHANGED <<schedVars, loopVars, purging, rebuild, handling, stateCache, outcome, raced>>
  BY DEF PurgeDone, Purging
<1>2. UNCHANGED <<client, schedIdOf, outQueue, abortQueue, callbacks>>
  BY <1>1 DEF loopVars
<1>3. /\ SchedulerSide' /\ FutureMatchesRequest' /\ IdleHasNoId' /\ ForgottenOnlyIfCancelled'
      /\ UNCHANGED <<requestStates, requestIdToSched, waiting, running, runningKey,
                     finishedReqIds, progress, schedOutput, returned, refused>>
      /\ Known' = Known /\ Batch' = Batch
  BY <1>1, <1>2, BusyStep
<1>4. EngineTypeOK'
  BY <1>1, <1>2, <1>3, EngineFacts DEF EngineTypeOK, SchedulerSide
<1>5. RebuildIsSound' /\ StagesAreSound'
  BY <1>1, <1>3, EngineFacts DEF RebuildIsSound, StagesAreSound, Resting, BatchHasRun
<1>6. CacheIsSound' /\ BatchIsExecutable'
  BY <1>1, <1>3, EngineFacts DEF CacheIsSound, BatchIsExecutable, Resting, BatchHasRun
<1>7. AbortsAreMeant'
  BY <1>1, <1>2, <1>3, EngineFacts DEF AbortsAreMeant, Releasing
<1>. QED
  BY <1>3, <1>4, <1>5, <1>6, <1>7 DEF EngineIInv

LEMMA HandleDoneIInv == ASSUME EngineIInv, HandleDone PROVE EngineIInv'
<1>1. /\ pc = "handle" /\ returned = {} /\ pc' = "top"
      /\ UNCHANGED <<schedVars, loopVars, purging, rebuild, handling, stateCache, outcome, raced>>
  BY DEF HandleDone
<1>2. UNCHANGED <<client, schedIdOf, outQueue, abortQueue, callbacks>>
  BY <1>1 DEF loopVars
<1>3. /\ SchedulerSide' /\ FutureMatchesRequest' /\ IdleHasNoId' /\ ForgottenOnlyIfCancelled'
      /\ UNCHANGED <<requestStates, requestIdToSched, waiting, running, runningKey,
                     finishedReqIds, progress, schedOutput, returned, refused>>
      /\ Known' = Known /\ Batch' = Batch
  BY <1>1, <1>2, BusyStep
<1>4. EngineTypeOK'
  BY <1>1, <1>2, <1>3, EngineFacts DEF EngineTypeOK, SchedulerSide
<1>5. RebuildIsSound' /\ StagesAreSound'
  BY <1>1, <1>3, EngineFacts DEF RebuildIsSound, StagesAreSound, Resting, BatchHasRun
<1>6. CacheIsSound' /\ BatchIsExecutable'
  BY <1>1, <1>3, EngineFacts DEF CacheIsSound, BatchIsExecutable, Resting, BatchHasRun
<1>7. AbortsAreMeant'
  BY <1>1, <1>2, <1>3, EngineFacts DEF AbortsAreMeant, Releasing
<1>. QED
  BY <1>3, <1>4, <1>5, <1>6, <1>7 DEF EngineIInv

\* Executing the batch: every request of it gets an outcome, and what stays
\* cached is running.
LEMMA ExecuteIInv ==
  ASSUME EngineIInv, pc = "execute", pc' = "executed",
         UNCHANGED <<schedVars, loopVars, purging, rebuild, handling, raced>>,
         outcome' \in [Batch -> Outcomes],
         stateCache' \in [DOMAIN stateCache' -> Nat], DOMAIN stateCache' \subseteq ToSet(running),
         ~StepMode => DOMAIN stateCache' = {},
         \A s \in Batch : outcome'[s] = "more" => s \in DOMAIN stateCache'
  PROVE  EngineIInv'
<1>1. UNCHANGED <<client, schedIdOf, outQueue, abortQueue, callbacks>>
  BY DEF loopVars
<1>2. /\ SchedulerSide' /\ FutureMatchesRequest' /\ IdleHasNoId' /\ ForgottenOnlyIfCancelled'
      /\ UNCHANGED <<requestStates, requestIdToSched, waiting, running, runningKey,
                     finishedReqIds, progress, schedOutput, returned, refused>>
      /\ Known' = Known /\ Batch' = Batch
  BY <1>1, BusyStep
<1>3. DOMAIN stateCache' \subseteq SchedIds /\ outcome' \in [DOMAIN outcome' -> Outcomes]
  BY EngineFacts DEF SchedTypeOK
<1>4. EngineTypeOK'
  BY <1>1, <1>2, <1>3, EngineFacts DEF EngineTypeOK, SchedulerSide
<1>5. RebuildIsSound' /\ StagesAreSound'
  BY <1>2, EngineFacts DEF RebuildIsSound, StagesAreSound, Resting, BatchHasRun
<1>6. CacheIsSound' /\ BatchIsExecutable'
  BY <1>2 DEF CacheIsSound, BatchIsExecutable, Resting, BatchHasRun
<1>7. AbortsAreMeant'
  BY <1>1, <1>2, EngineFacts DEF AbortsAreMeant, Releasing
<1>. QED
  BY <1>2, <1>4, <1>5, <1>6, <1>7 DEF EngineIInv

\* The batch that is about to be executed, and the steps its requests are at.
LEMMA BatchToExecute ==
  ASSUME EngineIInv, pc = "execute", StepMode
  PROVE  /\ Batch = ToSet(running) /\ Retained \subseteq Batch
         /\ Retained \subseteq DOMAIN stateCache
         /\ \A s \in Batch : StepIndex(s) \in Nat
         /\ \A s \in DOMAIN stateCache : stateCache[s] \in Nat
<1>1. /\ Batch = ToSet(running) /\ InSync
      /\ DOMAIN stateCache \subseteq ToSet(running) \cup schedOutput.finished
  BY EngineFacts DEF StagesAreSound, BatchIsExecutable, CacheIsSound
<1>2. \A s \in DOMAIN stateCache : stateCache[s] \in Nat
  BY EngineFacts DEF EngineTypeOK
<1>3. Retained \subseteq Batch /\ Retained \subseteq DOMAIN stateCache
  BY <1>1 DEF Retained
<1>4. ASSUME NEW s \in Batch PROVE StepIndex(s) \in Nat
  <2>1. s \in schedOutput.new \/ s \in DOMAIN stateCache
    BY <1>1, <1>3, <1>4 DEF Batch, Scheduled, InSync
  <2>. QED
    BY <1>2, <2>1 DEF StepIndex
<1>. QED
  BY <1>1, <1>2, <1>3, <1>4

LEMMA ExecuteStepIInv == ASSUME EngineIInv, ExecuteStep PROVE EngineIInv'
<1>1. /\ pc = "execute" /\ StepMode /\ pc' = "executed"
      /\ outcome' = [s \in Batch |-> IF StepsDone(s) THEN "done" ELSE "more"]
      /\ stateCache' = [s \in {t \in Retained \cup Batch : t \in Batch => ~StepsDone(t)} |->
                          IF s \in Batch THEN StepIndex(s) + 1 ELSE stateCache[s]]
      /\ UNCHANGED <<schedVars, loopVars, purging, rebuild, handling, raced>>
  BY DEF ExecuteStep
<1>2. /\ Batch = ToSet(running) /\ Retained \subseteq Batch
      /\ Retained \subseteq DOMAIN stateCache
      /\ \A s \in Batch : StepIndex(s) \in Nat
      /\ \A s \in DOMAIN stateCache : stateCache[s] \in Nat
  BY <1>1, BatchToExecute
<1>3. outcome' \in [Batch -> Outcomes]
  BY <1>1 DEF Outcomes
<1>4. DOMAIN stateCache' = {t \in Batch : ~StepsDone(t)}
  BY <1>1, <1>2
<1>5. stateCache' \in [DOMAIN stateCache' -> Nat]
  BY <1>1, <1>2, <1>4
<1>6. \A s \in Batch : outcome'[s] = "more" => s \in DOMAIN stateCache'
  BY <1>1, <1>4
<1>. QED
  BY <1>1, <1>2, <1>3, <1>4, <1>5, <1>6, ExecuteIInv

LEMMA ExecuteStepRaisesIInv == ASSUME EngineIInv, ExecuteStepRaises PROVE EngineIInv'
<1>1. /\ pc = "execute" /\ StepMode /\ pc' = "executed"
      /\ UNCHANGED <<schedVars, loopVars, purging, rebuild, handling, raced>>
  BY DEF ExecuteStepRaises
<1>2. PICK first \in (IF schedOutput.new # {} THEN schedOutput.new ELSE Batch) :
        outcome' = [s \in Batch |-> IF s = first THEN "error" ELSE "missing"]
  BY DEF ExecuteStepRaises
<1>3. PICK cached \in {Retained, Retained \cup Batch} :
        stateCache' = [s \in cached |-> IF s \in Batch THEN StepIndex(s) ELSE stateCache[s]]
  BY DEF ExecuteStepRaises
<1>4. /\ Batch = ToSet(running) /\ Retained \subseteq Batch
      /\ Retained \subseteq DOMAIN stateCache
      /\ \A s \in Batch : StepIndex(s) \in Nat
      /\ \A s \in DOMAIN stateCache : stateCache[s] \in Nat
  BY <1>1, BatchToExecute
<1>5. outcome' \in [Batch -> Outcomes] /\ \A s \in Batch : outcome'[s] # "more"
  BY <1>2 DEF Outcomes
<1>6. DOMAIN stateCache' = cached /\ cached \subseteq Batch
  BY <1>3, <1>4
<1>7. stateCache' \in [DOMAIN stateCache' -> Nat]
  BY <1>3, <1>4, <1>6
<1>. QED
  BY <1>1, <1>4, <1>5, <1>6, <1>7, ExecuteIInv

LEMMA ExecuteRequestIInv == ASSUME EngineIInv, ExecuteRequest PROVE EngineIInv'
<1>1. /\ pc = "execute" /\ ~StepMode /\ pc' = "executed"
      /\ outcome' \in [Batch -> {"done", "error"}]
      /\ UNCHANGED <<schedVars, loopVars, purging, rebuild, handling, stateCache, raced>>
  BY DEF ExecuteRequest
<1>2. outcome' \in [Batch -> Outcomes] /\ \A s \in Batch : outcome'[s] # "more"
  BY <1>1 DEF Outcomes
<1>3. /\ DOMAIN stateCache = {} /\ stateCache \in [DOMAIN stateCache -> Nat]
  BY <1>1, EngineFacts DEF CacheIsSound, EngineTypeOK
<1>. QED
  BY <1>1, <1>2, <1>3, ExecuteIInv
-----------------------------------------------------------------------------
(* The busy loop: schedule                                                 *)

\* What schedule() hands out under has_requests() can be executed.
LEMMA LockAndScheduleIInv == ASSUME EngineIInv, LockAndSchedule PROVE EngineIInv'
<1>1. /\ pc = "lock" /\ HasRequests /\ Schedule /\ pc' = "execute"
      /\ UNCHANGED <<loopVars, purging, rebuild, handling, stateCache, outcome, raced>>
  BY DEF LockAndSchedule
<1>2. UNCHANGED <<client, schedIdOf, outQueue, abortQueue, callbacks>>
  BY <1>1 DEF loopVars
<1>3. /\ SchedTypeOK /\ QueuesAreSound /\ BatchIsUniform /\ IdsAreSound /\ BatchStaysVisible
      /\ FinishedIdsAreOld /\ EngineTypeOK /\ StagesAreSound /\ CacheIsSound
      /\ FutureMatchesRequest /\ IdleHasNoId /\ AbortsAreMeant /\ ForgottenOnlyIfCancelled
      /\ ToSet(running) \subseteq Known /\ ToSet(waiting) \subseteq Known \ refused
      /\ ToSet(running) \cap ToSet(waiting) = {}
      /\ DOMAIN outQueue \subseteq Known \ refused
  BY EngineFacts
<1>4. /\ handling = {} /\ returned = {} /\ purging = {} /\ rebuild = {}
      /\ schedOutput = EmptyOutput /\ Batch = {}
      /\ ToSet(running) \subseteq DOMAIN stateCache
      /\ DOMAIN stateCache \subseteq ToSet(running) \cup finishedReqIds
  BY <1>1, <1>3, EngineFacts
  DEF StagesAreSound, CacheIsSound, RebuildIsSound, Resting, EmptyOutput, Batch, Scheduled
<1>5. /\ NoDuplicates(running) /\ NoDuplicates(waiting)
      /\ \A s \in ToSet(running) : requestStates[s].status = "RUNNING"
      /\ \A s \in ToSet(waiting) : requestStates[s].status = "WAITING"
  BY <1>3 DEF QueuesAreSound
<1>6. PICK A \in SUBSET ToSet(waiting) :
        /\ SchedTypeOK' /\ BatchIsUniform' /\ Known' = Known
        /\ NoDuplicates(running') /\ NoDuplicates(waiting')
        /\ ToSet(running') = ToSet(running) \cup A
        /\ ToSet(waiting') = ToSet(waiting) \ A
        /\ \A s \in A : requestStates'[s].status = "RUNNING"
        /\ \A s \in Known \ A : requestStates'[s] = requestStates[s]
        /\ \A s \in Known : requestStates'[s].req = requestStates[s].req
        /\ schedOutput' =
             [new      |-> {s \in A : requestStates[s].status = "WAITING"},
              cached   |-> (ToSet(running) \cap Known)
                             \cup {s \in A : ~(requestStates[s].status = "WAITING")},
              finished |-> finishedReqIds]
        /\ Scheduled(schedOutput)' = ToSet(running')
        /\ HasRequests => running' # <<>>
        /\ finishedReqIds' = {}
        /\ UNCHANGED <<requestIdToSched, progress, refused, returned>>
  BY <1>1, <1>3, <1>5, ScheduleEffect
<1>7. /\ schedOutput'.new = A /\ schedOutput'.cached = ToSet(running)
      /\ schedOutput'.finished = finishedReqIds
  BY <1>3, <1>5, <1>6
<1>8. Batch' = ToSet(running')
  BY <1>6 DEF Batch
<1>9. SchedulerSide'
  <2>1. QueuesAreSound'
    BY <1>1, <1>3, <1>5, <1>6 DEF QueuesAreSound
  <2>2. IdsAreSound'
    BY <1>1, <1>3, <1>6 DEF IdsAreSound, Releasing
  <2>3. BatchStaysVisible'
    BY <1>4, <1>6 DEF BatchStaysVisible
  <2>4. FinishedIdsAreOld'
    BY <1>6 DEF FinishedIdsAreOld
  <2>. QED
    BY <1>6, <2>1, <2>2, <2>3, <2>4 DEF SchedulerSide
<1>10. EngineTypeOK'
  BY <1>1, <1>2, <1>3, <1>6 DEF EngineTypeOK
<1>11. RebuildIsSound' /\ StagesAreSound'
  BY <1>1, <1>4, <1>6, <1>8 DEF RebuildIsSound, StagesAreSound, Resting, BatchHasRun
<1>12. CacheIsSound'
  BY <1>1, <1>3, <1>4, <1>6, <1>7 DEF CacheIsSound, Resting, BatchHasRun
<1>13. \A s \in ToSet(running) : s \notin finishedReqIds
  BY <1>3, <1>5 DEF FinishedIdsAreOld
<1>14. /\ running' \in Seq(SchedIds) /\ running' # <<>>
       /\ Len(running') \in Nat \ {0} /\ running'[1] \in ToSet(running') /\ Batch' # {}
  <2>1. running' \in Seq(SchedIds) /\ running' # <<>>
    BY <1>1, <1>6 DEF SchedTypeOK
  <2>2. Len(running') \in Nat \ {0} /\ 1 \in DOMAIN running'
    BY <2>1
  <2>3. running'[1] \in ToSet(running')
    BY <2>2 DEF ToSet
  <2>. QED
    BY <1>8, <2>1, <2>2, <2>3
<1>15. StepMode => InSync'
  <2>1. Retained' = DOMAIN stateCache \ finishedReqIds
    BY <1>1, <1>7 DEF Retained
  <2>2. A \cap ToSet(running) = {}
    BY <1>3, <1>6
  <2>. QED
    BY <1>4, <1>7, <1>13, <2>1, <2>2 DEF InSync
<1>16. ~StepMode => Cardinality(schedOutput.new)' = 1 /\ schedOutput'.cached = {}
  <2>. SUFFICES ASSUME ~StepMode PROVE Cardinality(schedOutput'.new) = 1 /\ schedOutput'.cached = {}
    OBVIOUS
  <2>1. ToSet(running) = {} /\ A = ToSet(running')
    BY <1>3, <1>4, <1>6 DEF CacheIsSound
  <2>2. Len(running') <= 1
    BY <1>6, EngineAssumption DEF BatchIsUniform
  <2>3. DOMAIN running' = {1}
    <3>1. DOMAIN running' = 1..Len(running')
      BY <1>14
    <3>2. \A k \in Nat \ {0} : k <= 1 => k = 1
      OBVIOUS
    <3>3. Len(running') = 1
      BY <1>14, <2>2, <3>2, Zenon
    <3>4. 1..1 = {1}
      OBVIOUS
    <3>. QED
      BY <3>1, <3>3, <3>4, Zenon
  <2>4. ToSet(running') = {running'[1]}
    BY <2>3 DEF ToSet
  <2>5. Cardinality(ToSet(running')) = 1
    BY <2>4, FS_Singleton
  <2>. QED
    BY <1>7, <2>1, <2>5
<1>17. BatchIsExecutable'
  BY <1>14, <1>15, <1>16 DEF BatchIsExecutable
<1>18. FutureMatchesRequest' /\ IdleHasNoId'
  BY <1>2, <1>3, <1>6 DEF FutureMatchesRequest, IdleHasNoId
<1>19. AbortsAreMeant'
  BY <1>1, <1>2, <1>3, <1>6 DEF AbortsAreMeant, Releasing
<1>20. ForgottenOnlyIfCancelled'
  <2>1. \A s \in Known : IsFinished(s)' => IsFinished(s)
    BY <1>6 DEF IsFinished, FinishedStatuses
  <2>. QED
    BY <1>1, <1>2, <1>3, <1>4, <1>6, <2>1 DEF ForgottenOnlyIfCancelled
<1>. QED
  BY <1>9, <1>10, <1>11, <1>12, <1>17, <1>18, <1>19, <1>20 DEF EngineIInv

-----------------------------------------------------------------------------
(* The busy loop: finish_requests of an abort, update_from_output          *)

\* Finishing requests keeps the scheduler's part, whether the deque is rebuilt
\* from itself or from a copy that lacks what was appended since.
LEMMA FinishKeepsScheduler ==
  ASSUME EngineIInv, NEW queue \in Seq(SchedIds), NoDuplicates(queue),
         ToSet(queue) \subseteq ToSet(waiting),
         "append" \notin raced => ToSet(queue) = ToSet(waiting),
         NEW status, \A s \in DOMAIN status : status[s] \in FinishedStatuses,
         FinishRequestsFrom(queue, status), UNCHANGED <<handling, raced>>
  PROVE  /\ Known' = Known /\ requestStates' \in [Known' -> RequestState]
         /\ \A s \in Unfinished(DOMAIN status) : IsFinished(s)'
         /\ \A s \in Known \ Unfinished(DOMAIN status) : requestStates'[s] = requestStates[s]
         /\ \A s \in Known : requestStates'[s].req = requestStates[s].req
         /\ waiting' \in Seq(SchedIds) /\ running' \in Seq(SchedIds)
         /\ runningKey' \in Keys \cup {NoKey}
         /\ ToSet(running') = ToSet(running) \ Unfinished(DOMAIN status)
         /\ finishedReqIds' = finishedReqIds \cup Unfinished(DOMAIN status)
         /\ finishedReqIds' \subseteq SchedIds
         /\ UNCHANGED <<requestIdToSched, progress, refused>>
         /\ BatchIsUniform' /\ QueuesAreSound' /\ IdsAreSound' /\ FinishedIdsAreOld'
<1>. DEFINE hit == Unfinished(DOMAIN status)
<1>1. /\ SchedTypeOK /\ QueuesAreSound /\ BatchIsUniform /\ IdsAreSound /\ FinishedIdsAreOld
      /\ ToSet(running) \subseteq Known /\ NoDuplicates(running)
  BY EngineFacts DEF QueuesAreSound
<1>2. hit \subseteq Known /\ \A s \in hit : ~IsFinished(s)
  BY DEF Unfinished
<1>3. /\ Known' = Known /\ requestStates' \in [Known' -> RequestState]
      /\ \A s \in hit : requestStates'[s].status \in FinishedStatuses
      /\ \A s \in Known \ hit : requestStates'[s] = requestStates[s]
      /\ \A s \in Known : requestStates'[s].req = requestStates[s].req
      /\ waiting' \in Seq(SchedIds) /\ running' \in Seq(SchedIds)
      /\ NoDuplicates(running') /\ NoDuplicates(waiting')
      /\ runningKey' \in Keys \cup {NoKey}
      /\ ToSet(running') = ToSet(running) \ hit
      /\ ToSet(waiting') = ToSet(queue) \ hit
      /\ finishedReqIds' = finishedReqIds \cup hit
      /\ finishedReqIds' \subseteq SchedIds
      /\ UNCHANGED <<requestIdToSched, progress, refused>>
      /\ BatchIsUniform'
  BY <1>1, FinishFromEffect
<1>. HIDE DEF hit
<1>4. \A s \in hit : requestStates'[s].status \notin {"WAITING", "RUNNING", "PREEMPTED"}
  BY <1>3 DEF FinishedStatuses
<1>5. QueuesAreSound'
  <2>1. ToSet(running') = {t \in Known' : requestStates'[t].status = "RUNNING"}
    BY <1>1, <1>2, <1>3, <1>4 DEF QueuesAreSound
  <2>2. ToSet(waiting') \subseteq {t \in Known' \ refused' : requestStates'[t].status = "WAITING"}
    BY <1>1, <1>2, <1>3, <1>4 DEF QueuesAreSound
  <2>3. "append" \notin raced' =>
          {t \in Known' \ refused' : requestStates'[t].status = "WAITING"} \subseteq ToSet(waiting')
    BY <1>1, <1>2, <1>3, <1>4 DEF QueuesAreSound
  <2>4. \A t \in Known' : requestStates'[t].status # "PREEMPTED"
    BY <1>1, <1>2, <1>3, <1>4 DEF QueuesAreSound
  <2>5. \A t \in refused' : t \in Known' /\ requestStates'[t].status # "RUNNING"
    BY <1>1, <1>2, <1>3, <1>4 DEF QueuesAreSound
  <2>6. StepMode => Known' \ refused' \subseteq progress'
    BY <1>1, <1>3 DEF QueuesAreSound
  <2>. QED
    BY <1>3, <2>1, <2>2, <2>3, <2>4, <2>5, <2>6 DEF QueuesAreSound
<1>6. IdsAreSound'
  BY <1>1, <1>3 DEF IdsAreSound, Releasing
<1>7. FinishedIdsAreOld'
  BY <1>1, <1>2, <1>3, <1>4 DEF FinishedIdsAreOld
<1>8. \A s \in hit : IsFinished(s)'
  BY <1>3 DEF IsFinished
<1>. QED
  BY <1>3, <1>5, <1>6, <1>7, <1>8 DEF hit

\* One id of the purge is dealt with.
LEMMA PurgeIInv ==
  ASSUME EngineIInv, NEW s \in purging, pc \in {"purgeFirst", "purgeLast"},
         NEW queue \in Seq(SchedIds), NoDuplicates(queue),
         ToSet(queue) \subseteq ToSet(waiting),
         "append" \notin raced => ToSet(queue) = ToSet(waiting),
         FinishRequestsFrom(queue, [t \in {s} |-> "ABORTED"]),
         purging' = purging \ {s}, rebuild' = {},
         UNCHANGED <<schedOutput, returned, loopVars, pc, handling, stateCache, outcome, raced>>
  PROVE  EngineIInv'
<1>. DEFINE status == [t \in {s} |-> "ABORTED"]
            hit == Unfinished({s})
<1>1. FinishRequestsFrom(queue, status) /\ DOMAIN status = {s}
      /\ \A t \in DOMAIN status : status[t] \in FinishedStatuses
  BY DEF FinishedStatuses
<1>. HIDE DEF status
<1>2. /\ Known' = Known /\ requestStates' \in [Known' -> RequestState]
      /\ \A t \in hit : IsFinished(t)'
      /\ \A t \in Known \ hit : requestStates'[t] = requestStates[t]
      /\ \A t \in Known : requestStates'[t].req = requestStates[t].req
      /\ waiting' \in Seq(SchedIds) /\ running' \in Seq(SchedIds)
      /\ runningKey' \in Keys \cup {NoKey}
      /\ ToSet(running') = ToSet(running) \ hit
      /\ finishedReqIds' = finishedReqIds \cup hit
      /\ finishedReqIds' \subseteq SchedIds
      /\ UNCHANGED <<requestIdToSched, progress, refused>>
      /\ BatchIsUniform' /\ QueuesAreSound' /\ IdsAreSound' /\ FinishedIdsAreOld'
  BY <1>1, FinishKeepsScheduler
<1>3. /\ hit \subseteq {s} /\ hit \subseteq Known /\ \A t \in hit : ~IsFinished(t)
  BY DEF Unfinished
<1>. HIDE DEF hit
<1>4. UNCHANGED <<client, schedIdOf, outQueue, abortQueue, callbacks>> /\ Batch' = Batch
      /\ Scheduled(schedOutput)' = Scheduled(schedOutput)
  BY DEF loopVars, Batch, Scheduled
<1>5. \A t \in Known \ hit : IsFinished(t)' <=> IsFinished(t)
  BY <1>2 DEF IsFinished
<1>6. SchedTypeOK'
  BY <1>2, EngineFacts DEF SchedTypeOK
<1>7. BatchStaysVisible'
  <2>1. \A t \in Known : requestStates[t].status # "PREEMPTED"
    BY EngineFacts DEF QueuesAreSound
  <2>2. \A t \in Scheduled(schedOutput) :
          \/ t \in ToSet(running)
          \/ t \in finishedReqIds \cap Known /\ IsFinished(t)
    BY <2>1, EngineFacts DEF BatchStaysVisible
  <2>3. \A t \in Scheduled(schedOutput) :
          \/ t \in ToSet(running')
          \/ t \in finishedReqIds' \cap Known' /\ IsFinished(t)'
    BY <1>2, <1>3, <1>5, <2>2
  <2>4. \A t \in returned : t \in Known' /\ IsFinished(t)'
    BY <1>2, <1>5, EngineFacts DEF BatchStaysVisible
  <2>. QED
    BY <1>4, <2>3, <2>4 DEF BatchStaysVisible
<1>8. SchedulerSide'
  BY <1>2, <1>6, <1>7 DEF SchedulerSide
<1>9. EngineTypeOK'
  BY <1>4, <1>6, EngineFacts DEF EngineTypeOK
<1>10. RebuildIsSound'
  BY DEF RebuildIsSound
<1>11. StagesAreSound'
  BY <1>2, <1>4, EngineFacts DEF StagesAreSound, Resting, BatchHasRun
<1>12. CacheIsSound' /\ BatchIsExecutable'
  BY <1>2, <1>4, EngineFacts DEF CacheIsSound, Resting, BatchHasRun, BatchIsExecutable
<1>13. FutureMatchesRequest' /\ IdleHasNoId'
  BY <1>2, <1>4, EngineFacts DEF FutureMatchesRequest, IdleHasNoId
<1>14. AbortsAreMeant'
  BY <1>2, <1>4, EngineFacts DEF AbortsAreMeant, Releasing
<1>15. ForgottenOnlyIfCancelled'
  <2>. SUFFICES ASSUME NEW t \in DOMAIN outQueue, IsFinished(t)'
                PROVE  \/ t \in returned \cup Batch \/ client[outQueue[t]] = "cancelled"
                       \/ "abort" \in raced
    BY <1>4 DEF ForgottenOnlyIfCancelled
  <2>1. CASE t \in hit
    BY <1>3, <2>1, EngineFacts DEF AbortsAreMeant
  <2>2. CASE t \notin hit
    BY <1>5, <2>2, EngineFacts DEF ForgottenOnlyIfCancelled
  <2>. QED
    BY <2>1, <2>2
<1>. QED
  BY <1>8, <1>9, <1>10, <1>11, <1>12, <1>13, <1>14, <1>15 DEF EngineIInv

LEMMA PurgeOneIInv ==
  ASSUME EngineIInv, NEW s \in SchedIds, PurgeOne(s) PROVE EngineIInv'
<1>1. /\ pc \in {"purgeFirst", "purgeLast"} /\ rebuild = {} /\ s \in purging
      /\ FinishRequestsFrom(waiting, [t \in {s} |-> "ABORTED"])
      /\ purging' = purging \ {s} /\ rebuild' = {}
      /\ UNCHANGED <<schedOutput, returned, loopVars, pc, handling, stateCache, outcome, raced>>
  BY DEF PurgeOne, Purging, AbortRequest, FinishRequests
<1>2. waiting \in Seq(SchedIds) /\ NoDuplicates(waiting)
  BY EngineFacts DEF SchedTypeOK, QueuesAreSound
<1>. QED
  BY <1>1, <1>2, PurgeIInv

LEMMA RebuildAssignIInv == ASSUME EngineIInv, RebuildAssign PROVE EngineIInv'
<1>1. PICK b \in rebuild :
        /\ FinishRequestsFrom(b.from, [t \in {b.id} |-> "ABORTED"])
        /\ purging' = purging \ {b.id} /\ rebuild' = {}
        /\ UNCHANGED <<schedOutput, returned, loopVars, pc, handling, stateCache, outcome, raced>>
  BY DEF RebuildAssign
<1>2. /\ b.id \in purging /\ b.from \in Seq(SchedIds) /\ NoDuplicates(b.from)
      /\ pc \in {"purgeFirst", "purgeLast"} /\ ToSet(b.from) \subseteq ToSet(waiting)
      /\ "append" \notin raced => ToSet(b.from) = ToSet(waiting)
  BY EngineFacts DEF RebuildIsSound, EngineTypeOK
<1>. QED
  BY <1>1, <1>2, PurgeIInv

\* update_from_output accounts for the batch: what it leaves running has more
\* steps to run and is cached, what it or an abort has finished is returned.
LEMMA UpdateBatchIInv == ASSUME EngineIInv, UpdateBatch PROVE EngineIInv'
<1>. DEFINE status == TerminalStatuses(outcome)
            hit == Unfinished(DOMAIN status)
<1>1. /\ pc = "update" /\ FinishRequestsFrom(waiting, status)
      /\ returned' = (Scheduled(schedOutput) \cap finishedReqIds) \cup hit
      /\ schedOutput' = EmptyOutput /\ outcome' = <<>> /\ pc' = "handle"
      /\ UNCHANGED <<loopVars, purging, rebuild, handling, stateCache, raced>>
  BY DEF UpdateBatch, UpdateFromOutput, FinishRequests
<1>2. /\ SchedTypeOK /\ QueuesAreSound /\ BatchIsUniform /\ BatchStaysVisible
      /\ FinishedIdsAreOld /\ EngineTypeOK /\ StagesAreSound /\ CacheIsSound /\ RebuildIsSound
      /\ FutureMatchesRequest /\ IdleHasNoId /\ AbortsAreMeant /\ ForgottenOnlyIfCancelled
      /\ ToSet(running) \subseteq Known /\ ToSet(waiting) \subseteq Known
      /\ \A s \in ToSet(running) \cup ToSet(waiting) : ~IsFinished(s)
      /\ DOMAIN outQueue \subseteq Known \ refused
  BY EngineFacts
<1>3. /\ waiting \in Seq(SchedIds) /\ NoDuplicates(waiting)
      /\ ToSet(running) \cap refused = {} /\ (StepMode => Known \ refused \subseteq progress)
      /\ \A s \in Known : requestStates[s].status # "PREEMPTED"
  BY <1>2 DEF SchedTypeOK, QueuesAreSound
<1>4. /\ handling = {} /\ returned = {} /\ purging = {} /\ rebuild = {}
      /\ ToSet(running) \subseteq Batch /\ outcome \in [Batch -> Outcomes]
      /\ DOMAIN stateCache \subseteq ToSet(running) \cup finishedReqIds
      /\ \A s \in Batch : outcome[s] = "more" => s \in DOMAIN stateCache
  BY <1>1, <1>2 DEF StagesAreSound, RebuildIsSound, CacheIsSound, BatchHasRun
<1>5. \A s \in DOMAIN status : status[s] \in FinishedStatuses
  BY TerminalStatusesType
<1>6. \A s \in Batch : s \notin DOMAIN status =>
        outcome[s] = "more" \/ (StepMode /\ s \notin progress)
  BY <1>4 DEF TerminalStatuses
<1>7. hit \subseteq DOMAIN status /\ hit \subseteq Known
      /\ \A s \in Known : IsFinished(s) \/ s \in hit \/ s \notin DOMAIN status
  BY DEF Unfinished
<1>. HIDE DEF status
<1>8. /\ Known' = Known /\ requestStates' \in [Known' -> RequestState]
      /\ \A t \in hit : IsFinished(t)'
      /\ \A t \in Known \ hit : requestStates'[t] = requestStates[t]
      /\ \A t \in Known : requestStates'[t].req = requestStates[t].req
      /\ waiting' \in Seq(SchedIds) /\ running' \in Seq(SchedIds)
      /\ runningKey' \in Keys \cup {NoKey}
      /\ ToSet(running') = ToSet(running) \ hit
      /\ finishedReqIds' = finishedReqIds \cup hit
      /\ finishedReqIds' \subseteq SchedIds
      /\ UNCHANGED <<requestIdToSched, progress, refused>>
      /\ BatchIsUniform' /\ QueuesAreSound' /\ IdsAreSound' /\ FinishedIdsAreOld'
  BY <1>1, <1>3, <1>5, FinishKeepsScheduler
<1>. HIDE DEF hit
<1>9. UNCHANGED <<client, schedIdOf, outQueue, abortQueue, callbacks>> /\ Batch' = {}
      /\ Scheduled(schedOutput)' = {} /\ schedOutput' \in SchedulerOutput
  BY <1>1 DEF loopVars, Batch, Scheduled, EmptyOutput, SchedulerOutput
<1>10. \A t \in Known \ hit : IsFinished(t)' <=> IsFinished(t)
  BY <1>8 DEF IsFinished
<1>11. \A s \in Batch :
         \/ s \in ToSet(running)
         \/ s \in finishedReqIds \cap Known /\ IsFinished(s)
  BY <1>2, <1>3 DEF BatchStaysVisible, Batch
<1>12. \A s \in returned' : s \in Known' /\ IsFinished(s)'
  <2>1. \A s \in Scheduled(schedOutput) \cap finishedReqIds : s \in Known /\ IsFinished(s)
    <3>1. \A s \in ToSet(running) : s \notin finishedReqIds
      BY <1>2 DEF QueuesAreSound, FinishedIdsAreOld
    <3>. QED
      BY <1>11, <3>1 DEF Batch
  <2>. QED
    BY <1>1, <1>7, <1>8, <1>10, <2>1
<1>13. SchedulerSide'
  <2>1. returned' \subseteq SchedIds
    BY <1>2, <1>8, <1>12 DEF SchedTypeOK
  <2>2. SchedTypeOK'
    BY <1>2, <1>8, <1>9, <2>1 DEF SchedTypeOK
  <2>3. BatchStaysVisible'
    BY <1>9, <1>12 DEF BatchStaysVisible
  <2>. QED
    BY <1>8, <2>2, <2>3 DEF SchedulerSide
<1>14. EngineTypeOK'
  <2>1. outcome' \in [DOMAIN outcome' -> Outcomes]
    <3>1. <<>> \in [DOMAIN <<>> -> Outcomes]
      OBVIOUS
    <3>. QED
      BY <1>1, <3>1
  <2>. QED
    BY <1>1, <1>2, <1>9, <1>13, <2>1 DEF EngineTypeOK, SchedulerSide
<1>15. RebuildIsSound' /\ StagesAreSound'
  BY <1>1, <1>4, <1>8 DEF RebuildIsSound, StagesAreSound, Resting, BatchHasRun
<1>16. \A s \in ToSet(running') : s \in DOMAIN stateCache
  BY <1>2, <1>3, <1>4, <1>6, <1>7, <1>8
<1>17. CacheIsSound' /\ BatchIsExecutable'
  BY <1>1, <1>2, <1>4, <1>8, <1>16
  DEF CacheIsSound, BatchIsExecutable, Resting, BatchHasRun
<1>18. FutureMatchesRequest' /\ IdleHasNoId'
  BY <1>2, <1>8, <1>9 DEF FutureMatchesRequest, IdleHasNoId
<1>19. AbortsAreMeant'
  BY <1>1, <1>2, <1>8, <1>9 DEF AbortsAreMeant, Releasing
<1>20. ForgottenOnlyIfCancelled'
  <2>. SUFFICES ASSUME NEW t \in DOMAIN outQueue, IsFinished(t)'
                PROVE  \/ t \in returned' \/ client[outQueue[t]] = "cancelled"
                       \/ "abort" \in raced
    BY <1>1, <1>9 DEF ForgottenOnlyIfCancelled
  <2>1. CASE t \in hit
    BY <1>1, <2>1
  <2>2. CASE t \notin hit
    <3>1. IsFinished(t)
      BY <1>2, <1>10, <2>2
    <3>2. t \in Batch => t \in finishedReqIds
      BY <1>2, <1>11, <3>1
    <3>. QED
      BY <1>1, <1>2, <1>4, <3>1, <3>2 DEF ForgottenOnlyIfCancelled, Batch
  <2>. QED
    BY <2>1, <2>2
<1>. QED
  BY <1>13, <1>14, <1>15, <1>17, <1>18, <1>19, <1>20 DEF EngineIInv
-----------------------------------------------------------------------------
(* The busy loop: _handle_finished_requests                                *)

\* An id that was returned but whose future is gone is only crossed off.
LEMMA TakeNothingIInv ==
  ASSUME EngineIInv, NEW s \in SchedIds, pc = "handle", s \notin DOMAIN outQueue,
         UNCHANGED <<handling, outQueue, requestStates, progress, refused, pc>>,
         returned' = returned \ {s},
         UNCHANGED <<requestIdToSched, queueVars, finishedReqIds, schedOutput, client,
                     schedIdOf, abortQueue, callbacks, purging, rebuild, stateCache, outcome,
                     raced>>
  PROVE  EngineIInv'
<1>1. /\ UNCHANGED <<waiting, running, runningKey>> /\ Known' = Known /\ Batch' = Batch
      /\ Scheduled(schedOutput)' = Scheduled(schedOutput)
  BY DEF queueVars, Known, Batch, Scheduled
<1>2. SchedulerSide'
  BY <1>1, EngineFacts
  DEF SchedulerSide, SchedTypeOK, QueuesAreSound, BatchIsUniform, IdsAreSound, Releasing,
      BatchStaysVisible, FinishedIdsAreOld, KeyOf, IsFinished
<1>3. EngineTypeOK'
  BY <1>2, EngineFacts DEF EngineTypeOK, SchedulerSide
<1>4. RebuildIsSound' /\ StagesAreSound' /\ CacheIsSound' /\ BatchIsExecutable'
  BY <1>1, EngineFacts
  DEF RebuildIsSound, StagesAreSound, CacheIsSound, BatchIsExecutable, Resting, BatchHasRun
<1>5. FutureMatchesRequest' /\ IdleHasNoId' /\ AbortsAreMeant' /\ ForgottenOnlyIfCancelled'
  BY <1>1, EngineFacts
  DEF FutureMatchesRequest, IdleHasNoId, AbortsAreMeant, Releasing, ForgottenOnlyIfCancelled,
      IsFinished
<1>. QED
  BY <1>2, <1>3, <1>4, <1>5 DEF EngineIInv

\* A finished request with its future: both are taken out, and its public ids
\* are still registered.
LEMMA TakeFutureIInv ==
  ASSUME EngineIInv, NEW s \in SchedIds, pc = "handle", s \in returned, s \in DOMAIN outQueue,
         handling' = {[id |-> s, ids |-> IdsOf(requestStates[s].req),
                       client |-> outQueue[s], out |-> AnswerFor(s)]},
         outQueue' = OutQueueWithout(s),
         requestStates' = Restrict(requestStates, Known \ {s}),
         progress' = progress \ {s}, refused' = refused \ {s}, pc' = "unregister",
         returned' = returned \ {s},
         UNCHANGED <<requestIdToSched, queueVars, finishedReqIds, schedOutput, client,
                     schedIdOf, abortQueue, callbacks, purging, rebuild, stateCache, outcome,
                     raced>>
  PROVE  EngineIInv'
<1>1. /\ SchedTypeOK /\ QueuesAreSound /\ BatchIsUniform /\ IdsAreSound /\ BatchStaysVisible
      /\ FinishedIdsAreOld /\ EngineTypeOK /\ StagesAreSound /\ CacheIsSound /\ RebuildIsSound
      /\ FutureMatchesRequest /\ IdleHasNoId /\ AbortsAreMeant /\ ForgottenOnlyIfCancelled
      /\ ToSet(running) \subseteq Known /\ ToSet(waiting) \subseteq Known
      /\ \A t \in ToSet(running) \cup ToSet(waiting) : ~IsFinished(t)
      /\ DOMAIN outQueue \subseteq Known \ refused
  BY EngineFacts
<1>2. /\ handling = {} /\ purging = {} /\ rebuild = {} /\ schedOutput = EmptyOutput
      /\ Scheduled(schedOutput) = {} /\ Batch = {}
  BY <1>1 DEF StagesAreSound, RebuildIsSound, Resting, EmptyOutput, Scheduled, Batch
<1>3. s \in Known /\ IsFinished(s) /\ s \notin ToSet(running) /\ s \notin ToSet(waiting)
  BY <1>1 DEF BatchStaysVisible
<1>4. /\ Known' = Known \ {s} /\ requestStates' \in [Known' -> RequestState]
      /\ \A t \in Known' : requestStates'[t] = requestStates[t]
  BY <1>1 DEF Known, Restrict, SchedTypeOK
<1>5. /\ DOMAIN outQueue' = DOMAIN outQueue \ {s}
      /\ \A t \in DOMAIN outQueue' : outQueue'[t] = outQueue[t]
      /\ outQueue' \in [DOMAIN outQueue' -> Requests]
  BY <1>1 DEF OutQueueWithout, Restrict, EngineTypeOK
<1>6. UNCHANGED <<waiting, running, runningKey>> /\ Scheduled(schedOutput)' = {} /\ Batch' = {}
  BY <1>2 DEF queueVars, Scheduled, Batch
<1>7. \A id \in DOMAIN requestIdToSched :
        /\ ~Releasing(id)
        /\ Releasing(id)' <=> id \in IdsOf(requestStates[s].req) /\ requestIdToSched[id] = s
  BY <1>2 DEF Releasing
<1>8. \A t \in Known' : IsFinished(t)' <=> IsFinished(t)
  BY <1>4 DEF IsFinished
<1>9. SchedTypeOK'
  BY <1>1, <1>4, <1>6 DEF SchedTypeOK
<1>10. QueuesAreSound'
  <2>1. ToSet(running') = {t \in Known' : requestStates'[t].status = "RUNNING"}
    BY <1>1, <1>3, <1>4, <1>6 DEF QueuesAreSound
  <2>2. ToSet(waiting') \subseteq {t \in Known' \ refused' : requestStates'[t].status = "WAITING"}
    BY <1>1, <1>3, <1>4, <1>6 DEF QueuesAreSound
  <2>3. "append" \notin raced' =>
          {t \in Known' \ refused' : requestStates'[t].status = "WAITING"} \subseteq ToSet(waiting')
    BY <1>1, <1>3, <1>4, <1>6 DEF QueuesAreSound
  <2>4. /\ \A t \in Known' : requestStates'[t].status # "PREEMPTED"
        /\ \A t \in refused' : t \in Known' /\ requestStates'[t].status # "RUNNING"
        /\ StepMode => Known' \ refused' \subseteq progress'
    BY <1>1, <1>4 DEF QueuesAreSound
  <2>. QED
    BY <1>1, <1>6, <2>1, <2>2, <2>3, <2>4 DEF QueuesAreSound
<1>11. BatchIsUniform'
  <2>1. \A i \in 1..Len(running) : running[i] \in Known'
    <3>1. \A i \in 1..Len(running) : running[i] \in ToSet(running)
      BY <1>1 DEF SchedTypeOK, ToSet
    <3>. QED
      BY <1>1, <1>3, <1>4, <3>1
  <2>2. running # <<>> => 1 \in 1..Len(running)
    BY <1>1 DEF SchedTypeOK
  <2>. QED
    BY <1>1, <1>4, <1>6, <2>1, <2>2 DEF BatchIsUniform, KeyOf
<1>12. IdsAreSound'
  <2>1. ASSUME NEW id \in DOMAIN requestIdToSched, ~Releasing(id)'
        PROVE  /\ requestIdToSched[id] \in Known'
               /\ id \in IdsOf(requestStates'[requestIdToSched[id]].req)
    <3>1. requestIdToSched[id] \in Known /\ id \in IdsOf(requestStates[requestIdToSched[id]].req)
      BY <1>1, <1>7 DEF IdsAreSound
    <3>2. requestIdToSched[id] # s
      BY <1>7, <2>1, <3>1
    <3>. QED
      BY <1>4, <3>1, <3>2
  <2>2. ASSUME "release" \notin raced', NEW t \in Known' \ refused',
               NEW id \in IdsOf(requestStates'[t].req)
        PROVE  id \in DOMAIN requestIdToSched /\ requestIdToSched[id] = t /\ ~Releasing(id)'
    <3>1. t \in Known \ refused /\ t # s /\ id \in IdsOf(requestStates[t].req)
      BY <1>4, <2>2
    <3>2. id \in DOMAIN requestIdToSched /\ requestIdToSched[id] = t
      BY <1>1, <2>2, <3>1 DEF IdsAreSound
    <3>. QED
      BY <1>7, <3>1, <3>2
  <2>. QED
    BY <2>1, <2>2 DEF IdsAreSound
<1>13. BatchStaysVisible' /\ FinishedIdsAreOld'
  BY <1>1, <1>4, <1>6, <1>8 DEF BatchStaysVisible, FinishedIdsAreOld
<1>14. EngineTypeOK'
  <2>1. AnswerFor(s) \in Answers /\ outQueue[s] \in Requests
    BY <1>1 DEF AnswerFor, Answers, EngineTypeOK
  <2>2. \A h \in handling' : h.id \in SchedIds /\ h.client \in Requests /\ h.out \in Answers
    BY <2>1
  <2>. QED
    BY <1>1, <1>5, <1>9, <2>2 DEF EngineTypeOK
<1>15. RebuildIsSound' /\ StagesAreSound'
  BY <1>1, <1>2, <1>6 DEF RebuildIsSound, StagesAreSound, Resting, BatchHasRun
<1>16. CacheIsSound' /\ BatchIsExecutable'
  BY <1>1, <1>6 DEF CacheIsSound, BatchIsExecutable, Resting, BatchHasRun
<1>17. FutureMatchesRequest' /\ IdleHasNoId'
  <2>1. ASSUME NEW t \in DOMAIN outQueue'
        PROVE  /\ schedIdOf'[outQueue'[t]] = t /\ t \in Known' \ refused'
               /\ requestStates'[t].req = outQueue'[t]
    <3>1. t \in DOMAIN outQueue /\ t # s /\ outQueue'[t] = outQueue[t]
      BY <1>5, <2>1
    <3>2. schedIdOf[outQueue[t]] = t /\ t \in Known \ refused /\ requestStates[t].req = outQueue[t]
      BY <1>1, <3>1 DEF FutureMatchesRequest
    <3>3. t \in Known' \ refused' /\ requestStates'[t] = requestStates[t]
      BY <1>1, <1>4, <3>1, <3>2
    <3>4. schedIdOf' = schedIdOf
      BY <1>1
    <3>. QED
      BY <3>1, <3>2, <3>3, <3>4
  <2>2. FutureMatchesRequest'
    BY <2>1 DEF FutureMatchesRequest
  <2>3. IdleHasNoId'
    BY <1>1 DEF IdleHasNoId
  <2>. QED
    BY <2>2, <2>3
<1>18. AbortsAreMeant'
  <2>. SUFFICES ASSUME "abort" \notin raced PROVE AbortsAreMeant'
    BY DEF AbortsAreMeant
  <2>1. ASSUME NEW id \in ToSet(abortQueue) \cap DOMAIN requestIdToSched,
               requestIdToSched[id] \in DOMAIN outQueue'
        PROVE  client[outQueue'[requestIdToSched[id]]] = "cancelled"
    BY <1>1, <1>5, <1>7, <2>1 DEF AbortsAreMeant
  <2>. QED
    BY <1>2, <2>1 DEF AbortsAreMeant
<1>19. ForgottenOnlyIfCancelled'
  BY <1>1, <1>2, <1>4, <1>5, <1>6, <1>8 DEF ForgottenOnlyIfCancelled
<1>. QED
  BY <1>9, <1>10, <1>11, <1>12, <1>13, <1>14, <1>15, <1>16, <1>17, <1>18, <1>19
  DEF EngineIInv, SchedulerSide

LEMMA TakeFinishedIInv ==
  ASSUME EngineIInv, NEW s \in SchedIds, TakeFinished(s) PROVE EngineIInv'
<1>1. /\ pc = "handle" /\ s \in returned /\ returned' = returned \ {s}
      /\ UNCHANGED <<requestIdToSched, queueVars, finishedReqIds, schedOutput, client,
                     schedIdOf, abortQueue, callbacks, purging, rebuild, stateCache, outcome,
                     raced>>
  BY DEF TakeFinished
<1>2. CASE s \in DOMAIN outQueue
  BY <1>1, <1>2, TakeFutureIInv DEF TakeFinished
<1>3. CASE s \notin DOMAIN outQueue
  BY <1>1, <1>3, TakeNothingIInv DEF TakeFinished
<1>. QED
  BY <1>2, <1>3

-----------------------------------------------------------------------------
(* The busy loop: the release of the ids, and all steps together           *)

\* Only the ids still registered under the popped request are released.
LEMMA UnregisterIInv == ASSUME EngineIInv, UnregisterAndPost PROVE EngineIInv'
<1>1. /\ SchedTypeOK /\ QueuesAreSound /\ BatchIsUniform /\ IdsAreSound /\ BatchStaysVisible
      /\ FinishedIdsAreOld /\ EngineTypeOK /\ StagesAreSound /\ CacheIsSound /\ RebuildIsSound
      /\ FutureMatchesRequest /\ IdleHasNoId /\ AbortsAreMeant /\ ForgottenOnlyIfCancelled
  BY EngineFacts
<1>2. PICK h \in handling :
        /\ requestIdToSched' =
             Restrict(requestIdToSched,
                      {id \in DOMAIN requestIdToSched :
                         id \in h.ids => requestIdToSched[id] # h.id})
        /\ callbacks' = IF client[h.client] \in {"added", "awaiting", "failed"}
                        THEN callbacks \cup {[client |-> h.client, out |-> h.out]}
                        ELSE callbacks
  BY DEF UnregisterAndPost
<1>3. /\ pc = "unregister" /\ pc' = "handle" /\ handling' = {} /\ handling = {h}
      /\ UNCHANGED <<requestStates, progress, refused, waiting, running, runningKey,
                     finishedReqIds, schedOutput, returned, client, schedIdOf, outQueue,
                     abortQueue, purging, rebuild, stateCache, outcome, raced>>
  BY <1>1, <1>2 DEF UnregisterAndPost, StagesAreSound, queueVars
<1>4. \A id : Releasing(id) <=> id \in h.ids /\ requestIdToSched[id] = h.id
  BY <1>3 DEF Releasing
<1>5. /\ DOMAIN requestIdToSched' = {id \in DOMAIN requestIdToSched : ~Releasing(id)}
      /\ \A id \in DOMAIN requestIdToSched' : requestIdToSched'[id] = requestIdToSched[id]
      /\ requestIdToSched' \in [DOMAIN requestIdToSched' -> SchedIds]
  BY <1>1, <1>2, <1>4 DEF Restrict, SchedTypeOK
<1>6. \A id : ~Releasing(id)'
  BY <1>3 DEF Releasing
<1>7. SchedTypeOK' /\ QueuesAreSound' /\ BatchIsUniform' /\ BatchStaysVisible' /\ FinishedIdsAreOld'
  BY <1>1, <1>3, <1>5
  DEF SchedTypeOK, QueuesAreSound, BatchIsUniform, KeyOf, BatchStaysVisible, FinishedIdsAreOld,
      Known, IsFinished, Scheduled
<1>8. IdsAreSound'
  <2>1. ASSUME NEW id \in DOMAIN requestIdToSched'
        PROVE  /\ requestIdToSched'[id] \in Known'
               /\ id \in IdsOf(requestStates'[requestIdToSched'[id]].req)
    <3>1. /\ id \in DOMAIN requestIdToSched /\ ~Releasing(id)
          /\ requestIdToSched'[id] = requestIdToSched[id]
      BY <1>5, <2>1
    <3>2. requestIdToSched[id] \in Known /\ id \in IdsOf(requestStates[requestIdToSched[id]].req)
      BY <1>1, <3>1 DEF IdsAreSound
    <3>. QED
      BY <1>3, <3>1, <3>2 DEF Known
  <2>2. ASSUME "release" \notin raced', NEW s \in Known' \ refused',
               NEW id \in IdsOf(requestStates'[s].req)
        PROVE  id \in DOMAIN requestIdToSched' /\ requestIdToSched'[id] = s
    <3>1. s \in Known \ refused /\ id \in IdsOf(requestStates[s].req) /\ "release" \notin raced
      BY <1>3, <2>2 DEF Known
    <3>2. id \in DOMAIN requestIdToSched /\ requestIdToSched[id] = s /\ ~Releasing(id)
      BY <1>1, <3>1 DEF IdsAreSound
    <3>. QED
      BY <1>5, <3>2
  <2>. QED
    BY <1>6, <2>1, <2>2 DEF IdsAreSound
<1>9. EngineTypeOK'
  <2>1. [client |-> h.client, out |-> h.out] \in [client : Requests, out : Answers]
    BY <1>1 DEF EngineTypeOK
  <2>2. callbacks' \subseteq [client : Requests, out : Answers]
    BY <1>1, <1>2, <2>1 DEF EngineTypeOK
  <2>. QED
    BY <1>1, <1>3, <1>7, <2>2 DEF EngineTypeOK
<1>10. RebuildIsSound' /\ StagesAreSound' /\ CacheIsSound' /\ BatchIsExecutable'
  BY <1>1, <1>3
  DEF RebuildIsSound, StagesAreSound, CacheIsSound, BatchIsExecutable, Resting, BatchHasRun, Known
<1>11. FutureMatchesRequest' /\ IdleHasNoId' /\ ForgottenOnlyIfCancelled'
  BY <1>1, <1>3
  DEF FutureMatchesRequest, IdleHasNoId, ForgottenOnlyIfCancelled, IsFinished, Known, Batch
<1>12. AbortsAreMeant'
  <2>. SUFFICES ASSUME "abort" \notin raced PROVE AbortsAreMeant'
    BY <1>3 DEF AbortsAreMeant
  <2>1. ASSUME NEW id \in ToSet(abortQueue) \cap DOMAIN requestIdToSched',
               requestIdToSched'[id] \in DOMAIN outQueue
        PROVE  client[outQueue[requestIdToSched'[id]]] = "cancelled"
    BY <1>1, <1>5, <2>1 DEF AbortsAreMeant
  <2>. QED
    BY <1>1, <1>3, <2>1 DEF AbortsAreMeant
<1>. QED
  BY <1>1, <1>7, <1>8, <1>9, <1>10, <1>11, <1>12 DEF EngineIInv, SchedulerSide

LEMMA StutterIInv == ASSUME EngineIInv, UNCHANGED vars PROVE EngineIInv'
<1>1. /\ UNCHANGED <<requestStates, requestIdToSched, waiting, running, runningKey,
                     finishedReqIds, progress, schedOutput, returned, refused>>
      /\ UNCHANGED <<client, schedIdOf, outQueue, abortQueue, callbacks>>
      /\ UNCHANGED <<pc, purging, rebuild, handling, stateCache, outcome, raced>>
  BY DEF vars, schedVars, tableVars, queueVars, loopVars, busyVars
<1>2. SchedulerSide'
  BY SchedulerSideKept DEF EngineIInv, vars, busyVars
<1>3. EngineTypeOK'
  BY <1>1, <1>2 DEF EngineIInv, EngineTypeOK, SchedulerSide
<1>4. RebuildIsSound' /\ StagesAreSound' /\ CacheIsSound' /\ BatchIsExecutable'
  BY <1>1
  DEF EngineIInv, RebuildIsSound, StagesAreSound, CacheIsSound, BatchIsExecutable, InSync,
      Retained, Resting, BatchHasRun, Known, Batch
<1>5. FutureMatchesRequest' /\ IdleHasNoId' /\ AbortsAreMeant' /\ ForgottenOnlyIfCancelled'
  BY <1>1
  DEF EngineIInv, FutureMatchesRequest, IdleHasNoId, AbortsAreMeant, Releasing,
      ForgottenOnlyIfCancelled, IsFinished, Known, Batch
<1>. QED
  BY <1>2, <1>3, <1>4, <1>5 DEF EngineIInv

LEMMA EngineNextIInv == ASSUME EngineIInv, [Next]_vars PROVE EngineIInv'
<1>1. ASSUME NEW r \in Requests, Submit(r) PROVE EngineIInv'
  BY <1>1, SubmitIInv
<1>2. ASSUME NEW r \in Requests, CancelAndAbort(r) PROVE EngineIInv'
  BY <1>2, CancelIInv
<1>3. ASSUME NEW r \in Requests, GetResult(r) PROVE EngineIInv'
  BY <1>3, GetResultIInv
<1>4. ASSUME NEW r \in Requests, Deliver(r) PROVE EngineIInv'
  BY <1>4, DeliverIInv
<1>5. ASSUME NEW s \in SchedIds, PurgeOne(s) PROVE EngineIInv'
  BY <1>5, PurgeOneIInv
<1>6. ASSUME NEW s \in SchedIds, RebuildBegin(s) PROVE EngineIInv'
  BY <1>6, RebuildBeginIInv
<1>7. ASSUME NEW s \in SchedIds, TakeFinished(s) PROVE EngineIInv'
  BY <1>7, TakeFinishedIInv
<1>8. CASE BusyLoop
  <2>1. CASE DrainAborts \/ RebuildAssign \/ RebuildRaises \/ PurgeDone
    BY <2>1, DrainIInv, RebuildAssignIInv, RebuildRaisesIInv, PurgeDoneIInv
  <2>2. CASE LockAndSchedule \/ ExecuteStep \/ ExecuteStepRaises \/ ExecuteRequest
    BY <2>2, LockAndScheduleIInv, ExecuteStepIInv, ExecuteStepRaisesIInv, ExecuteRequestIInv
  <2>3. CASE UpdateBatch \/ UnregisterAndPost \/ HandleDone
    BY <2>3, UpdateBatchIInv, UnregisterIInv, HandleDoneIInv
  <2>. QED
    BY <1>5, <1>6, <1>7, <1>8, <2>1, <2>2, <2>3 DEF BusyLoop
<1>9. CASE UNCHANGED vars
  BY <1>9, StutterIInv
<1>. QED
  BY <1>1, <1>2, <1>3, <1>4, <1>8, <1>9 DEF Next, EventLoop, EventLoopReady

-----------------------------------------------------------------------------
(* Theorems                                                                *)

\* Every reachable state of the engine satisfies the inductive invariant.
THEOREM EngineInvariant == Spec => []EngineIInv
<1>1. Init => EngineIInv
  BY EngineInitIInv
<1>2. EngineIInv /\ [Next]_vars => EngineIInv'
  BY EngineNextIInv
<1>. QED
  BY <1>1, <1>2, PTL DEF Spec

\* The engine's state and the scheduler's are of their types.
THEOREM EngineTypeCorrect == Spec => []EngineTypeOK
<1>1. EngineIInv => EngineTypeOK
  BY DEF EngineIInv
<1>. QED
  BY <1>1, EngineInvariant, PTL

\* Every future in _out_queue is filed under the scheduler id of its own request,
\* whose state is there: no answer of the busy loop reaches another task.
THEOREM FuturesMatch == Spec => []FutureMatchesRequest
<1>1. EngineIInv => FutureMatchesRequest
  BY DEF EngineIInv
<1>. QED
  BY <1>1, EngineInvariant, PTL

\* Whatever the event loop does between the busy loop's unlocked steps, queues
\* match statuses, the batch is uniform and public ids resolve, but for the two
\* races of add_request() that the property names.
THEOREM SchedulerConsistent == Spec => []SchedulerStaysConsistent
<1>1. EngineIInv => SchedulerStaysConsistent
  <2>. SUFFICES ASSUME EngineIInv, "append" \notin raced PROVE SchedulerStaysConsistent
    BY DEF SchedulerStaysConsistent
  <2>1. QueuesAreSound /\ IdsAreSound /\ BatchIsUniform /\ BatchStaysVisible /\ StagesAreSound
    BY DEF EngineIInv, SchedulerSide
  <2>2. QueuesMatchStatuses
    BY <2>1 DEF QueuesAreSound, QueuesMatchStatuses
  <2>3. ASSUME pc # "unregister", "release" \notin raced PROVE PublicIdsResolve
    <3>1. \A id : ~Releasing(id)
      BY <2>1, <2>3 DEF StagesAreSound, Releasing
    <3>. QED
      BY <2>1, <2>3, <3>1 DEF IdsAreSound, PublicIdsResolve
  <2>. QED
    BY <2>1, <2>2, <2>3 DEF SchedulerStaysConsistent
<1>. QED
  BY <1>1, EngineInvariant, PTL

\* The running batch keeps to its limit and to one sampling key, in every
\* interleaving and with no race excepted.
THEOREM EngineBatchUniform == Spec => []BatchIsUniform
<1>1. EngineIInv => BatchIsUniform
  BY DEF EngineIInv, SchedulerSide
<1>. QED
  BY <1>1, EngineInvariant, PTL

\* What schedule() hands out is never empty and is in step with the runner's
\* cache: _update_states never raises, in no interleaving and with no race
\* excepted.
THEOREM BatchExecutable == Spec => []BatchIsExecutable
<1>1. EngineIInv => BatchIsExecutable
  BY DEF EngineIInv
<1>. QED
  BY <1>1, EngineInvariant, PTL

\* The runner never caches a state it will not be told to drop.
THEOREM CacheAccounted == Spec => []CacheIsAccountedFor
<1>1. EngineIInv => CacheIsAccountedFor
  BY DEF EngineIInv, CacheIsSound, CacheIsAccountedFor
<1>. QED
  BY <1>1, EngineInvariant, PTL

\* No finished request is left in _out_queue but one whose client is gone, or
\* one that an abort meant for an earlier request has hit.
THEOREM ForgottenOnly == Spec => []ForgottenOnlyIfCancelled
<1>1. EngineIInv => ForgottenOnlyIfCancelled
  BY DEF EngineIInv
<1>. QED
  BY <1>1, EngineInvariant, PTL
==============================================================================
