---------------------- MODULE DiffusionSchedulerProofs ----------------------
(***************************************************************************)
(* The scheduler's invariants, for every set of requests, every assignment *)
(* of public ids and keys, every batch size and both modes.                *)
(***************************************************************************)
EXTENDS DiffusionScheduler, ContainersProofs

\* A finished id that is in use again has not been scheduled yet: schedule()
\* empties _finished_req_ids.  Without this a stale id in it would make
\* update_from_output return a running request as finished.
FinishedIdsAreOld ==
  \A s \in finishedReqIds \cap Known :
    requestStates[s].status \notin {"RUNNING", "PREEMPTED"}

\* The inductive invariant.
SchedIInv ==
  /\ SchedTypeOK
  /\ QueuesMatchStatuses
  /\ BatchIsUniform
  /\ PublicIdsResolve
  /\ BatchStaysVisible
  /\ FinishedIdsAreOld
-----------------------------------------------------------------------------
(* Reading the state                                                       *)

\* The state of a known request, its key and its public ids.
LEMMA KnownTypes ==
  ASSUME SchedTypeOK, NEW s \in Known
  PROVE  /\ requestStates[s] \in RequestState
         /\ requestStates[s].req \in Requests /\ requestStates[s].status \in Statuses
         /\ KeyOf(s) \in Keys \cup {NoKey}
         /\ RequestIds[requestStates[s].req] \in Seq(PublicIds)
         /\ IdsOf(requestStates[s].req) \subseteq PublicIds
<1>1. requestStates[s] \in RequestState
  BY DEF SchedTypeOK
<1>2. requestStates[s].req \in Requests /\ requestStates[s].status \in Statuses
  BY <1>1 DEF RequestState
<1>3. RequestIds[requestStates[s].req] \in Seq(PublicIds)
  BY <1>2, SchedulerAssumption
<1>. QED
  BY <1>1, <1>2, <1>3, SchedulerAssumption DEF KeyOf, IdsOf, ToSet

LEMMA SchedInitIInv == ASSUME SchedInit PROVE SchedIInv
<1>1. \A S : <<>> \in Seq(S) /\ Len(<<>>) = 0 /\ DOMAIN <<>> = {}
  OBVIOUS
<1>2. ToSet(<<>>) = {} /\ NoDuplicates(<<>>)
  BY <1>1 DEF ToSet, NoDuplicates
<1>3. \A S : <<>> \in [DOMAIN <<>> -> S]
  BY <1>1
<1>4. SchedTypeOK
  BY <1>1, <1>3 DEF SchedInit, SchedTypeOK, Known, EmptyOutput, SchedulerOutput
<1>5. Known = {} /\ DOMAIN requestIdToSched = {} /\ Scheduled(schedOutput) = {}
  BY <1>1 DEF SchedInit, Known, EmptyOutput, Scheduled
<1>6. QueuesMatchStatuses
  BY <1>2, <1>5 DEF SchedInit, QueuesMatchStatuses
<1>7. BatchIsUniform
  BY <1>1, SchedulerAssumption DEF SchedInit, BatchIsUniform
<1>. QED
  BY <1>4, <1>5, <1>6, <1>7
  DEF SchedInit, SchedIInv, PublicIdsResolve, BatchStaysVisible, FinishedIdsAreOld

-----------------------------------------------------------------------------
(* add_request                                                             *)

\* Storing a state and registering ids: the new scheduler id is fresh, and an
\* id registered before the first conflict belonged to nobody.
LEMMA InsertEffect ==
  ASSUME SchedIInv, NEW r \in Requests, NEW s \in SchedIds, InsertRequest(r, s)
  PROVE  /\ s \notin Known /\ Known' = Known \cup {s}
         /\ requestStates' \in [Known' -> RequestState] /\ Known' \subseteq SchedIds
         /\ requestStates'[s] = [req |-> r, status |-> "WAITING"]
         /\ \A t \in Known : requestStates'[t] = requestStates[t]
         /\ DOMAIN requestIdToSched' = Registered(r, s) \cup DOMAIN requestIdToSched
         /\ requestIdToSched' \in [DOMAIN requestIdToSched' -> SchedIds]
         /\ DOMAIN requestIdToSched' \subseteq PublicIds
         /\ \A id \in Registered(r, s) : /\ id \notin DOMAIN requestIdToSched
                                         /\ requestIdToSched'[id] = s
         /\ \A id \in DOMAIN requestIdToSched : requestIdToSched'[id] = requestIdToSched[id]
         /\ Registered(r, s) \subseteq IdsOf(r)
         /\ Conflicts(r, s) = {} => Registered(r, s) = IdsOf(r)
<1>1. SchedTypeOK /\ PublicIdsResolve
  BY DEF SchedIInv
<1>2. s \notin Known
  BY DEF InsertRequest, IsFreshSchedId
<1>. DEFINE state == [req |-> r, status |-> "WAITING"]
<1>3. state \in RequestState
  BY DEF RequestState, Statuses
<1>. HIDE DEF state
<1>4. requestStates' = Put(requestStates, {s}, state)
  BY DEF InsertRequest, state
<1>5. Known' = Known \cup {s} /\ requestStates' \in [Known' -> RequestState]
  BY <1>1, <1>3, <1>4 DEF Put, Known, SchedTypeOK
<1>6. requestStates'[s] = state /\ \A t \in Known : requestStates'[t] = requestStates[t]
  BY <1>2, <1>4 DEF Put, Known
<1>7. RequestIds[r] \in Seq(PublicIds) /\ DOMAIN RequestIds[r] = 1..Len(RequestIds[r])
  BY SchedulerAssumption
<1>8. IdsOf(r) \subseteq PublicIds /\ \A i \in DOMAIN RequestIds[r] : RequestIds[r][i] \in IdsOf(r)
  BY <1>7 DEF IdsOf, ToSet
<1>9. Registered(r, s) \subseteq IdsOf(r)
  BY <1>8 DEF Registered
<1>10. Conflicts(r, s) = {} => Registered(r, s) = IdsOf(r)
  BY DEF Registered, IdsOf, ToSet
<1>11. ASSUME NEW id \in Registered(r, s) PROVE id \notin DOMAIN requestIdToSched
  <2>1. PICK i \in DOMAIN RequestIds[r] :
          id = RequestIds[r][i] /\ \A c \in Conflicts(r, s) : i < c
    BY DEF Registered
  <2>2. i \notin Conflicts(r, s)
    BY <1>7, <2>1
  <2>3. id \in DOMAIN requestIdToSched => requestIdToSched[id] = s
    BY <2>1, <2>2 DEF Conflicts
  <2>4. id \in DOMAIN requestIdToSched => requestIdToSched[id] \in Known
    BY <1>1 DEF PublicIdsResolve
  <2>. QED
    BY <1>2, <2>3, <2>4
<1>12. requestIdToSched' = Put(requestIdToSched, Registered(r, s), s)
  BY DEF InsertRequest
<1>13. /\ DOMAIN requestIdToSched' = Registered(r, s) \cup DOMAIN requestIdToSched
       /\ requestIdToSched' \in [DOMAIN requestIdToSched' -> SchedIds]
  BY <1>1, <1>12 DEF Put, SchedTypeOK
<1>14. /\ \A id \in Registered(r, s) : requestIdToSched'[id] = s
       /\ \A id \in DOMAIN requestIdToSched : requestIdToSched'[id] = requestIdToSched[id]
  BY <1>11, <1>12 DEF Put
<1>15. Known' \subseteq SchedIds /\ DOMAIN requestIdToSched' \subseteq PublicIds
  BY <1>1, <1>5, <1>8, <1>9, <1>13 DEF SchedTypeOK
<1>. QED
  BY <1>2, <1>5, <1>6, <1>9, <1>10, <1>11, <1>13, <1>14, <1>15 DEF state

\* What an add_request(), accepted or refused, leaves as it was.
LEMMA InsertPreserves ==
  ASSUME SchedIInv, NEW r \in Requests, NEW s \in SchedIds, InsertRequest(r, s),
         UNCHANGED <<running, runningKey, finishedReqIds, schedOutput, returned>>,
         \/ Conflicts(r, s) = {} /\ refused' = refused
         \/ refused' = refused \cup {s},
         ToSet(waiting) \subseteq ToSet(waiting')
  PROVE  BatchIsUniform' /\ PublicIdsResolve' /\ BatchStaysVisible' /\ FinishedIdsAreOld'
<1>1. /\ s \notin Known /\ Known' = Known \cup {s}
      /\ requestStates'[s] = [req |-> r, status |-> "WAITING"]
      /\ \A t \in Known : requestStates'[t] = requestStates[t]
      /\ DOMAIN requestIdToSched' = Registered(r, s) \cup DOMAIN requestIdToSched
      /\ \A id \in Registered(r, s) : /\ id \notin DOMAIN requestIdToSched
                                      /\ requestIdToSched'[id] = s
      /\ \A id \in DOMAIN requestIdToSched : requestIdToSched'[id] = requestIdToSched[id]
      /\ Registered(r, s) \subseteq IdsOf(r)
      /\ Conflicts(r, s) = {} => Registered(r, s) = IdsOf(r)
  BY InsertEffect
<1>2. QueuesMatchStatuses
  BY DEF SchedIInv
<1>3. BatchIsUniform'
  <2>1. \A i \in 1..Len(running) : running[i] \in Known
    BY <1>2 DEF QueuesMatchStatuses, ToSet
  <2>2. running \in Seq(SchedIds)
    BY DEF SchedIInv, SchedTypeOK
  <2>3. running # <<>> => 1 \in 1..Len(running)
    BY <2>2
  <2>. QED
    BY <1>1, <2>1, <2>3 DEF SchedIInv, BatchIsUniform, KeyOf
<1>4. PublicIdsResolve'
  <2>1. PublicIdsResolve
    BY DEF SchedIInv
  <2>2. ASSUME NEW t \in Known' \ refused', NEW id \in IdsOf(requestStates'[t].req)
        PROVE  id \in DOMAIN requestIdToSched' /\ requestIdToSched'[id] = t
    <3>1. CASE t = s
      BY <1>1, <2>2, <3>1
    <3>2. CASE t # s
      <4>1. t \in Known \ refused /\ id \in IdsOf(requestStates[t].req)
        BY <1>1, <2>2, <3>2
      <4>. QED
        BY <1>1, <2>1, <4>1 DEF PublicIdsResolve
    <3>. QED
      BY <3>1, <3>2
  <2>3. ASSUME NEW id \in DOMAIN requestIdToSched'
        PROVE  /\ requestIdToSched'[id] \in Known'
               /\ id \in IdsOf(requestStates'[requestIdToSched'[id]].req)
    <3>1. CASE id \in Registered(r, s)
      BY <1>1, <3>1
    <3>2. CASE id \in DOMAIN requestIdToSched
      BY <1>1, <2>1, <3>2 DEF PublicIdsResolve
    <3>. QED
      BY <1>1, <3>1, <3>2
  <2>. QED
    BY <2>2, <2>3 DEF PublicIdsResolve
<1>5. BatchStaysVisible'
  <2>1. BatchStaysVisible
    BY DEF SchedIInv
  <2>2. ToSet(waiting) \subseteq Known
    BY <1>2 DEF QueuesMatchStatuses
  <2>. QED
    BY <1>1, <2>1, <2>2 DEF BatchStaysVisible, IsFinished
<1>6. FinishedIdsAreOld'
  BY <1>1 DEF SchedIInv, FinishedIdsAreOld
<1>. QED
  BY <1>3, <1>4, <1>5, <1>6

LEMMA AddAcceptedIInv ==
  ASSUME SchedIInv, NEW r \in Requests, NEW s \in SchedIds, AddAccepted(r, s)
  PROVE  SchedIInv'
<1>1. /\ Conflicts(r, s) = {} /\ InsertRequest(r, s)
      /\ waiting' = Append(waiting, s)
      /\ progress' = (IF StepMode THEN progress \cup {s} ELSE progress)
      /\ UNCHANGED <<running, runningKey, finishedReqIds, schedOutput, returned, refused>>
  BY DEF AddAccepted
<1>2. SchedTypeOK /\ QueuesMatchStatuses
  BY DEF SchedIInv
<1>3. /\ s \notin Known /\ Known' = Known \cup {s}
      /\ requestStates' \in [Known' -> RequestState] /\ Known' \subseteq SchedIds
      /\ requestStates'[s] = [req |-> r, status |-> "WAITING"]
      /\ \A t \in Known : requestStates'[t] = requestStates[t]
      /\ requestIdToSched' \in [DOMAIN requestIdToSched' -> SchedIds]
      /\ DOMAIN requestIdToSched' \subseteq PublicIds
  BY <1>1, InsertEffect
<1>4. /\ waiting' \in Seq(SchedIds) /\ ToSet(waiting') = ToSet(waiting) \cup {s}
      /\ s \notin ToSet(waiting) => NoDuplicates(waiting')
  BY <1>1, <1>2, ListAppend DEF SchedTypeOK, QueuesMatchStatuses
<1>5. BatchIsUniform' /\ PublicIdsResolve' /\ BatchStaysVisible' /\ FinishedIdsAreOld'
  BY <1>1, <1>4, InsertPreserves
<1>6. SchedTypeOK'
  BY <1>1, <1>2, <1>3, <1>4 DEF SchedTypeOK
<1>7. QueuesMatchStatuses'
  <2>1. s \notin ToSet(waiting) /\ s \notin refused /\ NoDuplicates(waiting')
    BY <1>2, <1>3, <1>4 DEF QueuesMatchStatuses
  <2>. QED
    BY <1>1, <1>2, <1>3, <1>4, <2>1 DEF QueuesMatchStatuses
<1>. QED
  BY <1>5, <1>6, <1>7 DEF SchedIInv

LEMMA AddRefusedIInv ==
  ASSUME SchedIInv, NEW r \in Requests, NEW s \in SchedIds, AddRefused(r, s)
  PROVE  SchedIInv'
<1>1. /\ InsertRequest(r, s) /\ refused' = refused \cup {s}
      /\ UNCHANGED <<waiting, running, runningKey, progress, finishedReqIds, schedOutput,
                     returned>>
  BY DEF AddRefused, queueVars
<1>2. SchedTypeOK /\ QueuesMatchStatuses
  BY DEF SchedIInv
<1>3. /\ s \notin Known /\ Known' = Known \cup {s}
      /\ requestStates' \in [Known' -> RequestState] /\ Known' \subseteq SchedIds
      /\ requestStates'[s] = [req |-> r, status |-> "WAITING"]
      /\ \A t \in Known : requestStates'[t] = requestStates[t]
      /\ requestIdToSched' \in [DOMAIN requestIdToSched' -> SchedIds]
      /\ DOMAIN requestIdToSched' \subseteq PublicIds
  BY <1>1, InsertEffect
<1>4. BatchIsUniform' /\ PublicIdsResolve' /\ BatchStaysVisible' /\ FinishedIdsAreOld'
  BY <1>1, InsertPreserves
<1>5. SchedTypeOK'
  BY <1>1, <1>2, <1>3 DEF SchedTypeOK
<1>6. QueuesMatchStatuses'
  BY <1>1, <1>2, <1>3 DEF QueuesMatchStatuses
<1>. QED
  BY <1>4, <1>5, <1>6 DEF SchedIInv

-----------------------------------------------------------------------------
(* schedule                                                                *)

\* The key of the batch that schedule() leaves behind is the common key of it.
LEMMA ScheduleKeepsBatchUniform ==
  ASSUME SchedTypeOK, BatchIsUniform, ToSet(running) \cup ToSet(waiting) \subseteq Known, Schedule
  PROVE  BatchIsUniform'
<1>1. SchedTypeOK /\ BatchIsUniform
  OBVIOUS
<1>2. PICK n \in 0..Len(waiting) :
        /\ StopsAfter(n)
        /\ running' = running \o SubSeq(waiting, 1, n)
        /\ runningKey' = IF waiting # <<>> /\ Capacity > 0 THEN BatchKey ELSE runningKey
        /\ requestStates' =
             [s \in Known |-> IF s \in ToSet(SubSeq(waiting, 1, n))
                              THEN [requestStates[s] EXCEPT !.status = "RUNNING"]
                              ELSE requestStates[s]]
  BY Zenon DEF Schedule
<1>. DEFINE m == Len(running)
<1>3. /\ running \in Seq(SchedIds) /\ waiting \in Seq(SchedIds) /\ m \in Nat /\ n \in Nat
      /\ (running = <<>> <=> m = 0) /\ (waiting = <<>> <=> Len(waiting) = 0)
      /\ n <= Len(waiting) /\ Len(waiting) \in Nat /\ MaxRunning \in Nat
  BY <1>1, SchedulerAssumption DEF SchedTypeOK
<1>4. /\ SubSeq(waiting, 1, n) \in Seq(SchedIds) /\ Len(SubSeq(waiting, 1, n)) = n
      /\ \A i \in 1..n : SubSeq(waiting, 1, n)[i] = waiting[i]
  BY <1>3, ListSplit
<1>5. /\ running' \in Seq(SchedIds) /\ Len(running') = m + n
      /\ \A i \in 1..m : running'[i] = running[i]
      /\ \A i \in 1..n : running'[m + i] = waiting[i]
  BY <1>2, <1>3, <1>4, ListConcat
<1>6. /\ \A i \in 1..m : running[i] \in Known
      /\ \A i \in 1..n : waiting[i] \in Known
  <2>1. ToSet(running) \subseteq Known /\ ToSet(waiting) \subseteq Known
    OBVIOUS
  <2>. QED
    BY <1>3, <2>1 DEF ToSet
<1>7. \A s \in Known : requestStates'[s].req = requestStates[s].req
  BY <1>1, <1>2 DEF SchedTypeOK, RequestState
<1>. DEFINE key(i) == IF i <= m THEN KeyOf(running[i]) ELSE KeyOf(waiting[i - m])
<1>8. \A i \in 1..m+n : KeyOf(running[i])' = key(i)
  <2>. TAKE i \in 1..m+n
  <2>1. CASE i <= m
    <3>1. i \in 1..m /\ running'[i] = running[i]
      BY <1>3, <1>5, <2>1
    <3>. QED
      BY <1>6, <1>7, <2>1, <3>1 DEF KeyOf
  <2>2. CASE ~(i <= m)
    <3>1. i - m \in 1..n /\ m + (i - m) = i
      BY <1>3, <2>2
    <3>2. running'[i] = waiting[i - m]
      BY <1>5, <3>1
    <3>. QED
      BY <1>6, <1>7, <2>2, <3>1, <3>2 DEF KeyOf
  <2>. QED
    BY <2>1, <2>2
<1>9. n <= MaxRunning - m /\ \A i \in 1..n : Joins(i)
  BY <1>2 DEF StopsAfter, Capacity
<1>10. m > 0 => BatchKey = runningKey /\ runningKey = key(1)
  <2>1. m > 0 => 1 \in 1..m /\ 1 <= m
    BY <1>3
  <2>2. m > 0 => runningKey = key(1)
    BY <1>1, <1>3, <2>1 DEF BatchIsUniform
  <2>. QED
    BY <1>3, <1>6, <2>1, <2>2 DEF BatchKey
<1>11. m = 0 /\ n > 0 => BatchKey = key(1)
  <2>1. m = 0 /\ n > 0 => Head(waiting) = waiting[1] /\ ~(1 <= m) /\ 1 - m = 1
    BY <1>3
  <2>. QED
    BY <1>3, <2>1 DEF BatchKey
<1>12. n > 0 => waiting # <<>> /\ Capacity > 0
  BY <1>3, <1>9 DEF Capacity
<1>13. m = 0 /\ n = 0 => ~(waiting # <<>> /\ Capacity > 0)
  <2>1. ASSUME m = 0, n = 0, waiting # <<>>, Capacity > 0 PROVE FALSE
    <3>1. n < Capacity /\ n < Len(waiting)
      BY <1>3, <2>1
    <3>2. ~Joins(1)
      BY <1>2, <2>1, <3>1 DEF StopsAfter
    <3>. QED
      BY <1>3, <2>1, <3>2 DEF Joins
  <2>. QED
    BY <2>1
<1>14. m + n > 0 => runningKey' = key(1)
  BY <1>2, <1>3, <1>10, <1>11, <1>12
<1>15. m = 0 /\ n = 0 => runningKey' = NoKey
  BY <1>1, <1>2, <1>3, <1>13 DEF BatchIsUniform
<1>16. m + n > 1 => \A i \in 1..m+n : key(i) = runningKey' /\ runningKey' # NoKey
  <2>1. \A i \in 1..n : m > 0 \/ i > 1 => BatchKey # NoKey /\ BatchKey = KeyOf(waiting[i])
    BY <1>3, <1>9 DEF Joins
  <2>2. m > 1 => \A i \in 1..m : key(i) = runningKey /\ runningKey # NoKey
    BY <1>1, <1>3 DEF BatchIsUniform
  <2>3. CASE n = 0
    <3>1. m > 1 => runningKey' = runningKey
      BY <1>2, <1>3, <1>10
    <3>. QED
      BY <1>3, <2>2, <2>3, <3>1
  <2>4. CASE n > 0 /\ m > 0
    <3>1. runningKey' = BatchKey /\ BatchKey = runningKey
      BY <1>2, <1>10, <1>12, <2>4
    <3>2. BatchKey # NoKey
      BY <1>3, <2>1, <2>4
    <3>3. \A i \in 1..m : key(i) = runningKey
      BY <1>3, <1>10, <2>2, <2>4
    <3>4. ASSUME NEW i \in 1..m+n, ~(i <= m) PROVE key(i) = runningKey
      <4>1. i - m \in 1..n
        BY <1>3, <3>4
      <4>. QED
        BY <2>1, <2>4, <3>1, <3>4, <4>1
    <3>. QED
      BY <1>3, <3>1, <3>2, <3>3, <3>4
  <2>5. CASE n > 1 /\ m = 0
    <3>1. runningKey' = BatchKey
      BY <1>2, <1>3, <1>12, <2>5
    <3>2. 2 \in 1..n /\ BatchKey # NoKey
      BY <1>3, <2>1, <2>5
    <3>3. ASSUME NEW i \in 1..m+n PROVE key(i) = BatchKey
      <4>1. i \in 1..n /\ ~(i <= m) /\ i - m = i
        BY <1>3, <2>5
      <4>2. i > 1 => KeyOf(waiting[i]) = BatchKey
        BY <2>1, <4>1
      <4>3. i = 1 => key(i) = BatchKey
        BY <1>11, <2>5, <3>2
      <4>. QED
        BY <4>1, <4>2, <4>3
    <3>. QED
      BY <3>1, <3>2, <3>3
  <2>. QED
    BY <1>3, <2>3, <2>4, <2>5
<1>. HIDE DEF m, key
<1>17. Len(running') <= MaxRunning
  BY <1>3, <1>5, <1>9
<1>18. runningKey' = IF running' = <<>> THEN NoKey ELSE KeyOf(running[1])'
  BY <1>3, <1>5, <1>8, <1>14, <1>15
<1>19. Len(running') > 1 =>
         \A i \in 1..Len(running') : KeyOf(running[i])' = runningKey' /\ runningKey' # NoKey
  BY <1>3, <1>5, <1>8, <1>16
<1>. QED
  BY <1>17, <1>18, <1>19 DEF BatchIsUniform

\* What schedule() does to queues whose ids all have states: those it admits
\* move from the deque to the running list and become RUNNING, and the batch is
\* not empty if there are requests.
LEMMA ScheduleEffect ==
  ASSUME SchedTypeOK, BatchIsUniform, ToSet(running) \cup ToSet(waiting) \subseteq Known,
         NoDuplicates(running), NoDuplicates(waiting), ToSet(running) \cap ToSet(waiting) = {},
         Schedule
  PROVE  \E A \in SUBSET ToSet(waiting) :
           /\ SchedTypeOK' /\ BatchIsUniform' /\ Known' = Known
           /\ NoDuplicates(running') /\ NoDuplicates(waiting')
           /\ ToSet(running') = ToSet(running) \cup A
           /\ ToSet(waiting') = ToSet(waiting) \ A
           /\ \A s \in A : requestStates'[s].status = "RUNNING"
           /\ \A s \in Known \ A : requestStates'[s] = requestStates[s]
           /\ \A s \in Known : requestStates'[s].req = requestStates[s].req
           /\ schedOutput' =
                [new      |-> {s \in A : requestStates[s].status = "WAITING"},
                 cached   |-> (ToSet(running) \cap Known)
                                \cup {s \in A : ~(requestStates[s].status = "WAITING")},
                 finished |-> finishedReqIds]
           /\ Scheduled(schedOutput)' = ToSet(running')
           /\ HasRequests => running' # <<>>
           /\ finishedReqIds' = {}
           /\ UNCHANGED <<requestIdToSched, progress, refused, returned>>
<1>1. SchedTypeOK /\ BatchIsUniform
  OBVIOUS
<1>. DEFINE isNew(s) == requestStates[s].status = "WAITING"
<1>2. PICK n \in 0..Len(waiting) :
        LET admitted == SubSeq(waiting, 1, n)
        IN  /\ StopsAfter(n)
            /\ running' = running \o admitted
            /\ waiting' = SubSeq(waiting, n + 1, Len(waiting))
            /\ runningKey' = IF waiting # <<>> /\ Capacity > 0 THEN BatchKey ELSE runningKey
            /\ requestStates' =
                 [s \in Known |-> IF s \in ToSet(admitted)
                                  THEN [requestStates[s] EXCEPT !.status = "RUNNING"]
                                  ELSE requestStates[s]]
            /\ schedOutput' =
                 [new      |-> {s \in ToSet(admitted) : isNew(s)},
                  cached   |-> (ToSet(running) \cap Known)
                                 \cup {s \in ToSet(admitted) : ~isNew(s)},
                  finished |-> finishedReqIds]
  BY Zenon DEF Schedule
<1>3. finishedReqIds' = {} /\ UNCHANGED <<requestIdToSched, progress, refused, returned>>
  BY DEF Schedule
<1>. DEFINE admitted == SubSeq(waiting, 1, n)
            A == ToSet(admitted)
            R == ToSet(running)
<1>4. running \in Seq(SchedIds) /\ waiting \in Seq(SchedIds) /\ Known \subseteq SchedIds
  BY <1>1 DEF SchedTypeOK
<1>5. /\ admitted \in Seq(SchedIds) /\ waiting' \in Seq(SchedIds)
      /\ ToSet(waiting) = A \cup ToSet(waiting')
      /\ NoDuplicates(admitted) /\ NoDuplicates(waiting') /\ A \cap ToSet(waiting') = {}
  BY <1>1, <1>2, <1>4, ListSplit
<1>6. A \subseteq Known /\ R \subseteq Known /\ A \cap R = {}
  BY <1>5
<1>. HIDE DEF admitted
<1>7. /\ running' \in Seq(SchedIds) /\ ToSet(running') = R \cup A /\ NoDuplicates(running')
  <2>1. running' = running \o admitted
    BY <1>2 DEF admitted
  <2>2. NoDuplicates(running)
    OBVIOUS
  <2>3. A = ToSet(admitted) /\ R = ToSet(running) /\ R \cap A = {}
    BY <1>6
  <2>. HIDE DEF A, R
  <2>. QED
    BY <1>4, <1>5, <2>1, <2>2, <2>3, ListConcat
<1>8. Known' = Known /\ requestStates' \in [Known' -> RequestState]
  <2>1. Known' = Known
    BY <1>2 DEF Known
  <2>2. \A s \in Known : [requestStates[s] EXCEPT !.status = "RUNNING"] \in RequestState
    BY <1>1 DEF SchedTypeOK, RequestState, Statuses
  <2>. QED
    BY <1>1, <1>2, <2>1, <2>2 DEF SchedTypeOK
<1>9. /\ \A s \in A : requestStates'[s].status = "RUNNING"
      /\ \A s \in Known \ A : requestStates'[s] = requestStates[s]
      /\ \A s \in Known : requestStates'[s].req = requestStates[s].req
  BY <1>1, <1>2, <1>6 DEF SchedTypeOK, RequestState, admitted
<1>10. /\ schedOutput' \in SchedulerOutput
       /\ Scheduled(schedOutput)' = R \cup A
  <2>1. /\ schedOutput'.new = {s \in A : isNew(s)}
        /\ schedOutput'.cached = (R \cap Known) \cup {s \in A : ~isNew(s)}
        /\ schedOutput' = [new |-> schedOutput'.new, cached |-> schedOutput'.cached,
                           finished |-> finishedReqIds]
    BY <1>2 DEF admitted
  <2>2. finishedReqIds \subseteq SchedIds
    BY <1>1 DEF SchedTypeOK
  <2>. HIDE DEF A, R, isNew
  <2>3. schedOutput'.new \cup schedOutput'.cached = R \cup A
    BY <1>6, <2>1
  <2>4. schedOutput'.new \subseteq SchedIds /\ schedOutput'.cached \subseteq SchedIds
    BY <1>4, <1>6, <2>1
  <2>. QED
    BY <2>1, <2>2, <2>3, <2>4 DEF Scheduled, SchedulerOutput
<1>11. runningKey' \in Keys \cup {NoKey}
  <2>1. waiting # <<>> => Head(waiting) \in Known
    <3>1. waiting # <<>> => Head(waiting) = waiting[1] /\ 1 \in DOMAIN waiting
      BY <1>4
    <3>2. ToSet(waiting) \subseteq Known
      OBVIOUS
    <3>. QED
      BY <3>1, <3>2 DEF ToSet
  <2>2. waiting # <<>> => BatchKey \in Keys \cup {NoKey}
    BY <1>1, <2>1, KnownTypes DEF BatchKey, SchedTypeOK
  <2>. QED
    BY <1>1, <1>2, <2>2 DEF SchedTypeOK
<1>12. SchedTypeOK'
  BY <1>1, <1>3, <1>5, <1>7, <1>8, <1>10, <1>11 DEF SchedTypeOK
<1>13. BatchIsUniform'
  BY ScheduleKeepsBatchUniform
<1>14. ToSet(waiting') = ToSet(waiting) \ A
  BY <1>5
<1>15. schedOutput' =
         [new      |-> {s \in A : requestStates[s].status = "WAITING"},
          cached   |-> (ToSet(running) \cap Known)
                         \cup {s \in A : ~(requestStates[s].status = "WAITING")},
          finished |-> finishedReqIds]
  BY <1>2 DEF admitted
<1>16. A \in SUBSET ToSet(waiting) /\ Scheduled(schedOutput)' = ToSet(running')
  BY <1>5, <1>7, <1>10
<1>17. HasRequests => running' # <<>>
  <2>1. /\ Len(running) \in Nat /\ Len(waiting) \in Nat /\ n \in Nat /\ n <= Len(waiting)
        /\ (running = <<>> <=> Len(running) = 0) /\ (waiting = <<>> <=> Len(waiting) = 0)
        /\ MaxRunning \in Nat \ {0}
    BY <1>4, SchedulerAssumption
  <2>2. Len(running') = Len(running) + n /\ (running' = <<>> => Len(running') = 0)
    <3>1. running' = running \o admitted /\ Len(admitted) = n
      BY <1>2, <1>4, ListSplit DEF admitted
    <3>2. Len(running \o admitted) = Len(running) + Len(admitted)
      BY <1>4, <1>5, ListConcat
    <3>. QED
      BY <1>7, <3>1, <3>2
  <2>3. ASSUME Len(running) = 0, n = 0, waiting # <<>> PROVE FALSE
    <3>1. 0 < Capacity /\ 0 < Len(waiting)
      BY <2>1, <2>3 DEF Capacity
    <3>2. ~Joins(1)
      <4>1. StopsAfter(0)
        BY <1>2, <2>3
      <4>. QED
        BY <3>1, <4>1 DEF StopsAfter
    <3>. QED
      BY <2>1, <2>3, <3>2 DEF Joins
  <2>. QED
    BY <2>1, <2>2, <2>3 DEF HasRequests
<1>. HIDE DEF A
<1>. QED
  BY <1>3, <1>5, <1>7, <1>8, <1>9, <1>12, <1>13, <1>14, <1>15, <1>16, <1>17

LEMMA ScheduleIInv == ASSUME SchedIInv, Schedule PROVE SchedIInv'
<1>1. SchedTypeOK /\ QueuesMatchStatuses /\ BatchIsUniform /\ PublicIdsResolve
      /\ BatchStaysVisible
  BY DEF SchedIInv
<1>2. /\ NoDuplicates(running) /\ NoDuplicates(waiting)
      /\ ToSet(running) \cup ToSet(waiting) \subseteq Known
      /\ ToSet(running) \cap ToSet(waiting) = {} /\ ToSet(waiting) \cap refused = {}
      /\ \A s \in ToSet(waiting) : requestStates[s].status \in {"WAITING", "PREEMPTED"}
      /\ \A s \in ToSet(running) : requestStates[s].status = "RUNNING"
  BY <1>1 DEF QueuesMatchStatuses
<1>3. PICK A \in SUBSET ToSet(waiting) :
        /\ SchedTypeOK' /\ BatchIsUniform' /\ Known' = Known
        /\ NoDuplicates(running') /\ NoDuplicates(waiting')
        /\ ToSet(running') = ToSet(running) \cup A
        /\ ToSet(waiting') = ToSet(waiting) \ A
        /\ \A s \in A : requestStates'[s].status = "RUNNING"
        /\ \A s \in Known \ A : requestStates'[s] = requestStates[s]
        /\ \A s \in Known : requestStates'[s].req = requestStates[s].req
        /\ Scheduled(schedOutput)' = ToSet(running')
        /\ finishedReqIds' = {}
        /\ UNCHANGED <<requestIdToSched, progress, refused, returned>>
  BY <1>1, <1>2, ScheduleEffect
<1>4. QueuesMatchStatuses'
  <2>1. ToSet(running') = {s \in Known : requestStates'[s].status = "RUNNING"}
    BY <1>1, <1>2, <1>3 DEF QueuesMatchStatuses
  <2>2. ToSet(waiting') =
          {s \in Known \ refused : requestStates'[s].status \in {"WAITING", "PREEMPTED"}}
    BY <1>1, <1>2, <1>3 DEF QueuesMatchStatuses
  <2>3. \A s \in refused : s \in Known /\ requestStates'[s].status \notin {"RUNNING", "PREEMPTED"}
    BY <1>1, <1>2, <1>3 DEF QueuesMatchStatuses
  <2>. QED
    BY <1>3, <2>1, <2>2, <2>3 DEF QueuesMatchStatuses
<1>5. PublicIdsResolve'
  BY <1>1, <1>3 DEF PublicIdsResolve
<1>6. BatchStaysVisible'
  <2>1. \A s \in returned : s \in Known \ A /\ IsFinished(s)
    BY <1>1, <1>2 DEF BatchStaysVisible, IsFinished, FinishedStatuses
  <2>2. \A s \in returned' : s \in Known' /\ IsFinished(s)'
    BY <1>3, <2>1 DEF IsFinished
  <2>. QED
    BY <1>3, <2>2 DEF BatchStaysVisible
<1>7. FinishedIdsAreOld'
  BY <1>3 DEF FinishedIdsAreOld
<1>. QED
  BY <1>3, <1>4, <1>5, <1>6, <1>7 DEF SchedIInv

-----------------------------------------------------------------------------
(* finish_requests, update_from_output                                     *)

\* What finishing some requests does, to an abort and to an update alike, when
\* the deque is rebuilt from the ids of queue.
LEMMA FinishFromEffect ==
  ASSUME SchedTypeOK, BatchIsUniform, NoDuplicates(running), ToSet(running) \subseteq Known,
         NEW queue \in Seq(SchedIds), NoDuplicates(queue),
         NEW status, \A s \in DOMAIN status : status[s] \in FinishedStatuses,
         FinishRequestsFrom(queue, status)
  PROVE  /\ Known' = Known /\ requestStates' \in [Known' -> RequestState]
         /\ \A s \in Unfinished(DOMAIN status) : requestStates'[s].status \in FinishedStatuses
         /\ \A s \in Known \ Unfinished(DOMAIN status) : requestStates'[s] = requestStates[s]
         /\ \A s \in Known : requestStates'[s].req = requestStates[s].req
         /\ waiting' \in Seq(SchedIds) /\ running' \in Seq(SchedIds)
         /\ NoDuplicates(running') /\ NoDuplicates(waiting')
         /\ runningKey' \in Keys \cup {NoKey}
         /\ ToSet(running') = ToSet(running) \ Unfinished(DOMAIN status)
         /\ ToSet(waiting') = ToSet(queue) \ Unfinished(DOMAIN status)
         /\ finishedReqIds' = finishedReqIds \cup Unfinished(DOMAIN status)
         /\ finishedReqIds' \subseteq SchedIds
         /\ UNCHANGED <<requestIdToSched, progress, refused>>
         /\ BatchIsUniform'
<1>. DEFINE hit == Unfinished(DOMAIN status)
<1>1. SchedTypeOK /\ BatchIsUniform
  OBVIOUS
<1>2. hit \subseteq Known /\ \A s \in hit : ~IsFinished(s) /\ s \in DOMAIN status
  BY DEF Unfinished
<1>3. /\ running' = Keep(running, hit)
      /\ waiting' = Keep(queue, hit)
      /\ runningKey' = IF ToSet(running) \cap hit # {} /\ ToSet(running) \subseteq hit
                       THEN NoKey ELSE runningKey
      /\ requestStates' =
           [s \in Known |-> IF s \in hit THEN [requestStates[s] EXCEPT !.status = status[s]]
                            ELSE requestStates[s]]
      /\ finishedReqIds' = finishedReqIds \cup hit
      /\ UNCHANGED <<requestIdToSched, progress, refused>>
  BY Zenon DEF FinishRequestsFrom
<1>. HIDE DEF hit
<1>4. /\ running \in Seq(SchedIds) /\ waiting \in Seq(SchedIds) /\ Known \subseteq SchedIds
      /\ runningKey \in Keys \cup {NoKey} /\ finishedReqIds \subseteq SchedIds
  BY <1>1 DEF SchedTypeOK
<1>5. /\ running' \in Seq(SchedIds) /\ ToSet(running') = ToSet(running) \ hit
      /\ NoDuplicates(running') /\ Len(running') <= Len(running)
  BY <1>3, <1>4, ListKeep
<1>6. /\ waiting' \in Seq(SchedIds) /\ ToSet(waiting') = ToSet(queue) \ hit
      /\ NoDuplicates(waiting')
  BY <1>3, <1>4, ListKeep
<1>7. /\ Known' = Known
      /\ \A s \in Known : requestStates[s] \in RequestState
      /\ \A s \in hit : /\ requestStates'[s] = [requestStates[s] EXCEPT !.status = status[s]]
                        /\ status[s] \in FinishedStatuses
      /\ \A s \in Known \ hit : requestStates'[s] = requestStates[s]
  BY <1>1, <1>2, <1>3 DEF Known, SchedTypeOK
<1>8. /\ \A s \in hit : requestStates'[s] \in RequestState
                        /\ requestStates'[s].status \in FinishedStatuses
      /\ \A s \in Known : requestStates'[s].req = requestStates[s].req
  BY <1>2, <1>7 DEF RequestState, Statuses
<1>9. requestStates' \in [Known' -> RequestState]
  BY <1>3, <1>7, <1>8
<1>10. runningKey' \in Keys \cup {NoKey} /\ finishedReqIds' \subseteq SchedIds
  BY <1>2, <1>3, <1>4
<1>11. BatchIsUniform'
  <2>1. ToSet(running) \subseteq Known
    OBVIOUS
  <2>2. \A i \in 1..Len(running') : running'[i] \in ToSet(running) /\ running'[i] \in Known
    <3>1. \A i \in 1..Len(running') : running'[i] \in ToSet(running')
      BY <1>5 DEF ToSet
    <3>. QED
      BY <1>5, <2>1, <3>1
  <2>3. /\ Len(running) \in Nat /\ Len(running') \in Nat
        /\ (running' = <<>> <=> Len(running') = 0) /\ (running = <<>> <=> Len(running) = 0)
        /\ MaxRunning \in Nat
    BY <1>4, <1>5, SchedulerAssumption
  <2>4. \A s \in ToSet(running) : KeyOf(s) = runningKey
    <3>1. ASSUME NEW i \in 1..Len(running) PROVE KeyOf(running[i]) = runningKey
      <4>1. CASE Len(running) > 1
        BY <1>1, <3>1, <4>1 DEF BatchIsUniform
      <4>2. CASE ~(Len(running) > 1)
        <5>1. i = 1 /\ running # <<>>
          BY <2>3, <4>2
        <5>. QED
          BY <1>1, <5>1 DEF BatchIsUniform
      <4>. QED
        BY <4>1, <4>2
    <3>2. \A s \in ToSet(running) : \E i \in 1..Len(running) : s = running[i]
      BY <1>4 DEF ToSet
    <3>. QED
      BY <3>1, <3>2
  <2>5. \A i \in 1..Len(running') : KeyOf(running[i])' = runningKey
    BY <1>8, <2>2, <2>4 DEF KeyOf
  <2>6. running' = <<>> => runningKey' = NoKey
    <3>1. ASSUME running' = <<>> PROVE ToSet(running) \subseteq hit
      <4>1. ToSet(running') = {}
        BY <2>3, <3>1 DEF ToSet
      <4>. QED
        BY <1>5, <4>1
    <3>2. running # <<>> => ToSet(running) # {}
      <4>1. running # <<>> => 1 \in DOMAIN running
        BY <1>4
      <4>. QED
        BY <4>1 DEF ToSet
    <3>. QED
      BY <1>1, <1>3, <3>1, <3>2 DEF BatchIsUniform
  <2>7. running' # <<>> => runningKey' = runningKey /\ 1 \in 1..Len(running')
    <3>1. ASSUME running' # <<>> PROVE ~(ToSet(running) \subseteq hit) /\ 1 \in 1..Len(running')
      <4>1. 1 \in 1..Len(running')
        BY <2>3, <3>1
      <4>2. running'[1] \in ToSet(running')
        BY <1>5, <4>1 DEF ToSet
      <4>. QED
        BY <1>5, <4>1, <4>2
    <3>. QED
      BY <1>3, <3>1
  <2>8. Len(running') > 1 => runningKey # NoKey /\ running' # <<>>
    BY <1>1, <1>5, <2>3 DEF BatchIsUniform
  <2>9. Len(running') <= MaxRunning
    BY <1>1, <1>5, <2>3 DEF BatchIsUniform
  <2>. QED
    BY <2>5, <2>6, <2>7, <2>8, <2>9 DEF BatchIsUniform
<1>. QED
  BY <1>3, <1>5, <1>6, <1>7, <1>8, <1>9, <1>10, <1>11 DEF hit

\* The same of finish_requests() itself, which rebuilds the deque from itself.
LEMMA FinishEffect ==
  ASSUME SchedIInv, NEW status, \A s \in DOMAIN status : status[s] \in FinishedStatuses,
         FinishRequests(status)
  PROVE  /\ Known' = Known /\ requestStates' \in [Known' -> RequestState]
         /\ \A s \in Unfinished(DOMAIN status) : requestStates'[s].status \in FinishedStatuses
         /\ \A s \in Known \ Unfinished(DOMAIN status) : requestStates'[s] = requestStates[s]
         /\ waiting' \in Seq(SchedIds) /\ running' \in Seq(SchedIds)
         /\ runningKey' \in Keys \cup {NoKey}
         /\ ToSet(running') = ToSet(running) \ Unfinished(DOMAIN status)
         /\ ToSet(waiting') = ToSet(waiting) \ Unfinished(DOMAIN status)
         /\ finishedReqIds' = finishedReqIds \cup Unfinished(DOMAIN status)
         /\ finishedReqIds' \subseteq SchedIds
         /\ UNCHANGED <<requestIdToSched, progress, refused>>
         /\ QueuesMatchStatuses' /\ BatchIsUniform' /\ PublicIdsResolve' /\ FinishedIdsAreOld'
<1>. DEFINE hit == Unfinished(DOMAIN status)
<1>1. SchedTypeOK /\ QueuesMatchStatuses /\ BatchIsUniform /\ PublicIdsResolve
      /\ FinishedIdsAreOld
  BY DEF SchedIInv
<1>2. /\ hit \subseteq Known /\ waiting \in Seq(SchedIds)
      /\ NoDuplicates(running) /\ NoDuplicates(waiting) /\ ToSet(running) \subseteq Known
  BY <1>1 DEF Unfinished, SchedTypeOK, QueuesMatchStatuses
<1>3. /\ Known' = Known /\ requestStates' \in [Known' -> RequestState]
      /\ \A s \in hit : requestStates'[s].status \in FinishedStatuses
      /\ \A s \in Known \ hit : requestStates'[s] = requestStates[s]
      /\ \A s \in Known : requestStates'[s].req = requestStates[s].req
      /\ waiting' \in Seq(SchedIds) /\ running' \in Seq(SchedIds)
      /\ NoDuplicates(running') /\ NoDuplicates(waiting')
      /\ runningKey' \in Keys \cup {NoKey}
      /\ ToSet(running') = ToSet(running) \ hit
      /\ ToSet(waiting') = ToSet(waiting) \ hit
      /\ finishedReqIds' = finishedReqIds \cup hit
      /\ finishedReqIds' \subseteq SchedIds
      /\ UNCHANGED <<requestIdToSched, progress, refused>>
      /\ BatchIsUniform'
  BY <1>1, <1>2, FinishFromEffect DEF FinishRequests
<1>. HIDE DEF hit
<1>4. QueuesMatchStatuses'
  <2>1. ToSet(running') = {s \in Known : requestStates'[s].status = "RUNNING"}
    BY <1>1, <1>2, <1>3 DEF QueuesMatchStatuses, FinishedStatuses
  <2>2. ToSet(waiting') =
          {s \in Known \ refused : requestStates'[s].status \in {"WAITING", "PREEMPTED"}}
    BY <1>1, <1>2, <1>3 DEF QueuesMatchStatuses, FinishedStatuses
  <2>3. \A s \in refused : s \in Known /\ requestStates'[s].status \notin {"RUNNING", "PREEMPTED"}
    BY <1>1, <1>2, <1>3 DEF QueuesMatchStatuses, FinishedStatuses
  <2>. QED
    BY <1>3, <2>1, <2>2, <2>3 DEF QueuesMatchStatuses
<1>5. PublicIdsResolve'
  BY <1>1, <1>3 DEF PublicIdsResolve
<1>6. FinishedIdsAreOld'
  <2>. SUFFICES ASSUME NEW s \in finishedReqIds' \cap Known'
                PROVE  requestStates'[s].status \notin {"RUNNING", "PREEMPTED"}
    BY DEF FinishedIdsAreOld
  <2>1. CASE s \in hit
    BY <1>3, <2>1 DEF FinishedStatuses
  <2>2. CASE s \notin hit
    BY <1>1, <1>3, <2>2 DEF FinishedIdsAreOld
  <2>. QED
    BY <2>1, <2>2
<1>. QED
  BY <1>3, <1>4, <1>5, <1>6 DEF hit

LEMMA AbortIInv ==
  ASSUME SchedIInv, NEW s \in Unfinished(Known), AbortRequest(s) PROVE SchedIInv'
<1>. DEFINE status == [t \in {s} |-> "ABORTED"]
<1>1. FinishRequests(status) /\ UNCHANGED <<schedOutput, returned>>
  BY DEF AbortRequest
<1>2. DOMAIN status = {s} /\ \A t \in DOMAIN status : status[t] \in FinishedStatuses
  BY DEF FinishedStatuses
<1>3. Unfinished({s}) = {s} /\ s \in Known
  BY DEF Unfinished
<1>. HIDE DEF status
<1>4. /\ Known' = Known /\ requestStates' \in [Known' -> RequestState]
      /\ requestStates'[s].status \in FinishedStatuses
      /\ \A t \in Known \ {s} : requestStates'[t] = requestStates[t]
      /\ waiting' \in Seq(SchedIds) /\ running' \in Seq(SchedIds)
      /\ runningKey' \in Keys \cup {NoKey}
      /\ ToSet(running') = ToSet(running) \ {s}
      /\ ToSet(waiting') = ToSet(waiting) \ {s}
      /\ finishedReqIds' = finishedReqIds \cup {s}
      /\ finishedReqIds' \subseteq SchedIds
      /\ UNCHANGED <<requestIdToSched, progress, refused>>
      /\ QueuesMatchStatuses' /\ BatchIsUniform' /\ PublicIdsResolve' /\ FinishedIdsAreOld'
  BY <1>1, <1>2, <1>3, FinishEffect
<1>5. SchedTypeOK'
  BY <1>1, <1>4 DEF SchedIInv, SchedTypeOK
<1>6. BatchStaysVisible'
  <2>1. BatchStaysVisible
    BY DEF SchedIInv
  <2>2. Scheduled(schedOutput)' = Scheduled(schedOutput)
    BY <1>1 DEF Scheduled
  <2>3. \A t \in Known : t # s /\ IsFinished(t) => IsFinished(t)'
    BY <1>4 DEF IsFinished
  <2>4. ~IsFinished(s) /\ IsFinished(s)'
    BY <1>4 DEF Unfinished, IsFinished
  <2>5. \A t \in Scheduled(schedOutput) :
          \/ t \in ToSet(running')
          \/ t \in ToSet(waiting') /\ requestStates'[t].status = "PREEMPTED"
          \/ t \in finishedReqIds' \cap Known' /\ IsFinished(t)'
    <3>. TAKE t \in Scheduled(schedOutput)
    <3>1. CASE t = s
      BY <1>3, <1>4, <2>4, <3>1
    <3>2. CASE t # s
      <4>1. ToSet(waiting) \subseteq Known
        BY DEF SchedIInv, QueuesMatchStatuses
      <4>. QED
        BY <1>4, <2>1, <2>3, <3>2, <4>1 DEF BatchStaysVisible
    <3>. QED
      BY <3>1, <3>2
  <2>6. \A t \in returned : t \in Known' /\ IsFinished(t)'
    BY <1>4, <2>1, <2>3, <2>4 DEF BatchStaysVisible
  <2>. QED
    BY <1>1, <2>2, <2>5, <2>6 DEF BatchStaysVisible
<1>. QED
  BY <1>4, <1>5, <1>6 DEF SchedIInv

LEMMA TerminalStatusesType ==
  ASSUME NEW outcome
  PROVE  \A s \in DOMAIN TerminalStatuses(outcome) :
           TerminalStatuses(outcome)[s] \in FinishedStatuses
  BY DEF TerminalStatuses, FinishedStatuses

LEMMA UpdateIInv ==
  ASSUME SchedIInv, NEW outcome, UpdateFromOutput(outcome) PROVE SchedIInv'
<1>. DEFINE status == TerminalStatuses(outcome)
            hit == Unfinished(DOMAIN status)
<1>1. /\ FinishRequests(status)
      /\ returned' = (Scheduled(schedOutput) \cap finishedReqIds) \cup hit
      /\ schedOutput' = EmptyOutput
  BY DEF UpdateFromOutput
<1>2. \A s \in DOMAIN status : status[s] \in FinishedStatuses
  BY TerminalStatusesType
<1>3. hit \subseteq Known
  BY DEF Unfinished
<1>. HIDE DEF status
<1>4. /\ Known' = Known /\ requestStates' \in [Known' -> RequestState]
      /\ \A s \in hit : requestStates'[s].status \in FinishedStatuses
      /\ \A s \in Known \ hit : requestStates'[s] = requestStates[s]
      /\ waiting' \in Seq(SchedIds) /\ running' \in Seq(SchedIds)
      /\ runningKey' \in Keys \cup {NoKey}
      /\ finishedReqIds' \subseteq SchedIds
      /\ UNCHANGED <<requestIdToSched, progress, refused>>
      /\ QueuesMatchStatuses' /\ BatchIsUniform' /\ PublicIdsResolve' /\ FinishedIdsAreOld'
  BY <1>1, <1>2, FinishEffect
<1>. HIDE DEF hit
<1>5. Scheduled(schedOutput)' = {} /\ schedOutput' \in SchedulerOutput
  BY <1>1 DEF EmptyOutput, Scheduled, SchedulerOutput
<1>6. \A s \in Scheduled(schedOutput) \cap finishedReqIds : s \in Known /\ IsFinished(s)
  <2>1. ToSet(running) = {s \in Known : requestStates[s].status = "RUNNING"}
        /\ ToSet(waiting) \subseteq Known
    BY DEF SchedIInv, QueuesMatchStatuses
  <2>. QED
    BY <2>1 DEF SchedIInv, BatchStaysVisible, FinishedIdsAreOld
<1>7. \A s \in returned' : s \in Known' /\ IsFinished(s)'
  BY <1>1, <1>3, <1>4, <1>6 DEF IsFinished
<1>8. SchedTypeOK'
  <2>1. returned' \subseteq SchedIds
    BY <1>4, <1>7 DEF SchedIInv, SchedTypeOK
  <2>. QED
    BY <1>4, <1>5, <2>1 DEF SchedIInv, SchedTypeOK
<1>9. BatchStaysVisible'
  BY <1>5, <1>7 DEF BatchStaysVisible
<1>. QED
  BY <1>4, <1>8, <1>9 DEF SchedIInv

-----------------------------------------------------------------------------
(* preempt_request, pop_request_state, close                               *)

LEMMA PreemptIInv ==
  ASSUME SchedIInv, NEW s \in Known, PreemptRequest(s) PROVE SchedIInv'
<1>1. /\ s \in ToSet(running)
      /\ running' = Keep(running, {s})
      /\ runningKey' = IF ToSet(running) = {s} THEN NoKey ELSE runningKey
      /\ waiting' = <<s>> \o waiting
      /\ requestStates' = [requestStates EXCEPT ![s].status = "PREEMPTED"]
      /\ UNCHANGED <<requestIdToSched, progress, refused, finishedReqIds, schedOutput, returned>>
  BY DEF PreemptRequest
<1>2. SchedTypeOK /\ QueuesMatchStatuses /\ BatchIsUniform /\ PublicIdsResolve
      /\ BatchStaysVisible /\ FinishedIdsAreOld
  BY DEF SchedIInv
<1>3. /\ running \in Seq(SchedIds) /\ waiting \in Seq(SchedIds) /\ Known \subseteq SchedIds
      /\ runningKey \in Keys \cup {NoKey}
  BY <1>2 DEF SchedTypeOK
<1>4. /\ running' \in Seq(SchedIds) /\ ToSet(running') = ToSet(running) \ {s}
      /\ NoDuplicates(running') /\ Len(running') <= Len(running)
  BY <1>1, <1>2, <1>3, ListKeep DEF QueuesMatchStatuses
<1>5. /\ requestStates[s].status = "RUNNING" /\ s \notin refused /\ s \notin ToSet(waiting)
      /\ s \notin finishedReqIds
  BY <1>1, <1>2 DEF QueuesMatchStatuses, FinishedIdsAreOld
<1>6. /\ waiting' \in Seq(SchedIds) /\ ToSet(waiting') = {s} \cup ToSet(waiting)
      /\ NoDuplicates(waiting')
  <2>1. <<s>> \in Seq(SchedIds) /\ ToSet(<<s>>) = {s} /\ NoDuplicates(<<s>>)
    <3>1. <<s>> \in Seq(SchedIds) /\ Len(<<s>>) = 1 /\ <<s>>[1] = s
      BY <1>3
    <3>. QED
      BY <3>1 DEF ToSet, NoDuplicates
  <2>2. ToSet(<<s>>) \cap ToSet(waiting) = {} /\ NoDuplicates(waiting)
    BY <1>2, <1>5, <2>1 DEF QueuesMatchStatuses
  <2>. DEFINE one == <<s>>
  <2>3. waiting' = one \o waiting
    BY <1>1
  <2>. HIDE DEF one
  <2>4. one \in Seq(SchedIds) /\ NoDuplicates(one) /\ ToSet(one) = {s}
        /\ ToSet(one) \cap ToSet(waiting) = {}
    BY <2>1, <2>2 DEF one
  <2>. QED
    BY <1>3, <2>2, <2>3, <2>4, ListConcat
<1>7. /\ Known' = Known /\ requestStates' \in [Known' -> RequestState]
      /\ requestStates'[s].status = "PREEMPTED"
      /\ \A t \in Known \ {s} : requestStates'[t] = requestStates[t]
      /\ \A t \in Known : requestStates'[t].req = requestStates[t].req
  BY <1>1, <1>2 DEF Known, SchedTypeOK, RequestState, Statuses
<1>8. SchedTypeOK'
  BY <1>1, <1>2, <1>4, <1>6, <1>7 DEF SchedTypeOK
<1>9. QueuesMatchStatuses'
  <2>1. ToSet(running') = {t \in Known' : requestStates'[t].status = "RUNNING"}
    BY <1>2, <1>4, <1>7 DEF QueuesMatchStatuses
  <2>2. ToSet(waiting') =
          {t \in Known' \ refused' : requestStates'[t].status \in {"WAITING", "PREEMPTED"}}
    BY <1>1, <1>2, <1>5, <1>6, <1>7 DEF QueuesMatchStatuses
  <2>3. \A t \in refused' :
          t \in Known' /\ requestStates'[t].status \notin {"RUNNING", "PREEMPTED"}
    BY <1>1, <1>2, <1>5, <1>7 DEF QueuesMatchStatuses
  <2>. QED
    BY <1>4, <1>6, <2>1, <2>2, <2>3 DEF QueuesMatchStatuses
<1>10. BatchIsUniform'
  <2>1. /\ Len(running) \in Nat /\ Len(running') \in Nat
        /\ (running' = <<>> <=> Len(running') = 0) /\ (running = <<>> <=> Len(running) = 0)
        /\ MaxRunning \in Nat
    BY <1>3, <1>4, SchedulerAssumption
  <2>2. \A i \in 1..Len(running') :
          running'[i] \in ToSet(running) /\ running'[i] # s /\ running'[i] \in Known
    <3>1. \A i \in 1..Len(running') : running'[i] \in ToSet(running')
      BY <1>4 DEF ToSet
    <3>2. ToSet(running) \subseteq Known
      BY <1>2 DEF QueuesMatchStatuses
    <3>. QED
      BY <1>4, <3>1, <3>2
  <2>3. CASE Len(running) > 1
    <3>1. \A t \in ToSet(running) : KeyOf(t) = runningKey /\ runningKey # NoKey
      <4>1. \A t \in ToSet(running) : \E i \in 1..Len(running) : t = running[i]
        BY <1>3 DEF ToSet
      <4>. QED
        BY <1>2, <2>3, <4>1 DEF BatchIsUniform
    <3>2. ToSet(running) # {s}
      <4>1. running[1] # running[2]
        BY <1>2, <2>1, <2>3 DEF QueuesMatchStatuses, NoDuplicates
      <4>2. running[1] \in ToSet(running) /\ running[2] \in ToSet(running)
        <5>1. 1 \in DOMAIN running /\ 2 \in DOMAIN running
          BY <1>3, <2>1, <2>3
        <5>. QED
          BY <5>1 DEF ToSet
      <4>. QED
        BY <4>1, <4>2
    <3>3. running' # <<>>
      <4>1. running' = <<>> => ToSet(running') = {}
        BY <2>1 DEF ToSet
      <4>. QED
        BY <1>1, <1>4, <3>2, <4>1
    <3>4. \A i \in 1..Len(running') : KeyOf(running[i])' = runningKey
      BY <1>7, <2>2, <3>1 DEF KeyOf
    <3>5. 1 \in 1..Len(running') /\ runningKey' = runningKey /\ runningKey # NoKey
      BY <1>1, <2>1, <3>1, <3>2, <3>3
    <3>6. Len(running') <= MaxRunning
      BY <1>2, <1>4, <2>1 DEF BatchIsUniform
    <3>. QED
      BY <3>3, <3>4, <3>5, <3>6 DEF BatchIsUniform
  <2>4. CASE ~(Len(running) > 1)
    <3>1. ToSet(running) = {s}
      <4>1. \A t \in ToSet(running) : \E i \in 1..Len(running) : t = running[i]
        BY <1>3 DEF ToSet
      <4>2. \A i \in 1..Len(running) : i = 1
        BY <2>1, <2>4
      <4>. QED
        BY <1>1, <4>1, <4>2
    <3>2. running' = <<>>
      <4>1. \A i \in 1..Len(running') : FALSE
        BY <2>2, <3>1
      <4>. QED
        BY <2>1, <4>1
    <3>3. Len(running') = 0 /\ runningKey' = NoKey
      BY <1>1, <2>1, <3>1, <3>2
    <3>. QED
      BY <2>1, <3>2, <3>3 DEF BatchIsUniform
  <2>. QED
    BY <2>3, <2>4
<1>11. PublicIdsResolve'
  BY <1>1, <1>2, <1>7 DEF PublicIdsResolve
<1>12. BatchStaysVisible'
  <2>1. Scheduled(schedOutput)' = Scheduled(schedOutput)
    BY <1>1 DEF Scheduled
  <2>2. ~IsFinished(s) /\ \A t \in Known : t # s /\ IsFinished(t) => IsFinished(t)'
    BY <1>5, <1>7 DEF IsFinished, FinishedStatuses
  <2>3. \A t \in Scheduled(schedOutput) :
          \/ t \in ToSet(running')
          \/ t \in ToSet(waiting') /\ requestStates'[t].status = "PREEMPTED"
          \/ t \in finishedReqIds' \cap Known' /\ IsFinished(t)'
    <3>. TAKE t \in Scheduled(schedOutput)
    <3>1. CASE t = s
      BY <1>6, <1>7, <3>1
    <3>2. CASE t # s
      <4>1. ToSet(waiting) \subseteq Known
        BY <1>2 DEF QueuesMatchStatuses
      <4>. QED
        BY <1>1, <1>2, <1>4, <1>6, <1>7, <2>2, <3>2, <4>1 DEF BatchStaysVisible
    <3>. QED
      BY <3>1, <3>2
  <2>4. \A t \in returned : t \in Known' /\ IsFinished(t)'
    BY <1>2, <1>7, <2>2 DEF BatchStaysVisible
  <2>. QED
    BY <1>1, <2>1, <2>3, <2>4 DEF BatchStaysVisible
<1>13. FinishedIdsAreOld'
  BY <1>1, <1>2, <1>5, <1>7 DEF FinishedIdsAreOld
<1>. QED
  BY <1>8, <1>9, <1>10, <1>11, <1>12, <1>13 DEF SchedIInv

LEMMA PopIInv ==
  ASSUME SchedIInv, NEW s \in Known \ Scheduled(schedOutput), IsFinished(s),
         PopRequestState(s)
  PROVE  SchedIInv'
<1>. DEFINE kept == DOMAIN requestIdToSched \ Unregistered(s)
<1>1. /\ requestStates' = Restrict(requestStates, Known \ {s})
      /\ requestIdToSched' = Restrict(requestIdToSched, kept)
      /\ progress' = progress \ {s} /\ refused' = refused \ {s} /\ returned' = returned \ {s}
      /\ UNCHANGED <<waiting, running, runningKey, finishedReqIds, schedOutput>>
  BY DEF PopRequestState, queueVars
<1>2. SchedTypeOK /\ QueuesMatchStatuses /\ BatchIsUniform /\ PublicIdsResolve
      /\ BatchStaysVisible /\ FinishedIdsAreOld
  BY DEF SchedIInv
<1>3. /\ Known' = Known \ {s} /\ requestStates' \in [Known' -> RequestState]
      /\ \A t \in Known' : requestStates'[t] = requestStates[t]
  BY <1>1, <1>2 DEF Known, Restrict, SchedTypeOK
<1>4. /\ DOMAIN requestIdToSched' = kept
      /\ requestIdToSched' \in [DOMAIN requestIdToSched' -> SchedIds]
      /\ \A id \in kept : requestIdToSched'[id] = requestIdToSched[id]
  BY <1>1, <1>2 DEF Restrict, SchedTypeOK
<1>5. \A id \in DOMAIN requestIdToSched : id \in kept <=> requestIdToSched[id] # s
  BY <1>2 DEF PublicIdsResolve, Unregistered
<1>. HIDE DEF kept
<1>6. s \notin ToSet(running) /\ s \notin ToSet(waiting)
  BY <1>2 DEF QueuesMatchStatuses, IsFinished, FinishedStatuses
<1>7. SchedTypeOK'
  BY <1>1, <1>2, <1>3, <1>4 DEF SchedTypeOK, kept
<1>8. QueuesMatchStatuses'
  <2>1. ToSet(running') = {t \in Known' : requestStates'[t].status = "RUNNING"}
    BY <1>1, <1>2, <1>3, <1>6 DEF QueuesMatchStatuses
  <2>2. ToSet(waiting') =
          {t \in Known' \ refused' : requestStates'[t].status \in {"WAITING", "PREEMPTED"}}
    BY <1>1, <1>2, <1>3, <1>6 DEF QueuesMatchStatuses
  <2>3. \A t \in refused' :
          t \in Known' /\ requestStates'[t].status \notin {"RUNNING", "PREEMPTED"}
    BY <1>1, <1>2, <1>3 DEF QueuesMatchStatuses
  <2>. QED
    BY <1>1, <1>2, <2>1, <2>2, <2>3 DEF QueuesMatchStatuses
<1>9. BatchIsUniform'
  <2>1. \A i \in 1..Len(running) : running[i] \in Known'
    <3>1. \A i \in 1..Len(running) : running[i] \in ToSet(running)
      BY DEF ToSet
    <3>. QED
      BY <1>2, <1>3, <1>6, <3>1 DEF QueuesMatchStatuses
  <2>2. running # <<>> => 1 \in 1..Len(running)
    BY <1>2 DEF SchedTypeOK
  <2>. QED
    BY <1>1, <1>2, <1>3, <2>1, <2>2 DEF BatchIsUniform, KeyOf
<1>10. PublicIdsResolve'
  <2>1. ASSUME NEW t \in Known' \ refused', NEW id \in IdsOf(requestStates'[t].req)
        PROVE  id \in DOMAIN requestIdToSched' /\ requestIdToSched'[id] = t
    <3>1. t \in Known \ refused /\ t # s /\ id \in IdsOf(requestStates[t].req)
      BY <1>1, <1>3, <2>1
    <3>. QED
      BY <1>2, <1>4, <1>5, <3>1 DEF PublicIdsResolve
  <2>2. ASSUME NEW id \in DOMAIN requestIdToSched'
        PROVE  /\ requestIdToSched'[id] \in Known'
               /\ id \in IdsOf(requestStates'[requestIdToSched'[id]].req)
    <3>1. id \in kept /\ id \in DOMAIN requestIdToSched /\ requestIdToSched'[id] # s
      BY <1>4, <1>5, <2>2 DEF kept
    <3>. QED
      BY <1>2, <1>3, <1>4, <3>1 DEF PublicIdsResolve
  <2>. QED
    BY <2>1, <2>2 DEF PublicIdsResolve
<1>11. BatchStaysVisible'
  <2>1. Scheduled(schedOutput)' = Scheduled(schedOutput) /\ s \notin Scheduled(schedOutput)
    BY <1>1 DEF Scheduled
  <2>2. \A t \in Known' : IsFinished(t)' <=> IsFinished(t)
    BY <1>3 DEF IsFinished
  <2>3. \A t \in Scheduled(schedOutput) :
          \/ t \in ToSet(running')
          \/ t \in ToSet(waiting') /\ requestStates'[t].status = "PREEMPTED"
          \/ t \in finishedReqIds' \cap Known' /\ IsFinished(t)'
    <3>1. ToSet(waiting) \subseteq Known
      BY <1>2 DEF QueuesMatchStatuses
    <3>. QED
      BY <1>1, <1>2, <1>3, <2>1, <2>2, <3>1 DEF BatchStaysVisible
  <2>4. \A t \in returned' : t \in Known' /\ IsFinished(t)'
    BY <1>1, <1>2, <1>3, <2>2 DEF BatchStaysVisible
  <2>. QED
    BY <2>1, <2>3, <2>4 DEF BatchStaysVisible
<1>12. FinishedIdsAreOld'
  BY <1>1, <1>2, <1>3 DEF FinishedIdsAreOld
<1>. QED
  BY <1>7, <1>8, <1>9, <1>10, <1>11, <1>12 DEF SchedIInv

\* Close leaves what initialize() leaves, but for the output of its caller.
LEMMA ResetIInv == ASSUME SchedIInv, Reset PROVE SchedIInv'
<1>1. /\ requestStates' = <<>> /\ requestIdToSched' = <<>> /\ waiting' = <<>>
      /\ running' = <<>> /\ runningKey' = NoKey /\ finishedReqIds' = {}
      /\ progress' = {} /\ refused' = {}
      /\ UNCHANGED <<schedOutput, returned>>
      /\ Scheduled(schedOutput) = {} /\ returned = {}
  BY DEF Reset, Close
<1>2. \A S : <<>> \in Seq(S) /\ Len(<<>>) = 0 /\ DOMAIN <<>> = {}
  OBVIOUS
<1>3. ToSet(<<>>) = {} /\ NoDuplicates(<<>>)
  BY <1>2 DEF ToSet, NoDuplicates
<1>4. \A S : <<>> \in [DOMAIN <<>> -> S]
  BY <1>2
<1>5. Known' = {} /\ DOMAIN requestIdToSched' = {}
  BY <1>1, <1>2 DEF Known
<1>6. SchedTypeOK'
  BY <1>1, <1>2, <1>4, <1>5 DEF SchedIInv, SchedTypeOK
<1>7. QueuesMatchStatuses'
  BY <1>1, <1>3, <1>5 DEF QueuesMatchStatuses
<1>8. BatchIsUniform'
  BY <1>1, <1>2, SchedulerAssumption DEF BatchIsUniform
<1>9. PublicIdsResolve' /\ BatchStaysVisible' /\ FinishedIdsAreOld'
  BY <1>1, <1>5 DEF PublicIdsResolve, BatchStaysVisible, FinishedIdsAreOld, Scheduled
<1>. QED
  BY <1>6, <1>7, <1>8, <1>9 DEF SchedIInv

-----------------------------------------------------------------------------
(* The invariants                                                          *)

LEMMA SchedNextIInv == ASSUME SchedIInv, [SchedNext]_schedVars PROVE SchedIInv'
<1>1. CASE Add
  BY <1>1, AddAcceptedIInv, AddRefusedIInv DEF Add
<1>2. CASE Schedule
  BY <1>2, ScheduleIInv
<1>3. CASE Abort
  BY <1>3, AbortIInv DEF Abort
<1>4. CASE Update
  BY <1>4, UpdateIInv DEF Update
<1>5. CASE Preempt
  BY <1>5, PreemptIInv DEF Preempt
<1>6. CASE Pop
  BY <1>6, PopIInv DEF Pop
<1>7. CASE Reset
  BY <1>7, ResetIInv
<1>8. CASE UNCHANGED schedVars
  BY <1>8
  DEF schedVars, queueVars, tableVars, SchedIInv, SchedTypeOK, QueuesMatchStatuses,
      BatchIsUniform, PublicIdsResolve, BatchStaysVisible, FinishedIdsAreOld, Known, KeyOf,
      IsFinished, Scheduled
<1>. QED
  BY <1>1, <1>2, <1>3, <1>4, <1>5, <1>6, <1>7, <1>8 DEF SchedNext

\* The inductive invariant holds of every reachable state of the scheduler.
THEOREM SchedInvariance == SchedSpec => []SchedIInv
<1>1. SchedInit => SchedIInv
  BY SchedInitIInv
<1>2. SchedIInv /\ [SchedNext]_schedVars => SchedIInv'
  BY SchedNextIInv
<1>. QED
  BY <1>1, <1>2, PTL DEF SchedSpec

\* Type correctness of the tables, the queues and the scheduler's output.
THEOREM SchedTypeCorrect == SchedSpec => []SchedTypeOK
<1>1. SchedIInv => SchedTypeOK
  BY DEF SchedIInv
<1>. QED
  BY <1>1, SchedInvariance, PTL

\* The queues hold exactly the unfinished requests, each once and in the queue
\* its status names, however many requests there are.
THEOREM QueuesCorrect == SchedSpec => []QueuesMatchStatuses
<1>1. SchedIInv => QueuesMatchStatuses
  BY DEF SchedIInv
<1>. QED
  BY <1>1, SchedInvariance, PTL

\* The batch stays within max_num_running_reqs and under one key, whatever the
\* batch size and however the keys are assigned.
THEOREM BatchUniform == SchedSpec => []BatchIsUniform
<1>1. SchedIInv => BatchIsUniform
  BY DEF SchedIInv
<1>. QED
  BY <1>1, SchedInvariance, PTL

\* Public ids resolve to their owners, however requests share and reuse ids and
\* whatever adds are refused.
THEOREM PublicIdsCorrect == SchedSpec => []PublicIdsResolve
<1>1. SchedIInv => PublicIdsResolve
  BY DEF SchedIInv
<1>. QED
  BY <1>1, SchedInvariance, PTL

\* No request of a batch that is out gets out of update_from_output's sight.
THEOREM BatchVisible == SchedSpec => []BatchStaysVisible
<1>1. SchedIInv => BatchStaysVisible
  BY DEF SchedIInv
<1>. QED
  BY <1>1, SchedInvariance, PTL

-----------------------------------------------------------------------------
(* The action properties                                                   *)

LEMMA FinishedKept ==
  ASSUME SchedIInv, SchedNext, NEW t \in Known \cap Known', IsFinished(t)
  PROVE  requestStates'[t] = requestStates[t]
<1>1. QueuesMatchStatuses /\ SchedTypeOK
  BY DEF SchedIInv
<1>2. t \notin ToSet(running) /\ t \notin ToSet(waiting)
  BY <1>1 DEF QueuesMatchStatuses, IsFinished, FinishedStatuses
<1>3. CASE Add
  BY <1>3, InsertEffect DEF Add, AddAccepted, AddRefused
<1>4. CASE Schedule
  <2>1. PICK n \in 0..Len(waiting) :
          requestStates' =
            [s \in Known |-> IF s \in ToSet(SubSeq(waiting, 1, n))
                             THEN [requestStates[s] EXCEPT !.status = "RUNNING"]
                             ELSE requestStates[s]]
    BY <1>4, Zenon DEF Schedule
  <2>2. waiting \in Seq(SchedIds)
    BY <1>1 DEF SchedTypeOK
  <2>3. ToSet(SubSeq(waiting, 1, n)) \subseteq ToSet(waiting)
    BY <2>2, ListSplit
  <2>. QED
    BY <1>2, <2>1, <2>3
<1>5. ASSUME NEW status, \A s \in DOMAIN status : status[s] \in FinishedStatuses,
             FinishRequests(status)
      PROVE  requestStates'[t] = requestStates[t]
  <2>1. t \notin Unfinished(DOMAIN status)
    BY DEF Unfinished
  <2>. QED
    BY <1>5, <2>1, FinishEffect
<1>6. CASE Abort
  <2>1. PICK s \in Unfinished(Known) : FinishRequests([u \in {s} |-> "ABORTED"])
    BY <1>6 DEF Abort, AbortRequest
  <2>. DEFINE status == [u \in {s} |-> "ABORTED"]
  <2>2. FinishRequests(status)
    BY <2>1
  <2>3. \A u \in DOMAIN status : status[u] \in FinishedStatuses
    BY DEF FinishedStatuses
  <2>. HIDE DEF status
  <2>. QED
    BY <1>5, <2>2, <2>3
<1>7. CASE Update
  BY <1>5, <1>7, TerminalStatusesType DEF Update, UpdateFromOutput
<1>8. CASE Preempt
  BY <1>1, <1>2, <1>8 DEF Preempt, PreemptRequest, SchedTypeOK
<1>9. CASE Pop
  BY <1>1, <1>9 DEF Pop, PopRequestState, Restrict, Known, SchedTypeOK
<1>10. CASE Reset
  <2>1. Known' = {}
    <3>1. requestStates' = <<>>
      BY <1>10 DEF Reset, Close
    <3>2. DOMAIN <<>> = {}
      OBVIOUS
    <3>. QED
      BY <3>1, <3>2 DEF Known
  <2>. QED
    BY <2>1
<1>. QED
  BY <1>3, <1>4, <1>6, <1>7, <1>8, <1>9, <1>10 DEF SchedNext

\* No step, from any reachable state, changes the status of a finished request.
THEOREM FinishedFinal == SchedSpec => FinishedIsFinal
<1>. DEFINE A == \A s \in Known \cap Known' :
                   IsFinished(s) => requestStates'[s] = requestStates[s]
<1>1. SchedIInv /\ [SchedNext]_schedVars => [A]_schedVars
  BY FinishedKept
<1>. QED
  BY <1>1, SchedInvariance, PTL DEF SchedSpec, FinishedIsFinal

\* Emptying schedOutput is update_from_output's doing, and each id of the batch
\* is then returned or still queued.
LEMMA UpdateAccounts ==
  ASSUME SchedIInv, SchedNext, schedOutput' = EmptyOutput, NEW s \in Scheduled(schedOutput)
  PROVE  s \in returned' \cup ToSet(running') \cup ToSet(waiting')
<1>1. schedOutput # EmptyOutput
  BY DEF EmptyOutput, Scheduled
<1>2. PICK outcome : UpdateFromOutput(outcome)
  <2>1. schedOutput' # schedOutput
    BY <1>1
  <2>2. ~Schedule
    BY DEF Schedule
  <2>. QED
    BY <2>1, <2>2
    DEF SchedNext, Add, AddAccepted, AddRefused, Abort, AbortRequest, Update, Preempt,
        PreemptRequest, Pop, PopRequestState, Reset, Close
<1>. DEFINE status == TerminalStatuses(outcome)
            hit == Unfinished(DOMAIN status)
<1>3. /\ FinishRequests(status)
      /\ returned' = (Scheduled(schedOutput) \cap finishedReqIds) \cup hit
  BY <1>2 DEF UpdateFromOutput
<1>4. \A u \in DOMAIN status : status[u] \in FinishedStatuses
  BY TerminalStatusesType
<1>. HIDE DEF status
<1>5. ToSet(running') = ToSet(running) \ hit /\ ToSet(waiting') = ToSet(waiting) \ hit
  BY <1>3, <1>4, FinishEffect
<1>6. s \in ToSet(running) \cup ToSet(waiting) \cup finishedReqIds
  BY DEF SchedIInv, BatchStaysVisible
<1>. QED
  BY <1>3, <1>5, <1>6

\* No request of a batch of any size is forgotten by the update that ends it.
THEOREM UpdateComplete == SchedSpec => UpdateAccountsForBatch
<1>. DEFINE A == schedOutput' = EmptyOutput =>
                   \A s \in Scheduled(schedOutput) :
                     s \in returned' \cup ToSet(running') \cup ToSet(waiting')
<1>1. SchedIInv /\ [SchedNext]_schedVars => [A]_schedVars
  BY UpdateAccounts
<1>. QED
  BY <1>1, SchedInvariance, PTL DEF SchedSpec, UpdateAccountsForBatch
=============================================================================
