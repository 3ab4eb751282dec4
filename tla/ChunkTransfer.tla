---------------------------- MODULE ChunkTransfer ----------------------------
(***************************************************************************)
(* The transfer of chunks from one stage to the next in async-chunk mode:  *)
(* the save thread of the adapter of the earlier stage, the shared-memory  *)
(* connector, and the recv thread of the adapter of the later one, whose   *)
(* generation scheduler takes requests off its queues while they wait.     *)
(*                                                                         *)
(* The engine core of the later stage runs one batch at a time (without    *)
(* async scheduling); it adds requests between two batches, and aborts     *)
(* them there or while one executes.                                       *)
(* The threads interleave with it at every access to shared state.         *)
(*                                                                         *)
(* A chunk is taken for what it is to its sender: it has codes, or is the  *)
(* last one and may have none.  A legacy stage input processor (voxcpm)    *)
(* puts both under keys that the receiver does not read.                   *)
(*                                                                         *)
(* Abstracted: what else a chunk holds, the other information merged into  *)
(* the request, the token budget and the KV cache, which are taken to      *)
(* suffice for a batch, and pausing.                                       *)
(***************************************************************************)
EXTENDS Integers, FiniteSets, Sequences, SequencesExt, Containers

CONSTANTS
  Requests,   \* requests, by id; an id is used once
  MaxChunks,  \* bound: chunks of a request
  MaxSeqs,    \* max_num_seqs of the later stage
  None        \* no chunk, no request

ASSUME ChunkAssumption ==
  /\ MaxChunks \in Nat \ {0} /\ MaxSeqs \in Nat \ {0}
  /\ None \notin Requests /\ None \notin [n : 1..MaxChunks, last : BOOLEAN, codes : BOOLEAN]

VARIABLES
  legacy,    \* the stage input processor of the pair is a legacy one (fixed)
  made,      \* per request: chunks its earlier stage has produced, the last one marked
  tasks,     \* _pending_save_reqs
  putChunk,  \* put_req_chunk
  store,     \* external: shared-memory segments, by request and chunk number
  requests,  \* scheduler.requests
  status,    \* per request: its status, or "new"
  waiting,   \* scheduler.waiting
  running,   \* scheduler.running
  prompt,    \* per request: the chunk prompt_token_ids comes from, or None
  computed,  \* per request: num_computed_tokens >= len(prompt_token_ids)
  batch,     \* requests scheduled and not yet updated
  pending,   \* _pending_load_reqs
  polling,   \* what the recv thread has taken off it, and how far it is
  cancelled, \* _cancelled_load_reqs
  loaded,    \* _finished_load_reqs
  ended,     \* finished_requests: their last chunk has been received
  getChunk,  \* get_req_chunk
  ready,     \* requests_with_ready_chunks
  origin,    \* requests_origin_status, "none" where there is no entry
  sent,      \* history, per request: chunks put into the connector
  played     \* history, per request: chunks given to the model

sender == <<legacy, made, tasks, putChunk, sent>>
queues == <<requests, waiting, running>>
engine == <<queues, status, batch, played>>
adapter == <<cancelled, loaded, ended, getChunk, ready, origin>>
vars == <<sender, store, engine, prompt, computed, pending, polling, adapter>>

Chunks == {c \in [n : 1..MaxChunks, last : BOOLEAN, codes : BOOLEAN] : c.codes \/ c.last}
Idle == [at |-> "idle", req |-> None, chunk |-> None]
Wfc == "WAITING_FOR_CHUNK"

\* What the receiver reads of a chunk: codes, and the mark of the last one.
Codes(c) == c.codes /\ ~legacy
Marked(c) == c.last /\ ~legacy
Empty(c) == ~Codes(c) /\ ~Marked(c)

\* The last chunk read for r was empty.
Dropped(r) == prompt[r] # None /\ Empty(prompt[r])

Init ==
  /\ legacy \in BOOLEAN
  /\ made = [r \in Requests |-> <<>>] /\ tasks = <<>>
  /\ putChunk = [r \in Requests |-> 0] /\ store = {}
  /\ requests = {} /\ status = [r \in Requests |-> "new"]
  /\ waiting = <<>> /\ running = <<>> /\ batch = {}
  /\ prompt = [r \in Requests |-> None] /\ computed = [r \in Requests |-> FALSE]
  /\ pending = <<>> /\ polling = Idle
  /\ cancelled = {} /\ loaded = {} /\ ended = {} /\ ready = {}
  /\ getChunk = [r \in Requests |-> 0] /\ origin = [r \in Requests |-> "none"]
  /\ sent = [r \in Requests |-> <<>>] /\ played = [r \in Requests |-> <<>>]
-----------------------------------------------------------------------------
(* The earlier stage: its scheduler queues a task, the save thread runs it *)

SaveAsync(r, c) ==
  /\ Len(made[r]) < MaxChunks /\ \A i \in DOMAIN made[r] : ~made[r][i].last
  /\ c.n = Len(made[r]) + 1 /\ (c.n = MaxChunks => c.last)
  /\ made' = [made EXCEPT ![r] = Append(@, c)]
  /\ tasks' = Append(tasks, [req |-> r, chunk |-> c])
  /\ UNCHANGED <<legacy, putChunk, sent, store, engine, prompt, computed, pending, polling, adapter>>

\* _send_single_request: a put that fails, or a task of which the processor
\* makes no chunk, leaves the number to the next one; after the last chunk the
\* entry is removed.
SendSingleRequest ==
  LET r == Head(tasks).req  c == Head(tasks).chunk IN
  /\ tasks # <<>> /\ tasks' = Tail(tasks)
  /\ \/ /\ store' = {x \in store : x.req # r \/ x.key # putChunk[r]}
                    \cup {[req |-> r, key |-> putChunk[r], chunk |-> c]}
        /\ sent' = [sent EXCEPT ![r] = Append(@, c)]
        /\ putChunk' = [putChunk EXCEPT ![r] = IF c.last THEN 0 ELSE @ + 1]
     \/ UNCHANGED <<putChunk, sent, store>>
  /\ UNCHANGED <<legacy, made, engine, prompt, computed, pending, polling, adapter>>
-----------------------------------------------------------------------------
(* The recv thread                                                         *)

\* A request is taken off the deque; a cancelled one is dropped.
TakePending ==
  /\ polling.at = "idle" /\ pending # <<>>
  /\ pending' = Tail(pending)
  /\ IF Head(pending) \in cancelled
     THEN cancelled' = cancelled \ {Head(pending)} /\ UNCHANGED polling
     ELSE polling' = [Idle EXCEPT !.at = "get", !.req = Head(pending)] /\ UNCHANGED cancelled
  /\ UNCHANGED <<sender, store, engine, prompt, computed, loaded, ended, getChunk, ready, origin>>

\* Mutant: a request whose chunk was not got is not polled again.
PollMissDrops ==
  /\ polling.at = "get" /\ polling' = Idle
  /\ UNCHANGED <<sender, store, engine, prompt, computed, pending, adapter>>

\* Mutant: the chunk number is advanced before the chunk is there.
PollMissCounts ==
  /\ polling.at = "get" /\ polling' = Idle
  /\ pending' = Append(pending, polling.req)
  /\ getChunk' = [getChunk EXCEPT ![polling.req] = @ + 1]
  /\ UNCHANGED <<sender, store, engine, prompt, computed, cancelled, loaded, ended, ready, origin>>

\* The get finds no segment, or fails although it is there.
PollMiss ==
  /\ polling.at = "get" /\ polling' = Idle
  /\ pending' = Append(pending, polling.req)
  /\ UNCHANGED <<sender, store, engine, prompt, computed, adapter>>

\* The segment is read and unlinked; the last chunk marks the request.
PollHit ==
  \E x \in store :
    LET r == polling.req IN
    /\ polling.at = "get" /\ x.req = r /\ x.key = getChunk[r]
    /\ store' = store \ {x}
    /\ getChunk' = [getChunk EXCEPT ![r] = @ + 1]
    /\ ended' = IF Marked(x.chunk) THEN ended \cup {r} ELSE ended
    /\ polling' = [polling EXCEPT !.at = "fill", !.chunk = x.chunk]
    /\ UNCHANGED <<sender, engine, prompt, computed, pending, cancelled, loaded, ready, origin>>

\* The codes replace the prompt, and the request is ready to be picked up: not
\* after an empty chunk, although it is not put back on the deque either.
FillPrompt ==
  LET r == polling.req IN
  /\ polling.at = "fill"
  /\ prompt' = [prompt EXCEPT ![r] = polling.chunk]
  /\ computed' = [computed EXCEPT ![r] = ~Codes(polling.chunk)]
  /\ loaded' = IF Empty(polling.chunk) THEN loaded ELSE loaded \cup {r}
  /\ polling' = Idle
  /\ UNCHANGED <<sender, store, engine, pending, cancelled, ended, getChunk, ready, origin>>

RecvLoop == TakePending \/ PollMiss \/ PollHit \/ FillPrompt
-----------------------------------------------------------------------------
(* The generation scheduler of the later stage                             *)

AddRequest(r) ==
  /\ status[r] = "new" /\ batch = {}
  /\ requests' = requests \cup {r}
  /\ status' = [status EXCEPT ![r] = "WAITING"]
  /\ waiting' = Append(waiting, r)
  /\ UNCHANGED <<sender, store, running, batch, played, prompt, computed, pending, polling, adapter>>

\* finish_requests, also of what a batch executes: the adapter puts the status
\* of before the wait back, and the base scheduler takes the request off the
\* queue its status names.
FinishRequests(r) ==
  LET was == IF origin[r] # "none" THEN origin[r] ELSE status[r] IN
  /\ r \in requests
  /\ origin' = [origin EXCEPT ![r] = "none"]
  /\ IF was = "RUNNING"
     THEN running' = Keep(running, {r}) /\ UNCHANGED waiting
     ELSE waiting' = Keep(waiting, {r}) /\ UNCHANGED running
  /\ status' = [status EXCEPT ![r] = "FINISHED_ABORTED"]
  /\ requests' = requests \ {r}
  /\ UNCHANGED <<sender, store, batch, played, prompt, computed, pending, polling,
                 cancelled, loaded, ended, getChunk, ready>>

\* Mutant: a chunk that was loaded and not yet scheduled is not noticed.
StaysAfresh(r) == IF status[r] = Wfc THEN r \in loaded ELSE r \in ended

\* _process_chunk_queue: the requests that stay on their queue; any other is
\* held back, and if it is not yet waiting for a chunk one is asked for it.
Stays(r) == IF status[r] = Wfc THEN r \in loaded ELSE r \in ready \cup ended
Kept(queue) == Keep(queue, {r \in Requests : ~Stays(r)})
HeldBack(queue) == Keep(queue, {r \in Requests : Stays(r)})
Asking(queue) == Keep(queue, {r \in Requests : Stays(r) \/ status[r] = Wfc})
Arrived(queue) == {r \in ToSet(queue) : status[r] = Wfc /\ r \in loaded}

\* Mutant: running requests beyond max_num_seqs stay in the batch.
SurplusIgnored == Len(Kept(running)) + 1

\* The first position of the running queue that is one too many.
Surplus == MaxSeqs + 1

Preempted(kept) == SubSeq(kept, Surplus, Len(kept))

ProcessedStatus(preempted, asking) ==
  [r \in Requests |->
    IF r \in ToSet(preempted) THEN "PREEMPTED"
    ELSE IF r \in Arrived(waiting) THEN "WAITING"
    ELSE IF r \in Arrived(running) THEN "RUNNING"
    ELSE IF r \in ToSet(asking) THEN Wfc
    ELSE status[r]]

\* Running requests: one the scheduler has dropped leaves, one with nothing to
\* compute is skipped unless its last chunk has come (a pad token is added).
LiveAmong(queue) == Keep(queue, Requests \ requests)
StillRunning(kept) == LiveAmong(SubSeq(kept, 1, Min({Surplus - 1, Len(kept)})))
GoesOn(still) == {r \in ToSet(still) : ~computed[r] \/ r \in ended}

\* Waiting requests start, oldest first, while there is room.
Popped(candidates, room) ==
  Min({Len(candidates)} \cup
      {i \in 0..Len(candidates) : Len(LiveAmong(SubSeq(candidates, 1, i))) = room})
Started(candidates, popped) == LiveAmong(SubSeq(candidates, 1, popped))

\* schedule(): process_pending_chunks, the two loops, the ready chunks of what
\* is scheduled cleared, and the requests held back restored to their queues.
\* What starts to run keeps its status.
Schedule ==
  /\ batch = {} /\ waiting \o running # <<>>
  /\ \E kept \in {Kept(running)}, asking \in {Asking(waiting) \o Asking(running)} :
     \E still \in {StillRunning(kept)}, candidates \in {Preempted(kept) \o Kept(waiting)} :
     \E popped \in {Popped(candidates, MaxSeqs - Len(still))} :
       LET started == Started(candidates, popped)
           now == GoesOn(still) \cup ToSet(started)
           arrived == Arrived(waiting) \cup Arrived(running) IN
       /\ pending' = pending \o asking
       /\ cancelled' = cancelled \ ToSet(asking)
       /\ status' = ProcessedStatus(Preempted(kept), asking)
       /\ loaded' = loaded \ arrived
       /\ ready' = (ready \cup arrived) \ now
       /\ origin' = [r \in Requests |->
                       IF r \in ToSet(HeldBack(running)) THEN "RUNNING"
                       ELSE IF r \in ToSet(HeldBack(waiting)) THEN "WAITING" ELSE origin[r]]
       /\ running' = still \o started \o HeldBack(running)
       /\ waiting' = SubSeq(candidates, popped + 1, Len(candidates)) \o HeldBack(waiting)
       /\ batch' = now
       /\ computed' = [r \in Requests |-> computed[r] \/ r \in now]
       /\ played' = [r \in Requests |-> IF r \in now THEN Append(played[r], prompt[r]) ELSE played[r]]
  /\ UNCHANGED <<sender, store, requests, prompt, polling, ended, getChunk>>

\* A request stops when its last chunk has been received and computed.
Stops(r) == r \in ended /\ computed[r]

\* update_from_output with cleanup() of what stops; the status decides only
\* whether the waiting queue is searched as well.
UpdateFromOutput ==
  LET over == {r \in batch \cap requests : Stops(r)} IN
  /\ batch # {} /\ batch' = {}
  /\ status' = [r \in Requests |-> IF r \in over THEN "FINISHED_STOPPED" ELSE status[r]]
  /\ requests' = requests \ over
  /\ running' = Keep(running, over)
  /\ waiting' = Keep(waiting, {r \in over : status[r] = Wfc})
  /\ ended' = ended \ over /\ ready' = ready \ over /\ loaded' = loaded \ over
  /\ cancelled' = cancelled \cup over
  /\ getChunk' = [r \in Requests |-> IF r \in over THEN 0 ELSE getChunk[r]]
  /\ origin' = [r \in Requests |-> IF r \in over THEN "none" ELSE origin[r]]
  /\ UNCHANGED <<sender, store, played, prompt, computed, pending, polling>>
-----------------------------------------------------------------------------
Next ==
  \/ \E r \in Requests : AddRequest(r) \/ FinishRequests(r)
  \/ \E r \in Requests, c \in Chunks : SaveAsync(r, c)
  \/ SendSingleRequest
  \/ TakePending \/ PollMiss \/ PollHit \/ FillPrompt
  \/ Schedule \/ UpdateFromOutput

\* The recv thread and the engine core keep running, and the connector does
\* not for ever fail to get a segment that is there.
Fairness ==
  /\ WF_vars(RecvLoop) /\ SF_vars(PollHit)
  /\ WF_vars(Schedule) /\ WF_vars(UpdateFromOutput)

Spec == Init /\ [][Next]_vars /\ Fairness
-----------------------------------------------------------------------------
(* Properties                                                              *)

\* Type correctness of the adapters of both stages, the connector and the
\* scheduler.
ChunkTypeOK ==
  /\ legacy \in BOOLEAN
  /\ made \in [Requests -> Seq(Chunks)] /\ sent \in [Requests -> Seq(Chunks)]
  /\ tasks \in Seq([req : Requests, chunk : Chunks])
  /\ putChunk \in [Requests -> 0..MaxChunks] /\ getChunk \in [Requests -> 0..MaxChunks]
  /\ store \subseteq [req : Requests, key : 0..MaxChunks, chunk : Chunks]
  /\ requests \subseteq Requests /\ batch \subseteq Requests
  /\ status \in [Requests -> {"new", "WAITING", "RUNNING", "PREEMPTED", Wfc, "FINISHED_STOPPED", "FINISHED_ABORTED"}]
  /\ waiting \in Seq(Requests) /\ running \in Seq(Requests) /\ pending \in Seq(Requests)
  /\ prompt \in [Requests -> Chunks \cup {None}] /\ computed \in [Requests -> BOOLEAN]
  /\ polling \in [at : {"idle", "get", "fill"}, req : Requests \cup {None}, chunk : Chunks \cup {None}]
  /\ cancelled \subseteq Requests /\ loaded \subseteq Requests
  /\ ended \subseteq Requests /\ ready \subseteq Requests
  /\ origin \in [Requests -> {"none", "WAITING", "RUNNING"}]
  /\ played \in [Requests -> Seq(Chunks)]

\* The model is given the chunks that were sent, in order and each once, and a
\* request stops by itself only after its last one (ChunkStream).
Stream == INSTANCE ChunkStream WITH
  Requests <- Requests, Chunks <- Chunks, sent <- sent, played <- played,
  ended <- {r \in Requests : status[r] = "FINISHED_STOPPED"}
StreamSpec == Stream!Spec

\* A request waits for a chunk exactly as long as one is being fetched for it:
\* it is once on the deque of the recv thread, or being polled, or loaded.  Of
\* an empty chunk it is in none of these places, and stays waiting.
WaitersAreServed ==
  \A r \in requests :
    LET onDeque == Cardinality({i \in DOMAIN pending : pending[i] = r})
        taken == IF polling.req = r THEN 1 ELSE 0
        there == IF r \in loaded THEN 1 ELSE 0 IN
    onDeque + taken + there = IF status[r] = Wfc /\ ~Dropped(r) THEN 1 ELSE 0

\* A batch is never larger than max_num_seqs, although the requests held back
\* for a chunk do not count while others start in their place.
BatchFits == Cardinality(batch) <= MaxSeqs

\* A request whose last chunk was put into the connector ends, unless an empty
\* chunk was read for it.
ClosedIsFinished ==
  \A r \in Requests :
    (r \in requests /\ Stream!Closed(r)) ~> (r \notin requests \/ Dropped(r))

\* What the comment of _poll_single_request says: "Empty chunk with more data
\* expected: keep polling."
EmptyIsPolledAgain ==
  \A r \in requests :
    Dropped(r) /\ ~prompt[r].last => r \in ToSet(pending) \/ polling.req = r
=============================================================================
