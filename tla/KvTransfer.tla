----------------------------- MODULE KvTransfer -----------------------------
(***************************************************************************)
(* The hand-over of a request's KV cache to the next stage by the engine   *)
(* of an autoregressive stage: OmniARScheduler decides when a cache is     *)
(* sent and holds the blocks meanwhile, the model runner extracts them     *)
(* before the next forward pass and acknowledges them with its output.     *)
(*                                                                         *)
(* The engine core keeps one batch in flight, or two with async            *)
(* scheduling: then a batch is scheduled before the output of the last one *)
(* is known.  A step of it schedules, if the scheduler says it has requests*)
(* and there is room, before it waits for an output; requests are added    *)
(* between steps, and aborted there or just before an output is processed. *)
(* The worker executes batches in order.                                   *)
(*                                                                         *)
(* External: the base scheduler of vLLM (what it schedules, preempts and   *)
(* allocates), as the overriding methods assume it; a prompt has one       *)
(* token.  Abstracted: speculative decoding, prefix caching, requests that *)
(* omit the transfer, async chunks, failed loads, and the sending itself,  *)
(* which may fail and is acknowledged all the same.                        *)
(***************************************************************************)
EXTENDS Integers, FiniteSets, Sequences, SequencesExt

CONSTANTS
  Requests,   \* requests, by id; an id is used once
  Blocks,     \* KV cache blocks
  BlockSize,  \* tokens per block
  MaxTokens,  \* prompt and output tokens at which a request stops
  Modes,      \* the configurations to look at
  Nothing     \* the content of a block never written

Prompt == 1
BlocksFor(n) == (n + BlockSize - 1) \div BlockSize

ASSUME KvAssumption ==
  /\ BlockSize \in Nat \ {0} /\ MaxTokens \in Nat /\ MaxTokens > Prompt
  /\ IsFiniteSet(Blocks) /\ BlocksFor(MaxTokens - 1) <= Cardinality(Blocks)
  /\ Nothing \notin [req : Requests, nth : Nat, upTo : Nat]
  /\ Modes \subseteq [async : BOOLEAN, stopAfter : BOOLEAN,
                      criteria : {"none", "prefill_finished", "special_token"}]

VARIABLES
  mode,         \* the configuration (fixed)
  status,       \* per request
  requests,     \* DOMAIN scheduler.requests
  tokens,       \* per request: tokens known
  computed,     \* per request: num_computed_tokens
  outstanding,  \* per request: num_output_placeholders
  table,        \* per request: its blocks in the KV cache manager
  needing,      \* requests_needing_kv_transfer
  active,       \* active_kv_transfers
  heldFree,     \* waiting_for_transfer_free
  pendingStop,  \* pending_stop_after_extraction
  triggered,    \* transfer_triggered_requests
  finishedIds,  \* finished_req_ids, for the next scheduler output
  scheduled,    \* external: the engine core's present step has scheduled
  inflight,     \* scheduler outputs not yet executed
  outputs,      \* model runner outputs not yet processed
  content,      \* per block: whose which block it is, and up to what token
  cached,       \* the requests the runner knows
  extracted,    \* history, per request: extractions of its blocks
  spoiled,      \* history: requests of which something else was extracted
  ready,        \* history: requests for which kv_ready was emitted
  bare          \* history: requests marked when they had no blocks

schedule == <<tokens, computed, outstanding>>
transfer == <<needing, active, heldFree, pendingStop, triggered>>
worker == <<content, cached, extracted, spoiled>>
vars == <<mode, status, requests, schedule, table, transfer, finishedIds,
          scheduled, inflight, outputs, worker, ready, bare>>

Live == {r \in requests : status[r] \in {"waiting", "running", "preempted"}}
IdsOf(marks) == {m.req : m \in marks}

Init ==
  /\ mode \in Modes
  /\ status = [r \in Requests |-> "new"] /\ requests = {}
  /\ tokens = [r \in Requests |-> Prompt]
  /\ computed = [r \in Requests |-> 0] /\ outstanding = [r \in Requests |-> 0]
  /\ table = [r \in Requests |-> <<>>]
  /\ needing = {} /\ active = {} /\ heldFree = {} /\ pendingStop = {} /\ triggered = {}
  /\ finishedIds = {} /\ scheduled = FALSE /\ inflight = <<>> /\ outputs = <<>>
  /\ content = [b \in Blocks |-> Nothing] /\ cached = {}
  /\ extracted = [r \in Requests |-> 0] /\ spoiled = {} /\ ready = {} /\ bare = {}
-----------------------------------------------------------------------------
(* Marking and freeing                                                     *)

\* _mark_request_for_kv_transfer: the blocks of the n tokens computed so far;
\* a request already in the queue is not marked again.
Mark(r, n) == [req |-> r, len |-> n, blocks |-> SubSeq(table[r], 1, Min({BlocksFor(n), Len(table[r])}))]

MarkAll(marks) ==
  /\ needing' = needing \cup {m \in marks : m.req \notin IdsOf(needing)}
  /\ bare' = bare \cup {m.req : m \in {x \in marks : x.blocks = <<>>}}

\* Mutant: a request whose cache was sent earlier owes it again.
OwesAlways(r) == TRUE

\* _free_request: at its end a request owes its cache if that was not sent
\* earlier; its blocks are held while it is owed or being sent.
Owes(r) == r \notin triggered
Holds(r, act) == Owes(r) \/ r \in act

\* Mutant: the request goes and its blocks do not.
ReleaseRequests(gone) == requests' = requests \ gone /\ UNCHANGED table

Release(gone) ==
  /\ table' = [r \in Requests |-> IF r \in gone THEN <<>> ELSE table[r]]
  /\ requests' = requests \ gone
-----------------------------------------------------------------------------
(* The engine core: adding, aborting, scheduling                           *)

Depth == IF mode.async THEN 2 ELSE 1
Flying == Len(inflight) + Len(outputs)

AddRequest(r) ==
  /\ status[r] = "new" /\ Flying < Depth /\ scheduled' = FALSE
  /\ status' = [status EXCEPT ![r] = "waiting"]
  /\ requests' = requests \cup {r}
  /\ UNCHANGED <<mode, schedule, table, transfer, finishedIds, inflight, outputs, worker, ready, bare>>

\* finish_requests, between two steps or while a batch executes: an aborted
\* request owes its cache like any other; what it triggered earlier stays
\* marked and queued when its blocks go back.
Abort(r) ==
  /\ r \in Live
  /\ UNCHANGED scheduled \/ (Flying < Depth /\ scheduled' = FALSE)
  /\ status' = [status EXCEPT ![r] = "aborted"]
  /\ finishedIds' = finishedIds \cup {r}
  /\ MarkAll(IF Owes(r) THEN {Mark(r, computed[r] - outstanding[r])} ELSE {})
  /\ heldFree' = IF Holds(r, active) THEN heldFree \cup {r} ELSE heldFree
  /\ Release(IF Holds(r, active) THEN {} ELSE {r})
  /\ UNCHANGED <<mode, schedule, active, pendingStop, triggered, inflight, outputs, worker, ready>>

\* has_requests
HasRequests == Live # {} \/ finishedIds # {} \/ needing # {} \/ active # {} \/ heldFree # {}

Runnable == {r \in Live : status[r] = "running" /\ tokens[r] + outstanding[r] < MaxTokens}
Startable == {r \in Live : status[r] # "running" /\ outstanding[r] = 0}
NewTokens(r) == tokens[r] + outstanding[r] - computed[r]
NewBlocks(r) == BlocksFor(computed[r] + NewTokens(r)) - Len(table[r])
Demand(rs) == Cardinality(UNION {{r} \X (1..NewBlocks(r)) : r \in rs})
FreeWithout(rs) == Blocks \ UNION {ToSet(table[r]) : r \in Requests \ rs}

\* The base scheduler: every running request computes, some being preempted if
\* the blocks do not suffice; else some others start.
BaseSchedules ==
  {[out |-> {}, in |-> rs] : rs \in {x \in SUBSET Startable :
     Demand(Runnable \cup x) <= Cardinality(FreeWithout({}))}} \cup
  {[out |-> rs, in |-> {}] : rs \in {x \in SUBSET {r \in Live : status[r] = "running"} :
     /\ Demand(Runnable) > Cardinality(FreeWithout({}))
     /\ Demand(Runnable \ x) <= Cardinality(FreeWithout(x))}}

\* Ways to give each request in rs the blocks it needs, from the free ones.
Allocations(rs, free) ==
  {f \in [rs -> SUBSET free] :
     /\ \A r \in rs : Cardinality(f[r]) = NewBlocks(r)
     /\ \A r, q \in rs : r # q => f[r] \cap f[q] = {}}

\* schedule(): the base schedule, then the queue of transfers is emptied into
\* the scheduler output.
Schedule ==
  /\ HasRequests /\ Flying < Depth /\ scheduled' = TRUE
  /\ \E choice \in BaseSchedules :
       LET now == (Runnable \ choice.out) \cup choice.in IN
       \E given \in Allocations(now, FreeWithout(choice.out)) :
         LET has == [r \in now |-> table[r] \o SetToSeq(given[r])]
             to == [r \in now |-> computed[r] + NewTokens(r)] IN
         /\ status' = [r \in Requests |-> IF r \in choice.out THEN "preempted"
                                          ELSE IF r \in now THEN "running" ELSE status[r]]
         /\ table' = [r \in Requests |-> IF r \in choice.out THEN <<>>
                                         ELSE IF r \in now THEN has[r] ELSE table[r]]
         /\ computed' = [r \in Requests |-> IF r \in choice.out THEN 0
                                            ELSE IF r \in now THEN to[r] ELSE computed[r]]
         /\ outstanding' = [r \in Requests |-> outstanding[r] + (IF r \in now /\ mode.async THEN 1 ELSE 0)]
         /\ inflight' = Append(inflight,
              [batch |-> {[req |-> r, from |-> computed[r], to |-> to[r], blocks |-> has[r]] : r \in now},
               transfers |-> needing, finished |-> finishedIds])
  /\ active' = active \cup IdsOf(needing)
  /\ needing' = {} /\ finishedIds' = {}
  /\ UNCHANGED <<mode, requests, tokens, heldFree, pendingStop, triggered, outputs, worker, ready, bare>>
-----------------------------------------------------------------------------
(* The model runner                                                        *)

\* The forward pass over a batch, on the given content of the blocks.
Written(old, batch) ==
  [b \in Blocks |->
    IF \E x \in batch : \E i \in DOMAIN x.blocks : x.blocks[i] = b /\ i * BlockSize > x.from
    THEN LET x == CHOOSE y \in batch : b \in ToSet(y.blocks)
             i == CHOOSE k \in DOMAIN x.blocks : x.blocks[k] = b IN
         [req |-> x.req, nth |-> i, upTo |-> Min({x.to, i * BlockSize})]
    ELSE old[b]]

\* Mutant: with nothing to compute the acknowledgements are left behind.
AcksOfForward(o) == IF o.batch = {} THEN {} ELSE IdsOf(o.transfers)

\* Every transfer is acknowledged, whether it was skipped, failed or done, and
\* also when there is nothing to compute.
AcksOf(o) == IdsOf(o.transfers)

\* Extracting m reads the first m.len tokens of a request the runner knows.
IsWhole(m, memory, known) ==
  m.blocks # <<>> =>
    /\ m.req \in known /\ Len(m.blocks) = BlocksFor(m.len)
    /\ \A i \in DOMAIN m.blocks :
         LET c == memory[m.blocks[i]] IN
         c # Nothing /\ c.req = m.req /\ c.nth = i /\ c.upTo >= Min({m.len, i * BlockSize})

Extract(o, memory, known) ==
  /\ extracted' = [r \in Requests |->
       extracted[r] + Cardinality({m \in o.transfers : m.req = r /\ m.blocks # <<>>})]
  /\ spoiled' = spoiled \cup IdsOf({m \in o.transfers : ~IsWhole(m, memory, known)})

Forward(o) ==
  /\ cached' = (cached \ o.finished) \cup IdsOf(o.batch)
  /\ content' = Written(content, o.batch)

Answer(o) == outputs' = Append(outputs, [reqs |-> IdsOf(o.batch), acks |-> AcksOf(o)])

\* Mutant: extraction comes last.
ExecuteForwardFirst ==
  LET o == Head(inflight) IN
  /\ inflight # <<>> /\ inflight' = Tail(inflight)
  /\ Forward(o) /\ Extract(o, content', cached') /\ Answer(o)
  /\ UNCHANGED <<mode, status, requests, schedule, table, transfer, finishedIds, scheduled, ready, bare>>

\* execute_model: extraction comes first, then finished requests are dropped
\* and the batch is computed.
Execute ==
  LET o == Head(inflight) IN
  /\ inflight # <<>> /\ inflight' = Tail(inflight)
  /\ Extract(o, content, cached) /\ Forward(o) /\ Answer(o)
  /\ UNCHANGED <<mode, status, requests, schedule, table, transfer, finishedIds, scheduled, ready, bare>>
-----------------------------------------------------------------------------
(* update_from_output                                                      *)

\* _process_kv_transfer_trigger, first half: the cache is sent early.
Triggers(r, special, confirmed) ==
  /\ r \notin triggered
  /\ \/ mode.criteria = "prefill_finished" /\ confirmed >= Prompt
     \/ mode.criteria = "special_token" /\ r \in special

\* Mutant: the stop does not wait for the extraction.
CutAtOnce(r, act) == r \in pendingStop

\* Second half: the stop was deferred until the extraction is acknowledged.
Cut(r, act) == r \in triggered \cap pendingStop /\ r \notin act

UpdateFromOutput ==
  LET acks == Head(outputs).acks
      live == Head(outputs).reqs \cap Live
      act == active \ acks
      left == [r \in Requests |-> outstanding[r] - (IF r \in live /\ mode.async THEN 1 ELSE 0)]
      confirmed(r) == computed[r] - left[r]
  IN
  /\ scheduled \/ ~HasRequests
  /\ scheduled' = FALSE
  /\ outputs # <<>> /\ outputs' = Tail(outputs)
  /\ \E ends \in SUBSET live, special \in SUBSET live :
       LET stopped == {r \in live : r \in ends \/ tokens[r] + 1 = MaxTokens}
           cut == {r \in live \ stopped : Cut(r, act)}
           sentEarly == {r \in live \ stopped : Triggers(r, special, confirmed(r))}
           over == stopped \cup cut
           held == {r \in over : Holds(r, act)}
           freed == acks \cap (heldFree \cup held)
           gone == (over \ held) \cup freed IN
       /\ mode.criteria # "special_token" => special = {}
       /\ status' = [r \in Requests |-> IF r \in stopped THEN "stopped"
                                        ELSE IF r \in cut THEN "cut" ELSE status[r]]
       /\ MarkAll({Mark(r, confirmed(r)) : r \in sentEarly \cup {x \in over : Owes(x)}})
       /\ heldFree' = (heldFree \cup held) \ freed
       /\ pendingStop' = (pendingStop \cup (IF mode.stopAfter THEN sentEarly ELSE {})) \ (cut \cup gone)
       /\ triggered' = (triggered \cup sentEarly) \ gone
       /\ active' = act \ gone
       /\ finishedIds' = finishedIds \cup over
       /\ Release(gone)
  /\ tokens' = [r \in Requests |-> tokens[r] + (IF r \in live THEN 1 ELSE 0)]
  /\ outstanding' = left
  /\ ready' = ready \cup (acks \cap Live)
  /\ UNCHANGED <<mode, computed, inflight, worker>>
-----------------------------------------------------------------------------
Next ==
  \/ \E r \in Requests : AddRequest(r) \/ Abort(r)
  \/ Schedule \/ Execute \/ UpdateFromOutput

\* The engine core and its worker keep running.
Spec == Init /\ [][Next]_vars /\ WF_vars(Schedule) /\ WF_vars(Execute) /\ WF_vars(UpdateFromOutput)
-----------------------------------------------------------------------------
(* Properties                                                              *)

Marks == [req : Requests, len : Int, blocks : Seq(Blocks)]
Parts == [req : Requests, from : 0..MaxTokens, to : 1..MaxTokens, blocks : Seq(Blocks)]
Over == {"stopped", "cut", "aborted"}

\* Type correctness of scheduler and runner; every request that has blocks, or
\* whose blocks are held, is one the scheduler has.
KvTypeOK ==
  /\ mode \in Modes
  /\ status \in [Requests -> {"new", "waiting", "running", "preempted"} \cup Over]
  /\ tokens \in [Requests -> Prompt..MaxTokens] /\ computed \in [Requests -> 0..MaxTokens]
  /\ outstanding \in [Requests -> 0..2]
  /\ table \in [Requests -> Seq(Blocks)]
  /\ requests \subseteq Requests /\ active \subseteq Requests /\ heldFree \subseteq Requests
  /\ pendingStop \subseteq Requests /\ triggered \subseteq Requests /\ finishedIds \subseteq Requests
  /\ cached \subseteq Requests /\ spoiled \subseteq Requests /\ ready \subseteq Requests /\ bare \subseteq Requests
  /\ needing \subseteq Marks
  /\ inflight \in Seq([batch : SUBSET Parts, transfers : SUBSET Marks, finished : SUBSET Requests])
  /\ scheduled \in BOOLEAN
  /\ outputs \in Seq([reqs : SUBSET Requests, acks : SUBSET Requests])
  /\ content \in [Blocks -> {Nothing} \cup [req : Requests, nth : 1..MaxTokens, upTo : 1..MaxTokens]]
  /\ extracted \in [Requests -> Nat]
  /\ \A r \in Requests : r \in heldFree \/ table[r] # <<>> => r \in requests

\* What is extracted is the cache of the request, whole and in order, and the
\* runner still knows the request, although its blocks may have been freed and
\* given to another one since it was marked.
ExtractedIsOwn == spoiled = {}

\* How often the cache of r was or will be extracted, as things stand.
Offers(r) ==
  LET In(marks) == \E m \in marks : m.req = r /\ m.blocks # <<>> IN
  extracted[r] + Cardinality({i \in DOMAIN inflight : In(inflight[i].transfers)})
               + (IF In(needing) THEN 1 ELSE 0)

\* A cache is sent at most once, and by the end of a request that ended by
\* itself it has been, unless it was marked in the step after it was preempted.
OfferedOnce ==
  \A r \in Requests :
    /\ Offers(r) <= 1
    /\ status[r] \in {"stopped", "cut"} /\ r \notin bare => Offers(r) = 1

\* kv_ready is emitted only after the extraction, and a request that is stopped
\* for its transfer was alive to emit it.
ReadyIsExtracted ==
  \A r \in Requests :
    /\ r \in ready => extracted[r] = 1 \/ r \in bare
    /\ status[r] = "cut" => r \in ready

\* The blocks of every request that has ended go back, also when nothing else
\* keeps the engine core busy.
EndedIsFreed ==
  \A r \in Requests : (status[r] \in Over) ~> (r \notin requests /\ table[r] = <<>>)
=============================================================================
