# vLLM-Omni: a TLA+ model of its serving core

This directory specifies, model-checks and proves parts of vLLM-Omni's own
control logic: the orchestrator that takes a request through the stages of a
pipeline, the transfer of chunks and of KV caches from one stage to the next, the
diffusion engine with its request scheduler, and the coordinator that tells the
front ends which stage instances are alive. It is written from the code under `src/vllm_omni/`; `PROJECT.json` names, for every
definition, the lines it models.

    tlc -config MCEngineStep.cfg MCDiffusionEngine    # model-check an instance
    tlapm DiffusionSchedulerProofs.tla                # check the proofs

## 1. The system

vLLM-Omni serves multi-modal requests through a pipeline of *stages*. A stage is
either an LLM engine (vLLM's, with schedulers of this repository) or a diffusion
engine. An orchestrator thread moves a request from stage to stage; stages pass
payloads through connectors; a coordinator keeps track of the instances.

| component | state | operations | interacts through |
|---|---|---|---|
| Diffusion request scheduler (`diffusion/sched/`) | deque of waiting, list of running, state and public-id tables, cached batch key, recently finished ids | add, schedule, update, finish, preempt, pop, close | calls from two threads of the engine |
| Diffusion engine (`diffusion/diffusion_engine.py`) | futures by scheduler id, abort queue, condition variable | add and wait, abort, busy loop, close | asyncio loop, busy-loop thread, `call_soon_threadsafe` |
| Step-mode runner (`diffusion/worker/`) | cached request states with step index | update states, run one step | batches and outputs through the executor |
| Diffusion executor (`diffusion/executor/`) | message queues to the workers | execute, collective RPC | shared-memory queues, worker processes |
| Stage diffusion process and clients | tasks by request id | generate, abort, RPC | ZMQ messages |
| OmniCoordinator (`distributed/omni_coordinator/`) | registry of instances, pending-broadcast flag | handle event, check timeouts, publish | ZMQ ROUTER and PUB, two threads |
| Stage-side coordinator client | status, socket | register, update, heartbeat, close | lossy DEALER socket |
| Hub client and load balancer | last published list | pick an instance | SUB socket |
| Orchestrator, AsyncOmniEngine, stage pools, CFG tracker (`engine/`) | request states, replica bindings, running counters, deferred parents | submit, route, forward, abort, fatal error | queues to the front end, stage clients |
| Chunk transfer adapter, generation scheduler, connectors (`distributed/omni_connectors/`, `core/sched/`) | queues of loads and saves, chunk numbers, cancelled ids | register, poll, save, clean up | receive and save threads, shared memory or a store |
| AR scheduler, model runner, KV transfer manager (`core/sched/`, `worker/`) | requests owing a transfer, transfers under way, blocks held | mark, hold, extract, acknowledge, free | scheduler outputs and runner outputs, block ids |
| Entry points (`entrypoints/`) | client states, the task that reads the outputs | generate, abort | the orchestrator's queues |

What is hard in it:

- **Concurrency.** The orchestrator's two tasks alternate at every await, of which each
  submission and each abort is one. The recv thread of the chunk adapter rewrites requests
  that the scheduler owns. The engine's busy loop changes the scheduler *outside* the lock
  that `add_request` holds. The coordinator's two threads share state under two
  locks that are never held together.
- **Reuse of names.** Clients choose request ids. Scheduler ids are derived from
  them and reused, while batches, aborts, futures and the runner's cache still
  refer to old holders.
- **Failure in the middle.** `add_request` may raise half way; one request of a batch
  may raise; an engine may die while requests are between stages; a put or a publication
  may be dropped; a client may die or restart.
- **Order.** Aborts land between schedule and update; late heartbeats and late
  results arrive after what they are about has ended; KV blocks are freed, or given to
  another request, between the decision to send them and their extraction.

What makes each modelled component correct is stated in section 4; the hazards at
their lines are in `PROJECT.json`.

## 2. The modules

| module | what it models |
|---|---|
| `Containers` | updates of Python lists and dicts: removal from a queue, assignment of keys |
| `DiffusionScheduler` | `_BaseScheduler` with `RequestScheduler` and `StepScheduler` |
| `DiffusionEngine` | the event loop, the busy loop and the step runner around it (EXTENDS the scheduler) |
| `RequestLifecycle` | abstract: what a caller of `generate()` is promised |
| `Orchestrator` | `AsyncOmni`, the request handler, the routing loop, the stage pools and the CFG companion tracker; implements `RequestLifecycle` |
| `ChunkStream` | abstract: a stream of chunks per request, played once and in order |
| `ChunkTransfer` | save and recv threads, the connector, the generation scheduler in async-chunk mode; implements `ChunkStream` |
| `KvTransfer` | `OmniARScheduler`, the model runner and the KV transfer manager around the transfer of a request's cache |
| `OmniCoordinator` | stage clients, connections, registry, publication |
| `MC*` | small instances for TLC |
| `ContainersProofs`, `DiffusionSchedulerProofs`, `DiffusionEngineProofs`, `OmniCoordinatorProofs`, `OrchestratorProofs`, `ChunkStreamProofs`, `ChunkTransferProofs`, `KvTransferProofs` | the proofs |

### DiffusionScheduler

One action per method. `requestStates`, `requestIdToSched`, `waiting`, `running`,
`runningKey`, `finishedReqIds` and `progress` are the fields of the same names;
`schedOutput` and `returned` are the local variables in which the caller keeps
the results of `schedule()` and `update_from_output()`; `refused` is history: the ids
whose `add_request` raised after it had stored the state. A scheduler id is
`<<base, k>>`, for `base` and `base#k`. `SchedNext` is the scheduler under any caller
that holds one batch at a time, as the busy loop does, and pops only finished
requests that are not in that batch. `StepMode` chooses the policy: only the step
policy answers "more" and only it needs a progress entry.

Abstracted: prompts and sampling parameters (the batch key is what counts), error
texts, the value of progress, `step_id`. The branch of `schedule()` that skips a
queued id without a state is left out, since `QueuesMatchStatuses`, proved below,
makes it unreachable.

### DiffusionEngine

The scheduler's actions are reused. `Submit`, `GetResult`, `Deliver` and
`CancelAndAbort` are the event loop: `LoopIsFree` keeps other tasks out between
`add_request()` and the first await. `pc` walks the busy loop: drain and purge the
aborts, schedule under the condition's lock (the wait is `HasRequests`), execute,
drain and purge again, update, hand out. What runs unlocked is split where the
event loop can come in between: the rebuild of the deque (`RebuildBegin`, then
`RebuildAssign` or `RebuildRaises`), and popping a state as against releasing its ids
(`TakeFinished`, `UnregisterAndPost`). Aborting a request that is not queued only
touches data that `add_request` does not and is one step.
The runner's `state_cache` is a function from scheduler ids to step indices.
`_update_states` raises when a new id is cached or a cached id is not; that branch, and
the one for an empty batch, are left out because `BatchIsExecutable`, checked in the
very state where they would be taken and proved below, says they are not reached.

An abort of a task that was just answered is a `CancelAndAbort` before its `Deliver`:
the callback is under way and finds the future cancelled.

`raced` is history. It records the three races that the code has, so that the
properties can name the states they do not cover:

- *append*: `add_request()` during a rebuild of the deque (base_scheduler.py:196).
- *release*: an id taken between the pop of its last holder and the release of
  its ids (base_scheduler.py:137).
- *abort*: an abort, queued by public id, that finds another request under it.

### OmniCoordinator

A connection is one client's socket, `<<instance, start>>`: events of one connection
keep their order, those of two do not. `SendOn` drops what a full buffer does not
take; `Close` and `Crash` lose any suffix of what has not left. `HandleEvent` and
`ScheduleBroadcast` are the receive thread; `CheckTimeouts`, `ReadPending`,
`TakeSnapshot`, `Send` or `SendFails`, and `ClearPending` are the periodic thread. The
snapshot is the set of instances picked under the lock; their statuses are read in
`Send`, since the code picks the objects and reads them later, so that a list may go out
with an instance that has just left UP. Time is the age of
the last heartbeat in ticks, capped one above `GcTtl`, from where on no comparison
changes.

Abstracted: addresses and stage ids, queue lengths, malformed messages, reconnects
within one client, the hub's copy of a list.

### Orchestrator

The queues `inbox` and `outbox` are `request_async_queue` and `output_async_queue`.
`Generate`, `EnqueueCompanion` and `Cancel` are the callers, `Read` and `NoticeDeath` the task
that dispatches the outputs (`reader`). `Handle*` are the cases of `_request_handler`, `Poll*`
what `_orchestration_loop` does with an output, `Stop` the end of `run()`. A coroutine runs to
the next await that suspends: `task` records where the handler and the router are, "submitting"
in `submit_initial` or "aborting" in one pool of the sweep of `_cleanup_request_ids(abort=True)`,
and the other one runs meanwhile. "forward" is not such a point: it only joins two steps
of the router, and the handler waits for it. A forward ends in one of five ways: the input is
submitted (`ForwardToNextStage`, `RouterSubmitted`); `process_engine_inputs` makes none for an LLM stage,
which is then marked as submitted although nothing was (`NoInputs`; `unfed` remembers the request);
there is none for a diffusion stage, and the request ends (`NoValidInputs`); making it raises, or the
next engine is dead (`ForwardRaises`). `polled` is the LLM stage inside whose poll the router forwards
after a KV-ready signal: there the death of the next engine is caught as that of the stage polled, and the
requests of that stage are told (`EngineDead`), while elsewhere it just ends the router. `known` is the domain of `request_states`,
`submitted` that of `stage_submit_ts`; `bound` and `nextReplica` belong to the pools, `registered`,
`done` and `deferred` to the tracker.

The engines are external: `work[s]` holds what stage `s` computes, and any of it may turn out
next, with an error at a diffusion stage, as a KV-ready signal at an LLM stage; `Die` kills an
engine, after which polls and submissions raise. `asyncChunk` chooses the mode, in which the
later stages are prewarmed. `replies` and `entries` are history.

`RequestLifecycle` has only the phase of each request and whether the service is down. A request is
"lost" there if its next stage was submitted no input: nothing works on it any more, so that it may wait
until its caller cancels it or a failure ends everything, but it is still ended once at most. A
request is "unheard" there if it was asked when the reader had ended with a fatal error: the
code starts no new reader then, and such a `generate()` waits until it is cancelled.

Abstracted: prompts, metrics, messages that do not end a request, the running counter, streaming
input, prefill/decode disaggregation, control RPCs, more than one input for one output (one and none are
modelled), and the skipping of the prewarming for a prompt without token ids.

### ChunkTransfer

`SaveAsync` and `SendSingleRequest` are the earlier stage, whose put may fail or whose task may make
no chunk. A chunk has codes or is the last one, or both. `legacy` is chosen once: the stage input
processor then writes the keys `code_predictor_codes` and `finished`, as voxcpm.py does for the
shipped `voxcpm_async_chunk.yaml`, and the receiver reads neither (`Codes`, `Marked`): each of its chunks is
`Empty`. `FillPrompt` has the branch for such a chunk, after which a request is `Dropped`: not loaded, and
not put back on the deque either. `PollMiss` is a get that finds nothing or fails.
`TakePending`, `PollMiss`, `PollHit` and `FillPrompt` are the recv thread, cut where it touches what
the scheduler also reads: the deque, the finished mark, the prompt. `AddRequest`,
`FinishRequests`, `Schedule` and `UpdateFromOutput` are the generation scheduler; one
`Schedule` is `process_pending_chunks`, the running and the waiting loop, `_clear_chunk_ready` and
`restore_queues`. `pending`, `cancelled`, `loaded`, `ended`, `ready` and `origin` are the adapter's
`_pending_load_reqs`, `_cancelled_load_reqs`, `_finished_load_reqs`, `finished_requests`,
`requests_with_ready_chunks` and `requests_origin_status`. What `schedule()` starts keeps its status,
as in the code, where only the base scheduler would set RUNNING. `FinishRequests` may come while a
batch executes; `UpdateFromOutput` then skips the aborted request. `prompt` is the chunk whose
codes are the present prompt, `computed` whether all of it is computed. `ChunkStream` has the
chunks sent, the chunks given to the model and the requests that ended by themselves; a put
that fails sends nothing.

Abstracted: codes, other payload fields, the token budget and KV memory (a batch gets both),
the lock file of the shared-memory connector, async scheduling of the later stage.

### KvTransfer

`needing`, `active`, `heldFree`, `pendingStop` and `triggered` are the five collections of
`OmniARScheduler`. `Schedule` is a step of vLLM's scheduler (external: any choice of whom to run, start
or preempt for which the blocks suffice) and the override that drains `needing` into the
output. `Execute` is `execute_model`: extraction, then dropping of finished requests, then
the forward pass. `UpdateFromOutput` handles acknowledgements before the requests and
frees held blocks last, as the code does. `content` says of each block whose which block it
is and how much of it is written, so a reused or unwritten block is told from the right one.
The engine core schedules, if there is room in its queue of batches, before it waits for an
output (`scheduled`), and adds between its steps; aborts come between them and while a batch
executes, whose output then finds the request gone; with `async` two batches are out.
`mode` is fixed by `Init`. `extracted`, `spoiled`, `ready` and `bare` are history; a request is
`bare` when it was marked without blocks.

Abstracted: speculative decoding, prefix caching, requests that omit the transfer, async
chunks, the sending itself (a failed one is acknowledged like any other).

## 3. The runs

| run | instance | distinct states | what it shows |
|---|---|---|---|
| scheduler | 3 requests over 2 public ids (one has both), batches of 2, suffix at most 1, step mode | 602,970 | all orders of calls, collisions and refusals included |
| engine_step | 3 requests, two with one id, one that may raise, batches of 2 | 193,080 | both threads and the runner, step mode |
| engine_request | 3 requests, one of two prompts, one colliding with its second id | 64,037 | the same in request mode |
| engine_independent | 2 requests, one may raise | violated | finding 1 |
| engine_cache_leak | 1 request | violated | finding 2 |
| coordinator | 1 instance, started twice, buffer of one event | 139,867 | loss, restart, timeout, collection, failed sends |
| coordinator_lost | the same | violated | finding 3 |
| orchestrator | an LLM stage of two replicas, an LLM stage, a diffusion stage; a parent with a companion for all three, a request for the first only; the input for the middle stage may raise or be missing, and its engine may die | 185,966 | one end per request, refinement of `RequestLifecycle`, no leftovers |
| orchestrator_isolated | one LLM stage before a diffusion stage, no engine dies and no input raises | violated | finding 4 |
| chunk_transfer | 2 requests of at most 2 chunks, one sequence at a time, either processor | 173,886 | refinement of `ChunkStream`, nobody waits unserved |
| chunk_dropped | 1 request, the same | violated | finding 5 |
| kv_transfer | 2 requests of at most 5 tokens, 2 blocks of 2 tokens, 6 configurations | 459,902 | what is extracted, how often, and that held blocks go back |

**Bounds.** `MaxSuffix` bounds the suffix of a scheduler id: 1 is enough for one reuse of
a base, and a third holder of one base would be ordered as the second is.
`MaxRunning` 2 is the least with a batch of several. Three requests are enough for
one in the batch, one joining and one that collides; a batch of several needs compatible requests queued together, which `engine_step` has. Each request is submitted once in
the engine: r1 and r3 share an id, so its reuse while active, aborted or gone
occurs. Two steps for one request and one for the other let a batch shrink
by completion while it runs. In the coordinator a second start gives two connections
that race; `MaxInFlight` 1 makes the buffer overflow; `Timeout` 0 and `GcTtl` 1 tell
"late" from "collected". TLC has one instance: instances interact only through the
pending flag and the list, and two already exceed what can be checked in minutes with
liveness; the safety properties are proved for any number.
In the orchestrator three stages give a forward to an LLM stage and one to a diffusion stage, two
replicas a choice, one companion a
deferral, and the second request an independent life; a second companion would only lengthen
the wait for the last one. `MayDie` and `MayRaise` limit what goes wrong in the run to the middle stage,
which is polled by itself, forwarded to within the poll of the first stage and outside of it, and itself
forwards to a diffusion stage; with every stage mortal and both forwards raising the safety properties were
checked once (493,248 states), as were all properties with the first and the last stage mortal (343,372
states), and the proofs restrict neither. In `chunk_transfer` two requests for one sequence make the running
queue overflow when a held-back one returns; of two chunks one is neither first of its
request nor alone. In `kv_transfer` two requests of up to two blocks compete for two blocks,
so that preemption, reuse while a transfer is queued and a partly filled block
occur; the six configurations cover each
criterion, the deferred stop and both depths of the queue.
Deadlock is checked only in the scheduler's run: everything else may stop, when all requests
have ended or all clients are gone.

**Fairness.** Engine: the busy-loop thread is weakly fair as a whole (a thread is not
starved, `execute_fn` returns), and so is each ready callback of a task; nobody has to
submit or to abort, and `ExecuteStepRaises` is never forced. Coordinator: weak
fairness of the clock, of a requested broadcast and of the periodic thread's flush;
strong fairness of the timeout check, which falls due again and again but not at each
round; of `Send`, a PUB socket that is tried again and again; of the heartbeat of a
running client; of receiving from each peer, since ROUTER queues fairly. Orchestrator: weak fairness of queueing the companions of a call under way, of the reader, the request handler and the
router as a whole, and of the end of the thread: the loops keep running, and the router always finds
something to do while an engine that lives has work; no engine has to die, no caller to
cancel. ChunkTransfer: weak fairness of the recv thread, `Schedule` and `UpdateFromOutput`, and strong fairness of
`PollHit`: a get of a segment that is there may fail, and not for ever; nobody has to send.
KvTransfer: the engine core and its worker keep running.

## 4. What the properties say

*Scheduler.* `QueuesMatchStatuses`: no request is lost or queued twice, statuses and
queues agree. `BatchIsUniform`: batches respect the size and one key, and the cached key
is current. `PublicIdsResolve`: every id of an accepted request resolves to it, whatever
was refused. `BatchStaysVisible`: aborts while a batch is out will be surfaced.
`FinishedIsFinal`, `UpdateAccountsForBatch`: no late result overwrites a final status,
and an update forgets no request of its batch.

*Engine.* `FutureMatchesRequest`: no answer reaches another task.
`SchedulerStaysConsistent`: the scheduler's invariants survive the unlocked busy loop
outside the races. `BatchIsExecutable`: every batch agrees with the runner's
cache. `CacheIsAccountedFor`, `ForgottenOnlyIfCancelled`: what is cached, or left without
an answer, is so for a reason. `AwaitersAreAnswered`: every awaiting task gets an answer.

*Coordinator.* `PublishedIsCurrent`, `OnlyUpdatesRevive`, `GoneIsUnpublished`,
`ErrorIsRecovered`, as their comments say.

*Orchestrator.* `SubmittedOnce`: no engine gets a request twice. `OneReplyEach`: one terminal
message at most. `NoOrphanBinding`, `NoOrphanWork`, `DeferredIsWaiting`, `KnownIsForgotten`: what
ends leaves nothing bound, computing, held back or known. `CompanionsShareReplica`: the affinity of
a companion survives aborts. `LifecycleSpec`: every call ends exactly once, and does end,
unless it was asked after a fatal error was reported or its next LLM stage was submitted no input. Such a
request is also the one that `KnownIsForgotten` excepts: it stays known, with its
call open, until the caller cancels.

*ChunkTransfer.* `StreamSpec`: chunks reach the model once and in order, and a request ends by
itself only after its last one. `WaitersAreServed`: a waiting request is in exactly one of the
places that lead to its chunk, unless the last chunk read for it was empty; then it is in none of them. `BatchFits`, `ClosedIsFinished`: the batch respects
`max_num_seqs`, and a request whose last chunk was put ends, again unless an empty chunk was read. The
exception is not a state the code means to be in: finding 5 is about it.

*KvTransfer.* `ExtractedIsOwn`: whatever was freed or reused in between, an extraction reads the
whole cache of its request. `OfferedOnce`: a cache is sent once, and before its request ends
by itself; the exception is a request preempted while an output of its last batch is
outstanding (async scheduling): if that output stops it, its blocks are gone and its cache is never sent.
`ReadyIsExtracted`: `kv_ready` follows the extraction, and a deferred stop follows `kv_ready`.
`EndedIsFreed`: held blocks go back.

Each property of a passing run has a mutant: a plausible bug in a mapped definition,
kept beside it under "Mutant:", with which TLC finds the property violated.

### Findings

1. One request that raises in a step batch fails every request batched with it
   (multiproc_executor.py:316-329 with step_scheduler.py:81-88), against "per-request
   progress and completion remain independent".
2. The state of a request aborted during denoise stays in the runner's cache while the
   engine is idle, against "Abort during denoise does not leak cached state".
3. A change between the snapshot of a publication and the clearing of the pending flag
   is not published (omni_coordinator.py:259-261).
4. The error of one request at a diffusion stage fails all open requests: it is raised in the
   task that reads the output queue for everyone (omni_base.py:337, async_omni.py:635-640),
   against "recoverable, single-request failure".
5. After a chunk without codes and without an end mark a request is never polled again
   (chunk_transfer_adapter.py:185-187 with base.py:69-73), against "keep polling". The payload keys of
   voxcpm.py:77-114 make every chunk of `voxcpm_async_chunk.yaml` such a one.

The model also has outcomes that no document denies, which are listed as hazards: a
waiting request that is aborted is never surfaced, so its state, ids and future stay;
an `add_request` whose request is finished before `get_result` looks for the future
fails with a RuntimeError; a request asked after a fatal error is not answered; a request of
which no input is made for its next LLM stage hangs (orchestrator.py:967-987, reached by
stage_input_processors/qwen3_omni.py:436-446); an exception in making one ends the orchestrator; a
published list may hold an instance that has just left UP (omni_coordinator.py:114-115); a request
aborted right after its first chunk stays in the generation scheduler's queue, waiting for chunks.

## 5. What is proved

Proofs hold for all values of the constants under their assumptions:
`SchedulerAssumption` (requests have a non-empty sequence of public ids and a key,
at least one runs at a time; neither set need be finite), `CoordinatorAssumption`
(0 <= Timeout < GcTtl, at least one start and one event in flight), `OrchestratorAssumption`
(stages are numbered from 0, each has a replica, a companion has a parent; requests,
companions and replicas need not be few), `ChunkAssumption` (`max_num_seqs` and the chunks of a
request are positive; requests need not be finite) and `KvAssumption` (the blocks are finitely many
and suffice for one request at its longest; any block size).

**Scheduler** (`DiffusionSchedulerProofs`). The inductive invariant `SchedIInv` is the five
checked invariants and one more, `FinishedIdsAreOld`: an id in `_finished_req_ids` whose
base was taken again is not yet running. It is needed because `update_from_output`
intersects the batch with `_finished_req_ids`: a stale id there would return a running
request as finished, and `BatchStaysVisible` would not be kept. There is a lemma per
action, and under it one step per conjunct; `ContainersProofs` supplies what removing a
set from a queue keeps. Keep is defined by ranks rather than by `SelectSeq`, which is
recursive; `MCDiffusionScheduler` evaluates that the two agree on short sequences. From
`SchedIInv` follow the five invariants and the two action properties.

**Engine** (`DiffusionEngineProofs`). `SchedIInv` is not an invariant of the engine: after an
*append* race the deque lacks a request, and after a *release* race a public id
resolves to nothing. `EngineIInv` has instead the weaker `SchedulerSide`, which every
step keeps: what is queued waits (`QueuesAreSound`), what an id resolves to has that id,
unless it is just being released (`IdsAreSound`), and the converses only while the race
has not happened. To it come `RebuildIsSound` (the copy of the deque holds only ids that
are still queued, so that assigning it revives nothing), `StagesAreSound` (what the
busy loop holds at each `pc`), `CacheIsSound` (between batches the runner caches exactly the
running requests and perhaps finished ones of which the next batch tells it) and
`AbortsAreMeant` (until an abort has met another request's id, each one on its way is for a
request whose client has cancelled). `BatchIsExecutable` follows: the runner keeps
only running requests, so no new id is among what it keeps, and no running one is dropped,
because none is in `_finished_req_ids` (`FinishedIdsAreOld`). It, `BatchIsUniform`,
`FutureMatchesRequest` and `CacheIsAccountedFor` hold with no race excepted.
`SchedulerConsistent` gets the full invariants of the scheduler back where
`SchedulerStaysConsistent` claims them. The assumption is `EngineAssumption`: each request has at
least one step and an abort id, and in request mode one request runs at a time.

**Coordinator** (`OmniCoordinatorProofs`). `IInv` adds to the type invariant what the flush
relies on at each point of the periodic thread: a snapshot holds known instances, a
flush under way has the flag set, and, unless a request slipped in, what it holds is what
is active. `PublishedIsCurrent` and `OnlyUpdatesRevive` follow.

**Chunk streams** (`ChunkStreamProofs`). The inductive invariant `StreamIInv` of the abstract
specification: what was played is a prefix of what was sent, nothing follows a chunk marked
last, and what has ended is closed and fully played. `EndedComplete` follows: a request that
ended by itself was played exactly what was sent, and only its last chunk is marked so.

**Chunk transfer** (`ChunkTransferProofs`). `ChunkIInv` says of each request where it stands between
the threads. On the earlier side tasks and segments are the made chunks, in order, under
the numbers of their stream. On the later side a request waits exactly if it is on the deque, or polled,
or loaded, in one of them and once, and is not among the cancelled (`WaitingIsFetched`); `getChunk` is
the number of chunks played, plus one while the newest is still to be played, which is then the present
prompt (`ReadIsPlayed`); and a request whose last chunk was read has that chunk to play or is in the
batch. That is why `Schedule` plays the next chunk and why what stops has played all of them:
`ImplementsStream` maps every step to one of `ChunkStream` or to a stutter. `StoppedIsComplete` then carries
`EndedComplete` over to the two stages. `WaitersServed` counts the places; `BatchNeverTooLarge` rests on
`ListFillRoom` of `ContainersProofs`: taking from the head of the queue until the room is filled never takes
more. The invariant counts only requests that the scheduler has: an aborted request that
stays in the wrong queue (one of the outcomes above), or in a batch that executes, is not contradicted by
it; `ChunkTypeCorrect` says of the others in a batch that they run and were given their chunk
(`BatchIsPlayed`). A dropped request is neither on the deque, polled nor loaded, and nothing after its empty
chunk is read: that is the exception in `WaitingIsFetched` and in `WaitersServed`.

**KV transfer** (`KvTransferProofs`). Blocks change owner while batches that write them are on their
way, so `KvIInv` speaks of the memory *after* those batches: then every table refers to
the cache of its request (`TablesAreWritten`), and a mark's blocks hold the whole cache
at the moment of its extraction (`MarksAreWhole`). This needs that the blocks of a batch are disjoint
(`BatchesAreDisjoint`), that a placeholder stands for each output to come
(`PlaceholdersMatchFlights`: with async scheduling `computed` runs ahead by as much), and that a
request that triggered is queued, active or acknowledged (`TriggeredIsOffered`). The four checked invariants
follow, for any blocks, block size, number of requests and configuration.

**Orchestrator** (`OrchestratorProofs`). `OrchIInv` relates the tables to where the two tasks stand: an id
is on the inbox once and unsubmitted before, entries into an engine are marked or being made, who was told the
end is forgotten or in the sweep, a swept request is not held back. Type correctness, `SubmittedOnce`,
`OneReplyEach`, `CompanionsShareReplica` and `DeferredIsWaiting` follow, and that every step is one of
`RequestLifecycle` or a stutter (`ImplementsLifecycle`, the safety part of `LifecycleSpec`). The
latter needs `RouteOK` (`RouteInvariant`): the router forwards inside the poll of a stage or of none, and a lost
request was asked. `CoreTypeOK` groups the types of the rest. A forward that raises, submits nothing or counts
as a death is a lemma of its own under each invariant, for any stages that may raise or die. `BindIInv` and
`WorkIInv` add what bindings and engines need: that the request being prewarmed stays known until its
last stage has it. They carry a hypothesis, `asyncChunk => DiffusionIsLast`: a diffusion stage is at
the end of a request in async-chunk mode. Without it TLC finds a leftover binding: the error of
a diffusion stage ends the request while the handler still prewarms the stages after it. No shipped
configuration with async chunks (`deploy/`, `stage_configs/`) has a diffusion stage at all; without async
chunks the two theorems have no hypothesis but the specification.

**Only model-checked:** all liveness properties (`AwaitersAreAnswered`,
`KnownIsForgotten`, `EndedIsFreed`, `ClosedIsFinished`, the liveness of `LifecycleSpec`, those of the
coordinator; liveness under fairness and ENABLED are outside TLAPS's reach), the findings. Facts that
need an induction over data, such as that Keep and SelectSeq agree on every sequence,
are outside it too (the library's induction theorems take an operator that no backend
instantiates) and are checked on bounded inputs; no module with a theorem uses a
RECURSIVE operator.

## 6. Not modelled, and the plan

Not modelled, because there is no protocol to check or its guarantees are elsewhere:
numerical code (models, attention, quantization, workers), vLLM's engine core and
scheduler (not in this repository: modelled only as external behaviour), start-up handshakes,
HTTP and CLI layers, the adapters of external stores, the prefix cache of multimodal outputs
(indexed by vLLM's block ids), and `OmniSchedulingCoordinator`, which no scheduler constructs.

Not modelled of the modelled components: the executor's RPC replies and worker
death, the messages between a stage diffusion client and its process, `close()` of the engine;
streaming input and prefill/decode disaggregation in the orchestrator; chunks under the AR
scheduler; the receiving side of a KV transfer. The hazards in `PROJECT.json` with a note are
those that touch these parts, or that no document rules out.

Left of the plan: the engine's scheduler calls as a refinement of `SchedNext` where no race has
occurred (the engine's invariants are proved without it), and an `ExecutorRpc` module for the
routing of RPC replies.
