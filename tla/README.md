# A TLA+ verification of the DistServe / PhaseServe serving core

This directory specifies the part of the repository that serves requests: the
two stages of a disaggregated LLM engine, the schedulers of each stage, the
K/V-cache block manager with the copies its workers run, the pressure controller,
and the whole of them behind `generate`. Beside it: the start of the engine on a
cluster, and the simulator and the search that pick its configuration. The
specifications are translated from `src/distserve/` and `src/simdistserve/`;
`PROJECT.json` names, for each definition, the lines that it stands for.

## The system

A request is a prompt and a limit on its output. The **context stage** computes
the K/V cache of the prompt and the first token; the **decoding stage** pulls
the K/V blocks over and generates the other tokens, one per iteration. Each
stage has an engine (an asyncio event loop), a scheduler that the engine calls,
a block manager, and GPU workers behind Ray calls.

```
 generate ──add_request──> context scheduler ──batch──> context engine ──> workers
                                 ^                          │ bridge queue
        clear_migrated_blocks_callback                      v
 decoding engine <── batch ── decoding scheduler <──add_request── event loop 1
        │                          └── swap_in / swap_out ──> block manager
        └── _migrate_blocks, step ──> workers ──> tokens to generate
```

| Component | State | Operations | Interacts by |
|---|---|---|---|
| Block manager (`block_manager.py`) | free and swapping lists per device, block table and location per request | allocate, append, free, swap in and out, flush | called by engine and scheduler; calls workers |
| Context FCFS scheduler (`context_stage_scheduler.py:90`) | waiting queue, unaccepted queue, blocks on the fly | add, get_next_batch_and_pop, on_finish_requests, on_request_migrated | called by its engine and, through a callback, by the decoding engine |
| Context engine (`single_stage_engine.py:284`) | batches in the pipeline, their futures | `_step`, clear_migrated_blocks_callback | bridge queue to the decoding engine |
| Decoding FCFS scheduler (`decoding_stage_scheduler.py:100`) | unaccepted, waiting and swapped queues, a batch per pipeline stage | add, get_next_batch, pop_finished_requests, post_process | reads and swaps through the block manager, migrates through the engine |
| Decoding KV-aware LAS scheduler (`:275`) | the same, skip and infeasibility counters | the same, with a sorted scan, evictions and requeueing | the same, and the pressure controller |
| Decoding engine (`single_stage_engine.py:463`) | batches in the pipeline, their futures | event loops 1 and 2, `_step`, `_migrate_blocks` | the bridge queue, the callback into the context engine |
| Pressure controller (`phase_scheduler.py:67`) | last budget, last mode | update | called by the schedulers each iteration |
| Context cost-compatible scheduler (`context_stage_scheduler.py:211`) | as FCFS, with a pressure budget | the same, with windows and buckets | reads the decoding stage's snapshot file |
| Worker swap streams (`worker.py:274`) | CUDA streams, an event per request | swap_blocks, wait_for_all_swap_in/out, step | called by the block manager and the engine |
| LLMEngine (`engine.py`) | an output queue and a lifetime list per request | generate, two callbacks | both engines |
| API server, OfflineLLM (`distserve_api_server.py`, `llm.py`) | a handler or task per request | read, disconnect, pop the events; return all results | callers of generate |
| Engine start-up (`engine.py:168`, `single_stage_engine.py:121`, `downloader.py`) | placement groups, workers, the lock and the storage folder of the weights, memory handles | place, download and convert, initialise, register | Ray, the file system, CUDA IPC |
| Simulator (`simdistserve/base`, `clusters`) | two queues per worker, the ring of workers, progress of each request | arrive, prefill in chunks, decode, forward, sleep and wake | SimPy events |
| Configuration search (`simdistserve/benchmarks`, `simulate.py`) | the configurations, a pool of processes, an interval per process | enumerate, bisect, choose | runs the simulator; its answer is given to the engine |
| Converter, tokenizer, configuration, benchmarks, plots | no state of the system | – | – |

### What is hard

* **Two counts of the same blocks.** No scheduler asks before it commits: it
  computes its own sum, and the engine allocates later from the real lists, in
  an assertion. The sums are kept up to date in several functions, on both sides
  of an `await`, and by a callback from the other stage.
* **State across an `await`.** A migration suspends the decoding engine while
  its request is in no queue; the context engine is suspended while the decoding
  engine takes blocks away from it.
* **Turning in step.** With a pipeline the scheduler's `cur_index`, the engine's
  list of batches and its list of futures are three positions that must agree,
  also when some batches are empty.
* **Progress.** Every limit that refuses a request can refuse it again in the
  next iteration. Queues with a blocked head, scan limits and double counting
  make it a question whether a request is ever served.
* **Swapping.** Blocks change device while copies are under way, on streams that
  the manager only waits for when it flushes.
* **Two writers, one reader that may leave.** Both engines write the outputs and the
  events of a request into tables of `LLMEngine`; its caller reads one and removes
  both, at a time of its own choosing.
* **Old news.** The cost-compatible scheduler acts on pressures that another process
  wrote some time ago, or that are not there.
* **Start and crash.** Workers on several nodes convert the same weights into the
  same folder; any of them may die on the way, and half of what the engine waits for
  it waits for in a way that swallows exceptions.
* **Rounding.** Budgets are smoothed integers, recomputed from their own last
  value in every iteration.

`PROJECT.json` lists these as hazards, each at its line, with the properties that
cover it or the reason why none does.

### What makes a component correct

* Block manager: the blocks are partitioned, cached K/V survives, the table fits the
  tokens, and the schedulers' counts are those of its lists.
* Context stage: its count is the truth, an allocation never fails, requests are
  conserved, and all of them leave.
* Decoding stages: requests are conserved, K/V is where the queue says, what is
  selected can be run, the answer of a worker belongs to the batch it is given
  to, and all requests finish.
* Controller: budgets stay in range, tighten with the pressure, and follow it.
* Cost-compatible scheduler: all of the context stage's, and once the oldest request
  has waited long enough no batch goes without it. Other requests that have waited as
  long may be passed, but only in a batch that takes one of them from in front.
* Engine: the callbacks find what they write to, the K/V of a request is somewhere at
  any time, the caller gets every token once and in order, and the blocks of every
  request are free in the end, whoever left.
* Start-up: no worker loads weights that are not whole, and a configuration the search
  recommends starts.
* Simulator and search: a batch stays whole along a pipeline and within its budget, no
  request is lost or run twice, every request leaves, simulated in full; the rate
  reported was reached and lies within the tolerance of one that was not.

## The modules

| Module | Models | Lines |
|---|---|---|
| `BlockManager` | the block manager, block by block | `block_manager.py` |
| `KVCounts` | what schedulers rely on: numbers of blocks only; the abstract specification of `BlockManager` | the same |
| `RequestSums` | the sums over requests, as cardinalities | the schedulers' `sum([...])` |
| `RequestQueues` | the members of a list, and what a loop that pops the finished requests leaves of it | `request.py:324-332` |
| `ContextStage` | context engine and FCFS scheduler | `context_stage_scheduler.py:90-208`, `single_stage_engine.py:284-460` |
| `DecodeFCFS` | decoding engine and FCFS scheduler, over `KVCounts` | `decoding_stage_scheduler.py:100-272`, `single_stage_engine.py:463-702` |
| `DecodeKAS` | decoding engine and KV-aware scheduler, over `KVCounts` | `decoding_stage_scheduler.py:275-712` |
| `PressureBudget` | the controller | `phase_scheduler.py:24-280` |
| `ContextCC` | the cost-compatible scheduler, on the state and engine of `ContextStage`, with an instance of `PressureBudget` and the snapshot | `context_stage_scheduler.py:211-603`, `phase_scheduler.py:292-344` |
| `SwapSync` | `BlockManager` with the copies of the workers on their streams | `worker.py:64-72`, `274-339` |
| `Serving` | `LLMEngine`: `ContextStage`, `DecodeFCFS`, the bridge queue, outputs, lifetime events, and the callers | `engine.py:85-300`, `llm.py`, `distserve_api_server.py` |
| `TokenStream` | what `generate` promises its caller; the abstract specification of `Serving` | `engine.py:257-300` |
| `Startup` | placement, workers, weights, K/V caches, memory handles | `engine.py:168-216`, `single_stage_engine.py:83-258`, `downloader.py`, `worker.py` |
| `RateSearch` | enumeration, pool, bisection, choice | `parallel_bisect.py`, `search_binary.py`, `search_configs.py`, `simulate.py` |
| `Deployment` | `RateSearch` and `Startup` composed: the engine is started with what the search printed | the same |
| `Simulator` | workers, clusters and scheduler of the simulator | `simdistserve/base/`, `simdistserve/clusters/` |
| `CommonLemmas` | lemmas about sums, queues, pipelines and loops, for all proofs | |
| `BlockManagerProofs` | theorems about `BlockManager` and `SwapSync` | |
| `ContextStageProofs` | theorems about `ContextStage` and `ContextCC` | |
| `StandaloneProofs` | theorems about `PressureBudget` and `Simulator`, which run by themselves | |
| `DecodeFCFSProofs`, `DecodeKASProofs`, `ServingProofs`, `DeploymentProofs` | theorems about the module of that name | |
| `MC*` | instances for TLC | |

**Steps.** asyncio runs one coroutine at a time, so an action is the code between
two awaits: `Step` is `_step` up to its await (schedule, allocate, push), `Return`
is what follows it (tokens, finished requests, frees, hand-over),
`BeginMigration`/`EndMigration` are the two halves of a turn of `post_process`.
Between them anything the other coroutines do may happen. The `sleep` after an
empty batch is an await that changes nothing the model sees; where the code pops
an empty batch without waiting, `ContextStage` lets the other coroutines in, which
only adds behaviours.

In `Simulator` an action is the code between two yields of SimPy; in `RateSearch` a turn
of a process's loop, or of the main loop; in `Startup` what lies between two points at
which a worker can be seen by others or can die: the lock, the check of `done`, the
two ends of the conversion, the mark, the load.

**Data.** Block ids in a list become a set: the order decides which block is handed
out and nothing else. Requests are model values or strings with a prompt length
and an output limit. Time is left out: ready times are the order of arrival.
Whether a token ends a request is a free choice, forced at `max_tokens`.

**Composition.** `DecodeFCFS` and `DecodeKAS` extend `KVCounts` and use its
operators on their `mem`. `BlockManager` is checked to implement `KVCounts` under
the mapping that counts each request's blocks (run `block_manager`, property
`ImplementsCounts`), so that the counts the stages use are those of the real
block manager. `KVCounts` has no flush: a block in a swapping list is available,
as `get_num_avail_gpu_blocks` says.

`SwapSync` extends `BlockManager`: every call of the manager is one of its steps, with
the wait of a flush if it makes one, so that its run checks the manager's properties as
well. `ContextCC` extends `ContextStage` and replaces only the choice of the batch, so
that its run checks both schedulers against the properties that are proved for the
first. `Serving` joins the two stages: the context stage's `ClearMigrated` happens in the
decoding stage's `EndMigration`, and a request enters the decoding stage by leaving
the bridge queue. It is checked to implement `TokenStream` (property
`ImplementsTokenStream`), where the tokens produced are those of both stages and the
tokens handed over are those the callers were given.

**Failing assertions.** In `BlockManager` a call whose assertion would fail is not
enabled. In the stages the caller's count is modelled and the failure is visible:
`NoAllocationFailure` in `ContextStage`, `failed` in the decoding stages.

Operators marked `mistake:` are not used by the specification. They are plausible
slips, and each property is seen to fail when the definition that follows is
replaced by one of them.

## The runs

| Run | Bounds | States | Shows |
|---|---|---|---|
| `block_manager` | 3 requests, 3 GPU and 3 CPU blocks of 2 tokens, 5 tokens, 3 copies on a stream | 234 thousand (up to symmetry) | partition, K/V kept, implements `KVCounts`; the wait of a flush misses at most the last copy of a direction |
| `context_fcfs` | 4 requests of 1, 1, 2 and 3 blocks, 4 blocks, pipeline 2; either scheduler, two scoring modes, every pressure 0 or 1 at any time | 62 thousand | count = truth, allocation never fails, all leave, an aged request is passed only for an older one |
| `decode_fcfs` | 4 requests, 4 GPU blocks, 1 CPU block, pipeline 2 | 20 thousand | queues, locations, pipeline in step, all finish unless the loop dies |
| `decode_kas` | 4 requests of 3 or 4 blocks, 6 GPU blocks, 4 CPU blocks | 30 thousand | a round can be run also if evictions are refused, is feasible, does not bypass starved requests; all finish unless the CPU stays too full |
| `pbc` | pressures 0, 5/8 and 1 for 4 sources, 4 ranges | 14 thousand | range, monotonicity, approach |
| `serving` | 2 requests, 2 context and 4 decoding blocks, 1 CPU block, both pipelines 2; server or offline call | 49 thousand | callbacks, hand-over, lifetime events, the token stream, everything is freed |
| `simulator` | 3 requests, 3 clusters of 2 to 4 workers, with and without chunks | 56 thousand | batches stay whole, every request exits |
| `deployment` | 6 command lines on clusters of up to 6 GPUs, 4 layers, 2 heads, 2 processes, one fault | 298 thousand | the rate is bracketed, weights are whole, what was found starts |
| `fcfs_stall` | one or two requests of 2 to 4 blocks, 4 GPU blocks | – | **violated**: an admissible request is never admitted |
| `swap_reuse` | as `block_manager` | – | **violated**: blocks that a flush hands out are no longer read |
| `kas_skip_bound` | 3 requests, scan limit 1 | – | **violated**: the documented skip bound |
| `pbc_swap_budget` | the decoding scheduler's default budgets | – | **violated**: swap pressure reduces swap-ins |

Why the bounds are enough for what they are asked to show. Blocks are few, so that every
limit is met: three or four GPU blocks for three or four requests that need two or more
force flushes, swap-outs, refusals and the case in which the CPU has no room. The CPU of
`decode_kas` has room for one request grown in full. Blocks of two tokens have a
boundary in the middle of an output. A pipeline of two is the smallest in which the
rotation can go wrong. Token limits of one batch (5 in the context stage) cut a batch
before the other limits do. Every action fires in the passing runs, `StepRaises`
included.

`serving` has two requests because what it asks is about pairs: one that streams and one
that does not, one that leaves while the other needs blocks. They outgrow the
decoding stage, so that one is swapped out, or, if they came the other way round,
the CPU has no room and the engine dies; both occur. `simulator` has prompts of
which the shortest shares a batch with either of the others, while those two do not
fit together, and the longest is cut when it shares a chunk; rings of two stages, and
two instances to choose from. `deployment` has a cluster too small for the model, one
that fits, two nodes between which a configuration must be cut, and searches that
ignore nodes; two halvings of the interval reach both ends of it and its inside.

`WaitingPercent` is `waiting_block_prop_threshold` in percent, 5 by default. Five per
cent of the thousands of blocks of a GPU let several requests wait; with four blocks it
takes 50 or 100 to say the same, which the passing runs use. `ScanLimits = {3, 4}` in
`decode_kas` is what the controller gives for a batch of two and a scan multiplier of
two. `SwapBudgets = {1}` is the default, which the controller never leaves (see
`pbc_swap_budget`). `SkipsBound`, `RoundsBound` and `MaxTokens` cap counters. In `pbc`
the unit is 32 and the pressures are multiples of four units, so that the rounding of
Python's `round` is exact, ties included.

The decoding runs and `serving` turn the deadlock check off: when an exception ends the
event loop, or an offline call has returned, the system has stopped. So do `simulator`
and `deployment`, which end when all requests have left or the engine is up.

### The four divergences

* `fcfs_stall`. `_check_add_to_cur_batch` adds the request's own need to a sum that
  still contains its prompt. A request with two blocks of prompt that needs three
  of four blocks is refused by an empty GPU, in every iteration. The comment on the
  sleep says that empty iterations are for when there is no request. For all lengths
  and sizes: `StallIsForEver`, `OnlyStallsStop`, `RoomyNeverStalls`.
* `swap_reuse`. The comments of `block_manager.py` (76-78, 239-242, 271-275) say that a
  flush lets the workers finish all swaps whose source blocks are in the swapping list,
  and that this ensures Requirement 2: a block that is copied to is not the source of a
  copy still running. `swap_blocks` (`worker.py:291-292`) records the event that the flush
  waits for before it puts the copy on the stream, so the wait covers all copies but the last
  one. In the run a request is swapped out and in again while the first copy runs:
  the swap-in is given a block that this copy reads. With the event behind the copy, as
  the docstring has it (248), the property holds on the same instance. What does hold of
  the code is `FlushLeavesOneCopy` (run `block_manager`, theorem `OneCopyCorrect`).
* `kas_skip_bound`. `docs/methodology.md` bounds the skips of a request by the
  threshold plus its infeasible rounds. A request beyond the scan limit is skipped
  although nothing it needs is short; being starved moves it up only in its own
  level.
* `pbc_swap_budget`. `int(round(0.8 * 1 + 0.2 * 0))` is 1. A range of one or two
  lies in the dead zone of the smoothing; `BudgetApproachesRaw` in `pbc` states
  how far the smoothing reaches, `NarrowNeverMoves` which ranges it never changes.

## Fairness

The context engine's loop calls `_step` for ever and a Ray call returns, hence weak
fairness of `Step` and of `Return`. In `ContextStage` the decoding engine takes what is
on the bridge in the end: weak fairness of `ClearMigrated` for each request, an
assumption about the other stage that `DecodeFCFS` and `DecodeKAS` discharge in so far
as all their requests finish. The decoding engine is one coroutine: weak fairness of the
disjunction of its actions, never of a single one. Arrivals are not fair.

`Serving` needs no assumption about another stage any more. Each coroutine of the
event loop is weakly fair by itself: the context loop with its two halves, event loop 1,
event loop 2 as a whole, each `generate`. Clients of the server need not ask and need
not leave; the tasks of an offline call are all started. In `ContextCC` time passes: a
request that waits reaches the timeout. In `Simulator` each worker's process is fair,
since SimPy runs every process whose event has come and a batch takes finite time. In
`Deployment` the search, the operator who starts the server, and the start with its
workers each make progress; faults need not happen. After a start that failed the operator
tries again, without which nothing could follow from it.

`EveryRequestFinishes` holds for requests that are small against the GPU and says
so: in `decode_fcfs` it allows for an event loop that died of a full CPU. In
`decode_kas` a request at the head can wait for ever for an eviction that the CPU has
no room for, and the property allows for that and nothing else: from some point on
there is always K/V on the GPU that is larger than what is free on the CPU
(`EvictionRefused`). With six CPU blocks or more no eviction is refused on this
instance and all finish. With a scan limit of 1 the property fails
too: the head is swapped out, does not fit beside the residents, and these are
never looked at. That these are the ways in which a stage comes to rounds without a
batch is `KASRoundDispatches`. `fcfs_stall` is what happens to
requests that are large against the GPU. `EveryRequestLeaves` needs prompts that fit an
empty batch: a longer one blocks the queue for ever (`OversizedPromptStops`), which the
code neither refuses nor reports. `EveryRequestSettles` allows for the death of the engine of a full
CPU and for nothing else: a caller that leaves keeps no blocks.
`FoundConfigurationStarts` is about searches without high affinity. With it, a
configuration may be found whose placement groups no node can hold (`STRICT_PACK`); the
model shows it (status `unplaceable`) and nothing promises otherwise.

## What is proved

TLAPS checks these for every value of the constants, from the named assumptions of the
modules: finite sets of requests or blocks, positive block size and prompts
(`BlockManagerAssumption`, `ContextAssumption`, `KVCountsAssumption`); at least two
tokens to generate for what reaches a decoding stage, since the first token is the
context stage's (`DecodeFCFSAssumption`, `DecodeKASAssumption`); each range has its ends
in order, and pressures and factors lie between 0 and 1 (`PressureBudgetAssumption`,
`CCAssumption`); every instance of a simulated cluster has a stage, and the simulated
budgets are natural numbers, since `worker.py` replaces those that are not positive by
10^7 (`SimulatorAssumption`); the search halves its interval down to its tolerance
(`SearchAssumption`), and the engine that is started has the layers of the model that
was searched for (`SameModel`).

**Block manager and swap streams** (`BlockManagerProofs`).

* `TypeCorrect`, `PartitionCorrect`, `KVNeverLostCorrect`, `TableFitsCorrect`. The
  partition is inductive together with the types. One lemma says what `_get_free_blocks`
  takes out of the lists, flush or not; each operation then moves a set of blocks
  between places. The action property follows from the partition, since a swap adds the
  old blocks to the swapping list of the device they were on; the table's size is a
  second induction, with the arithmetic of the ceiling (`CeilStep`: one token more needs
  at most one block more).
* `ImplementsCountsCorrect`: `BlockManager` implements `KVCounts`. Each operation maps
  to the effect on block counts of the same name, a flush to a stutter. It needs the
  partition, by which what the getters return is what nobody owns (`PartitionCounts`),
  and the table's size, because what an append takes is computed from the table and what
  `KVCounts` takes from the tokens.
* `SwapSyncIsBlockManager`: with the streams, the manager does nothing that it could
  not do without them, so that the theorems above hold of `SwapSync` too.
* `OneCopyCorrect`: at most one copy of each stream still reads blocks that were taken
  off the swapping list, which is less than the comments of the code promise
  (`swap_reuse`). Inductive is where the last recorded event lies, at most one copy
  before the end of the stream (`EventNearEnd`), and that of the copies still queued
  only the oldest can be stale (`OnlyOldestStale`).

**Context stage** (`ContextStageProofs`): `TypeCorrect`, `ConservationCorrect`,
`AccountingCorrect`, `AllocationNeverFails`, `BatchLimitsCorrect`. None is inductive
alone. That an allocation fits follows from the scheduler's limit only if its counter
is the sum over the requests in flight, and sums of disjoint sets add up only if no
request is in two places; so the invariant is the conjunction of all five.
`NextBatchFits` lifts the check of single requests to the batch the loop builds.
`DispatchInv` leaves only the choice of the batch open: any part of the queue that fits
now keeps the invariant.

How the stage progresses: `RoundDetermined`, `IdleStageAdvances`, `OversizedPromptStops`,
`FirstComeFirstServed`. A round has exactly one outcome, since there is a first request that
does not fit (`LoopEnds`). The head of the queue is dispatched at the latest when
nothing else is in flight, because the counter is then zero and the limits that are left are
those of the head alone (`HeadAlone`); otherwise it, and all behind it, stay for ever.
These action properties are the safety part of `EveryRequestLeaves`, whose fairness
stays with TLC.

With the cost-compatible scheduler: `ConservationWithEither`, `AccountingWithEither`,
`AllocationNeverFailsWithEither`, `AgedOrderCorrect`, `AgedMoveForward`. By
`DispatchInv` it is enough that the batch it chooses fits. There is a best of its
candidates (`NextBatchChosen`), every one of them is within the limits, and these are
never wider than what is available: the pressures it may read give a block margin that
is not negative (`MarginInv`), so that the budget only takes away. The aged requests are
a prefix of the queue (`AgedInv`) of which the head is in every batch while it is aged
(`AgedHeadGoes`), so that the others are passed only together with it
(`AgedOrderCorrect`). Since what is left of a queue keeps its order and moves forward
(`RemainingOrder`), an aged request is in one of as many batches as its position was
(`AgedMoveForward`).

**Decoding stage, FCFS** (`DecodeFCFSProofs`): `DecodeTypeCorrect`, `DecodeConserves`,
`DecodeLocatesKV`, `DecodeOnlyFailsOnCpu`, `DecodeAnswersFit`. Only the CPU running out
of blocks can end the event loop; the allocation after a scheduling round never
fails. The scheduler decides by its own count before the engine allocates, and that
count covers what the block manager holds (`BlocksInv`) only because no batch but the
current one can have grown since it was allocated for. That is a fact about the
pipeline: the batch whose answer is awaited is the next one that is scheduled
(`PipelineInv`), which is proved from the three positions that turn in step.

How the stage stops: `DecodeRoundDecided`, `StallIsForEver`, `OnlyStallsStop`,
`RoomyNeverStalls`. The loops of a round end in one way (`FillEnds`). With empty batches
only one comparison is left, of the GPU with the prompts counted as waiting and the need
of the first in line (`HeadFits`); nothing that happens to a stalled stage makes these
less. `OnlyStallsStop` assumes that a batch may hold a request at all
(`MaxBatchSize`, `MaxTokensPerBatch` positive). `RoomyNeverStalls` has a configuration for its
hypothesis, which those of `decode_fcfs` satisfy (one block of prompt, two of need) and that
of `fcfs_stall` does not: what may wait, one prompt more and one whole request fit the
GPU together. Only accepting a request adds to what waits, and it is accepted below the
threshold (`Admitted`); rounds only take away.

**Decoding stage, KV-aware** (`DecodeKASProofs`): `KASTypeCorrect`, `KASConserves`,
`KASSelectionRuns`, `KASRoundsFeasible`, `KASStarvedNotBypassed`. A round is a loop over
the sorted requests with a loop of evictions inside. `GoodScan` is the invariant of the
outer one: the blocks reserved for the requests selected so far are free, and these
requests are on the GPU; the inner one keeps it whatever is swapped out. `Passed` relates
a turn to the turns before it, from which follows that a starved request is not
passed. A request on no device owns no blocks, which the sums need as an invariant
of its own.

How the stage progresses: `KASRoundDispatches`. As long as nothing is selected, the first
request of the scan that is on the GPU gets everybody else evicted and then fits
(`EvictionsSuffice`, `ResidentRuns`), and a turn over one that is swapped out leaves the
devices as they were (`SwappedTurn`); if all are swapped out the GPU is empty and the
first fits. So some turn selects, provided that the scan does not end among the
swapped-out requests (`ScanDispatches`). The hypothesis, `RoomToRun`, is that positive limits
are configured, that the CPU has room for what is ready and the GPU for each request with
its next token, and that the scan limit exceeds the number of swapped-out requests.
It fails in some rounds of `decode_kas` (CPU) and of `kas_skip_bound` (scan limit), and
there rounds may end with nothing.

**Engine** (`ServingProofs`): `TablesFound`, `KVHandover`, `LifetimesDocumented`,
`StreamImplemented`. The decoding stage steps as `DecodeFCFS` says, so its invariant
holds unchanged. The context stage is an instance with substituted variables, and theorems
about a module are not available of its instances; what the engine needs of it,
where requests are and which of them hold blocks, is proved again (`CtxInv`), the sums
are not. `BridgeInv` joins the two: what the context stage has not been told to clear
is on the bridge, unaccepted or under migration. `OutputsInv` says that the table holds
exactly the tokens its caller has not been given, the last of them marked; `EventsInv`
that the events are a function of the place a request has reached. The refinement
of `TokenStream` goes step by step: `ContextReturn` and `DecodingReturn` produce, `Generate`
asks, `Take` hands over, `Close` ends, `Leave` gives up, and the other actions are
stutters.

**Search and start-up** (`DeploymentProofs`): `BestRateCorrect`, `WeightsAreWhole`. A
bisection keeps that both ends of its interval were simulated, or are where it began
(`SearchInv`). No worker loads weights that are not whole: who checks, converts or
marks holds the file lock of its node, and the mark is there only with the whole
weights (`StoreInv`). For that every worker must have a placement group to go to, which
rests on the pipeline sizes dividing the layers, from the enumeration of the
search through to the server (`PlaceInv`, `DiskExists`).

**Controller** (`StandaloneProofs`): `TypeCorrect`, `RangeCorrect`,
`TighteningCorrect`, `ApproachCorrect`. A budget is the rounded quotient of a weighted
sum, so three facts about rounding half to even carry the rest: it is monotone, it stays
within integer bounds of what it rounds, and it moves by at most a half. The range, with
the types, is inductive, since the smoothing averages two values of the range.
`ApproachCorrect` has one hypothesis, that the smoothing factor is not 1.0, with which a
budget never moves and the dead zone is not defined. `NarrowNeverMoves` is the other side:
if the width of a range, times the share the smoothing lets through, is less than half a
unit, the rounding undoes every change (`SmoothFrozen`).

**Simulator** (`StandaloneProofs`): `ChunksCorrect`. A later stage finds the end of a chunk
by comparing ids and by counting up to the batch size. That this is the end needs an
invariant of the queues: what waits before a later stage is one whole chunk after the
other, none longer than a batch (`QueuesAreChunks`), and no request is in two places
(`OnePlace`), so that no chunk changes under way. `HeadChunk` finds the chunk at the head of
such a queue, `ChunkAppended` keeps the queue such when a batch is sent on, and
`RingCloses` says that the requests without a chunk id, which the last stage sends back,
go to a first stage.

Four more safety properties of the simulator are stated and proved in this module and
have no run of their own:

* `PlacesCorrect`: a request that has arrived and not left is once in one queue or batch
  of one worker, and nobody else is. The invariant has a witness that maps each request to
  its place (`Placed`); what is prefilled is sent one by one, each time to the least loaded
  worker, so that an invariant of this loop is needed (`AllSent`), and that there is a
  worker to send to (`NextIsWorker`, `DecodeHeadExists`).
* `WakeupsCorrect`: a worker that waits for its event has nothing in its queues.
* `SimulatedCorrect`: what has left was prefilled to the last token and decoded in exactly
  as many rounds as its output is long. What its counter is depends on where it is
  (`CountsFit`), so this rests on the places.
* `BudgetCorrect`: no iteration exceeds the worker's token budgets, the decodes that share
  it with chunks counted. The first stage cuts a chunk so that its portions add up to no
  more than the budget (`PortionsAddUp`); the later stages only compare ids, so what bounds
  their batches is that the chunks in their queues are whole (`TokenInv` on top of
  `QueuesAreChunks`).

**Common lemmas** (`CommonLemmas`). A sum over requests is defined as the cardinality of
a set of slots, so that sums over unions and differences follow from facts about
finite sets without an induction over the requests. Where an induction is needed,
it is that of a least counterexample (`LeastNatural`), since the library's induction
theorems take an operator as a parameter; from it come the two facts about loops
(`LoopExists`, `LoopInvariant`), by which the recursive functions that model loops of
the code are defined on their domain and keep an invariant of every turn. `Remaining`
in `RequestQueues` is such a function and not `SelectSeq` for that reason; what it keeps
and in which order is `RemainingMembers` and `RemainingOrder`. `Greatest` finds the best of
finitely many by cardinality. `Pooled` and
`Apart` are the facts about pipelines of disjoint batches that all stages share.

### Only model-checked

* All liveness: `EveryRequestLeaves`, `EveryRequestFinishes`, `EveryRequestSettles`,
  `EveryRequestExits`, `FoundConfigurationStarts`. Fairness and ENABLED are beyond the
  proof system.
* What the four violated runs show, by nature: a counterexample is an instance. What
  holds of two of them for all constants is in `StallIsForEver`, `RoomyNeverStalls` and
  `NarrowNeverMoves`.

## What the models show besides

Behaviours that contradict nothing the repository says, but that a reader of a
property should know of.

* A client that disconnects frees nothing early: `abort` only logs, both stages finish
  the request, and the entries of the two tables stay. The events of a stream or of an
  offline call are never removed.
* An offline call whose engine dies never returns: it waits for its requests, not for
  the event loops.
* `asyncio.wait` swallows the exception of a worker: one whose `init_model` raised stays
  in an initialised engine, and a `migrate_blocks` that failed counts as a copy. No property
  notices either; `FoundConfigurationStarts` counts such an engine as started.
* An eviction of the KV-aware scheduler that frees too little is not undone: what it swapped out
  comes back one swap-in at a time. `SelectionCanRun` says that the round is consistent
  after it, not that it was of use.
* The storage folder is named after the model only; whether it holds fp16 or fp32
  weights does not show in its name.
* In the simulator the back pressure compares a number of tokens with a number of
  requests, and a chunk subtracts what it has used already twice from its limit, so that
  batches of chunks are smaller than allowed. A prompt longer than a batch, without
  chunks, is tried for ever.
* The bisection never runs the highest rate itself: an answer within the tolerance of
  it is bracketed by the limit of the search. If no configuration can be run the program
  fails on `None`; with a `max_cpu_count` of zero the pool waits for ever.

## Not modelled

* Metrics, logs, wording, timing figures; the values of tokens.
* The schedulers' `abort_request`: the engines' implementation returns before it.
* `lexicographic` aggregation, which computes the same maximum as `max`; unequal
  weights; the "age" pressure, which only sets a flag.
* Scoring mode `age_bonus` of the cost-compatible scheduler, whose bonus is a continuous
  share of the wait.
* `swap_event_table`: its entries are never found, so it has no effect. Nothing else
  orders a copy and the model step that uses its blocks, and the values a step computes
  are not told apart.
* Pipeline parallelism in the KV-aware scheduler, which falls back to the FCFS loop.
* `Serving` with other than the FCFS schedulers: those are checked with the same engines
  by themselves.
* What the rest of an offline engine does after one of its loops has died.
* Two nodes that share the weights but not the lock's directory: in `Startup` both lie
  on one file system.
* Simulated time: a batch of the simulator may take any time, an experiment of the
  search may have any outcome, except that a configuration which is not runnable always
  raises.
* CUDA, NCCL, Ray, the model library, the profiling of free memory: external, modelled
  by when and whether they answer.
* The converter, the tokenizer, the parsing of configurations, benchmarks, evaluation
  and plots: no state of the system.

## Plan

1. `Serving` with the KV-aware scheduler, as far as two requests exercise it.
2. Pipeline parallelism in the KV-aware scheduler.
