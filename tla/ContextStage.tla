---------------------------- MODULE ContextStage ----------------------------
(***************************************************************************)
(* The context (prefill) stage with the FCFS scheduler:                    *)
(* ContextStageFCFSScheduler in distserve/context_stage_scheduler.py and   *)
(* ContextStageLLMEngine in distserve/single_stage_engine.py.              *)
(*                                                                         *)
(* The stage holds K/V blocks for a request from the moment it is          *)
(* dispatched until the decoding stage has pulled them over.  The          *)
(* scheduler never asks the block manager whether there is room: it keeps  *)
(* its own count, num_on_fly_request_block plus the unaccepted queue, and  *)
(* the engine then allocates, which raises if the count was wrong.         *)
(*                                                                         *)
(* An action is the code between two awaits.  The decoding stage is        *)
(* external here: it takes migrating requests off the bridge at any time   *)
(* the engine is suspended and calls clear_migrated_blocks_callback.       *)
(***************************************************************************)
EXTENDS Integers, Sequences, FiniteSets, RequestSums

CONSTANTS
    Requests,           \* request ids
    PromptLen,          \* request -> number of prompt tokens
    BlockSize,          \* cache_config.block_size
    MaxBatchSize,       \* sched_config.max_batch_size
    MaxTokensPerBatch,  \* sched_config.max_tokens_per_batch
    MaxGpuBlocks,       \* block_manager.max_num_gpu_blocks
    PipelineSize        \* parallel_config.pipeline_parallel_size

ASSUME ContextAssumption ==
    /\ IsFiniteSet(Requests)
    /\ PromptLen \in [Requests -> Nat \ {0}]
    /\ BlockSize \in Nat \ {0}
    /\ MaxBatchSize \in Nat /\ MaxTokensPerBatch \in Nat /\ MaxGpuBlocks \in Nat
    /\ PipelineSize \in Nat \ {0}

VARIABLES
    issued,     \* requests that LLMEngine.generate has handed to add_request
    waiting,    \* scheduler.waiting_queue
    unaccepted, \* scheduler.unaccepted_queue, a set: its order is never used
    onFly,      \* scheduler.num_on_fly_request_block
    pipeline,   \* engine.batches_in_pipeline; {} is a batch without a future
    awaiting,   \* the engine waits for the oldest batch of the pipeline
    holding,    \* requests in block_manager.block_table
    avail,      \* block_manager.get_num_avail_gpu_blocks()
    bridge,     \* MigratingRequests put on the bridge queue, not yet cleared
    done        \* finished here, or migrated away

vars == <<issued, waiting, unaccepted, onFly, pipeline, awaiting, holding,
          avail, bridge, done>>

-----------------------------------------------------------------------------
(* Operators marked "mistake:" are not part of the specification.  Each is *)
(* a slip that the code could have made in the definition that follows it, *)
(* kept to see that the properties notice it.                              *)

(* _get_block_needed of a prompt, and the sums of the scheduler *)
BlocksNeeded == [r \in Requests |-> (PromptLen[r] + BlockSize - 1) \div BlockSize]

BlockSum(S) == SumOver(BlocksNeeded, S)
TokenSum(S) == SumOver(PromptLen, S)

Waiting == {waiting[i] : i \in 1..Len(waiting)}
InFlight == UNION {pipeline[i] : i \in 1..Len(pipeline)}

(* The first k requests of the waiting queue *)
Prefix(k) == {waiting[i] : i \in 1..k}

(* mistake: the blocks that wait for the decoding stage are not counted *)
FitsBatchIgnoresUnaccepted(batch, r) ==
    /\ Cardinality(batch) < MaxBatchSize
    /\ TokenSum(batch) + PromptLen[r] <= MaxTokensPerBatch
    /\ BlockSum(batch) + BlocksNeeded[r] + onFly <= MaxGpuBlocks

(* _check_add_to_cur_batch *)
FitsBatch(batch, r) ==
    /\ Cardinality(batch) < MaxBatchSize
    /\ TokenSum(batch) + PromptLen[r] <= MaxTokensPerBatch
    /\ BlockSum(batch) + BlocksNeeded[r] + BlockSum(unaccepted) + onFly
         <= MaxGpuBlocks

(* The while loop of get_next_batch_and_pop takes requests from the head   *)
(* of the queue as long as they fit, and stops at the first that does not. *)
IsNextBatch(k) ==
    /\ \A i \in 1..k : FitsBatch(Prefix(i - 1), waiting[i])
    /\ k < Len(waiting) => ~FitsBatch(Prefix(k), waiting[k + 1])

-----------------------------------------------------------------------------
Init ==
    /\ issued = {} /\ waiting = <<>> /\ unaccepted = {} /\ onFly = 0
    /\ pipeline = <<>> /\ awaiting = FALSE
    /\ holding = {} /\ avail = MaxGpuBlocks
    /\ bridge = {} /\ done = {}

(* mistake: a request is handed over once more *)
AddRequestAgain(r) ==
    /\ issued' = issued \cup {r}
    /\ Len(waiting) < 4 /\ waiting' = Append(waiting, r)
    /\ UNCHANGED <<unaccepted, onFly, pipeline, awaiting, holding, avail,
                   bridge, done>>

(* LLMEngine.generate calls add_request *)
AddRequest(r) ==
    /\ r \notin issued
    /\ issued' = issued \cup {r}
    /\ waiting' = Append(waiting, r)
    /\ UNCHANGED <<unaccepted, onFly, pipeline, awaiting, holding, avail,
                   bridge, done>>

(* _step up to the await: pick the next batch, allocate its blocks, push   *)
(* it.  The engine waits for a batch only when the pipeline is full.       *)
Step ==
    /\ ~awaiting
    /\ \E k \in 0..Len(waiting) :
         /\ IsNextBatch(k)
         /\ waiting' = SubSeq(waiting, k + 1, Len(waiting))
         /\ onFly' = onFly + BlockSum(Prefix(k))
         /\ holding' = holding \cup Prefix(k)
         /\ avail' = avail - BlockSum(Prefix(k))
         /\ pipeline' = Append(pipeline, Prefix(k))
    /\ awaiting' = (Len(pipeline) + 1 = PipelineSize)
    /\ UNCHANGED <<issued, unaccepted, bridge, done>>

(* mistake: an answer that is dropped, with its batch left in the pipeline *)
ReturnLeavesBatch ==
    /\ awaiting
    /\ awaiting' = FALSE
    /\ UNCHANGED <<issued, waiting, unaccepted, onFly, pipeline, holding, avail,
                   bridge, done>>

(* _step after the await: the oldest batch returned a token for each of    *)
(* its requests, and F are those it finished.  The blocks of F are freed;  *)
(* the others keep theirs and go to the unaccepted queue and the bridge.   *)
Return ==
    /\ awaiting
    /\ \E F \in SUBSET Head(pipeline) :
         LET batch == Head(pipeline) IN
         /\ unaccepted' = unaccepted \cup (batch \ F)
         /\ onFly' = onFly - BlockSum(batch)
         /\ bridge' = bridge \cup (batch \ F)
         /\ holding' = holding \ F
         /\ avail' = avail + BlockSum(F)
         /\ done' = done \cup F
    /\ pipeline' = Tail(pipeline)
    /\ awaiting' = FALSE
    /\ UNCHANGED <<issued, waiting>>

(* mistake: the scheduler is not told that the request has migrated *)
ClearMigratedKeepsUnaccepted(r) ==
    /\ r \in bridge
    /\ bridge' = bridge \ {r}
    /\ holding' = holding \ {r}
    /\ avail' = avail + BlocksNeeded[r]
    /\ done' = done \cup {r}
    /\ UNCHANGED <<issued, waiting, unaccepted, onFly, pipeline, awaiting>>

(* The decoding stage has copied the blocks of r and calls                 *)
(* clear_migrated_blocks_callback, which frees them and then takes r off   *)
(* the unaccepted queue.                                                   *)
ClearMigrated(r) ==
    /\ r \in bridge
    /\ bridge' = bridge \ {r}
    /\ holding' = holding \ {r}
    /\ avail' = avail + BlocksNeeded[r]
    /\ unaccepted' = unaccepted \ {r}
    /\ done' = done \cup {r}
    /\ UNCHANGED <<issued, waiting, onFly, pipeline, awaiting>>

Next ==
    \/ Step
    \/ Return
    \/ \E r \in Requests : AddRequest(r) \/ ClearMigrated(r)

Spec == Init /\ [][Next]_vars

(* The event loop runs _step for ever and a worker call returns; the       *)
(* decoding stage accepts every request on the bridge in the end.          *)
Fairness ==
    /\ WF_vars(Step)
    /\ WF_vars(Return)
    /\ \A r \in Requests : WF_vars(ClearMigrated(r))

FairSpec == Spec /\ Fairness

-----------------------------------------------------------------------------
(* Every variable has its type. *)
TypeOK ==
    /\ issued \subseteq Requests
    /\ waiting \in Seq(Requests)
    /\ unaccepted \subseteq Requests
    /\ onFly \in Int
    /\ pipeline \in Seq(SUBSET Requests)
    /\ Len(pipeline) <= PipelineSize
    /\ awaiting \in BOOLEAN
    /\ awaiting <=> Len(pipeline) = PipelineSize
    /\ holding \subseteq Requests
    /\ avail \in Int
    /\ bridge \subseteq Requests
    /\ done \subseteq Requests

(* A request that was issued is in exactly one place: waiting, in one      *)
(* batch of the pipeline, unaccepted or done.  No request is dispatched    *)
(* twice and none is dropped between the queues.                           *)
RequestConserved ==
    /\ \A i, j \in 1..Len(waiting) : i # j => waiting[i] # waiting[j]
    /\ \A i, j \in 1..Len(pipeline) : i # j => pipeline[i] \cap pipeline[j] = {}
    /\ Waiting \cap InFlight = {}
    /\ (Waiting \cup InFlight) \cap (unaccepted \cup done) = {}
    /\ unaccepted \cap done = {}
    /\ issued = Waiting \cup InFlight \cup unaccepted \cup done

(* The scheduler's own count and the block manager agree, whatever mix of  *)
(* batches returned and requests migrated in between: exactly the requests *)
(* in flight and unaccepted hold blocks, the counter is the blocks in      *)
(* flight, and every request that waits for the decoding stage can still   *)
(* be found on the bridge.                                                 *)
BlockAccounting ==
    /\ holding = InFlight \cup unaccepted
    /\ onFly = BlockSum(InFlight)
    /\ avail = MaxGpuBlocks - BlockSum(holding)
    /\ bridge = unaccepted

(* The assertion "not enough free blocks on GPU" of the block manager      *)
(* never fires: an allocation never takes more blocks than there are.      *)
NoAllocationFailure == avail >= 0

(* A batch in the pipeline respects the limits of its configuration.       *)
BatchWithinLimits ==
    \A i \in 1..Len(pipeline) :
        /\ Cardinality(pipeline[i]) <= MaxBatchSize
        /\ TokenSum(pipeline[i]) <= MaxTokensPerBatch

(* Every request that is issued leaves the context stage, finished or      *)
(* migrated, if every prompt fits an empty batch.  Requests that arrive    *)
(* later cannot hold it back.                                              *)
EveryRequestLeaves == \A r \in Requests : r \in issued ~> r \in done
=============================================================================
