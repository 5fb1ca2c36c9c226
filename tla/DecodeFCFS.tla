----------------------------- MODULE DecodeFCFS -----------------------------
(***************************************************************************)
(* The decoding stage with the FCFS scheduler: DecodingStageFCFSScheduler  *)
(* in distserve/decoding_stage_scheduler.py and DecodingStageLLMEngine in  *)
(* distserve/single_stage_engine.py, over the block counts of KVCounts.    *)
(*                                                                         *)
(* The scheduler keeps one batch per pipeline stage and works on them in   *)
(* turn.  Before an iteration it swaps requests of the current batch out   *)
(* until its own count of blocks fits the GPU, then fills the batch from   *)
(* the swapped and the waiting queue.  The engine allocates afterwards,    *)
(* and the block manager raises if the count was wrong.                    *)
(*                                                                         *)
(* An action is the code between two awaits.  The context stage is         *)
(* external: it puts requests that have one token on the bridge queue.     *)
(***************************************************************************)
EXTENDS Sequences, FiniteSets, RequestQueues, KVCounts

CONSTANTS
    PromptLen,          \* request -> number of prompt tokens
    MaxOutput,          \* request -> sampling_params.max_tokens
    MaxBatchSize,       \* sched_config.max_batch_size
    MaxTokensPerBatch,  \* sched_config.max_tokens_per_batch
    WaitingPercent,     \* 100 * sched_config.waiting_block_prop_threshold
    PipelineSize        \* parallel_config.pipeline_parallel_size

ASSUME DecodeFCFSAssumption ==
    /\ IsFiniteSet(Requests)
    /\ PromptLen \in [Requests -> Nat \ {0}]
    /\ MaxOutput \in [Requests -> Nat \ {0, 1}]
    /\ MaxBatchSize \in Nat /\ MaxTokensPerBatch \in Nat
    /\ WaitingPercent \in Nat
    /\ PipelineSize \in Nat \ {0}

VARIABLES
    issued,      \* requests the context stage has put on the bridge
    out,         \* request -> get_output_len()
    finished,    \* requests with is_finished set
    unaccepted,  \* scheduler.unaccepted_queue
    migrating,   \* the request _migrate_blocks is copying, as a set
    waiting,     \* scheduler.waiting_queue
    swapped,     \* scheduler.swapped_queue
    batches,     \* scheduler.batch_queues: index -> sequence of requests
    cur,         \* scheduler.cur_index
    pipeline,    \* engine.batches_in_pipeline with batches_ret_futures
    pc,          \* where the engine's event loop is suspended
    done,        \* requests that were freed
    failed       \* the exception that ended the event loop, or "none"

vars == <<mem, issued, out, finished, unaccepted, migrating, waiting, swapped,
          batches, cur, pipeline, pc, done, failed>>

(* Operators marked "mistake:" are not part of the specification.  Each is *)
(* a slip that the code could have made in the definition that follows it, *)
(* kept to see that the properties notice it.                              *)

Indexes == 0..(PipelineSize - 1)

(* What the scheduler takes a request to need: _get_block_needed of the    *)
(* prompt and of the prompt with the output.                               *)
PromptNeed == [r \in Requests |-> BlocksFor(PromptLen[r])]
Need == [r \in Requests |-> BlocksFor(PromptLen[r] + out[r])]

InBatches == UNION {Members(batches[i]) : i \in Indexes}
OtherBatches(c) == UNION {Members(batches[i]) : i \in Indexes \ {c}}

-----------------------------------------------------------------------------
(* The demand of get_next_batch when batch c is b and w are waiting *)
Demand(c, b, w) ==
    SumOver(Need, OtherBatches(c) \cup Members(b)) + SumOver(PromptNeed, w)

(* mistake: the requests at the other end of the batch are swapped out *)
DroppedOldest(c, k) == SubSeq(batches[c], 1, k)

(* The last k requests of batch c, in the order they are popped; the rest. *)
Dropped(c, k) == [i \in 1..k |-> batches[c][Len(batches[c]) + 1 - i]]
Kept(c, k) == SubSeq(batches[c], 1, Len(batches[c]) - k)

(* The first loop of get_next_batch pops requests until the demand fits. *)
FitsGpu(c, k) == Demand(c, Kept(c, k), Members(waiting)) <= MaxGpuBlocks
IsSwapOut(c, k) ==
    /\ FitsGpu(c, k)
    /\ \A i \in 0..(k - 1) : ~FitsGpu(c, i)

(* mistake: the blocks of the waiting queue are not counted *)
FitsBatchIgnoresWaiting(c, b, w, r) ==
    /\ Len(b) < MaxBatchSize
    /\ Len(b) + 1 <= MaxTokensPerBatch
    /\ Demand(c, b, {}) + Need[r] <= MaxGpuBlocks

(* _check_add_to_cur_batch of r when b is the batch so far and w the       *)
(* waiting queue.  Every request brings one token to a decoding batch.     *)
FitsBatch(c, b, w, r) ==
    /\ Len(b) < MaxBatchSize
    /\ Len(b) + 1 <= MaxTokensPerBatch
    /\ Demand(c, b, w) + Need[r] <= MaxGpuBlocks

(* The second loop of get_next_batch takes the first j requests of q, the  *)
(* n of the swapped queue before those of the waiting queue.  A request of *)
(* the waiting queue is still counted there when it is checked.            *)
StillWaiting(q, n, i) == {q[m] : m \in {x \in 1..Len(q) : x > n /\ x >= i}}
IsFill(c, b, q, n, j) ==
    /\ \A i \in 1..j :
         FitsBatch(c, b \o SubSeq(q, 1, i - 1), StillWaiting(q, n, i), q[i])
    /\ j < Len(q) =>
         ~FitsBatch(c, b \o SubSeq(q, 1, j), StillWaiting(q, n, j + 1), q[j + 1])

(* mistake: the request is added to the batch but not swapped in *)
AfterSwapOutsOnly(dropped, taken) ==
    [mem EXCEPT !.loc = [r \in Requests |->
        IF r \in Members(dropped) THEN "cpu" ELSE mem.loc[r]]]

(* mistake: blocks for the prompt only, as in the migration *)
AfterPromptAllocation(m, b) ==
    [m EXCEPT !.blocks = [r \in Requests |->
        IF r \in Members(b) /\ PromptNeed[r] > m.blocks[r]
        THEN PromptNeed[r] ELSE m.blocks[r]]]

(* The K/V blocks after the swaps, and after allocate_blocks_batched. *)
AfterSwaps(dropped, taken) ==
    [mem EXCEPT !.loc = [r \in Requests |->
        IF r \in Members(taken) THEN "gpu"
        ELSE IF r \in Members(dropped) THEN "cpu" ELSE mem.loc[r]]]
AfterAllocation(m, b) ==
    [m EXCEPT !.blocks = [r \in Requests |->
        IF r \in Members(b) /\ Need[r] > m.blocks[r] THEN Need[r] ELSE m.blocks[r]]]

-----------------------------------------------------------------------------
Init ==
    /\ mem = NoBlocks
    /\ issued = {} /\ finished = {} /\ done = {} /\ migrating = {}
    /\ out = [r \in Requests |-> 1]
    /\ unaccepted = <<>> /\ waiting = <<>> /\ swapped = <<>>
    /\ batches = [i \in Indexes |-> <<>>]
    /\ cur = -1
    /\ pipeline = <<>>
    /\ pc = "step"
    /\ failed = "none"

(* Event loop 1 takes a request off the bridge: add_request. *)
AddRequest(r) ==
    /\ failed = "none"
    /\ r \notin issued
    /\ issued' = issued \cup {r}
    /\ unaccepted' = Append(unaccepted, r)
    /\ UNCHANGED <<mem, out, finished, migrating, waiting, swapped, batches,
                   cur, pipeline, pc, done, failed>>

(* _step up to its await: get_next_batch on batch c, which swaps k requests *)
(* out and takes j from the queues; allocate_blocks_batched; the push.     *)
Queue(c, k) == swapped \o Dropped(c, k) \o waiting
NextBatch(c, k, j) == Kept(c, k) \o SubSeq(Queue(c, k), 1, j)
NextMem(c, k, j) ==
    AfterAllocation(AfterSwaps(Dropped(c, k), SubSeq(Queue(c, k), 1, j)),
                    NextBatch(c, k, j))

IsSchedule(c, k, j) ==
    /\ IsSwapOut(c, k)
    /\ IsFill(c, Kept(c, k), Queue(c, k), Len(swapped) + k, j)

(* The three exceptions: a swap-out without room on the CPU, an allocation *)
(* without room on the GPU, and a pop from the empty batch.                *)
LacksCpu(c, k) ==
    HeldOn(mem, "cpu") + SumOver(mem.blocks, Members(Dropped(c, k))) > MaxCpuBlocks
LacksGpu(c, k, j) == HeldOn(NextMem(c, k, j), "gpu") > MaxGpuBlocks

SwapOuts(c) == 0..Len(batches[c])
Fills(c, k) == 0..Len(Queue(c, k))
PopsEmpty(c) == \A k \in SwapOuts(c) : ~FitsGpu(c, k)
CurIndex == (cur + 1) % PipelineSize
LastStage == (cur + 1) % PipelineSize

(* The engine waits for the oldest batch only if the pipeline is full and  *)
(* that batch is not an empty one.                                         *)
Step ==
    /\ pc = "step" /\ failed = "none"
    /\ \E k \in SwapOuts(CurIndex) : \E j \in Fills(CurIndex, k) :
         LET c      == CurIndex
             q      == Queue(c, k)
             n      == Len(swapped) + k
             batch  == NextBatch(c, k, j)
             pushed == Append(pipeline, [batch |-> c, future |-> batch # <<>>])
             full   == Len(pushed) = PipelineSize
         IN  /\ IsSchedule(c, k, j)
             /\ ~LacksCpu(c, k) /\ ~LacksGpu(c, k, j)
             /\ mem' = NextMem(c, k, j)
             /\ cur' = c
             /\ batches' = [batches EXCEPT ![c] = batch]
             /\ swapped' = SubSeq(q, j + 1, n)
             /\ waiting' = SubSeq(q, (IF j > n THEN j ELSE n) + 1, Len(q))
             /\ pipeline' = IF full /\ ~pushed[1].future
                            THEN Tail(pushed) ELSE pushed
             /\ pc' = IF full /\ pushed[1].future THEN "await" ELSE "post"
    /\ UNCHANGED <<issued, out, finished, unaccepted, migrating, done, failed>>

(* _step raises before the await.  The event loop ends, and what the rest  *)
(* of the state is by then does not matter.                                *)
Raises(why) ==
    IF PopsEmpty(CurIndex) THEN why = "pop"
    ELSE \E k \in SwapOuts(CurIndex) : \E j \in Fills(CurIndex, k) :
           /\ IsSchedule(CurIndex, k, j)
           /\ IF LacksCpu(CurIndex, k) THEN why = "cpu"
              ELSE LacksGpu(CurIndex, k, j) /\ why = "gpu"

StepRaises ==
    /\ pc = "step" /\ failed = "none"
    /\ \E why \in {"pop", "cpu", "gpu"} : Raises(why) /\ failed' = why
    /\ UNCHANGED <<mem, issued, out, finished, unaccepted, migrating, waiting,
                   swapped, batches, cur, pipeline, pc, done>>

(* mistake: the limit is checked before the token is added *)
ReachesLimitLate(r) == out[r] >= MaxOutput[r]

(* _check_finish_condition, after one more token.  Another reason for it   *)
(* to finish a request is a stop token.                                    *)
ReachesLimit(r) == out[r] + 1 >= MaxOutput[r]

(* finish_one_iteration, and pop_finished_requests of a batch *)
WithToken(S) == [r \in Requests |-> IF r \in S THEN out[r] + 1 ELSE out[r]]

(* The oldest batch of the pipeline returned a token for each request, and *)
(* F are those it finished.  The engine frees what the scheduler pops, the *)
(* finished requests of what it takes to be the last stage.                *)
Return ==
    /\ pc = "await" /\ failed = "none"
    /\ LET returned == Members(batches[pipeline[1].batch])
           last     == LastStage
       IN \E F \in SUBSET returned :
            /\ \A r \in returned : ReachesLimit(r) => r \in F
            /\ out' = WithToken(returned)
            /\ finished' = finished \cup F
            /\ LET popped == Members(batches[last]) \cap finished' IN
                 /\ batches' = [batches EXCEPT ![last] = Remaining(@, popped)]
                 /\ mem' = [blocks |-> [r \in Requests |->
                                IF r \in popped THEN 0 ELSE mem.blocks[r]],
                            loc    |-> [r \in Requests |->
                                IF r \in popped THEN "none" ELSE mem.loc[r]]]
                 /\ done' = done \cup popped
    /\ pipeline' = Tail(pipeline)
    /\ pc' = "post"
    /\ UNCHANGED <<issued, unaccepted, migrating, waiting, swapped, cur, failed>>

(* should_accept of post_process *)
ShouldAccept(r) ==
    /\ SumOver(PromptNeed, Members(waiting)) * 100 < MaxGpuBlocks * WaitingPercent
    /\ PromptNeed[r] <= AvailGpu(mem)

(* post_process accepts the oldest request: _migrate_blocks allocates the  *)
(* blocks of its prompt and then awaits the copy.                          *)
BeginMigration ==
    /\ pc = "post" /\ failed = "none"
    /\ unaccepted # <<>> /\ ShouldAccept(Head(unaccepted))
    /\ unaccepted' = Tail(unaccepted)
    /\ migrating' = {Head(unaccepted)}
    /\ mem' = Allocated(mem, Head(unaccepted), PromptNeed[Head(unaccepted)])
    /\ pc' = "migrate"
    /\ UNCHANGED <<issued, out, finished, waiting, swapped, batches, cur,
                   pipeline, done, failed>>

(* mistake: the copied request is not put in the waiting queue *)
EndMigrationForgets ==
    /\ pc = "migrate" /\ failed = "none"
    /\ migrating' = {}
    /\ pc' = "post"
    /\ UNCHANGED <<mem, issued, out, finished, unaccepted, waiting, swapped,
                   batches, cur, pipeline, done, failed>>

(* The copy is over; the request waits, and post_process goes on. *)
EndMigration ==
    /\ pc = "migrate" /\ failed = "none"
    /\ \E r \in migrating : waiting' = Append(waiting, r)
    /\ migrating' = {}
    /\ pc' = "post"
    /\ UNCHANGED <<mem, issued, out, finished, unaccepted, swapped, batches,
                   cur, pipeline, done, failed>>

EndPostProcess ==
    /\ pc = "post" /\ failed = "none"
    /\ unaccepted # <<>> => ~ShouldAccept(Head(unaccepted))
    /\ pc' = "step"
    /\ UNCHANGED <<mem, issued, out, finished, unaccepted, migrating, waiting,
                   swapped, batches, cur, pipeline, done, failed>>

Next ==
    \/ Step
    \/ StepRaises
    \/ Return
    \/ BeginMigration
    \/ EndMigration
    \/ EndPostProcess
    \/ \E r \in Requests : AddRequest(r)

Spec == Init /\ [][Next]_vars

(* Event loop 2 runs _step for ever, and the workers answer every call. *)
Fairness == WF_vars(Step \/ StepRaises \/ Return \/ BeginMigration
                      \/ EndMigration \/ EndPostProcess)

FairSpec == Spec /\ Fairness

-----------------------------------------------------------------------------
(* Every variable has its type.  A request never generates more tokens     *)
(* than it asked for, which add_generated_token would answer with an error. *)
TypeOK ==
    /\ mem \in [blocks: [Requests -> Nat], loc: [Requests -> Places]]
    /\ issued \subseteq Requests /\ finished \subseteq Requests
    /\ done \subseteq Requests /\ migrating \subseteq Requests
    /\ \A r \in Requests : out[r] \in 1..MaxOutput[r]
    /\ unaccepted \in Seq(Requests)
    /\ waiting \in Seq(Requests) /\ swapped \in Seq(Requests)
    /\ batches \in [Indexes -> Seq(Requests)]
    /\ cur \in Indexes \cup {-1}
    /\ pipeline \in Seq([batch: Indexes, future: BOOLEAN])
    /\ Len(pipeline) <= PipelineSize
    /\ pc \in {"step", "await", "post", "migrate"}
    /\ failed \in {"none", "pop", "cpu", "gpu"}

Accepted == InBatches \cup migrating \cup Members(waiting) \cup Members(swapped)

(* A request is in one queue at a time, as the class comment promises: no  *)
(* two of the queues and batches share a request, none holds it twice, and *)
(* a request put on the bridge is in one of them until it is freed.        *)
RequestConserved ==
    LET queues == <<unaccepted, waiting, swapped>> \o
                  [i \in 1..PipelineSize |-> batches[i - 1]]
    IN  /\ \A i, j \in 1..Len(queues) :
             i # j => Members(queues[i]) \cap Members(queues[j]) = {}
        /\ \A i \in 1..Len(queues) :
             Cardinality(Members(queues[i])) = Len(queues[i])
        /\ migrating \cap UNION {Members(queues[i]) : i \in 1..Len(queues)} = {}
        /\ issued = Members(unaccepted) \cup Accepted \cup done
        /\ done \cap (Members(unaccepted) \cup Accepted) = {}

(* Where the block manager keeps the K/V of a request follows from the     *)
(* queue the request is in: on the CPU exactly when it is swapped, nowhere *)
(* before it is accepted and after it is done.                             *)
LocationMatchesQueue ==
    \A r \in Requests :
        mem.loc[r] = IF r \in Members(swapped) THEN "cpu"
                     ELSE IF r \in Accepted THEN "gpu" ELSE "none"

(* The scheduler's own count is good enough: the engine's allocation after *)
(* a scheduling round never finds the GPU without free blocks, and a round *)
(* never has to pop a request from a batch that is already empty.          *)
OnlyCpuCanFail == failed \notin {"gpu", "pop"}

(* The worker's answer belongs to the requests the scheduler pops: the     *)
(* oldest batch of the engine's pipeline is the scheduler's last stage,    *)
(* and its requests are all on the GPU with blocks for all of their tokens *)
(* (the assertion "Some requests are currently swapped out to CPU").       *)
AnswerFitsBatch ==
    pc = "await" =>
        LET oldest == pipeline[1].batch IN
        /\ oldest = CurIndex
        /\ batches[oldest] # <<>>
        /\ \A r \in Members(batches[oldest]) :
             mem.loc[r] = "gpu" /\ mem.blocks[r] = Need[r]

(* A request the decoding stage was sent is finished and freed in the end, *)
(* unless the event loop has died; requests that come later do not stop it *)
(* (for requests small against the GPU: see NoLastingStall).               *)
EveryRequestFinishes ==
    \A r \in Requests : r \in issued ~> (r \in done \/ failed # "none")

(* An engine with requests to work on does not send empty batches for      *)
(* ever: SLEEP_WHEN_DECODING_NO_REQUEST is for when there is no request.   *)
NoLastingStall ==
    (Members(waiting) \cup Members(swapped) # {}) ~>
        (InBatches # {} \/ failed # "none")
=============================================================================
