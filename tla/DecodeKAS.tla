------------------------------ MODULE DecodeKAS ------------------------------
(***************************************************************************)
(* The decoding stage with the KV-aware least-attained-service scheduler:  *)
(* DecodingStageKVAwareLASScheduler in distserve/decoding_stage_scheduler  *)
(* .py and DecodingStageLLMEngine, without pipeline parallelism (with it   *)
(* the class falls back to the FCFS loop of DecodeFCFS).                   *)
(*                                                                         *)
(* Every iteration rebuilds the batch from all ready requests, sorted by   *)
(* attained service.  The scheduler walks down the sorted list and keeps a *)
(* request if its batch, the GPU and the swap budget have room; for one on *)
(* the GPU it evicts others first.  The two loops are recursive functions  *)
(* of the number of turns taken.                                           *)
(*                                                                         *)
(* The order of waiting_queue, swapped_queue and of the batch is never     *)
(* used, so they are sets.  The budget of an iteration comes from the      *)
(* pressure controller (PressureBudget); here it is any of its values.     *)
(***************************************************************************)
EXTENDS Sequences, FiniteSets, RequestQueues, KVCounts

CONSTANTS
    PromptLen,          \* request -> number of prompt tokens
    MaxOutput,          \* request -> sampling_params.max_tokens
    MaxBatchSize,       \* sched_config.max_batch_size
    MaxTokensPerBatch,  \* sched_config.max_tokens_per_batch
    WaitingPercent,     \* 100 * sched_config.waiting_block_prop_threshold
    SkipThreshold,      \* PHASESERVE_DECODE_SKIP_THRESHOLD
    MaxLevel,           \* PHASESERVE_DECODE_MAX_LEVEL
    AppendMargin,       \* PHASESERVE_DECODE_APPEND_BLOCK_MARGIN
    ScanLimits,         \* the values of budget.decode_scan_limit
    SwapBudgets,        \* the values of budget.decode_swap_budget_per_iter
    SkipsBound,         \* bound: skips are counted up to here
    RoundsBound         \* bound: infeasible rounds are counted up to here

ASSUME DecodeKASAssumption ==
    /\ IsFiniteSet(Requests)
    /\ PromptLen \in [Requests -> Nat \ {0}]
    /\ MaxOutput \in [Requests -> Nat \ {0, 1}]
    /\ MaxBatchSize \in Nat /\ MaxTokensPerBatch \in Nat
    /\ WaitingPercent \in Nat /\ SkipThreshold \in Nat
    /\ MaxLevel \in Nat /\ AppendMargin \in Nat
    /\ ScanLimits \subseteq Nat \ {0} /\ SwapBudgets \subseteq Nat
    /\ SkipsBound \in Nat /\ SkipsBound >= SkipThreshold /\ RoundsBound \in Nat

VARIABLES
    issued,      \* requests the context stage has put on the bridge
    out,         \* request -> get_output_len()
    unaccepted,  \* scheduler.unaccepted_queue
    migrating,   \* the request _migrate_blocks is copying, as a set
    order,       \* accepted requests by phaseserve_decode_ready_time
    waiting,     \* scheduler.waiting_queue
    swapped,     \* scheduler.swapped_queue
    batch,       \* scheduler.batch_queues[0]
    skips,       \* scheduler.consecutive_skips
    rejected,    \* infeasible_ids of the round, until the next one
    rounds,      \* infeasible_rounds(r) of docs/methodology.md
    pc,          \* where the engine's event loop is suspended
    done,        \* requests that were freed
    failed       \* an assertion of the engine or the block manager failed

vars == <<mem, issued, out, unaccepted, migrating, order, waiting, swapped,
          batch, skips, rejected, rounds, pc, done, failed>>

queues == <<issued, unaccepted, migrating, order>>

(* Operators marked "mistake:" are not part of the specification.  Each is *)
(* a slip that the code could have made in the definition that follows it, *)
(* kept to see that the properties notice it.                              *)

(* A loop with body f over sequence s, started in state x.  The singleton   *)
(* sets let TLC evaluate each state of the loop only once.                 *)
The(S) == CHOOSE x \in S : TRUE
Iterate(f(_, _), x, s) ==
    LET after[i \in 0..Len(s)] ==
            IF i = 0 THEN x ELSE The({f(y, s[i]) : y \in {after[i - 1]}})
    IN  after[Len(s)]

Reversed(s) == [i \in 1..Len(s) |-> s[Len(s) + 1 - i]]
FirstOf(s, n) == SubSeq(s, 1, IF n < Len(s) THEN n ELSE Len(s))

PromptNeed == [r \in Requests |-> BlocksFor(PromptLen[r])]
Need == [r \in Requests |-> BlocksFor(PromptLen[r] + out[r])]

-----------------------------------------------------------------------------
(* _get_attained_level: the bit length of the output length, capped *)
Level(r) ==
    LET bits == Cardinality({k \in 0..MaxOutput[r] : 2^k <= out[r]})
    IN  IF bits < MaxLevel THEN bits ELSE MaxLevel

Starved(r) == skips[r] >= SkipThreshold
Resident(m, r) == m.loc[r] = "gpu"

(* mistake: skipped requests gain nothing *)
KeyWithoutStarved(m, r) ==
    <<Level(r), 0, IF Resident(m, r) THEN 0 ELSE 1,
      CHOOSE i \in 1..Len(order) : order[i] = r>>

(* _ready_sort_key, compared lexicographically; m is the memory at the     *)
(* time of the sort.  The ready times are those of `order'.                *)
Key(m, r) ==
    <<Level(r), IF Starved(r) THEN 0 ELSE 1, IF Resident(m, r) THEN 0 ELSE 1,
      CHOOSE i \in 1..Len(order) : order[i] = r>>
Before(m, r, s) ==
    \E n \in 1..4 : /\ Key(m, r)[n] < Key(m, s)[n]
                    /\ \A i \in 1..(n - 1) : Key(m, r)[i] = Key(m, s)[i]

(* mistake: the swapped queue is left out *)
ReadyWithoutSwapped == batch \cup waiting
Ready == batch \cup waiting \cup swapped
Sorted(m, S) == [i \in 1..Cardinality(S) |->
    CHOOSE r \in S : Cardinality({s \in S : Before(m, s, r)}) = i - 1]

-----------------------------------------------------------------------------
(* _estimate_append_blocks_needed, which _get_append_blocks_needed_safe    *)
(* exceeds for no request on the GPU: blocks for the token to come, or the *)
(* margin.                                                                 *)
AppendNeed(m) == [r \in Requests |->
    LET short == BlocksFor(PromptLen[r] + out[r] + 1) - m.blocks[r]
    IN  IF short > AppendMargin THEN short ELSE AppendMargin]

(* What _check_add_to_las_batch and the eviction reserve for batch b *)
Reserved(m, b) == SumOver(AppendNeed(m), b)

(* mistake: the swap budget is not looked at *)
CanAddUnbudgeted(st, r, budget) ==
    /\ Cardinality(st.batch) < MaxBatchSize
    /\ Cardinality(st.batch) + 1 <= MaxTokensPerBatch
    /\ AppendNeed(st.mem)[r] + Reserved(st.mem, st.batch)
         + (IF Resident(st.mem, r) THEN 0 ELSE st.mem.blocks[r])
         <= AvailGpu(st.mem)

(* _check_add_to_las_batch.  The state of the loop is a record: the memory *)
(* and the batch so far, the swap-ins used, and the infeasible requests.   *)
CanAdd(st, r, budget) ==
    /\ Cardinality(st.batch) < MaxBatchSize
    /\ Cardinality(st.batch) + 1 <= MaxTokensPerBatch
    /\ ~Resident(st.mem, r) => st.swapIns < budget
    /\ AppendNeed(st.mem)[r] + Reserved(st.mem, st.batch)
         + (IF Resident(st.mem, r) THEN 0 ELSE st.mem.blocks[r])
         <= AvailGpu(st.mem)

(* mistake: requests are evicted whether or not the CPU has room *)
EvictUnchecked(st, r) ==
    LET minFree    == AppendNeed(st.mem)[r] + Reserved(st.mem, st.batch)
        candidates == {s \in Ready \ (st.batch \cup {r}) : Resident(st.mem, s)}
        swapOut(m, s) == IF AvailGpu(m) >= minFree THEN m ELSE Moved(m, s, "cpu")
    IN  [st EXCEPT !.mem = Iterate(swapOut, @, Reversed(Sorted(st.mem, candidates)))]

(* mistake: nothing is evicted *)
EvictNothing(st, r) == st

(* _evict_resident_requests_for_blocks on behalf of r: the ready requests  *)
(* on the GPU that are not selected, the last of the order first, as long  *)
(* as the GPU lacks blocks and each if the CPU has room for it.            *)
Evict(st, r) ==
    LET minFree    == AppendNeed(st.mem)[r] + Reserved(st.mem, st.batch)
        candidates == {s \in Ready \ (st.batch \cup {r}) : Resident(st.mem, s)}
        swapOut(m, s) ==
            IF AvailGpu(m) >= minFree \/ m.blocks[s] > AvailCpu(m)
            THEN m ELSE Moved(m, s, "cpu")
    IN  [st EXCEPT !.mem = The(
            {Iterate(swapOut, @, Reversed(victims)) :
                victims \in {Sorted(st.mem, candidates)}})]

Select(st, r) ==
    [st EXCEPT !.mem = Moved(@, r, "gpu"),
               !.batch = @ \cup {r},
               !.swapIns = IF Resident(st.mem, r) THEN @ ELSE @ + 1]
Reject(st, r) == [st EXCEPT !.infeasible = @ \cup {r}]

(* One turn of the loop of get_next_batch; after the turn that fills the   *)
(* batch the loop is left.                                                 *)
Consider(st, r, budget) ==
    IF st.batch # {} /\ Cardinality(st.batch) >= MaxBatchSize THEN st
    ELSE The({IF CanAdd(room, r, budget) THEN Select(room, r) ELSE Reject(room, r) :
                room \in {IF CanAdd(st, r, budget) \/ ~Resident(st.mem, r)
                          THEN st ELSE Evict(st, r)}})

(* _get_decode_budget: what the controller makes of the queues, the skips   *)
(* and the memory.  The model lets it answer with any of its values.       *)
Budgets == [decode_scan_limit: ScanLimits, decode_swap_budget_per_iter: SwapBudgets]

Scan(limit, budget) ==
    LET start == [mem |-> mem, batch |-> {}, swapIns |-> 0, infeasible |-> {}]
        turn(st, r) == Consider(st, r, budget)
    IN  The({Iterate(turn, start, FirstOf(sorted, limit)) :
                sorted \in {Sorted(mem, Ready)}})

-----------------------------------------------------------------------------
Init ==
    /\ mem = NoBlocks
    /\ issued = {} /\ done = {} /\ migrating = {}
    /\ out = [r \in Requests |-> 1]
    /\ unaccepted = <<>> /\ order = <<>>
    /\ waiting = {} /\ swapped = {} /\ batch = {}
    /\ skips = [r \in Requests |-> 0]
    /\ rejected = {}
    /\ rounds = [r \in Requests |-> 0]
    /\ pc = "step"
    /\ failed = FALSE

(* Event loop 1 takes a request off the bridge: add_request. *)
AddRequest(r) ==
    /\ ~failed
    /\ r \notin issued
    /\ issued' = issued \cup {r}
    /\ unaccepted' = Append(unaccepted, r)
    /\ UNCHANGED <<mem, out, migrating, order, waiting, swapped, batch, skips,
                   rejected, rounds, pc, done, failed>>

(* _requeue_unselected_requests: who was not selected counts an infeasible *)
(* round or a skip, and waits in the queue of its device.                  *)
Requeue(st) ==
    LET left == Ready \ st.batch IN
    /\ waiting' = {r \in left : ~st.mem.loc[r] = "cpu"}
    /\ swapped' = {r \in left : st.mem.loc[r] = "cpu"}
    /\ skips' = [r \in Requests |->
            IF r \in st.batch THEN 0
            ELSE IF r \in left \ st.infeasible /\ skips[r] < SkipsBound
            THEN skips[r] + 1 ELSE skips[r]]
    /\ rejected' = st.infeasible
    /\ rounds' = [r \in Requests |->
            IF r \in st.infeasible /\ rounds[r] < RoundsBound
            THEN rounds[r] + 1 ELSE rounds[r]]

(* _step up to the await: get_next_batch, then allocate_blocks_batched and *)
(* the assertion that the whole batch is on the GPU.  An empty batch is    *)
(* not sent to the workers.                                                *)
Step ==
    /\ pc = "step" /\ ~failed
    /\ \E budget \in Budgets :
         \E st \in {Scan(budget.decode_scan_limit, budget.decode_swap_budget_per_iter)} :
         LET m == [st.mem EXCEPT !.blocks = [r \in Requests |->
                     IF r \in st.batch /\ Need[r] > @[r] THEN Need[r] ELSE @[r]]]
         IN  /\ Requeue(st)
             /\ batch' = st.batch
             /\ mem' = m
             /\ failed' = \/ AvailGpu(m) < 0 \/ AvailCpu(m) < 0
                          \/ \E r \in st.batch : ~Resident(m, r)
             /\ pc' = IF st.batch = {} THEN "post" ELSE "await"
    /\ UNCHANGED <<queues, out, done>>

(* mistake: the limit is checked before the token is added *)
ReachesLimitLate(r) == out[r] >= MaxOutput[r]

(* _check_finish_condition, after one more token.  Another reason for it   *)
(* to finish a request is a stop token.                                    *)
ReachesLimit(r) == out[r] + 1 >= MaxOutput[r]

(* The batch returned a token for each request, and F are those finished:  *)
(* pop_finished_requests drops their counters, the engine their blocks.    *)
Return ==
    /\ pc = "await" /\ ~failed
    /\ \E F \in SUBSET batch :
         /\ \A r \in batch : ReachesLimit(r) => r \in F
         /\ out' = [r \in Requests |-> IF r \in batch THEN out[r] + 1 ELSE out[r]]
         /\ batch' = batch \ F
         /\ order' = Remaining(order, F)
         /\ skips' = [r \in Requests |-> IF r \in F THEN 0 ELSE skips[r]]
         /\ mem' = [blocks |-> [r \in Requests |-> IF r \in F THEN 0 ELSE mem.blocks[r]],
                    loc    |-> [r \in Requests |-> IF r \in F THEN "none" ELSE mem.loc[r]]]
         /\ done' = done \cup F
    /\ pc' = "post"
    /\ UNCHANGED <<issued, unaccepted, migrating, waiting, swapped, rejected,
                   rounds, failed>>

(* should_accept of post_process *)
ShouldAccept(r) ==
    /\ SumOver(Need, waiting) * 100 < MaxGpuBlocks * WaitingPercent
    /\ PromptNeed[r] <= AvailGpu(mem)

(* post_process accepts the oldest request: _migrate_blocks allocates the  *)
(* blocks of its prompt and then awaits the copy.                          *)
BeginMigration ==
    /\ pc = "post" /\ ~failed
    /\ unaccepted # <<>> /\ ShouldAccept(Head(unaccepted))
    /\ unaccepted' = Tail(unaccepted)
    /\ migrating' = {Head(unaccepted)}
    /\ mem' = Allocated(mem, Head(unaccepted), PromptNeed[Head(unaccepted)])
    /\ pc' = "migrate"
    /\ UNCHANGED <<issued, out, order, waiting, swapped, batch, skips,
                   rejected, rounds, done, failed>>

EndMigration ==
    /\ pc = "migrate" /\ ~failed
    /\ \E r \in migrating : order' = Append(order, r)
    /\ waiting' = waiting \cup migrating
    /\ migrating' = {}
    /\ pc' = "post"
    /\ UNCHANGED <<mem, issued, out, unaccepted, swapped, batch, skips,
                   rejected, rounds, done, failed>>

EndPostProcess ==
    /\ pc = "post" /\ ~failed
    /\ unaccepted # <<>> => ~ShouldAccept(Head(unaccepted))
    /\ pc' = "step"
    /\ rejected' = {}
    /\ UNCHANGED <<mem, queues, out, waiting, swapped, batch, skips, rounds, done,
                   failed>>

Next ==
    \/ Step
    \/ Return
    \/ BeginMigration
    \/ EndMigration
    \/ EndPostProcess
    \/ \E r \in Requests : AddRequest(r)

Spec == Init /\ [][Next]_vars

(* Event loop 2 runs _step for ever, and the workers answer every call. *)
Fairness == WF_vars(Step \/ Return \/ BeginMigration \/ EndMigration
                      \/ EndPostProcess)

FairSpec == Spec /\ Fairness

-----------------------------------------------------------------------------
(* Every variable has its type. *)
TypeOK ==
    /\ mem \in [blocks: [Requests -> Nat], loc: [Requests -> Places]]
    /\ issued \subseteq Requests /\ done \subseteq Requests
    /\ \A r \in Requests : out[r] \in 1..MaxOutput[r]
    /\ unaccepted \in Seq(Requests) /\ order \in Seq(Requests)
    /\ \A S \in {migrating, waiting, swapped, batch} : S \subseteq Requests
    /\ rejected \subseteq Requests
    /\ skips \in [Requests -> 0..SkipsBound] /\ rounds \in [Requests -> 0..RoundsBound]
    /\ pc \in {"step", "await", "post", "migrate"}
    /\ failed \in BOOLEAN

(* Rebuilding the batch loses no request and keeps none twice: a request   *)
(* that was put on the bridge is in one queue until it is freed, and the   *)
(* queue tells where its K/V is, whatever the round evicted and swapped in *)
(* on the way.                                                             *)
RequestConserved ==
    LET places == <<Members(unaccepted), migrating, waiting, swapped, batch, done>>
    IN  /\ \A i, j \in 1..6 : i # j => places[i] \cap places[j] = {}
        /\ issued = UNION {places[i] : i \in 1..6}
        /\ Len(order) = Cardinality(Ready) /\ Members(order) = Ready
        /\ \A r \in Requests :
             mem.loc[r] = IF r \in swapped THEN "cpu"
                          ELSE IF r \in migrating \cup waiting \cup batch THEN "gpu"
                          ELSE "none"

(* What a round selects can be run: the allocation that follows finds the  *)
(* blocks, although rounds reserve blocks, evict and swap in turn, and no  *)
(* later turn evicts a request that was selected; nor does an eviction     *)
(* overfill the CPU.  These are the block manager's assertions and "Some   *)
(* requests are currently swapped out to CPU".                             *)
SelectionCanRun == ~failed

Round == pc = "step" /\ pc' \in {"await", "post"}

(* Iteration feasibility (docs/methodology.md): the batch of an iteration  *)
(* respects the batch size, the token budget and the swap budget, and each *)
(* selected request has blocks for all its tokens afterwards.              *)
FeasibleRound ==
    Round =>
        /\ Cardinality(batch') <= MaxBatchSize
        /\ Cardinality(batch') <= MaxTokensPerBatch
        /\ \E budget \in SwapBudgets :
             Cardinality({r \in swapped : mem'.loc[r] = "gpu"}) <= budget
        /\ \A r \in batch' : mem'.blocks[r] >= Need[r]
IterationFeasible == [][FeasibleRound]_vars

(* Skip-bounded fairness (docs/methodology.md): a starved request is not   *)
(* passed over for one of its own level that is not starved, unless the    *)
(* round found it infeasible.                                              *)
StarvedFirst ==
    Round =>
        \A r, s \in Ready :
            (Starved(r) /\ ~Starved(s) /\ Level(r) = Level(s)
               /\ s \in batch' /\ r \notin batch')
            => r \in rejected'
StarvedNotBypassed == [][StarvedFirst]_vars

(* Every request that is sent to the decoding stage is finished and freed, *)
(* however the scan limit changes.  One thing alone can prevent it: for    *)
(* ever, the K/V of somebody on the GPU is too large for what is free on   *)
(* the CPU, so that _evict_resident_requests_for_blocks passes it over.    *)
EvictionRefused ==
    \E r \in Requests : mem.loc[r] = "gpu" /\ mem.blocks[r] > AvailCpu(mem)
EveryRequestFinishes ==
    \A r \in Requests : (r \in issued ~> r \in done) \/ <>[]EvictionRefused

(* The skip bound of docs/methodology.md and                               *)
(* docs/kas_fairness_implementation.md: a request is not skipped more      *)
(* often than the threshold and its infeasible rounds allow.               *)
SkipBound == \A r \in Requests : skips[r] <= SkipThreshold + rounds[r]
=============================================================================
