------------------------------ MODULE ContextCC ------------------------------
(***************************************************************************)
(* The context stage with either of its schedulers: the FCFS one of        *)
(* ContextStage, or ContextStageCostCompatibleScheduler of                 *)
(* distserve/context_stage_scheduler.py, which picks among the first       *)
(* requests of the queue a batch of prompts of similar length that fits a  *)
(* budget derived from the pressures of both stages.                       *)
(*                                                                         *)
(* The pressures of the decoding stage come through a file that its        *)
(* scheduler replaces now and then (write_pressure_snapshot) and that this *)
(* scheduler reads at every dispatch (read_pressure_snapshot): they may be *)
(* older than the state they describe, or missing.                         *)
(***************************************************************************)
EXTENDS ContextStage, RequestQueues

CONSTANTS
    WindowMultiplier,   \* PHASESERVE_PREFILL_WINDOW_MULT
    BucketBounds,       \* PHASESERVE_PREFILL_BUCKETS, a set of prompt lengths
    MaxBlockMargin,     \* PHASESERVE_PBC_MAX_BLOCK_MARGIN
    BridgeTarget,       \* PHASESERVE_PBC_BRIDGE_TARGET
    BlockTarget,        \* PHASESERVE_PBC_CONTEXT_BLOCK_TARGET
    Unit,               \* the pressure 1.0, see PressureBudget
    ScoringModes,       \* PHASESERVE_PREFILL_SCORING_MODE, but for "age_bonus",
                        \* whose bonus is a share that grows with the wait
    SnapshotPressures,  \* the pressures the decoding stage reports
    SmoothPercent, RhoLowPercent, RhoHighPercent

ASSUME CCAssumption ==
    /\ WindowMultiplier \in Nat
    /\ BucketBounds \subseteq Nat /\ IsFiniteSet(BucketBounds)
    /\ MaxBlockMargin \in Nat /\ BridgeTarget \in Nat /\ BlockTarget \in Nat
    /\ ScoringModes \subseteq {"default", "bucket_only", "no_oldest_bonus"}
    /\ Unit \in Nat \ {0} /\ SnapshotPressures \subseteq 0..Unit
    /\ SmoothPercent \in 0..100

VARIABLES
    policy,     \* sched_config.policy: "fcfs" or "phase", and its synonyms
    scoring,    \* scoring_mode
    dynamic,    \* not PHASESERVE_PBC_DISABLE_DYNAMIC
    aged,       \* requests that have waited for dispatch_timeout_s
    budget,     \* previous_budget of the controller
    updated     \* previous_budget is not None

ccVars == <<policy, scoring, dynamic, aged, budget, updated>>
allVars == <<vars, ccVars>>

NoPressure == [bridge |-> 0, decode |-> 0, kv |-> 0, swap |-> 0]

(* The controller of this scheduler has a token budget and a block margin; *)
(* it is created without a scan limit and a swap budget.                   *)
Controller == INSTANCE PressureBudget WITH
    Pressures <- 0..Unit,
    MinBudget <- [prefill |-> MaxTokensPerBatch \div 2, margin |-> 0,
                  swap |-> 0, scan |-> 0],
    MaxBudget <- [prefill |-> MaxTokensPerBatch, margin |-> MaxBlockMargin,
                  swap |-> 0, scan |-> 0],
    aggregation <- "max", mode <- "OPEN", pressure <- NoPressure

(* What read_pressure_snapshot may find: whatever pressures the decoding   *)
(* scheduler wrote last, or no file, or one that is unreadable, too old or *)
(* of another component.  Of bridge and decode the larger one counts, and  *)
(* so of kv and swap, so a snapshot keeps one of each pair.                *)
Unusable == [queue |-> 0, memory |-> 0]
Snapshots == [queue : SnapshotPressures, memory : SnapshotPressures] \cup {Unusable}

-----------------------------------------------------------------------------
Larger(x, y) == IF x > y THEN x ELSE y

Least(I) == CHOOSE i \in I : \A j \in I : i <= j

(* ratio, rounded down to a multiple of 1/Unit *)
Ratio(value, target) ==
    IF target <= 0 THEN 0
    ELSE IF value >= target THEN Unit ELSE (value * Unit) \div target

(* _get_available_context_blocks *)
AvailableBlocks == Larger(MaxGpuBlocks - BlockSum(unaccepted) - onFly, 0)

(* _get_context_budget: the pressures of this stage and of the snapshot,   *)
CurrentPressures(snapshot) ==
    [bridge |-> Larger(Ratio(Cardinality(unaccepted), BridgeTarget), snapshot.queue),
     decode |-> snapshot.queue,
     kv     |-> Larger(Ratio(MaxGpuBlocks - AvailableBlocks, BlockTarget),
                       snapshot.memory),
     swap   |-> snapshot.memory]

(* and the budget that the controller makes of them                        *)
CurrentBudget(p) ==
    [k \in Controller!Knobs |->
        IF dynamic THEN Controller!NextBudget(k, Controller!Raw(p, k))
        ELSE Controller!StaticBudget(k)]

(* The limits of _is_feasible, with a budget and without *)
FullLimits == [tokens |-> MaxTokensPerBatch, blocks |-> AvailableBlocks]
Limits(bud) ==
    [tokens |-> IF bud["prefill"] \in 1..MaxTokensPerBatch
                THEN bud["prefill"] ELSE MaxTokensPerBatch,
     blocks |-> Larger(AvailableBlocks - bud["margin"], 0)]

(* _is_feasible *)
Feasible(batch, r, limits) ==
    /\ Cardinality(batch) < MaxBatchSize
    /\ TokenSum(batch \cup {r}) <= limits.tokens
    /\ BlockSum(batch \cup {r}) <= limits.blocks

(* _get_bucket_id *)
Bucket(r) == Cardinality({b \in BucketBounds : b < PromptLen[r]})

(* candidate_window: the positions of the queue that are looked at *)
Window ==
    LET size == Larger(Larger(MaxBatchSize * WindowMultiplier, MaxBatchSize), 1)
    IN  {i \in 1..Len(waiting) : i <= size}

(* The batch of a bucket: its requests are taken in order of their wait,   *)
(* which is the order of the queue, each if it still fits.  The rest of    *)
(* the key of _ordered_bucket_requests is never compared.                  *)
BucketBatches(limits) ==
    LET positions(b) == {i \in Window : Bucket(waiting[i]) = b}
        IsGreedy(I) ==
          I = {i \in positions(Bucket(waiting[Least(I)])) :
                 Feasible({waiting[j] : j \in {j \in I : j < i}}, waiting[i], limits)}
    IN  {{waiting[i] : i \in I} : I \in
          {I \in UNION {SUBSET positions(b) : b \in 0..Cardinality(BucketBounds)} :
             I # {} /\ IsGreedy(I)}}

(* mistake: the oldest request keeps to the budget when it is forced, too *)
CandidatesBudgeted(limits) ==
    {S \in BucketBatches(limits) : waiting[1] \in aged => waiting[1] \in S}

(* mistake: when the oldest request fits no batch, the others go ahead *)
CandidatesUnprotected(limits) ==
    LET with == {S \in BucketBatches(limits) : waiting[1] \in S}
    IN  IF waiting[1] \in aged /\ with # {} THEN with ELSE BucketBatches(limits)

(* The candidate batches.  The oldest request is protected: once it has    *)
(* waited for the timeout, only batches with it count, or it alone without *)
(* the budget, or none.                                                    *)
Candidates(limits) ==
    LET all    == BucketBatches(limits)
        with   == {S \in all : waiting[1] \in S}
        forced == {S \in {{waiting[1]}} : Feasible({}, waiting[1], FullLimits)}
    IN  IF waiting[1] \notin aged THEN all
        ELSE IF with # {} THEN with ELSE forced

(* _score_batch times a factor that all candidates share, with the default *)
(* weights alpha = 0.5, beta = 0.1 and gamma = 1.0: the tokens, less the   *)
(* padding and the blocks it takes, and a bonus for the oldest request.    *)
Score(batch, p) ==
    LET tokens  == TokenSum(batch)
        longest == CHOOSE n \in {PromptLen[r] : r \in batch} :
                      \A r \in batch : PromptLen[r] <= n
        padding == longest * Cardinality(batch) - tokens
        blocks  == Larger(AvailableBlocks, 1)
        rho     == Controller!Aggregate(p, Controller!Sources)
        bonus   == IF waiting[1] \notin batch \/ scoring = "no_oldest_bonus"
                   THEN 0 ELSE 1
    IN  IF scoring = "bucket_only" THEN tokens
        ELSE blocks * Unit * (10 * tokens - 5 * padding)
             - (Unit + rho) * MaxTokensPerBatch * BlockSum(batch)
             + 10 * bonus * blocks * Unit * MaxTokensPerBatch

(* get_next_batch_and_pop: the best candidate, of equals the one of the    *)
(* lowest bucket; an empty batch if there is none.                         *)
BucketOf(batch) == Bucket(CHOOSE r \in batch : TRUE)
NextBatch(limits, p) ==
    LET C    == Candidates(limits)
        best == {S \in C : \A T \in C : Score(T, p) <= Score(S, p)}
    IN  IF C = {} THEN {}
        ELSE CHOOSE S \in best : \A T \in best : BucketOf(S) <= BucketOf(T)

-----------------------------------------------------------------------------
(* _step of the engine with this scheduler, up to its await *)
Dispatch(batch, bud) ==
    /\ waiting' = Remaining(waiting, batch)
    /\ onFly' = onFly + BlockSum(batch)
    /\ holding' = holding \cup batch
    /\ avail' = avail - BlockSum(batch)
    /\ pipeline' = Append(pipeline, batch)
    /\ awaiting' = (Len(pipeline) + 1 = PipelineSize)
    /\ aged' = aged \ batch
    /\ budget' = bud
    /\ UNCHANGED <<issued, unaccepted, bridge, done, policy, scoring, dynamic>>

CCStep ==
    /\ policy = "phase" /\ ~awaiting
    /\ \/ /\ waiting = <<>>
          /\ Dispatch({}, budget) /\ UNCHANGED updated
       \/ /\ waiting # <<>>
          /\ \E s \in Snapshots :
             \E p \in {CurrentPressures(s)} :
             \E bud \in {CurrentBudget(p)} :
             \E limits \in {Limits(bud)} :
             \E batch \in {NextBatch(limits, p)} : Dispatch(batch, bud)
          /\ updated' = TRUE

(* Time passes: the oldest of the requests that have not yet waited for    *)
(* dispatch_timeout_s now has.                                             *)
Age ==
    /\ policy = "phase"
    /\ \E i \in 1..Len(waiting) :
         /\ Prefix(i - 1) \subseteq aged /\ waiting[i] \notin aged
         /\ aged' = aged \cup {waiting[i]}
    /\ UNCHANGED <<vars, policy, scoring, dynamic, budget, updated>>

CCInit ==
    /\ Init
    /\ \/ policy = "fcfs" /\ scoring = "none" /\ dynamic = FALSE
       \/ /\ policy = "phase" /\ dynamic \in BOOLEAN
          /\ scoring \in ScoringModes
    /\ aged = {}
    /\ budget = [k \in Controller!Knobs |-> 0] /\ updated = FALSE

FCFSStep == policy = "fcfs" /\ Step /\ UNCHANGED ccVars
StageReturn == Return /\ UNCHANGED ccVars
Enqueue(r) == AddRequest(r) /\ UNCHANGED ccVars
Migrated(r) == ClearMigrated(r) /\ UNCHANGED ccVars

CCNext ==
    \/ FCFSStep \/ CCStep \/ StageReturn \/ Age
    \/ \E r \in Requests : Enqueue(r) \/ Migrated(r)

(* As in ContextStage, and a request that waits grows old. *)
CCSpec ==
    /\ CCInit /\ [][CCNext]_allVars
    /\ WF_allVars(FCFSStep \/ CCStep) /\ WF_allVars(StageReturn) /\ WF_allVars(Age)
    /\ \A r \in Requests : WF_allVars(Migrated(r))

-----------------------------------------------------------------------------
(* The order in which the aged are served.  Only the head of the queue is  *)
(* protected: once it has waited for the timeout, no batch goes without    *)
(* it.  Another aged request may be passed by younger ones, but only in a  *)
(* batch that takes an aged request from in front of it, whatever the      *)
(* lengths, budgets, pressures and scores are.                             *)
Position(r) == CHOOSE i \in 1..Len(waiting) : waiting[i] = r
PassedForOlder ==
    \A r \in aged \cap Waiting', s \in Waiting \ Waiting' :
        Position(r) < Position(s) =>
            \E q \in aged \ Waiting' : Position(q) < Position(r)
AgedYieldsToOlder == [][PassedForOlder]_allVars
=============================================================================
