------------------------- MODULE ContextStageProofs -------------------------
(***************************************************************************)
(* For every set of requests, prompt lengths, limits and pipeline depth,   *)
(* and with either scheduler: the scheduler's count of blocks and the      *)
(* block manager agree, so the allocation after get_next_batch_and_pop     *)
(* never fails, and no request is lost or duplicated between the queues.   *)
(* With the cost-compatible one, at any pressures, nothing behind a        *)
(* request that has waited long enough is preferred to it.                 *)
(*                                                                         *)
(* None of the invariants is inductive alone.  That an allocation fits     *)
(* follows from the limit the scheduler checks only if its counter is the  *)
(* sum over the requests in flight (BlockAccounting), and sums add up only *)
(* if no request is in two places (RequestConserved).  The inductive       *)
(* invariant is their conjunction.                                         *)
(*                                                                         *)
(* What liveness rests on is a fact about single steps: a round has one    *)
(* outcome, and an idle stage dispatches the head of its queue unless it   *)
(* fits no empty batch, in which case nothing behind it moves again.       *)
(***************************************************************************)
EXTENDS ContextCC, CommonLemmas

Inv ==
    /\ TypeOK
    /\ RequestConserved
    /\ BlockAccounting
    /\ NoAllocationFailure
    /\ BatchWithinLimits

-----------------------------------------------------------------------------
LEMMA BlocksNeededType == \A r \in Requests : BlocksNeeded[r] \in Nat
<1> SUFFICES ASSUME NEW r \in Requests PROVE BlocksNeeded[r] \in Nat
  OBVIOUS
<1>1. PromptLen[r] \in Nat /\ BlockSize \in Nat \ {0}
  BY ContextAssumption
<1>2. PromptLen[r] + BlockSize - 1 \in Nat
  BY <1>1
<1>3. (PromptLen[r] + BlockSize - 1) \div BlockSize \in Nat
  BY <1>1, <1>2
<1> QED BY <1>3 DEF BlocksNeeded

LEMMA RequestSets ==
    ASSUME NEW S \in SUBSET Requests
    PROVE  /\ IsFiniteSet(S)
           /\ Cardinality(S) \in Nat
           /\ BlockSum(S) \in Nat
           /\ TokenSum(S) \in Nat
<1>1. IsFiniteSet(S)
  BY ContextAssumption, FS_Subset
<1>2. \A r \in S : BlocksNeeded[r] \in Nat /\ PromptLen[r] \in Nat
  BY BlocksNeededType, ContextAssumption
<1> QED BY <1>1, <1>2, SumFinite, FS_CardinalityType DEF BlockSum, TokenSum

LEMMA BlockSumUnion ==
    ASSUME NEW S \in SUBSET Requests, NEW T \in SUBSET Requests, S \cap T = {}
    PROVE  BlockSum(S \cup T) = BlockSum(S) + BlockSum(T)
BY RequestSets, BlocksNeededType, SumUnion DEF BlockSum

LEMMA BlockSumDifference ==
    ASSUME NEW S \in SUBSET Requests, NEW T \in SUBSET S
    PROVE  BlockSum(S \ T) = BlockSum(S) - BlockSum(T)
BY RequestSets, BlocksNeededType, SumDifference DEF BlockSum

(* Adding one more request to a batch *)
LEMMA BatchGrows ==
    ASSUME NEW S \in SUBSET Requests, NEW r \in Requests, r \notin S
    PROVE  /\ BlockSum(S \cup {r}) = BlockSum(S) + BlocksNeeded[r]
           /\ TokenSum(S \cup {r}) = TokenSum(S) + PromptLen[r]
           /\ Cardinality(S \cup {r}) = Cardinality(S) + 1
<1>1. S \cap {r} = {} /\ {r} \in SUBSET Requests
  OBVIOUS
<1>2. BlockSum(S \cup {r}) = BlockSum(S) + BlockSum({r})
  BY <1>1, BlockSumUnion
<1>3. BlockSum({r}) = BlocksNeeded[r]
  BY BlocksNeededType, SumSingleton DEF BlockSum
<1>4. TokenSum(S \cup {r}) = TokenSum(S) + TokenSum({r})
  BY <1>1, RequestSets, ContextAssumption, SumUnion DEF TokenSum
<1>5. TokenSum({r}) = PromptLen[r]
  BY ContextAssumption, SumSingleton DEF TokenSum
<1>6. Cardinality(S \cup {r}) = Cardinality(S) + 1
  BY RequestSets, FS_AddElement
<1> QED BY <1>2, <1>3, <1>4, <1>5, <1>6

-----------------------------------------------------------------------------
(* The waiting queue and its prefixes *)
LEMMA PrefixFacts ==
    ASSUME waiting \in Seq(Requests),
           \A i, j \in 1..Len(waiting) : i # j => waiting[i] # waiting[j],
           NEW k \in 0..Len(waiting)
    PROVE  /\ Prefix(k) \subseteq Waiting
           /\ Waiting \subseteq Requests
           /\ k = 0 => Prefix(k) = {}
           /\ k > 0 => /\ waiting[k] \in Requests
                       /\ waiting[k] \notin Prefix(k - 1)
                       /\ Prefix(k) = Prefix(k - 1) \cup {waiting[k]}
BY DEF Prefix, Waiting

LEMMA QueueRest ==
    ASSUME waiting \in Seq(Requests),
           \A i, j \in 1..Len(waiting) : i # j => waiting[i] # waiting[j],
           NEW k \in 0..Len(waiting),
           waiting' = SubSeq(waiting, k + 1, Len(waiting))
    PROVE  /\ waiting' \in Seq(Requests)
           /\ \A i, j \in 1..Len(waiting') : i # j => waiting'[i] # waiting'[j]
           /\ Waiting' = Waiting \ Prefix(k)
<1>1. /\ waiting' \in Seq(Requests)
      /\ Len(waiting') = Len(waiting) - k
      /\ \A i \in 1..Len(waiting') : waiting'[i] = waiting[i + k]
  OBVIOUS
<1>2. \A i, j \in 1..Len(waiting') : i # j => waiting'[i] # waiting'[j]
  BY <1>1
<1>3. Waiting' = Waiting \ Prefix(k)
  <2>1. \A x : x \in Waiting' => x \in Waiting \ Prefix(k)
    BY <1>1 DEF Waiting, Prefix
  <2>2. ASSUME NEW x \in Waiting, x \notin Prefix(k)
        PROVE  x \in Waiting'
    <3>1. PICK i \in 1..Len(waiting) : x = waiting[i]
      BY DEF Waiting
    <3>2. i > k
      BY <2>2, <3>1 DEF Prefix
    <3>3. i - k \in 1..Len(waiting') /\ waiting'[i - k] = x
      BY <1>1, <3>1, <3>2
    <3> QED BY <3>3 DEF Waiting
  <2> QED BY <2>1, <2>2
<1> QED BY <1>1, <1>2, <1>3

(* What the three limits of _check_add_to_cur_batch give for the batch as  *)
(* a whole: the last request was added to a prefix that it still fitted.   *)
LEMMA NextBatchFits ==
    ASSUME TypeOK, RequestConserved, NEW k \in 0..Len(waiting), IsNextBatch(k)
    PROVE  /\ Cardinality(Prefix(k)) <= MaxBatchSize
           /\ TokenSum(Prefix(k)) <= MaxTokensPerBatch
           /\ \/ BlockSum(Prefix(k)) = 0
              \/ BlockSum(Prefix(k)) + BlockSum(unaccepted) + onFly <= MaxGpuBlocks
<1>1. CASE k = 0
  <2>1. Prefix(k) = {}
    BY <1>1 DEF Prefix
  <2>2. Cardinality({}) = 0 /\ BlockSum({}) = 0 /\ TokenSum({}) = 0
    BY FS_EmptySet, SumEmpty DEF BlockSum, TokenSum
  <2> QED BY <2>1, <2>2, ContextAssumption
<1>2. CASE k > 0
  <2> DEFINE P == Prefix(k - 1)
             r == waiting[k]
  <2>1. /\ P \in SUBSET Requests /\ r \in Requests /\ r \notin P
        /\ Prefix(k) = P \cup {r}
    <3>1. /\ Prefix(k - 1) \subseteq Waiting /\ Waiting \subseteq Requests
      BY <1>2, PrefixFacts DEF TypeOK, RequestConserved
    <3>2. /\ waiting[k] \in Requests /\ waiting[k] \notin Prefix(k - 1)
          /\ Prefix(k) = Prefix(k - 1) \cup {waiting[k]}
      BY <1>2, PrefixFacts DEF TypeOK, RequestConserved
    <3> QED BY <3>1, <3>2
  <2>2. FitsBatch(P, r)
    BY <1>2 DEF IsNextBatch
  <2> HIDE DEF P, r
  <2>3. /\ BlockSum(P \cup {r}) = BlockSum(P) + BlocksNeeded[r]
        /\ TokenSum(P \cup {r}) = TokenSum(P) + PromptLen[r]
        /\ Cardinality(P \cup {r}) = Cardinality(P) + 1
    BY <2>1, BatchGrows
  <2>4. /\ Cardinality(P) \in Nat /\ BlockSum(P) \in Nat /\ TokenSum(P) \in Nat
        /\ BlockSum(unaccepted) \in Nat
        /\ BlocksNeeded[r] \in Nat /\ PromptLen[r] \in Nat /\ onFly \in Int
    BY <2>1, RequestSets, BlocksNeededType, ContextAssumption DEF TypeOK
  <2> QED BY <2>1, <2>2, <2>3, <2>4, ContextAssumption DEF FitsBatch
<1> QED BY <1>1, <1>2

(* The pipeline when a batch enters and when the oldest one leaves *)
LEMMA PipelineAppend ==
    ASSUME pipeline \in Seq(SUBSET Requests), NEW S \in SUBSET Requests,
           pipeline' = Append(pipeline, S), InFlight \cap S = {},
           \A i, j \in 1..Len(pipeline) : i # j => pipeline[i] \cap pipeline[j] = {}
    PROVE  /\ pipeline' \in Seq(SUBSET Requests)
           /\ Len(pipeline') = Len(pipeline) + 1
           /\ InFlight' = InFlight \cup S
           /\ \A i, j \in 1..Len(pipeline') :
                i # j => pipeline'[i] \cap pipeline'[j] = {}
           /\ \A i \in 1..Len(pipeline') :
                \/ pipeline'[i] = S
                \/ i \in 1..Len(pipeline) /\ pipeline'[i] = pipeline[i]
<1>1. /\ Pooled(pipeline) = InFlight /\ Pooled(pipeline') = InFlight'
      /\ Apart(pipeline) /\ Pooled(pipeline) \cap S = {}
  BY DEF Pooled, Apart, InFlight
<1> DEFINE q == Append(pipeline, S)
<1>2. /\ q \in Seq(SUBSET Requests) /\ Len(q) = Len(pipeline) + 1
      /\ q[Len(pipeline) + 1] = S
      /\ \A i \in 1..Len(pipeline) : q[i] = pipeline[i]
  OBVIOUS
<1>3. Apart(q)
  BY <1>1, PooledAppend
<1>4. Pooled(q) = Pooled(pipeline) \cup S
  BY <1>1, PooledAppend
<1> HIDE DEF q
<1>5. pipeline' = q
  BY DEF q
<1>6. \A i \in 1..Len(q) : i \in 1..Len(pipeline) \/ i = Len(pipeline) + 1
  BY <1>2
<1>7. \A i \in 1..Len(q) : q[i] = S \/ (i \in 1..Len(pipeline) /\ q[i] = pipeline[i])
  BY <1>2, <1>6
<1>8. InFlight' = InFlight \cup S
  BY <1>1, <1>4, <1>5
<1> QED BY <1>2, <1>3, <1>5, <1>7, <1>8, Zenon DEF Apart

LEMMA PipelineTail ==
    ASSUME pipeline \in Seq(SUBSET Requests), pipeline # <<>>,
           pipeline' = Tail(pipeline),
           \A i, j \in 1..Len(pipeline) : i # j => pipeline[i] \cap pipeline[j] = {}
    PROVE  /\ Head(pipeline) \in SUBSET Requests
           /\ Head(pipeline) \subseteq InFlight
           /\ pipeline' \in Seq(SUBSET Requests)
           /\ Len(pipeline') = Len(pipeline) - 1
           /\ InFlight' = InFlight \ Head(pipeline)
           /\ \A i, j \in 1..Len(pipeline') :
                i # j => pipeline'[i] \cap pipeline'[j] = {}
           /\ \A i \in 1..Len(pipeline') :
                i + 1 \in 1..Len(pipeline) /\ pipeline'[i] = pipeline[i + 1]
<1>1. /\ Pooled(pipeline) = InFlight /\ Pooled(pipeline') = InFlight'
      /\ Apart(pipeline)
  BY DEF Pooled, Apart, InFlight
<1> DEFINE q == Tail(pipeline)
           n == Len(pipeline) - 1
<1>2. /\ Head(pipeline) \in SUBSET Requests /\ Head(pipeline) \subseteq Pooled(pipeline)
      /\ q \in Seq(SUBSET Requests) /\ Apart(q)
      /\ Len(q) = n
      /\ Pooled(q) = Pooled(pipeline) \ Head(pipeline)
      /\ \A i \in 1..n : q[i] = pipeline[i + 1]
  BY <1>1, PooledTail
<1>3. Len(pipeline) \in Nat /\ n = Len(pipeline) - 1
  OBVIOUS
<1> HIDE DEF q, n
<1>4. pipeline' = q
  BY DEF q
<1>5. \A i \in 1..n : i + 1 \in 1..Len(pipeline)
  BY <1>3
<1>6. \A i, j \in 1..Len(q) : i # j => q[i] \cap q[j] = {}
  BY <1>2, Zenon DEF Apart
<1>7. \A i \in 1..Len(q) : i + 1 \in 1..Len(pipeline) /\ q[i] = pipeline[i + 1]
  BY <1>2, <1>5
<1> QED BY <1>1, <1>2, <1>3, <1>4, <1>6, <1>7

-----------------------------------------------------------------------------
LEMMA InitInv == Init => Inv
<1>1. SUFFICES ASSUME Init PROVE Inv
  OBVIOUS
<1>2. TypeOK
  <2>1. /\ waiting \in Seq(Requests)
        /\ pipeline \in Seq(SUBSET Requests) /\ Len(pipeline) = 0
    BY <1>1 DEF Init
  <2>2. Len(pipeline) <= PipelineSize /\ Len(pipeline) # PipelineSize
    BY <2>1, ContextAssumption
  <2>3. awaiting \in BOOLEAN /\ ~awaiting
    BY <1>1 DEF Init
  <2>4. onFly \in Int /\ avail \in Int
    BY <1>1, ContextAssumption DEF Init
  <2>5. /\ issued = {} /\ unaccepted = {} /\ holding = {}
        /\ bridge = {} /\ done = {}
    BY <1>1 DEF Init
  <2> QED BY <2>1, <2>2, <2>3, <2>4, <2>5 DEF TypeOK
<1>3. Waiting = {} /\ InFlight = {}
  BY <1>1 DEF Init, Waiting, InFlight
<1>4. RequestConserved
  BY <1>1, <1>3 DEF Init, RequestConserved
<1>5. BlockSum({}) = 0
  BY SumEmpty DEF BlockSum
<1>6. BlockAccounting
  BY <1>1, <1>3, <1>5, ContextAssumption DEF Init, BlockAccounting
<1>7. NoAllocationFailure /\ BatchWithinLimits
  BY <1>1, ContextAssumption DEF Init, NoAllocationFailure, BatchWithinLimits
<1> QED BY <1>2, <1>4, <1>6, <1>7 DEF Inv

LEMMA AddRequestInv ==
    ASSUME Inv, NEW r \in Requests, AddRequest(r)
    PROVE  Inv'
<1>1. /\ waiting \in Seq(Requests)
      /\ r \notin issued
      /\ waiting' = Append(waiting, r) /\ issued' = issued \cup {r}
      /\ UNCHANGED <<unaccepted, onFly, pipeline, awaiting, holding, avail,
                     bridge, done>>
  BY DEF AddRequest, Inv, TypeOK
<1>2. /\ waiting' \in Seq(Requests)
      /\ Len(waiting') = Len(waiting) + 1
      /\ waiting'[Len(waiting) + 1] = r
      /\ \A i \in 1..Len(waiting) : waiting'[i] = waiting[i]
  BY <1>1
<1>3. Waiting' = Waiting \cup {r}
  BY <1>2 DEF Waiting
<1>4. InFlight' = InFlight
  BY <1>1 DEF InFlight
<1>5. \A i, j \in 1..Len(waiting') : i # j => waiting'[i] # waiting'[j]
  <2>1. \A i \in 1..Len(waiting) : waiting[i] # r
    BY <1>1 DEF Inv, RequestConserved, Waiting
  <2> QED BY <1>2, <2>1 DEF Inv, RequestConserved
<1>6. TypeOK'
  BY <1>1, <1>2 DEF Inv, TypeOK
<1>7. RequestConserved'
  BY <1>1, <1>3, <1>4, <1>5 DEF Inv, RequestConserved
<1>8. BlockAccounting'
  BY <1>1, <1>4 DEF Inv, BlockAccounting, BlockSum
<1>9. NoAllocationFailure' /\ BatchWithinLimits'
  BY <1>1 DEF Inv, NoAllocationFailure, BatchWithinLimits, TokenSum
<1> QED BY <1>6, <1>7, <1>8, <1>9 DEF Inv

(* Dispatching a batch, whoever chose it.  The room for it: what is held   *)
(* now is what is in flight plus what is unaccepted, and the limit counted *)
(* exactly that.                                                           *)
FitsNow(S) ==
    /\ Cardinality(S) <= MaxBatchSize
    /\ TokenSum(S) <= MaxTokensPerBatch
    /\ \/ BlockSum(S) = 0
       \/ BlockSum(S) + BlockSum(unaccepted) + onFly <= MaxGpuBlocks

LEMMA DispatchInv ==
    ASSUME Inv, NEW S, S \subseteq Waiting, FitsNow(S), ~awaiting,
           waiting' \in Seq(Requests), Waiting' = Waiting \ S,
           \A i, j \in 1..Len(waiting') : i # j => waiting'[i] # waiting'[j],
           onFly' = onFly + BlockSum(S),
           holding' = holding \cup S,
           avail' = avail - BlockSum(S),
           pipeline' = Append(pipeline, S),
           awaiting' = (Len(pipeline) + 1 = PipelineSize),
           UNCHANGED <<issued, unaccepted, bridge, done>>
    PROVE  Inv'
<1>1. /\ onFly' = onFly + BlockSum(S)
      /\ holding' = holding \cup S
      /\ avail' = avail - BlockSum(S)
      /\ pipeline' = Append(pipeline, S)
  OBVIOUS
<1>2. /\ ~awaiting
      /\ awaiting' = (Len(pipeline) + 1 = PipelineSize)
      /\ UNCHANGED <<issued, unaccepted, bridge, done>>
  OBVIOUS
<1>3. /\ waiting' \in Seq(Requests)
      /\ \A i, j \in 1..Len(waiting') : i # j => waiting'[i] # waiting'[j]
      /\ Waiting' = Waiting \ S
  OBVIOUS
<1>4. S \subseteq Waiting /\ Waiting \subseteq Requests
  BY DEF Inv, TypeOK, Waiting
<1>5. /\ pipeline' \in Seq(SUBSET Requests)
      /\ Len(pipeline') = Len(pipeline) + 1
      /\ InFlight' = InFlight \cup S
      /\ \A i, j \in 1..Len(pipeline') :
           i # j => pipeline'[i] \cap pipeline'[j] = {}
      /\ \A i \in 1..Len(pipeline') :
           \/ pipeline'[i] = S
           \/ i \in 1..Len(pipeline) /\ pipeline'[i] = pipeline[i]
  <2>1. /\ pipeline \in Seq(SUBSET Requests) /\ S \in SUBSET Requests
        /\ pipeline' = Append(pipeline, S) /\ InFlight \cap S = {}
        /\ \A i, j \in 1..Len(pipeline) :
             i # j => pipeline[i] \cap pipeline[j] = {}
    BY <1>1, <1>4 DEF Inv, TypeOK, RequestConserved
  <2> QED BY <2>1, PipelineAppend
<1>6. /\ Cardinality(S) <= MaxBatchSize
      /\ TokenSum(S) <= MaxTokensPerBatch
      /\ \/ BlockSum(S) = 0
         \/ BlockSum(S) + BlockSum(unaccepted) + onFly <= MaxGpuBlocks
  BY DEF FitsNow
<1>7. /\ InFlight \subseteq Requests /\ unaccepted \subseteq Requests
      /\ InFlight \cap unaccepted = {} /\ InFlight \cap S = {}
      /\ holding \cap S = {} /\ holding \subseteq Requests
  BY <1>4 DEF Inv, TypeOK, RequestConserved, BlockAccounting, InFlight
<1>8. /\ BlockSum(InFlight \cup S) = BlockSum(InFlight) + BlockSum(S)
      /\ BlockSum(holding \cup S) = BlockSum(holding) + BlockSum(S)
      /\ BlockSum(InFlight \cup unaccepted) = BlockSum(InFlight) + BlockSum(unaccepted)
  BY <1>4, <1>7, BlockSumUnion
<1>9. /\ BlockSum(S) \in Nat /\ BlockSum(InFlight) \in Nat
      /\ BlockSum(unaccepted) \in Nat /\ BlockSum(holding) \in Nat
  BY <1>4, <1>7, RequestSets
<1>10. TypeOK'
  <2>1. Len(pipeline) + 1 <= PipelineSize
    BY <1>2, ContextAssumption DEF Inv, TypeOK
  <2>2. onFly' \in Int /\ avail' \in Int
    BY <1>1, <1>9 DEF Inv, TypeOK
  <2>3. holding' \subseteq Requests
    BY <1>1, <1>4, <1>7
  <2> QED BY <1>2, <1>3, <1>5, <2>1, <2>2, <2>3 DEF Inv, TypeOK
<1>11. RequestConserved'
  BY <1>2, <1>3, <1>4, <1>5 DEF Inv, RequestConserved
<1>12. BlockAccounting'
  <2>1. /\ onFly' = onFly + BlockSum(S) /\ avail' = avail - BlockSum(S)
        /\ holding' = holding \cup S
    BY <1>1
  <2>2. holding' = InFlight' \cup unaccepted' /\ bridge' = unaccepted'
    BY <1>2, <1>5, <2>1 DEF Inv, BlockAccounting
  <2>3. onFly' = BlockSum(InFlight)'
    <3>1. BlockSum(InFlight)' = BlockSum(InFlight \cup S)
      BY <1>5 DEF BlockSum
    <3> QED BY <1>8, <2>1, <3>1 DEF Inv, BlockAccounting
  <2>4. avail' = MaxGpuBlocks - BlockSum(holding)'
    <3>1. BlockSum(holding)' = BlockSum(holding \cup S)
      BY <2>1 DEF BlockSum
    <3> QED BY <1>8, <1>9, <2>1, <3>1, ContextAssumption DEF Inv, BlockAccounting
  <2> QED BY <2>2, <2>3, <2>4 DEF BlockAccounting
<1>13. NoAllocationFailure'
  <2>1. avail' = avail - BlockSum(S)
    BY <1>1
  <2>2. avail = MaxGpuBlocks - BlockSum(holding) /\ onFly = BlockSum(InFlight)
    BY DEF Inv, BlockAccounting
  <2>3. BlockSum(holding) = BlockSum(InFlight) + BlockSum(unaccepted)
    BY <1>8 DEF Inv, BlockAccounting
  <2>4. avail >= 0 /\ MaxGpuBlocks \in Nat
    BY ContextAssumption DEF Inv, NoAllocationFailure
  <2>5. CASE BlockSum(S) = 0
    BY <2>1, <2>2, <1>9, <2>4, <2>5 DEF NoAllocationFailure
  <2>6. CASE BlockSum(S) + BlockSum(unaccepted) + onFly <= MaxGpuBlocks
    BY <1>9, <2>1, <2>2, <2>3, <2>4, <2>6 DEF NoAllocationFailure
  <2> QED BY <1>6, <2>5, <2>6
<1>14. BatchWithinLimits'
  <2> SUFFICES ASSUME NEW i \in 1..Len(pipeline')
               PROVE  /\ Cardinality(pipeline'[i]) <= MaxBatchSize
                      /\ TokenSum(pipeline'[i]) <= MaxTokensPerBatch
    BY DEF BatchWithinLimits, TokenSum
  <2> QED BY <1>5, <1>6 DEF Inv, BatchWithinLimits
<1> QED BY <1>10, <1>11, <1>12, <1>13, <1>14 DEF Inv

LEMMA StepInv ==
    ASSUME Inv, Step
    PROVE  Inv'
<1>1. PICK k \in 0..Len(waiting) :
         /\ IsNextBatch(k)
         /\ waiting' = SubSeq(waiting, k + 1, Len(waiting))
         /\ onFly' = onFly + BlockSum(Prefix(k))
         /\ holding' = holding \cup Prefix(k)
         /\ avail' = avail - BlockSum(Prefix(k))
         /\ pipeline' = Append(pipeline, Prefix(k))
  BY DEF Step
<1>2. /\ ~awaiting
      /\ awaiting' = (Len(pipeline) + 1 = PipelineSize)
      /\ UNCHANGED <<issued, unaccepted, bridge, done>>
  BY DEF Step
<1> DEFINE S == Prefix(k)
<1>3. /\ waiting' \in Seq(Requests)
      /\ \A i, j \in 1..Len(waiting') : i # j => waiting'[i] # waiting'[j]
      /\ Waiting' = Waiting \ S
  BY <1>1, QueueRest DEF Inv, TypeOK, RequestConserved
<1>4. S \subseteq Waiting
  BY <1>1, PrefixFacts DEF Inv, TypeOK, RequestConserved
<1>5. FitsNow(S)
  BY <1>1, NextBatchFits DEF Inv, FitsNow
<1>6. /\ onFly' = onFly + BlockSum(S) /\ holding' = holding \cup S
      /\ avail' = avail - BlockSum(S) /\ pipeline' = Append(pipeline, S)
  BY <1>1
<1> HIDE DEF S
<1> QED BY <1>2, <1>3, <1>4, <1>5, <1>6, DispatchInv

(* The oldest batch returns. *)
LEMMA ReturnInv ==
    ASSUME Inv, Return
    PROVE  Inv'
<1> DEFINE S == Head(pipeline)
<1>1. PICK F \in SUBSET S :
         /\ unaccepted' = unaccepted \cup (S \ F)
         /\ onFly' = onFly - BlockSum(S)
         /\ bridge' = bridge \cup (S \ F)
         /\ holding' = holding \ F
         /\ avail' = avail + BlockSum(F)
         /\ done' = done \cup F
  BY DEF Return
<1>2. /\ awaiting /\ awaiting' = FALSE
      /\ pipeline' = Tail(pipeline)
      /\ UNCHANGED <<issued, waiting>>
  BY DEF Return
<1>3. pipeline \in Seq(SUBSET Requests) /\ pipeline # <<>>
  BY <1>2, ContextAssumption DEF Inv, TypeOK
<1>4. /\ S \in SUBSET Requests /\ S \subseteq InFlight
      /\ pipeline' \in Seq(SUBSET Requests)
      /\ Len(pipeline') = Len(pipeline) - 1
      /\ InFlight' = InFlight \ S
      /\ \A i, j \in 1..Len(pipeline') :
           i # j => pipeline'[i] \cap pipeline'[j] = {}
      /\ \A i \in 1..Len(pipeline') :
           i + 1 \in 1..Len(pipeline) /\ pipeline'[i] = pipeline[i + 1]
  BY <1>2, <1>3, PipelineTail DEF Inv, RequestConserved
<1>5. Waiting' = Waiting
  BY <1>2 DEF Waiting
<1>6. /\ InFlight \subseteq Requests /\ InFlight \subseteq holding
      /\ InFlight \cap unaccepted = {} /\ holding \subseteq Requests
  BY DEF Inv, TypeOK, RequestConserved, BlockAccounting, InFlight
<1> HIDE DEF S
<1>7. /\ BlockSum(InFlight \ S) = BlockSum(InFlight) - BlockSum(S)
      /\ BlockSum(holding \ F) = BlockSum(holding) - BlockSum(F)
  BY <1>1, <1>4, <1>6, BlockSumDifference
<1>8. /\ BlockSum(S) \in Nat /\ BlockSum(F) \in Nat
      /\ BlockSum(InFlight) \in Nat /\ BlockSum(holding) \in Nat
  BY <1>1, <1>4, <1>6, RequestSets
<1>9. TypeOK'
  <2>1. Len(pipeline') <= PipelineSize /\ Len(pipeline') # PipelineSize
    BY <1>3, <1>4, ContextAssumption DEF Inv, TypeOK
  <2>2. onFly' \in Int /\ avail' \in Int
    BY <1>1, <1>8 DEF Inv, TypeOK
  <2> QED BY <1>1, <1>2, <1>4, <2>1, <2>2 DEF Inv, TypeOK
<1>10. RequestConserved'
  BY <1>1, <1>2, <1>4, <1>5 DEF Inv, RequestConserved
<1>11. BlockAccounting'
  <2>1. holding' = InFlight' \cup unaccepted' /\ bridge' = unaccepted'
    BY <1>1, <1>4, <1>6 DEF Inv, BlockAccounting
  <2>2. onFly' = BlockSum(InFlight)'
    <3>1. BlockSum(InFlight)' = BlockSum(InFlight \ S)
      BY <1>4 DEF BlockSum
    <3> QED BY <1>1, <1>7, <1>8, <3>1 DEF Inv, BlockAccounting
  <2>3. avail' = MaxGpuBlocks - BlockSum(holding)'
    <3>1. BlockSum(holding)' = BlockSum(holding \ F)
      BY <1>1 DEF BlockSum
    <3> QED BY <1>1, <1>7, <1>8, <3>1, ContextAssumption DEF Inv, BlockAccounting
  <2> QED BY <2>1, <2>2, <2>3 DEF BlockAccounting
<1>12. NoAllocationFailure'
  BY <1>1, <1>8 DEF Inv, TypeOK, NoAllocationFailure
<1>13. BatchWithinLimits'
  BY <1>4 DEF Inv, BatchWithinLimits, TokenSum
<1> QED BY <1>9, <1>10, <1>11, <1>12, <1>13 DEF Inv

(* The decoding stage has taken r over. *)
LEMMA ClearMigratedInv ==
    ASSUME Inv, NEW r \in Requests, ClearMigrated(r)
    PROVE  Inv'
<1>1. /\ r \in bridge
      /\ bridge' = bridge \ {r}
      /\ holding' = holding \ {r}
      /\ avail' = avail + BlocksNeeded[r]
      /\ unaccepted' = unaccepted \ {r}
      /\ done' = done \cup {r}
      /\ UNCHANGED <<issued, waiting, onFly, pipeline, awaiting>>
  BY DEF ClearMigrated
<1>2. Waiting' = Waiting /\ InFlight' = InFlight
  BY <1>1 DEF Waiting, InFlight
<1>3. /\ r \in unaccepted /\ r \in holding /\ holding \subseteq Requests
      /\ r \notin InFlight
  BY <1>1 DEF Inv, TypeOK, RequestConserved, BlockAccounting
<1>4. /\ BlockSum(holding \ {r}) = BlockSum(holding) - BlockSum({r})
      /\ BlockSum({r}) = BlocksNeeded[r]
  BY <1>3, BlockSumDifference, BlocksNeededType, SumSingleton DEF BlockSum
<1>5. BlocksNeeded[r] \in Nat /\ BlockSum(holding) \in Nat
  BY <1>3, BlocksNeededType, RequestSets
<1>6. TypeOK'
  BY <1>1, <1>5 DEF Inv, TypeOK
<1>7. RequestConserved'
  BY <1>1, <1>2, <1>3 DEF Inv, RequestConserved
<1>8. BlockAccounting'
  <2>1. BlockSum(InFlight)' = BlockSum(InFlight) /\ BlockSum(holding)' = BlockSum(holding \ {r})
    BY <1>1, <1>2 DEF BlockSum
  <2> QED BY <1>1, <1>2, <1>3, <1>4, <1>5, <2>1, ContextAssumption
         DEF Inv, BlockAccounting
<1>9. NoAllocationFailure' /\ BatchWithinLimits'
  BY <1>1, <1>5 DEF Inv, TypeOK, NoAllocationFailure, BatchWithinLimits, TokenSum
<1> QED BY <1>6, <1>7, <1>8, <1>9 DEF Inv

LEMMA NextInv ==
    ASSUME Inv, [Next]_vars
    PROVE  Inv'
<1>1. CASE Step
  BY <1>1, StepInv
<1>2. CASE Return
  BY <1>2, ReturnInv
<1>3. ASSUME NEW r \in Requests, AddRequest(r)
      PROVE  Inv'
  BY <1>3, AddRequestInv
<1>4. ASSUME NEW r \in Requests, ClearMigrated(r)
      PROVE  Inv'
  BY <1>4, ClearMigratedInv
<1>5. CASE UNCHANGED vars
  BY <1>5 DEF vars, Inv, TypeOK, RequestConserved, BlockAccounting, Waiting,
              InFlight, NoAllocationFailure, BatchWithinLimits, BlockSum, TokenSum
<1> QED BY <1>1, <1>2, <1>3, <1>4, <1>5 DEF Next

LEMMA InvAlways == Spec => []Inv
BY InitInv, NextInv, PTL DEF Spec

-----------------------------------------------------------------------------
(* Every reachable state has the types of TypeOK. *)
THEOREM TypeCorrect == Spec => []TypeOK
BY InvAlways, PTL DEF Inv

(* No request is dispatched twice, dropped, or in two queues at once.      *)
THEOREM ConservationCorrect == Spec => []RequestConserved
BY InvAlways, PTL DEF Inv

(* num_on_fly_request_block and the unaccepted queue count exactly what    *)
(* the block manager has handed out, however returns and migrations        *)
(* interleave.                                                             *)
THEOREM AccountingCorrect == Spec => []BlockAccounting
BY InvAlways, PTL DEF Inv

(* allocate_blocks_batched in the context engine never raises.             *)
THEOREM AllocationNeverFails == Spec => []NoAllocationFailure
BY InvAlways, PTL DEF Inv

(* Batches in the pipeline keep to max_batch_size and                      *)
(* max_tokens_per_batch.                                                   *)
THEOREM BatchLimitsCorrect == Spec => []BatchWithinLimits
BY InvAlways, PTL DEF Inv

-----------------------------------------------------------------------------
(* One round of get_next_batch_and_pop always ends, and in one way only:   *)
(* the loop never leaves the event loop without a batch to push, nor is    *)
(* there a choice in it that the code would not have.                      *)
OneBatchPerRound ==
    \E k \in 0..Len(waiting) :
        IsNextBatch(k) /\ \A j \in 0..Len(waiting) : IsNextBatch(j) => j = k

LEMMA LoopEnds ==
    ASSUME waiting \in Seq(Requests)
    PROVE  OneBatchPerRound
<1> DEFINE n == Len(waiting)
           stops == {k \in 0..n : k < n => ~FitsBatch(Prefix(k), waiting[k + 1])}
<1>1. n \in Nat
  OBVIOUS
<1>2. n \in stops /\ stops \subseteq Nat
  BY <1>1
<1>3. PICK k \in stops : \A j \in stops : k <= j
  BY <1>2, LeastNatural
<1>4. \A i \in 1..k : FitsBatch(Prefix(i - 1), waiting[i])
  <2> SUFFICES ASSUME NEW i \in 1..k PROVE FitsBatch(Prefix(i - 1), waiting[i])
    OBVIOUS
  <2>1. i - 1 \in 0..n /\ i - 1 < k /\ i - 1 < n /\ (i - 1) + 1 = i
    BY <1>1, <1>3
  <2>2. i - 1 \notin stops
    BY <1>3, <2>1
  <2> QED BY <2>1, <2>2
<1>5. k \in 0..n /\ IsNextBatch(k)
  BY <1>3, <1>4 DEF IsNextBatch
<1>6. ASSUME NEW j \in 0..n, IsNextBatch(j)
      PROVE  j = k
  <2>1. CASE j < k
    BY <1>5, <1>6, <2>1, <1>1, j + 1 \in 1..k, (j + 1) - 1 = j DEF IsNextBatch
  <2>2. CASE k < j
    BY <1>5, <1>6, <2>2, <1>1, k + 1 \in 1..j, (k + 1) - 1 = k DEF IsNextBatch
  <2> QED BY <1>1, <1>5, <1>6, <2>1, <2>2
<1> QED BY <1>5, <1>6 DEF OneBatchPerRound

(* Every round has exactly one outcome, in every reachable state: _step    *)
(* always gets to its await or to the next iteration.                      *)
THEOREM RoundDetermined == Spec => []OneBatchPerRound
<1>1. Inv => OneBatchPerRound
  BY LoopEnds DEF Inv, TypeOK
<1> QED BY <1>1, InvAlways, PTL

(* The head of the queue decides over the progress of the stage.  One that *)
(* fits an empty batch is dispatched at the latest when nothing else is in *)
(* flight or waits for the decoding stage: no other limit holds it back.   *)
FitsAlone(r) ==
    /\ MaxBatchSize > 0
    /\ PromptLen[r] <= MaxTokensPerBatch
    /\ BlocksNeeded[r] <= MaxGpuBlocks
IdleStageDispatches ==
    Step /\ waiting # <<>> /\ FitsAlone(Head(waiting)) /\ InFlight \cup unaccepted = {}
        => Head(waiting) \in InFlight'

(* One that does not fit, which add_request does not refuse, stays at the  *)
(* head for ever, and so does every request behind it.                     *)
OversizedHeadBlocks ==
    waiting # <<>> /\ ~FitsAlone(Head(waiting)) =>
        /\ InFlight' \subseteq InFlight
        /\ Len(waiting') >= Len(waiting)
        /\ \A i \in 1..Len(waiting) : waiting'[i] = waiting[i]

(* No request is dispatched before one that was issued earlier. *)
ServedInTurn ==
    \A i, j \in 1..Len(waiting) :
        i < j /\ waiting[j] \notin Waiting' => waiting[i] \notin Waiting'

LEMMA HeadAlone ==
    ASSUME Inv, waiting # <<>>
    PROVE  /\ Head(waiting) = waiting[1] /\ 1 \in 1..Len(waiting)
           /\ InFlight \cup unaccepted = {} =>
                (FitsBatch(Prefix(0), waiting[1]) <=> FitsAlone(waiting[1]))
           /\ ~FitsAlone(waiting[1]) => ~FitsBatch(Prefix(0), waiting[1])
<1>1. waiting \in Seq(Requests) /\ unaccepted \in SUBSET Requests /\ onFly = BlockSum(InFlight)
  BY DEF Inv, TypeOK, BlockAccounting
<1>2. Head(waiting) = waiting[1] /\ 1 \in 1..Len(waiting) /\ waiting[1] \in Requests
  BY <1>1
<1>3. InFlight \in SUBSET Requests
  BY DEF Inv, TypeOK, InFlight
<1>4. Prefix(0) = {}
  BY DEF Prefix
<1>5. Cardinality({}) = 0 /\ BlockSum({}) = 0 /\ TokenSum({}) = 0
  BY FS_EmptySet, SumEmpty DEF BlockSum, TokenSum
<1> DEFINE r == waiting[1]
           w == BlockSum(unaccepted)
           f == BlockSum(InFlight)
<1>6. w \in Nat /\ f \in Nat
  BY <1>1, <1>3, RequestSets
<1>7. BlocksNeeded[r] \in Nat /\ PromptLen[r] \in Nat
      /\ MaxBatchSize \in Nat /\ MaxTokensPerBatch \in Nat /\ MaxGpuBlocks \in Nat
  BY <1>2, BlocksNeededType, ContextAssumption
<1>8. FitsBatch(Prefix(0), r) <=> /\ 0 < MaxBatchSize
                                  /\ 0 + PromptLen[r] <= MaxTokensPerBatch
                                  /\ 0 + BlocksNeeded[r] + w + f <= MaxGpuBlocks
  BY <1>1, <1>4, <1>5 DEF FitsBatch
<1>9. InFlight \cup unaccepted = {} => w = 0 /\ f = 0
  BY <1>5
<1> HIDE DEF r, w, f
<1>10. /\ InFlight \cup unaccepted = {} => (FitsBatch(Prefix(0), r) <=> FitsAlone(r))
       /\ ~FitsAlone(r) => ~FitsBatch(Prefix(0), r)
  BY <1>6, <1>7, <1>8, <1>9 DEF FitsAlone
<1> QED BY <1>2, <1>10 DEF r

LEMMA StepHead ==
    ASSUME Inv, Step
    PROVE  IdleStageDispatches /\ OversizedHeadBlocks /\ ServedInTurn
<1>1. PICK k \in 0..Len(waiting) :
         /\ IsNextBatch(k)
         /\ waiting' = SubSeq(waiting, k + 1, Len(waiting))
         /\ pipeline' = Append(pipeline, Prefix(k))
  BY DEF Step
<1>2. /\ waiting \in Seq(Requests) /\ pipeline \in Seq(SUBSET Requests)
      /\ \A i, j \in 1..Len(waiting) : i # j => waiting[i] # waiting[j]
  BY DEF Inv, TypeOK, RequestConserved
<1>3. Prefix(k) \in SUBSET Requests /\ InFlight \cap Prefix(k) = {}
  BY <1>1, <1>2, PrefixFacts DEF Inv, RequestConserved
<1>4. InFlight' = InFlight \cup Prefix(k)
  BY <1>1, <1>2, <1>3, PipelineAppend DEF Inv, RequestConserved
<1>5. Waiting' = Waiting \ Prefix(k)
  BY <1>1, <1>2, QueueRest
<1>6. IdleStageDispatches
  <2> SUFFICES ASSUME waiting # <<>>, FitsAlone(Head(waiting)), InFlight \cup unaccepted = {}
               PROVE  Head(waiting) \in InFlight'
    BY DEF IdleStageDispatches
  <2>1. /\ Head(waiting) = waiting[1] /\ 1 \in 1..Len(waiting)
        /\ FitsBatch(Prefix(0), waiting[1])
    BY HeadAlone
  <2>2. k # 0
    BY <1>1, <2>1 DEF IsNextBatch
  <2>3. waiting[1] \in Prefix(k)
    BY <1>1, <2>2, 1 \in 1..k DEF Prefix
  <2> QED BY <1>4, <2>1, <2>3
<1>7. OversizedHeadBlocks
  <2> SUFFICES ASSUME waiting # <<>>, ~FitsAlone(Head(waiting))
               PROVE  /\ InFlight' \subseteq InFlight
                      /\ Len(waiting') >= Len(waiting)
                      /\ \A i \in 1..Len(waiting) : waiting'[i] = waiting[i]
    BY DEF OversizedHeadBlocks
  <2>1. ~FitsBatch(Prefix(0), waiting[1])
    BY HeadAlone
  <2>2. k = 0
    BY <1>1, <2>1, k > 0 => 1 \in 1..k, 1 - 1 = 0 DEF IsNextBatch
  <2>3. Prefix(k) = {}
    BY <2>2 DEF Prefix
  <2>4. waiting' = waiting
    BY <1>1, <1>2, <2>2
  <2> QED BY <1>2, <1>4, <2>3, <2>4
<1>8. ServedInTurn
  <2> SUFFICES ASSUME NEW i \in 1..Len(waiting), NEW j \in 1..Len(waiting), i < j,
                      waiting[j] \notin Waiting'
               PROVE  waiting[i] \notin Waiting'
    BY DEF ServedInTurn
  <2>1. waiting[j] \in Prefix(k)
    BY <1>5 DEF Waiting
  <2>2. PICK l \in 1..k : waiting[j] = waiting[l]
    BY <2>1 DEF Prefix
  <2>3. j = l
    BY <1>1, <1>2, <2>2
  <2>4. waiting[i] \in Prefix(k)
    BY <2>2, <2>3 DEF Prefix
  <2> QED BY <1>5, <2>4
<1> QED BY <1>6, <1>7, <1>8

LEMMA QueueKept ==
    ASSUME Inv, InFlight' \subseteq InFlight, ~Step,
           \/ waiting' = waiting
           \/ \E r \in Requests : waiting' = Append(waiting, r)
    PROVE  IdleStageDispatches /\ OversizedHeadBlocks /\ ServedInTurn
<1>1. waiting \in Seq(Requests)
  BY DEF Inv, TypeOK
<1>2. Len(waiting') >= Len(waiting) /\ \A i \in 1..Len(waiting) : waiting'[i] = waiting[i]
  BY <1>1
<1>3. \A i \in 1..Len(waiting) : waiting[i] \in Waiting'
  <2> SUFFICES ASSUME NEW i \in 1..Len(waiting) PROVE waiting[i] \in Waiting'
    OBVIOUS
  <2>1. i \in 1..Len(waiting') /\ waiting'[i] = waiting[i]
    BY <1>1, <1>2
  <2> QED BY <2>1 DEF Waiting
<1> QED BY <1>2, <1>3 DEF IdleStageDispatches, OversizedHeadBlocks, ServedInTurn

LEMMA NextHead ==
    ASSUME Inv, [Next]_vars
    PROVE  IdleStageDispatches /\ OversizedHeadBlocks /\ ServedInTurn
<1>1. CASE Step
  BY <1>1, StepHead
<1>2. CASE ~Step /\ Return
  <2>1. pipeline \in Seq(SUBSET Requests) /\ pipeline # <<>>
    BY <1>2, ContextAssumption DEF Inv, TypeOK, Return
  <2>2. pipeline' = Tail(pipeline) /\ waiting' = waiting
    BY <1>2 DEF Return
  <2>3. InFlight' \subseteq InFlight
    BY <2>1, <2>2, PipelineTail DEF Inv, RequestConserved
  <2> QED BY <1>2, <2>2, <2>3, QueueKept
<1>3. ASSUME ~Step, NEW r \in Requests, AddRequest(r) \/ ClearMigrated(r)
      PROVE  IdleStageDispatches /\ OversizedHeadBlocks /\ ServedInTurn
  <2>1. InFlight' = InFlight /\ (waiting' = waiting \/ waiting' = Append(waiting, r))
    BY <1>3 DEF AddRequest, ClearMigrated, InFlight
  <2> QED BY <1>3, <2>1, QueueKept
<1>4. CASE ~Step /\ UNCHANGED vars
  <2>1. InFlight' = InFlight /\ waiting' = waiting
    BY <1>4 DEF vars, InFlight
  <2> QED BY <1>4, <2>1, QueueKept
<1> QED BY <1>1, <1>2, <1>3, <1>4 DEF Next

(* The scheduler is first-come first-served: it passes nobody over, an     *)
(* idle stage always dispatches a head that fits, and a head that cannot   *)
(* fit stops the stage.                                                    *)
THEOREM IdleStageAdvances == Spec => [][IdleStageDispatches]_vars
<1>1. Inv /\ [Next]_vars => [IdleStageDispatches]_vars
  BY NextHead
<1> QED BY <1>1, InvAlways, PTL DEF Spec

THEOREM OversizedPromptStops == Spec => [][OversizedHeadBlocks]_vars
<1>1. Inv /\ [Next]_vars => [OversizedHeadBlocks]_vars
  BY NextHead
<1> QED BY <1>1, InvAlways, PTL DEF Spec

THEOREM FirstComeFirstServed == Spec => [][ServedInTurn]_vars
<1>1. Inv /\ [Next]_vars => [ServedInTurn]_vars
  BY NextHead
<1> QED BY <1>1, InvAlways, PTL DEF Spec

-----------------------------------------------------------------------------
(* The cost-compatible scheduler.  It chooses another batch, which is all  *)
(* that DispatchInv leaves open; what has to be shown is that there is one *)
(* that it chooses, and that it fits.                                      *)
LEMMA AggregateIsPressure ==
    ASSUME NEW p, \A k \in Controller!Sources : p[k] \in 0..Unit,
           NEW keys \in SUBSET Controller!Sources, keys # {}
    PROVE  Controller!Aggregate(p, keys) \in 0..Unit
<1>1. Controller!Sources = {"bridge", "decode", "kv", "swap"}
  BY DEF Controller!Sources
<1>2. IsFiniteSet(keys)
  <2>1. IsFiniteSet({"bridge", "decode", "kv", "swap"})
    <3>1. IsFiniteSet({"bridge"})
      BY FS_Singleton
    <3>2. IsFiniteSet({"bridge"} \cup {"decode"})
      BY <3>1, FS_AddElement
    <3>3. IsFiniteSet(({"bridge"} \cup {"decode"}) \cup {"kv"})
      BY <3>2, FS_AddElement
    <3>4. IsFiniteSet((({"bridge"} \cup {"decode"}) \cup {"kv"}) \cup {"swap"})
      BY <3>3, FS_AddElement
    <3>5. {"bridge", "decode", "kv", "swap"}
            = (({"bridge"} \cup {"decode"}) \cup {"kv"}) \cup {"swap"}
      OBVIOUS
    <3> QED BY <3>4, <3>5
  <2> QED BY <1>1, <2>1, FS_Subset
<1>3. \A k \in keys : p[k] \in 0..Unit /\ p[k] \in Int
  BY CCAssumption
<1>4. PICK c \in keys : \A k \in keys : p[k] <= p[c]
  BY <1>2, <1>3, Greatest
<1>5. p[c] \in {p[k] : k \in keys} /\ {p[k] : k \in keys} \subseteq 0..Unit
  BY <1>3
<1>6. Controller!Aggregate(p, keys)
        = CHOOSE v \in {p[k] : k \in keys} : \A k \in keys : p[k] <= v
  BY DEF Controller!Aggregate
<1> QED BY <1>4, <1>5, <1>6

(* A ratio of pressures lies between 0 and 1. *)
LEMMA RatioIsPressure ==
    ASSUME NEW value \in Nat, NEW target \in Nat
    PROVE  Ratio(value, target) \in 0..Unit
<1>1. Unit \in Nat \ {0}
  BY CCAssumption
<1>2. CASE target = 0 \/ value >= target
  BY <1>1, <1>2 DEF Ratio
<1>3. CASE target # 0 /\ value < target
  <2> DEFINE n == value * Unit
             x == n \div target
  <2>1. n \in Nat /\ n = Unit * value /\ Unit * value <= Unit * target
    BY <1>1, <1>3, TimesMonotone
  <2>2. Unit * target = target * Unit /\ target * Unit \in Nat
    BY <1>1
  <2>3. x \in Nat /\ target * x <= n
    <3> HIDE DEF n
    <3> QED BY <1>3, <2>1, DivBounds
  <2>4. Ratio(value, target) = x
    BY <1>3 DEF Ratio
  <2> HIDE DEF n, x
  <2>5. x <= Unit
    <3> SUFFICES ASSUME Unit + 1 <= x PROVE FALSE
      BY <1>1, <2>3
    <3>1. target * Unit + target <= target * x /\ target * x \in Nat
      BY <1>1, <1>3, <2>3, TimesStep
    <3> QED BY <1>3, <2>1, <2>2, <2>3, <3>1
  <2> QED BY <1>1, <2>3, <2>4, <2>5
<1> QED BY <1>2, <1>3

LEMMA StageSums ==
    ASSUME Inv
    PROVE  /\ BlockSum(unaccepted) \in Nat /\ onFly \in Nat
           /\ Cardinality(unaccepted) \in Nat
           /\ AvailableBlocks \in 0..MaxGpuBlocks
           /\ \/ AvailableBlocks = 0
              \/ AvailableBlocks = MaxGpuBlocks - BlockSum(unaccepted) - onFly
<1>1. unaccepted \in SUBSET Requests /\ InFlight \in SUBSET Requests
      /\ onFly = BlockSum(InFlight)
  BY DEF Inv, TypeOK, BlockAccounting, InFlight
<1>2. /\ BlockSum(unaccepted) \in Nat /\ BlockSum(InFlight) \in Nat
      /\ Cardinality(unaccepted) \in Nat
  BY <1>1, RequestSets
<1> QED BY <1>1, <1>2, ContextAssumption DEF AvailableBlocks, Larger

LEMMA PressuresInRange ==
    ASSUME Inv, NEW s \in Snapshots
    PROVE  \A k \in Controller!Sources : CurrentPressures(s)[k] \in 0..Unit
<1>1. s.queue \in 0..Unit /\ s.memory \in 0..Unit
  <2>1. SnapshotPressures \subseteq 0..Unit /\ 0 \in 0..Unit
    BY CCAssumption
  <2>2. CASE s = Unusable
    BY <2>1, <2>2 DEF Unusable
  <2>3. CASE s \in [queue : SnapshotPressures, memory : SnapshotPressures]
    BY <2>1, <2>3
  <2> QED BY <2>2, <2>3 DEF Snapshots
<1>2. /\ Cardinality(unaccepted) \in Nat /\ MaxGpuBlocks - AvailableBlocks \in Nat
      /\ BridgeTarget \in Nat /\ BlockTarget \in Nat /\ Unit \in Nat
  BY StageSums, ContextAssumption, CCAssumption
<1>3. /\ Ratio(Cardinality(unaccepted), BridgeTarget) \in 0..Unit
      /\ Ratio(MaxGpuBlocks - AvailableBlocks, BlockTarget) \in 0..Unit
  BY <1>2, RatioIsPressure
<1>4. /\ Larger(Ratio(Cardinality(unaccepted), BridgeTarget), s.queue) \in 0..Unit
      /\ Larger(Ratio(MaxGpuBlocks - AvailableBlocks, BlockTarget), s.memory) \in 0..Unit
  BY <1>1, <1>3 DEF Larger
<1>5. /\ CurrentPressures(s)["bridge"]
           = Larger(Ratio(Cardinality(unaccepted), BridgeTarget), s.queue)
      /\ CurrentPressures(s)["decode"] = s.queue
      /\ CurrentPressures(s)["kv"]
           = Larger(Ratio(MaxGpuBlocks - AvailableBlocks, BlockTarget), s.memory)
      /\ CurrentPressures(s)["swap"] = s.memory
  BY DEF CurrentPressures
<1> QED BY <1>1, <1>4, <1>5 DEF Controller!Sources

(* The block margin of the budget is never negative, so that a budget      *)
(* never allows more blocks than there are.                                *)
MarginInv == budget["margin"] \in Nat /\ dynamic \in BOOLEAN /\ updated \in BOOLEAN

LEMMA RoundIsNatural ==
    ASSUME NEW n \in Nat, NEW d \in Nat \ {0}
    PROVE  Controller!RoundHalfEven(n, d) \in Nat
<1>1. n \div d \in Nat
  BY DivMod
<1> QED BY <1>1 DEF Controller!RoundHalfEven

LEMMA MarginIsNatural ==
    ASSUME MarginInv, NEW p, \A k \in Controller!Sources : p[k] \in 0..Unit
    PROVE  CurrentBudget(p)["margin"] \in Nat
<1> DEFINE raw == Controller!Raw(p, "margin")
<1>1. raw \in Nat
  <2> DEFINE x == Controller!Rho(p, "margin")
  <2>1. x \in 0..Unit
    <3>1. Controller!Aggregate(p, {"kv", "swap"}) \in 0..Unit
      BY AggregateIsPressure DEF Controller!Sources
    <3> QED BY <3>1 DEF Controller!Rho
  <2>2. raw = Controller!RawAt("margin", x)
    BY DEF Controller!Raw
  <2> HIDE DEF x
  <2>3. /\ Unit \in Nat \ {0} /\ MaxBlockMargin \in Nat /\ x \in Nat
        /\ 0 * Unit + x * (MaxBlockMargin - 0) \in Nat
    BY <2>1, CCAssumption
  <2>4. Controller!RawAt("margin", x)
          = IF MaxBlockMargin = 0 THEN 0
            ELSE Controller!RoundHalfEven(0 * Unit + x * (MaxBlockMargin - 0), Unit)
    BY DEF Controller!RawAt
  <2>5. Controller!RoundHalfEven(0 * Unit + x * (MaxBlockMargin - 0), Unit) \in Nat
    BY <2>3, RoundIsNatural
  <2> QED BY <2>2, <2>4, <2>5
<1>2. Controller!NextBudget("margin", raw) \in Nat
  <2> HIDE DEF raw
  <2> DEFINE n == SmoothPercent * budget["margin"] + (100 - SmoothPercent) * raw
  <2>1. n \in Nat
    BY <1>1, CCAssumption DEF MarginInv
  <2>2. Controller!NextBudget("margin", raw)
          = IF updated THEN Controller!RoundHalfEven(n, 100) ELSE raw
    BY Zenon DEF Controller!NextBudget, Controller!Smooth
  <2> HIDE DEF n
  <2>3. Controller!RoundHalfEven(n, 100) \in Nat
    BY <2>1, RoundIsNatural
  <2> QED BY Zenon, <1>1, <2>2, <2>3
<1>3. Controller!StaticBudget("margin") = 0
  BY DEF Controller!StaticBudget
<1>4. CurrentBudget(p)["margin"]
        = IF dynamic THEN Controller!NextBudget("margin", raw)
          ELSE Controller!StaticBudget("margin")
  <2>1. "margin" \in Controller!Knobs
    BY DEF Controller!Knobs
  <2> QED BY Zenon, <2>1 DEF CurrentBudget
<1> HIDE DEF raw
<1>5. 0 \in Nat
  OBVIOUS
<1> QED BY Zenon, <1>2, <1>3, <1>4, <1>5

-----------------------------------------------------------------------------
(* Every batch that the scheduler considers fits. *)
Allowed(limits) ==
    /\ limits.tokens \in Int /\ limits.tokens <= MaxTokensPerBatch
    /\ limits.blocks \in Int /\ limits.blocks <= AvailableBlocks

LEMMA LimitsAllowed ==
    ASSUME Inv, NEW bud, bud["margin"] \in Nat
    PROVE  Allowed(Limits(bud)) /\ Allowed(FullLimits)
<1>1. AvailableBlocks \in Nat /\ MaxTokensPerBatch \in Nat
  BY StageSums, ContextAssumption
<1>2. /\ Limits(bud).blocks = Larger(AvailableBlocks - bud["margin"], 0)
      /\ Limits(bud).tokens = IF bud["prefill"] \in 1..MaxTokensPerBatch
                              THEN bud["prefill"] ELSE MaxTokensPerBatch
  BY DEF Limits
<1>3. Limits(bud).tokens \in Int /\ Limits(bud).tokens <= MaxTokensPerBatch
  BY <1>1, <1>2
<1>4. Limits(bud).blocks \in Int /\ Limits(bud).blocks <= AvailableBlocks
  BY <1>1, <1>2 DEF Larger
<1> QED BY <1>1, <1>3, <1>4 DEF Allowed, FullLimits

LEMMA FeasibleFits ==
    ASSUME Inv, NEW S \in SUBSET Requests, NEW r \in Requests, NEW limits,
           Allowed(limits), Feasible(S, r, limits)
    PROVE  FitsNow(S \cup {r})
<1>1. /\ Cardinality(S) \in Nat /\ IsFiniteSet(S)
      /\ BlockSum(S \cup {r}) \in Nat /\ TokenSum(S \cup {r}) \in Nat
  <2>1. S \cup {r} \in SUBSET Requests
    OBVIOUS
  <2> QED BY <2>1, RequestSets
<1>2. Cardinality(S \cup {r}) <= MaxBatchSize
  <2>1. Cardinality(S \cup {r}) <= Cardinality(S) + 1
    BY <1>1, FS_AddElement
  <2>2. Cardinality(S \cup {r}) \in Nat
    BY <1>1, FS_AddElement, FS_CardinalityType
  <2> QED BY <1>1, <2>1, <2>2, ContextAssumption DEF Feasible
<1>3. TokenSum(S \cup {r}) <= MaxTokensPerBatch
  BY <1>1, ContextAssumption DEF Feasible, Allowed
<1>4. BlockSum(S \cup {r}) <= AvailableBlocks
  BY <1>1, StageSums DEF Feasible, Allowed
<1>5. \/ BlockSum(S \cup {r}) = 0
      \/ BlockSum(S \cup {r}) + BlockSum(unaccepted) + onFly <= MaxGpuBlocks
  BY <1>1, <1>4, StageSums, ContextAssumption
<1> QED BY <1>2, <1>3, <1>5 DEF FitsNow

LEMMA WaitingType ==
    ASSUME Inv
    PROVE  /\ waiting \in Seq(Requests) /\ Len(waiting) \in Nat
           /\ Waiting \in SUBSET Requests
           /\ \A i \in 1..Len(waiting) : waiting[i] \in Waiting
           /\ \A i, j \in 1..Len(waiting) : waiting[i] = waiting[j] => i = j
           /\ Members(waiting) = Waiting /\ Distinct(waiting)
BY DEF Inv, TypeOK, RequestConserved, Waiting, Members, Distinct

(* The last position of a greedy batch was added to the others. *)
LEMMA BucketBatchFits ==
    ASSUME Inv, NEW limits, Allowed(limits), NEW S \in BucketBatches(limits)
    PROVE  S \subseteq Waiting /\ S # {} /\ FitsNow(S)
<1> DEFINE positions(b) == {i \in Window : Bucket(waiting[i]) = b}
           before(I, i) == {waiting[j] : j \in {j \in I : j < i}}
<1>1. PICK I \in UNION {SUBSET positions(b) : b \in 0..Cardinality(BucketBounds)} :
         /\ I # {}
         /\ I = {i \in positions(Bucket(waiting[Least(I)])) :
                   Feasible(before(I, i), waiting[i], limits)}
         /\ S = {waiting[i] : i \in I}
  BY Zenon DEF BucketBatches
<1>2. I \subseteq 1..Len(waiting)
  BY <1>1 DEF Window
<1>3. \A i \in I : Feasible(before(I, i), waiting[i], limits)
  BY <1>1
<1> HIDE DEF positions
<1>4. PICK l \in I : \A i \in I : i <= l
  <2> DEFINE f == [i \in I |-> i]
  <2>1. IsFiniteSet(I) /\ \A i \in I : i \in Int /\ f[i] = i
    <3>1. Len(waiting) \in Int /\ IsFiniteSet(1..Len(waiting))
      BY WaitingType, FS_Interval
    <3>2. IsFiniteSet(I)
      BY <1>2, <3>1, FS_Subset
    <3>3. \A i \in I : i \in Int
      BY <1>2
    <3> QED BY <3>2, <3>3
  <2>2. \E c \in I : \A d \in I : f[d] <= f[c]
    <3>1. \A i \in I : f[i] \in Int
      BY <2>1
    <3> HIDE DEF f
    <3> QED BY <1>1, <2>1, <3>1, Greatest
  <2> HIDE DEF f
  <2> QED BY <2>1, <2>2
<1>5. S = before(I, l) \cup {waiting[l]}
  <2>1. \A i \in I : i \in Int
    BY <1>2
  <2>2. \A i \in I : i < l \/ i = l
    BY <1>4, <2>1
  <2> QED BY <1>1, <1>4, <2>2
<1>6. before(I, l) \in SUBSET Requests /\ waiting[l] \in Requests
  BY <1>2, <1>4, WaitingType
<1>7. Feasible(before(I, l), waiting[l], limits)
  BY <1>3, <1>4
<1> HIDE DEF before
<1>8. FitsNow(S)
  BY <1>5, <1>6, <1>7, FeasibleFits
<1>9. S \subseteq Waiting /\ S # {}
  BY <1>1, <1>2, WaitingType
<1> QED BY <1>8, <1>9

(* Whatever is a candidate fits, and has the oldest request in it once it  *)
(* has waited for the timeout.                                             *)
LEMMA CandidateFits ==
    ASSUME Inv, waiting # <<>>, NEW limits, Allowed(limits), Allowed(FullLimits),
           NEW S \in Candidates(limits)
    PROVE  /\ S \subseteq Waiting /\ S # {} /\ FitsNow(S)
           /\ waiting[1] \in aged => waiting[1] \in S
<1>1. 1 \in 1..Len(waiting) /\ waiting[1] \in Waiting /\ waiting[1] \in Requests
  BY WaitingType, EmptySeq
<1>2. CASE S \in BucketBatches(limits)
           /\ (waiting[1] \in aged => waiting[1] \in S)
  BY <1>2, BucketBatchFits
<1>3. CASE S = {waiting[1]} /\ Feasible({}, waiting[1], FullLimits)
  <2>1. {} \in SUBSET Requests /\ {} \cup {waiting[1]} = S
    BY <1>3
  <2>2. FitsNow({} \cup {waiting[1]})
    BY <1>1, <1>3, <2>1, FeasibleFits
  <2> QED BY <1>1, <1>3, <2>1, <2>2
<1>4. \/ S \in BucketBatches(limits) /\ (waiting[1] \in aged => waiting[1] \in S)
      \/ S = {waiting[1]} /\ Feasible({}, waiting[1], FullLimits)
  BY DEF Candidates
<1> QED BY <1>2, <1>3, <1>4

(* The score and the bucket of a batch are numbers, so that there is a     *)
(* best one.                                                               *)
LEMMA ScoreType ==
    ASSUME Inv, NEW p, \A k \in Controller!Sources : p[k] \in 0..Unit,
           NEW S \in SUBSET Requests, S # {}
    PROVE  Score(S, p) \in Int
<1> DEFINE tokens  == TokenSum(S)
           lengths == {PromptLen[r] : r \in S}
           longest == CHOOSE n \in lengths : \A r \in S : PromptLen[r] <= n
           blocks  == Larger(AvailableBlocks, 1)
           rho     == Controller!Aggregate(p, Controller!Sources)
           bonus   == IF waiting[1] \notin S \/ scoring = "no_oldest_bonus" THEN 0 ELSE 1
           padding == longest * Cardinality(S) - tokens
<1>1. tokens \in Int /\ BlockSum(S) \in Int /\ Cardinality(S) \in Int
  BY RequestSets
<1>2. longest \in Int
  <2>1. IsFiniteSet(S) /\ \A r \in S : PromptLen[r] \in Int
    BY RequestSets, ContextAssumption
  <2>2. PICK c \in S : \A r \in S : PromptLen[r] <= PromptLen[c]
    BY <2>1, Greatest
  <2>3. PromptLen[c] \in lengths /\ lengths \subseteq Int
    BY <2>1
  <2> HIDE DEF lengths
  <2> QED BY <2>2, <2>3
<1>3. blocks \in Int
  BY StageSums DEF Larger
<1>4. rho \in Int
  <2>1. rho \in 0..Unit
    BY AggregateIsPressure DEF Controller!Sources
  <2> QED BY <2>1, CCAssumption
<1>5. bonus \in Int
  OBVIOUS
<1>6. Score(S, p)
        = IF scoring = "bucket_only" THEN tokens
          ELSE blocks * Unit * (10 * tokens - 5 * padding)
               - (Unit + rho) * MaxTokensPerBatch * BlockSum(S)
               + 10 * bonus * blocks * Unit * MaxTokensPerBatch
  BY Zenon DEF Score
<1> HIDE DEF tokens, longest, blocks, rho, bonus
<1>7. padding \in Int
  BY <1>1, <1>2
<1> HIDE DEF padding
<1>8. /\ blocks * Unit * (10 * tokens - 5 * padding) \in Int
      /\ (Unit + rho) * MaxTokensPerBatch * BlockSum(S) \in Int
      /\ 10 * bonus * blocks * Unit * MaxTokensPerBatch \in Int
  BY <1>1, <1>3, <1>4, <1>5, <1>7, CCAssumption, ContextAssumption
<1>9. blocks * Unit * (10 * tokens - 5 * padding)
        - (Unit + rho) * MaxTokensPerBatch * BlockSum(S)
        + 10 * bonus * blocks * Unit * MaxTokensPerBatch \in Int
  BY <1>8
<1> QED BY Zenon, <1>1, <1>6, <1>9

LEMMA BucketType ==
    ASSUME NEW r PROVE Bucket(r) \in Int
<1>1. {b \in BucketBounds : b < PromptLen[r]} \in SUBSET BucketBounds
  OBVIOUS
<1>2. IsFiniteSet({b \in BucketBounds : b < PromptLen[r]})
  BY <1>1, CCAssumption, FS_Subset
<1> QED BY <1>2, FS_CardinalityType DEF Bucket

LEMMA NextBatchChosen ==
    ASSUME Inv, waiting # <<>>, NEW limits, Allowed(limits), Allowed(FullLimits),
           NEW p, \A k \in Controller!Sources : p[k] \in 0..Unit
    PROVE  \/ NextBatch(limits, p) = {}
           \/ NextBatch(limits, p) \in Candidates(limits)
<1> DEFINE C == Candidates(limits)
           best == {S \in C : \A T \in C : Score(T, p) <= Score(S, p)}
<1>1. IsFiniteSet(C) /\ \A S \in C : S \in SUBSET Requests /\ S # {}
  <2>1. \A S \in C : S \in SUBSET Requests /\ S # {}
    BY CandidateFits, WaitingType
  <2>2. C \in SUBSET (SUBSET Requests)
    BY <2>1
  <2> QED BY <2>1, <2>2, ContextAssumption, FS_SUBSET, FS_Subset
<1> HIDE DEF C
<1>2. CASE C # {}
  <2> DEFINE f == [S \in C |-> Score(S, p)]
             g == [S \in best |-> 0 - BucketOf(S)]
  <2>1. \A S \in C : f[S] = Score(S, p) /\ f[S] \in Int
    BY <1>1, ScoreType
  <2>2. \E S \in C : \A T \in C : f[T] <= f[S]
    <3> HIDE DEF f
    <3> QED BY <1>1, <1>2, <2>1, Greatest
  <2>3. best # {} /\ best \in SUBSET C
    <3> HIDE DEF f
    <3> QED BY <2>1, <2>2
  <2> HIDE DEF best, f
  <2>4. IsFiniteSet(best)
    BY <1>1, <2>3, FS_Subset
  <2>5. \A S \in best : BucketOf(S) \in Int
    BY BucketType DEF BucketOf
  <2>6. \A S \in best : g[S] = 0 - BucketOf(S) /\ g[S] \in Int
    BY <2>5
  <2>7. \E S \in best : \A T \in best : g[T] <= g[S]
    <3> HIDE DEF g
    <3> QED BY <2>3, <2>4, <2>6, Greatest
  <2>8. \E S \in best : \A T \in best : BucketOf(S) <= BucketOf(T)
    <3> HIDE DEF g
    <3>1. PICK S \in best : \A T \in best : g[T] <= g[S]
      BY <2>7
    <3>2. \A T \in best : BucketOf(S) <= BucketOf(T)
      BY <2>5, <2>6, <3>1
    <3> QED BY <3>2
  <2>9. NextBatch(limits, p) = CHOOSE S \in best : \A T \in best : BucketOf(S) <= BucketOf(T)
    BY Zenon, <1>2 DEF NextBatch, C, best
  <2>10. NextBatch(limits, p) \in best
    BY <2>8, <2>9
  <2> QED BY <2>3, <2>10 DEF C
<1>3. CASE C = {}
  BY Zenon, <1>3 DEF NextBatch, C
<1> QED BY <1>2, <1>3

-----------------------------------------------------------------------------
(* Requests grow old in the order of the queue, as long as they wait.      *)
AgedInv ==
    /\ policy \in {"fcfs", "phase"}
    /\ aged \subseteq Waiting
    /\ policy = "fcfs" => aged = {}
    /\ \A i, j \in 1..Len(waiting) : i < j /\ waiting[j] \in aged => waiting[i] \in aged

CCInv == Inv /\ MarginInv /\ AgedInv

LEMMA CCInitInv == CCInit => CCInv
<1> SUFFICES ASSUME CCInit PROVE CCInv
  OBVIOUS
<1>1. Inv
  BY InitInv DEF CCInit
<1>2. MarginInv
  BY DEF CCInit, MarginInv, Controller!Knobs
<1>3. AgedInv
  BY DEF CCInit, AgedInv
<1> QED BY <1>1, <1>2, <1>3 DEF CCInv

(* The queue after a batch was taken out of it, which may leave requests   *)
(* behind that were ahead of it                                            *)
LEMMA BatchLeavesQueue ==
    ASSUME Inv, NEW F, waiting' = Remaining(waiting, F)
    PROVE  /\ waiting' \in Seq(Requests)
           /\ Waiting' = Waiting \ F
           /\ \A i, j \in 1..Len(waiting') : i # j => waiting'[i] # waiting'[j]
           /\ InOrder(waiting', waiting)
           /\ waiting[1] \in F => Forward(waiting', waiting)
           /\ F = {} => Len(waiting') = Len(waiting)
<1>1. /\ waiting \in Seq(Requests) /\ Members(waiting) = Waiting /\ Distinct(waiting)
  BY WaitingType
<1>2. /\ waiting' \in Seq(Requests) /\ Members(waiting') = Members(waiting) \ F
      /\ Distinct(waiting')
  BY <1>1, RemainingMembers
<1>3. Waiting' = Members(waiting')
  BY DEF Waiting, Members
<1>4. F = {} => Len(waiting') = Len(waiting)
  BY <1>1, <1>2, DistinctCardinality
<1>5. InOrder(waiting', waiting) /\ (waiting[1] \in F => Forward(waiting', waiting))
  BY <1>1, RemainingOrder
<1>6. \A i, j \in 1..Len(waiting') : i # j => waiting'[i] # waiting'[j]
  BY <1>2 DEF Distinct
<1> QED BY <1>1, <1>2, <1>3, <1>4, <1>5, <1>6

(* What _step dispatches with this scheduler *)
LEMMA CCStepDispatches ==
    ASSUME CCInv, CCStep
    PROVE  \E S, bud :
             /\ Dispatch(S, bud) /\ S \subseteq Waiting /\ FitsNow(S)
             /\ bud["margin"] \in Nat /\ updated' \in BOOLEAN
             /\ S # {} /\ waiting[1] \in aged => waiting[1] \in S
<1>1. CASE waiting = <<>> /\ Dispatch({}, budget) /\ UNCHANGED updated
  <2>1. FitsNow({})
    BY FS_EmptySet, SumEmpty, ContextAssumption DEF FitsNow, BlockSum, TokenSum
  <2> QED BY <1>1, <2>1 DEF CCInv, MarginInv
<1>2. CASE /\ waiting # <<>>
           /\ \E s \in Snapshots :
              \E p \in {CurrentPressures(s)} :
              \E bud \in {CurrentBudget(p)} :
              \E limits \in {Limits(bud)} :
              \E batch \in {NextBatch(limits, p)} : Dispatch(batch, bud)
           /\ updated' = TRUE
  <2>1. PICK s \in Snapshots : TRUE /\
          Dispatch(NextBatch(Limits(CurrentBudget(CurrentPressures(s))),
                             CurrentPressures(s)),
                   CurrentBudget(CurrentPressures(s)))
    BY Zenon, <1>2
  <2> DEFINE p == CurrentPressures(s)
             bud == CurrentBudget(p)
             limits == Limits(bud)
             S == NextBatch(limits, p)
  <2>2. Inv /\ MarginInv
    BY DEF CCInv
  <2>3. \A k \in Controller!Sources : p[k] \in 0..Unit
    BY <2>2, PressuresInRange
  <2>4. Dispatch(S, bud)
    BY <2>1
  <2> HIDE DEF p
  <2>5. bud["margin"] \in Nat
    BY <2>2, <2>3, MarginIsNatural
  <2> HIDE DEF bud
  <2>6. Allowed(limits) /\ Allowed(FullLimits)
    BY <2>2, <2>5, LimitsAllowed
  <2> HIDE DEF limits
  <2>7. S = {} \/ S \in Candidates(limits)
    BY <1>2, <2>2, <2>3, <2>6, NextBatchChosen
  <2> HIDE DEF S
  <2>8. CASE S = {}
    <3>1. FitsNow({})
      BY FS_EmptySet, SumEmpty, ContextAssumption DEF FitsNow, BlockSum, TokenSum
    <3> QED BY <1>2, <2>4, <2>5, <2>8, <3>1
  <2>9. CASE S \in Candidates(limits)
    <3>1. /\ S \subseteq Waiting /\ FitsNow(S)
          /\ waiting[1] \in aged => waiting[1] \in S
      BY <1>2, <2>2, <2>6, <2>9, CandidateFits
    <3> QED BY <1>2, <2>4, <2>5, <3>1
  <2> QED BY <2>7, <2>8, <2>9
<1> QED BY <1>1, <1>2 DEF CCStep

LEMMA CCStepInv ==
    ASSUME CCInv, CCStep PROVE CCInv'
<1>1. PICK S, bud :
         /\ Dispatch(S, bud) /\ S \subseteq Waiting /\ FitsNow(S)
         /\ bud["margin"] \in Nat /\ updated' \in BOOLEAN
  BY CCStepDispatches
<1>2. Inv /\ MarginInv /\ AgedInv /\ ~awaiting
  BY DEF CCInv, CCStep
<1>3. /\ waiting' = Remaining(waiting, S)
      /\ onFly' = onFly + BlockSum(S) /\ holding' = holding \cup S
      /\ avail' = avail - BlockSum(S) /\ pipeline' = Append(pipeline, S)
      /\ awaiting' = (Len(pipeline) + 1 = PipelineSize)
      /\ aged' = aged \ S /\ budget' = bud
      /\ UNCHANGED <<issued, unaccepted, bridge, done, policy, scoring, dynamic>>
  BY <1>1 DEF Dispatch
<1>4. /\ waiting' \in Seq(Requests)
      /\ Waiting' = Waiting \ S
      /\ \A i, j \in 1..Len(waiting') : i # j => waiting'[i] # waiting'[j]
      /\ InOrder(waiting', waiting)
  BY <1>2, <1>3, BatchLeavesQueue
<1>5. Inv'
  BY <1>1, <1>2, <1>3, <1>4, DispatchInv
<1>6. MarginInv'
  BY <1>1, <1>2, <1>3 DEF MarginInv
<1>7. AgedInv'
  <2>1. aged' \subseteq Waiting' /\ (policy' = "fcfs" => aged' = {})
    BY <1>2, <1>3, <1>4 DEF AgedInv
  <2>2. ASSUME NEW i \in 1..Len(waiting'), NEW j \in 1..Len(waiting'), i < j,
               waiting'[j] \in aged'
        PROVE  waiting'[i] \in aged'
    <3>1. \E a, b \in 1..Len(waiting) :
             a < b /\ waiting[a] = waiting'[i] /\ waiting[b] = waiting'[j]
      BY <1>4, <2>2 DEF InOrder
    <3>2. waiting'[j] \in aged
      BY <1>3, <2>2
    <3>3. waiting'[i] \in aged
      BY <1>2, <3>1, <3>2 DEF AgedInv
    <3>4. waiting'[i] \in Waiting'
      BY DEF Waiting
    <3> QED BY <1>3, <1>4, <3>3, <3>4
  <2> QED BY <1>2, <1>3, <2>1, <2>2 DEF AgedInv
<1> QED BY <1>5, <1>6, <1>7 DEF CCInv

LEMMA EnqueueInv ==
    ASSUME CCInv, NEW r \in Requests, Enqueue(r) PROVE CCInv'
<1>1. Inv /\ MarginInv /\ AgedInv /\ AddRequest(r) /\ UNCHANGED ccVars
  BY DEF CCInv, Enqueue
<1>2. Inv'
  BY <1>1, AddRequestInv
<1>3. MarginInv'
  BY <1>1 DEF MarginInv, ccVars
<1>4. AgedInv'
  <2>1. waiting \in Seq(Requests) /\ r \notin Waiting
    BY <1>1 DEF Inv, TypeOK, RequestConserved, AddRequest
  <2>2. waiting' = Append(waiting, r)
    BY <1>1 DEF AddRequest
  <2>3. /\ Len(waiting') = Len(waiting) + 1
        /\ waiting'[Len(waiting) + 1] = r
        /\ \A i \in 1..Len(waiting) : waiting'[i] = waiting[i]
    BY <2>1, <2>2
  <2>4. Waiting \subseteq Waiting' /\ r \notin aged
    BY <1>1, <2>1, <2>3 DEF AgedInv, Waiting
  <2>5. ASSUME NEW i \in 1..Len(waiting'), NEW j \in 1..Len(waiting'), i < j,
               waiting'[j] \in aged
        PROVE  waiting'[i] \in aged
    <3>1. j \in 1..Len(waiting) /\ i \in 1..Len(waiting)
      BY <2>1, <2>3, <2>4, <2>5
    <3> QED BY <1>1, <2>3, <2>5, <3>1 DEF AgedInv
  <2> QED BY <1>1, <2>4, <2>5 DEF AgedInv, ccVars
<1> QED BY <1>2, <1>3, <1>4 DEF CCInv

(* The steps that do not touch the queue *)
LEMMA SameQueueInv ==
    ASSUME CCInv, FCFSStep \/ StageReturn \/ (\E r \in Requests : Migrated(r))
                  \/ UNCHANGED allVars
    PROVE  CCInv'
<1>1. Inv /\ MarginInv /\ AgedInv
  BY DEF CCInv
<1>2. [Next]_vars /\ UNCHANGED ccVars
  BY DEF FCFSStep, StageReturn, Migrated, allVars, Next
<1>3. Inv'
  BY <1>1, <1>2, NextInv
<1>4. MarginInv'
  BY <1>1, <1>2 DEF MarginInv, ccVars
<1>5. AgedInv'
  <2>1. CASE FCFSStep
    <3>1. aged = {} /\ aged' = {} /\ policy' = policy
      BY <1>1, <1>2, <2>1 DEF FCFSStep, AgedInv, ccVars
    <3> QED BY <1>1, <3>1 DEF AgedInv
  <2>2. CASE StageReturn \/ (\E r \in Requests : Migrated(r)) \/ UNCHANGED allVars
    <3>1. UNCHANGED waiting
      BY <2>2 DEF StageReturn, Return, Migrated, ClearMigrated, allVars, vars
    <3> QED BY <1>1, <1>2, <3>1 DEF AgedInv, ccVars, Waiting
  <2> QED BY <2>1, <2>2
<1> QED BY <1>3, <1>4, <1>5 DEF CCInv

LEMMA AgeInv ==
    ASSUME CCInv, Age PROVE CCInv'
<1>1. Inv /\ MarginInv /\ AgedInv
  BY DEF CCInv
<1>2. /\ policy = "phase" /\ UNCHANGED <<vars, policy, scoring, dynamic, budget, updated>>
  BY DEF Age
<1>3. PICK i \in 1..Len(waiting) :
         /\ Prefix(i - 1) \subseteq aged /\ waiting[i] \notin aged
         /\ aged' = aged \cup {waiting[i]}
  BY DEF Age
<1>4. Inv'
  BY <1>1, <1>2, NextInv
<1>5. UNCHANGED waiting
  BY <1>2 DEF vars
<1>6. MarginInv'
  BY <1>1, <1>2 DEF MarginInv
<1>7. AgedInv'
  <2>1. aged' \subseteq Waiting'
    BY <1>1, <1>3, <1>5 DEF AgedInv, Waiting
  <2>2. ASSUME NEW a \in 1..Len(waiting), NEW b \in 1..Len(waiting), a < b,
               waiting[b] \in aged'
        PROVE  waiting[a] \in aged'
    <3>1. CASE waiting[b] \in aged
      BY <1>1, <1>3, <2>2, <3>1 DEF AgedInv
    <3>2. CASE waiting[b] = waiting[i]
      <4>1. b = i
        BY <1>1, <3>2, WaitingType
      <4>2. waiting[a] \in Prefix(i - 1)
        BY <2>2, <4>1 DEF Prefix
      <4> QED BY <1>3, <4>2
    <3> QED BY <1>3, <2>2, <3>1, <3>2
  <2>3. policy' = policy /\ policy' # "fcfs"
    BY <1>2
  <2> QED BY <1>1, <1>5, <2>1, <2>2, <2>3 DEF AgedInv
<1> QED BY <1>4, <1>6, <1>7 DEF CCInv

LEMMA CCInvariant == CCSpec => []CCInv
<1>1. CCInv /\ [CCNext]_allVars => CCInv'
  <2> SUFFICES ASSUME CCInv, [CCNext]_allVars PROVE CCInv'
    OBVIOUS
  <2>1. CASE CCStep
    BY <2>1, CCStepInv
  <2>2. CASE Age
    BY <2>2, AgeInv
  <2>3. ASSUME NEW r \in Requests, Enqueue(r) PROVE CCInv'
    BY <2>3, EnqueueInv
  <2>4. CASE FCFSStep \/ StageReturn \/ (\E r \in Requests : Migrated(r))
             \/ UNCHANGED allVars
    BY <2>4, SameQueueInv
  <2> QED BY <2>1, <2>2, <2>3, <2>4 DEF CCNext
<1> QED BY <1>1, CCInitInv, PTL DEF CCSpec

(* The five invariants hold whichever of the two schedulers runs: what the *)
(* cost-compatible one chooses fits its own limits, and those are never    *)
(* wider than what the block manager has, whatever the pressures are.      *)
THEOREM ConservationWithEither == CCSpec => []RequestConserved
BY CCInvariant, PTL DEF CCInv, Inv

(* Both schedulers count what the block manager has handed out.            *)
THEOREM AccountingWithEither == CCSpec => []BlockAccounting
BY CCInvariant, PTL DEF CCInv, Inv

(* No budget, and no request that is forced past it, lets the allocation   *)
(* fail.                                                                   *)
THEOREM AllocationNeverFailsWithEither == CCSpec => []NoAllocationFailure
BY CCInvariant, PTL DEF CCInv, Inv

(* A round with aged requests waiting takes the oldest of them, or nothing. *)
LEMMA AgedHeadGoes ==
    ASSUME CCInv, CCNext, NEW r \in aged, waiting' # waiting,
           \A q \in Requests : ~Enqueue(q)
    PROVE  \E S, bud :
             Dispatch(S, bud) /\ (S # {} => waiting[1] \in S \cap aged)
<1>1. Inv /\ AgedInv
  BY DEF CCInv
<1>2. CCStep
  <2>1. ~FCFSStep
    BY <1>1 DEF FCFSStep, AgedInv
  <2>2. ~StageReturn /\ ~Age /\ \A q \in Requests : ~Migrated(q)
    BY DEF StageReturn, Return, Age, Migrated, ClearMigrated, vars
  <2> QED BY <2>1, <2>2 DEF CCNext
<1>3. PICK S, bud :
         /\ Dispatch(S, bud)
         /\ S # {} /\ waiting[1] \in aged => waiting[1] \in S
  BY <1>2, CCStepDispatches
<1>4. waiting[1] \in aged
  <2>1. PICK a \in 1..Len(waiting) : waiting[a] = r
    BY <1>1 DEF AgedInv, Waiting
  <2>2. a = 1 \/ (1 \in 1..Len(waiting) /\ 1 < a)
    BY <1>1, WaitingType
  <2> QED BY <1>1, <2>1, <2>2 DEF AgedInv
<1> QED BY <1>3, <1>4

(* A request has one position in the queue. *)
LEMMA PositionOf ==
    ASSUME Inv, NEW i \in 1..Len(waiting)
    PROVE  Position(waiting[i]) = i
<1>1. \A j \in 1..Len(waiting) : waiting[j] = waiting[i] => j = i
  BY WaitingType
<1> QED BY <1>1 DEF Position

(* What the protection of the oldest request amounts to: an aged request   *)
(* is passed only by a batch that takes an aged one from in front of it,   *)
(* so that the head, once it is aged, is passed by none.                   *)
THEOREM AgedOrderCorrect == CCSpec => AgedYieldsToOlder
<1>1. CCInv /\ [CCNext]_allVars => [PassedForOlder]_allVars
  <2> SUFFICES ASSUME CCInv, CCNext,
                      NEW r \in aged \cap Waiting', NEW s \in Waiting \ Waiting'
               PROVE  \E q \in aged \ Waiting' : Position(q) < Position(r)
    BY DEF PassedForOlder
  <2>1. Inv /\ AgedInv
    BY DEF CCInv
  <2>2. waiting' # waiting
    BY DEF Waiting
  <2>3. ASSUME NEW q \in Requests, Enqueue(q) PROVE FALSE
    <3>1. waiting \in Seq(Requests) /\ waiting' = Append(waiting, q)
      BY <2>1, <2>3, WaitingType DEF Enqueue, AddRequest
    <3>2. /\ Len(waiting) \in Nat /\ Len(waiting') = Len(waiting) + 1
          /\ \A i \in 1..Len(waiting) : waiting'[i] = waiting[i]
      BY <3>1, AppendProperties
    <3>3. Waiting \subseteq Waiting'
      BY <3>2 DEF Waiting
    <3> QED BY <3>3
  <2>4. PICK S, bud : Dispatch(S, bud) /\ (S # {} => waiting[1] \in S \cap aged)
    BY <2>2, <2>3, AgedHeadGoes
  <2>5. Waiting' = Waiting \ S
    BY <2>1, <2>4, BatchLeavesQueue DEF Dispatch
  <2>6. waiting[1] \in S \cap aged
    BY <2>4, <2>5
  <2>7. PICK a \in 1..Len(waiting) : waiting[a] = r
    BY <2>1 DEF AgedInv, Waiting
  <2>8. Len(waiting) \in Nat
    BY <2>1, WaitingType
  <2>9. a # 1
    BY <2>5, <2>6, <2>7
  <2>10. Position(r) = a /\ Position(waiting[1]) = 1
    BY <2>1, <2>7, <2>8, PositionOf
  <2>11. waiting[1] \in aged \ Waiting'
    BY <2>5, <2>6
  <2> QED BY <2>7, <2>8, <2>9, <2>10, <2>11
<1> QED BY <1>1, CCInvariant, PTL DEF CCSpec, AgedYieldsToOlder

(* How long an aged request waits: every batch that is not empty, and that *)
(* it is not in, moves it forward in the queue.  It is in one of as many   *)
(* batches as its position was when it became old.                         *)
Advances ==
    Len(waiting') < Len(waiting) =>
        \A r \in aged \cap Waiting' : Position(r)' < Position(r)

THEOREM AgedMoveForward == CCSpec => [][Advances]_allVars
<1>1. CCInv /\ [CCNext]_allVars => [Advances]_allVars
  <2> SUFFICES ASSUME CCInv, CCNext, Len(waiting') < Len(waiting),
                      NEW r \in aged \cap Waiting'
               PROVE  Position(r)' < Position(r)
    BY DEF Advances
  <2>1. Inv /\ AgedInv
    BY DEF CCInv
  <2>2. Len(waiting) \in Nat
    BY <2>1, WaitingType
  <2>3. ASSUME NEW q \in Requests, Enqueue(q) PROVE FALSE
    <3>1. waiting \in Seq(Requests) /\ waiting' = Append(waiting, q)
      BY <2>1, <2>3, WaitingType DEF Enqueue, AddRequest
    <3>2. Len(waiting') = Len(waiting) + 1
      BY <3>1
    <3> QED BY <2>2, <3>2
  <2>4. PICK S, bud : Dispatch(S, bud) /\ (S # {} => waiting[1] \in S \cap aged)
    BY <2>2, <2>3, AgedHeadGoes
  <2>5. /\ S = {} => Len(waiting') = Len(waiting)
        /\ waiting[1] \in S => Forward(waiting', waiting)
        /\ \A i, j \in 1..Len(waiting') : i # j => waiting'[i] # waiting'[j]
    BY <2>1, <2>4, BatchLeavesQueue DEF Dispatch
  <2>6. waiting[1] \in S
    BY <2>2, <2>4, <2>5
  <2>7. PICK i \in 1..Len(waiting') : waiting'[i] = r
    BY DEF Waiting
  <2>8. PICK a \in 1..Len(waiting) : waiting[a] = waiting'[i] /\ i < a
    BY <2>5, <2>6 DEF Forward
  <2>9. Position(r)' = i
    <3>1. \A j \in 1..Len(waiting') : waiting'[j] = r => j = i
      BY <2>5, <2>7
    <3> QED BY <2>7, <3>1 DEF Position
  <2>10. Position(r) = a
    BY <2>1, <2>7, <2>8, PositionOf
  <2> QED BY <2>8, <2>9, <2>10
<1> QED BY <1>1, CCInvariant, PTL DEF CCSpec

=============================================================================
