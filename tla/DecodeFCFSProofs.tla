-------------------------- MODULE DecodeFCFSProofs --------------------------
(***************************************************************************)
(* For every set of requests, lengths, limits and pipeline depth: the FCFS *)
(* decoding stage conserves its requests, its queues say where the block   *)
(* manager keeps their K/V, a worker's answer meets the batch it belongs   *)
(* to, and nothing but the CPU running out of blocks ends the event loop.  *)
(*                                                                         *)
(* The last is the deepest.  Before it pops requests, the scheduler counts *)
(* every block that the requests in its batches need and that the waiting  *)
(* ones have; the engine allocates afterwards.  The count covers what the  *)
(* block manager holds (BlocksInv), because only the batch that is current *)
(* may have grown since it was allocated for.  That again is a fact about  *)
(* the pipeline: the batch whose answer is awaited is the next one that is *)
(* scheduled (PipelineInv).                                                *)
(*                                                                         *)
(* The last part is about progress: an idle stage that has requests either *)
(* dispatches the first in line or is stalled, and a stall is for ever.    *)
(* A stage whose GPU has room beyond what it admits never stalls.          *)
(***************************************************************************)
EXTENDS DecodeFCFS, CommonLemmas

(* A request is in one queue, and once. *)
QueuesInv ==
    /\ Distinct(unaccepted) /\ Distinct(waiting) /\ Distinct(swapped)
    /\ \A i \in Indexes : Distinct(batches[i])
    /\ Members(unaccepted) \cap (Accepted \cup done) = {}
    /\ migrating \cap (Members(waiting) \cup Members(swapped) \cup InBatches) = {}
    /\ Members(waiting) \cap (Members(swapped) \cup InBatches) = {}
    /\ Members(swapped) \cap InBatches = {}
    /\ \A i, j \in Indexes : i # j => Members(batches[i]) \cap Members(batches[j]) = {}
    /\ done \cap Accepted = {}
    /\ issued = Members(unaccepted) \cup Accepted \cup done
    /\ IF pc = "migrate" THEN \E r \in Requests : migrating = {r} ELSE migrating = {}

(* The pipeline holds the last batches that were scheduled, in turn.       *)
Back(c, n) == IF c >= n THEN c - n ELSE c - n + PipelineSize
PipelineInv ==
    /\ cur = -1 => pipeline = <<>>
    /\ IF pc = "await" THEN Len(pipeline) = PipelineSize /\ pipeline[1].future
                       ELSE Len(pipeline) < PipelineSize
    /\ \A i \in 1..Len(pipeline) :
         /\ pipeline[i].batch = Back(cur, Len(pipeline) - i)
         /\ pipeline[i].future => batches[pipeline[i].batch] # <<>>

(* The blocks the manager holds are those the scheduler counts, except for *)
(* the batch whose answer came last.                                       *)
BlocksInv ==
    /\ \A r \in Requests : r \notin Accepted => mem.blocks[r] = 0
    /\ \A r \in migrating \cup Members(waiting) : mem.blocks[r] = PromptNeed[r]
    /\ \A r \in Members(swapped) \cup InBatches : mem.blocks[r] <= Need[r]
    /\ \A i \in Indexes : \A r \in Members(batches[i]) :
         (pc = "await" \/ i # CurIndex) => mem.blocks[r] = Need[r]
    /\ HeldOn(mem, "gpu") <= MaxGpuBlocks

Unfinished == \A r \in Requests \ done : out[r] < MaxOutput[r]

Inv ==
    /\ TypeOK /\ out \in [Requests -> Nat]
    /\ QueuesInv /\ PipelineInv /\ BlocksInv /\ Unfinished
    /\ LocationMatchesQueue /\ OnlyCpuCanFail

-----------------------------------------------------------------------------
(* What the scheduler takes a request to need *)
LEMMA BlocksForMonotone ==
    ASSUME NEW m \in Nat, NEW n \in Nat, m <= n
    PROVE  /\ BlocksFor(m) \in Nat /\ BlocksFor(n) \in Nat
           /\ BlocksFor(m) <= BlocksFor(n)
BY CeilMonotone, KVCountsAssumption DEF BlocksFor

LEMMA Needs ==
    ASSUME out \in [Requests -> Nat], NEW r \in Requests
    PROVE  Need[r] \in Nat /\ PromptNeed[r] \in Nat /\ PromptNeed[r] <= Need[r]
<1>1. /\ PromptLen[r] \in Nat /\ PromptLen[r] + out[r] \in Nat
      /\ PromptLen[r] <= PromptLen[r] + out[r]
  BY DecodeFCFSAssumption
<1> QED BY <1>1, BlocksForMonotone DEF Need, PromptNeed

LEMMA RequestSets ==
    ASSUME NEW S \in SUBSET Requests, NEW f \in [Requests -> Nat]
    PROVE  IsFiniteSet(S) /\ SumOver(f, S) \in Nat
<1>1. IsFiniteSet(S)
  BY DecodeFCFSAssumption, FS_Subset
<1> QED BY <1>1, SumFinite

LEMMA NeedFunctions ==
    ASSUME out \in [Requests -> Nat]
    PROVE  Need \in [Requests -> Nat] /\ PromptNeed \in [Requests -> Nat]
BY Needs DEF Need, PromptNeed

(* The batch that is worked on next *)
LEMMA CurIndexFacts ==
    ASSUME cur \in Indexes \cup {-1}
    PROVE  /\ CurIndex \in Indexes
           /\ CurIndex = IF cur + 1 = PipelineSize THEN 0 ELSE cur + 1
           /\ LastStage = CurIndex
<1>1. PipelineSize \in Nat \ {0} /\ cur + 1 \in 0..PipelineSize
  BY DecodeFCFSAssumption DEF Indexes
<1>2. CASE cur + 1 = PipelineSize
  BY <1>1, <1>2 DEF CurIndex, Indexes, LastStage
<1>3. CASE cur + 1 < PipelineSize
  BY <1>1, <1>3 DEF CurIndex, Indexes, LastStage
<1> QED BY <1>1, <1>2, <1>3

(* The batches, one of them and the others *)
LEMMA BatchChanged ==
    ASSUME NEW c \in Indexes, NEW b, batches \in [Indexes -> Seq(Requests)],
           batches' = [batches EXCEPT ![c] = b]
    PROVE  /\ InBatches' = OtherBatches(c) \cup Members(b)
           /\ \A i \in Indexes : batches'[i] = IF i = c THEN b ELSE batches[i]
<1>1. \A i \in Indexes : batches'[i] = IF i = c THEN b ELSE batches[i]
  OBVIOUS
<1>2. InBatches' = UNION {Members(batches'[i]) : i \in Indexes}
  BY DEF InBatches, Indexes, Members
<1> QED BY <1>1, <1>2 DEF OtherBatches

LEMMA BatchSplit ==
    ASSUME NEW c \in Indexes
    PROVE  InBatches = OtherBatches(c) \cup Members(batches[c])
BY DEF InBatches, OtherBatches

LEMMA InBatchesElements ==
    ASSUME NEW r
    PROVE  r \in InBatches <=> \E i \in Indexes : r \in Members(batches[i])
BY DEF InBatches

LEMMA InitInv == Init => Inv
<1> SUFFICES ASSUME Init PROVE Inv
  OBVIOUS
<1> USE DecodeFCFSAssumption, KVCountsAssumption DEF Init, NoBlocks
<1>1. \A i \in Indexes : Members(batches[i]) = {} /\ Distinct(batches[i])
  BY DEF Members, Distinct
<1>2. InBatches = {} /\ Members(unaccepted) = {} /\ Members(waiting) = {}
      /\ Members(swapped) = {}
  BY <1>1 DEF InBatches, Members
<1>3. Accepted = {}
  BY <1>2 DEF Accepted
<1>4. TypeOK /\ out \in [Requests -> Nat]
  BY DEF TypeOK, Places
<1>5. QueuesInv
  BY <1>1, <1>2, <1>3 DEF QueuesInv, Distinct
<1>6. PipelineInv
  BY DEF PipelineInv
<1>7. HeldOn(mem, "gpu") = 0
  <2>1. {r \in Requests : mem.loc[r] = "gpu"} = {}
    OBVIOUS
  <2> QED BY <2>1, SumEmpty DEF HeldOn
<1>8. BlocksInv
  BY <1>1, <1>2, <1>7 DEF BlocksInv
<1>9. LocationMatchesQueue
  BY <1>2, <1>3 DEF LocationMatchesQueue
<1> QED BY <1>4, <1>5, <1>6, <1>8, <1>9 DEF Inv, Unfinished, OnlyCpuCanFail

-----------------------------------------------------------------------------
(* A scheduling round: the requests that stay in the batch and those that  *)
(* are swapped out of it, and the queue the batch is filled from.          *)
LEMMA KeptAndDropped ==
    ASSUME NEW c \in Indexes, batches[c] \in Seq(Requests), Distinct(batches[c]),
           NEW k \in SwapOuts(c)
    PROVE  /\ Kept(c, k) \in Seq(Requests) /\ Dropped(c, k) \in Seq(Requests)
           /\ Distinct(Kept(c, k)) /\ Distinct(Dropped(c, k))
           /\ Len(Dropped(c, k)) = k
           /\ Members(batches[c]) = Members(Kept(c, k)) \cup Members(Dropped(c, k))
           /\ Members(Kept(c, k)) \cap Members(Dropped(c, k)) = {}
<1> DEFINE b == batches[c]
           n == Len(b)
           kept == Kept(c, k)
           dropped == Dropped(c, k)
<1>1. b \in Seq(Requests) /\ Distinct(b) /\ n \in Nat /\ k \in 0..n
  BY DEF SwapOuts
<1>2. kept = SubSeq(b, 1, n - k) /\ dropped = [i \in 1..k |-> b[n + 1 - i]]
  BY DEF Kept, Dropped
<1> HIDE DEF b, n, kept, dropped
<1>3. /\ kept \in Seq(Requests) /\ Distinct(kept)
      /\ Members(kept) = {b[i] : i \in 1..(n - k)}
  <2>1. 1 \in 1..(Len(b) + 1) /\ n - k \in 0..Len(b)
    BY <1>1 DEF n
  <2> QED BY <1>1, <1>2, <2>1, MembersOfSlice
<1>4. /\ \A i \in 1..k : n + 1 - i \in (n - k + 1)..n /\ n + 1 - i \in 1..n
      /\ \A i \in 1..n : b[i] \in Requests
      /\ \A i, m \in 1..n : b[i] = b[m] => i = m
  BY <1>1 DEF Distinct, n
<1>5. dropped \in Seq(Requests) /\ Len(dropped) = k
  BY <1>1, <1>2, <1>4
<1>6. Members(dropped) = {b[i] : i \in (n - k + 1)..n}
  <2>1. ASSUME NEW i \in (n - k + 1)..n PROVE b[i] \in Members(dropped)
    <3>1. n + 1 - i \in 1..k /\ n + 1 - (n + 1 - i) = i
      BY <1>1
    <3>2. dropped[n + 1 - i] = b[i]
      BY <1>2, <3>1
    <3> QED BY <1>5, <3>1, <3>2 DEF Members
  <2>2. ASSUME NEW x \in Members(dropped) PROVE x \in {b[i] : i \in (n - k + 1)..n}
    <3>1. PICK i \in 1..k : x = dropped[i]
      BY <1>5 DEF Members
    <3> QED BY <1>2, <1>4, <3>1
  <2> QED BY <2>1, <2>2
<1>7. Distinct(dropped)
  <2> SUFFICES ASSUME NEW i \in 1..k, NEW m \in 1..k, dropped[i] = dropped[m] PROVE i = m
    BY <1>5 DEF Distinct
  <2>1. n + 1 - i \in 1..n /\ n + 1 - m \in 1..n /\ b[n + 1 - i] = b[n + 1 - m]
    BY <1>2, <1>4
  <2>2. n + 1 - i = n + 1 - m
    BY <1>4, <2>1
  <2> QED BY <1>1, <2>2
<1>8. Members(b) = {b[i] : i \in 1..n}
  BY DEF Members, n
<1>9. Members(b) = Members(kept) \cup Members(dropped)
  <2>1. \A i \in 1..n : i \in 1..(n - k) \/ i \in (n - k + 1)..n
    BY <1>1
  <2>2. \A i \in 1..(n - k) : i \in 1..n
    BY <1>1
  <2>3. \A i \in (n - k + 1)..n : i \in 1..n
    BY <1>1
  <2> QED BY <1>3, <1>6, <1>8, <2>1, <2>2, <2>3
<1>10. Members(kept) \cap Members(dropped) = {}
  <2> SUFFICES ASSUME NEW i \in 1..(n - k), NEW m \in (n - k + 1)..n, b[i] = b[m] PROVE FALSE
    BY <1>3, <1>6
  <2> QED BY <1>1, <1>4
<1> QED BY <1>3, <1>5, <1>7, <1>9, <1>10 DEF b, kept, dropped

LEMMA QueueFacts ==
    ASSUME TypeOK, QueuesInv, NEW c \in Indexes, NEW k \in SwapOuts(c),
           NEW q, q = Queue(c, k), NEW n, n = Len(swapped) + k
    PROVE  /\ q \in Seq(Requests) /\ Distinct(q)
           /\ n \in 0..Len(q)
           /\ {q[i] : i \in 1..n} = Members(swapped) \cup Members(Dropped(c, k))
           /\ {q[i] : i \in (n + 1)..Len(q)} = Members(waiting)
<1> DEFINE dropped == Dropped(c, k)
           front == swapped \o dropped
<1>1. /\ dropped \in Seq(Requests) /\ Distinct(dropped) /\ Len(dropped) = k
      /\ Members(dropped) \subseteq Members(batches[c])
  BY KeptAndDropped DEF TypeOK, QueuesInv
<1>2. Members(dropped) \subseteq InBatches
  BY <1>1, InBatchesElements
<1>3. /\ swapped \in Seq(Requests) /\ Distinct(swapped)
      /\ waiting \in Seq(Requests) /\ Distinct(waiting)
      /\ Members(swapped) \cap Members(dropped) = {}
      /\ Members(waiting) \cap (Members(swapped) \cup Members(dropped)) = {}
  BY <1>2 DEF TypeOK, QueuesInv
<1> HIDE DEF dropped
<1>4. /\ front \in Seq(Requests) /\ Distinct(front)
      /\ Members(front) = Members(swapped) \cup Members(dropped)
      /\ Len(front) = n /\ n \in Nat
  BY <1>1, <1>3, MembersOfConcat, ConcatProperties
<1>5. q = front \o waiting
  BY DEF Queue, dropped
<1> HIDE DEF front
<1>6. /\ q \in Seq(Requests) /\ Distinct(q) /\ Len(q) = n + Len(waiting)
      /\ \A i \in 1..(n + Len(waiting)) : q[i] = IF i <= n THEN front[i] ELSE waiting[i - n]
  BY <1>3, <1>4, <1>5, MembersOfConcat, ConcatProperties
<1>7. Len(waiting) \in Nat
  BY <1>3
<1>8. {q[i] : i \in 1..n} = Members(front)
  <2>1. \A i \in 1..n : q[i] = front[i]
    BY <1>4, <1>6, <1>7
  <2>2. Members(front) = {front[i] : i \in 1..n}
    BY <1>4 DEF Members
  <2> QED BY <2>1, <2>2, Zenon
<1>9. {q[i] : i \in (n + 1)..Len(q)} = Members(waiting)
  <2>1. ASSUME NEW i \in (n + 1)..Len(q)
        PROVE  i - n \in 1..Len(waiting) /\ q[i] = waiting[i - n]
    <3>1. i \in 1..(n + Len(waiting)) /\ ~(i <= n) /\ i - n \in 1..Len(waiting)
      BY <1>4, <1>6, <1>7
    <3>2. q[i] = IF i <= n THEN front[i] ELSE waiting[i - n]
      BY <1>6, <3>1, Zenon
    <3> QED BY <3>1, <3>2, Zenon
  <2>2. ASSUME NEW i \in 1..Len(waiting)
        PROVE  i + n \in (n + 1)..Len(q) /\ q[i + n] = waiting[i]
    <3>1. /\ i + n \in (n + 1)..Len(q) /\ ~(i + n <= n) /\ (i + n) - n = i
          /\ i + n \in 1..(n + Len(waiting))
      BY <1>4, <1>6, <1>7
    <3>2. q[i + n] = IF i + n <= n THEN front[i + n] ELSE waiting[(i + n) - n]
      BY <1>6, <3>1, Zenon
    <3> QED BY <3>1, <3>2, Zenon
  <2>3. \A x \in Members(waiting) : x \in {q[i] : i \in (n + 1)..Len(q)}
    BY <2>2 DEF Members
  <2>4. \A x \in {q[i] : i \in (n + 1)..Len(q)} : x \in Members(waiting)
    BY <2>1 DEF Members
  <2> QED BY <2>3, <2>4
<1> QED BY <1>4, <1>6, <1>7, <1>8, <1>9 DEF dropped

(* The round deals the queue out: the first j requests to the batch, what  *)
(* is left of the swapped and the dropped ones to the swapped queue, what  *)
(* is left of the waiting ones to the waiting queue.                       *)
Taken(c, k, j) == SubSeq(Queue(c, k), 1, j)
SwappedNext(c, k, j) == SubSeq(Queue(c, k), j + 1, Len(swapped) + k)
WaitingNext(c, k, j) ==
    SubSeq(Queue(c, k), (IF j > Len(swapped) + k THEN j ELSE Len(swapped) + k) + 1,
           Len(Queue(c, k)))

LEMMA RoundDeals ==
    ASSUME TypeOK, QueuesInv, NEW c \in Indexes, NEW k \in SwapOuts(c), NEW j \in Fills(c, k)
    PROVE  /\ Taken(c, k, j) \in Seq(Requests) /\ Distinct(Taken(c, k, j))
           /\ SwappedNext(c, k, j) \in Seq(Requests) /\ Distinct(SwappedNext(c, k, j))
           /\ WaitingNext(c, k, j) \in Seq(Requests) /\ Distinct(WaitingNext(c, k, j))
           /\ Members(SwappedNext(c, k, j)) \subseteq Members(swapped) \cup Members(Dropped(c, k))
           /\ Members(WaitingNext(c, k, j)) \subseteq Members(waiting)
           /\ Members(WaitingNext(c, k, j)) = StillWaiting(Queue(c, k), Len(swapped) + k, j + 1)
           /\ Members(Taken(c, k, j)) \cup Members(SwappedNext(c, k, j))
                \cup Members(WaitingNext(c, k, j))
                = Members(swapped) \cup Members(Dropped(c, k)) \cup Members(waiting)
           /\ Members(Taken(c, k, j)) \cap
                (Members(SwappedNext(c, k, j)) \cup Members(WaitingNext(c, k, j))) = {}
<1> DEFINE q == Queue(c, k)
           n == Len(swapped) + k
           m == IF j > n THEN j ELSE n
           l == Len(q)
<1>1. /\ q \in Seq(Requests) /\ Distinct(q) /\ n \in 0..l
      /\ {q[i] : i \in 1..n} = Members(swapped) \cup Members(Dropped(c, k))
      /\ {q[i] : i \in (n + 1)..l} = Members(waiting)
  BY QueueFacts
<1>2. /\ Taken(c, k, j) = SubSeq(q, 1, j)
      /\ SwappedNext(c, k, j) = SubSeq(q, j + 1, n)
      /\ WaitingNext(c, k, j) = SubSeq(q, m + 1, l)
      /\ j \in 0..l /\ l = Len(q)
  BY DEF Taken, SwappedNext, WaitingNext, Fills
<1> HIDE DEF q, n, l
<1>3. l \in Nat /\ m \in 0..l /\ n <= m /\ j <= m
  BY <1>1, <1>2
<1>4. /\ Taken(c, k, j) \in Seq(Requests) /\ Distinct(Taken(c, k, j))
      /\ Members(Taken(c, k, j)) = {q[i] : i \in 1..j}
  <2>1. 1 \in 1..(Len(q) + 1) /\ j \in 0..Len(q)
    BY <1>2, <1>3
  <2>2. /\ SubSeq(q, 1, j) \in Seq(Requests) /\ Distinct(SubSeq(q, 1, j))
        /\ Members(SubSeq(q, 1, j)) = {q[i] : i \in 1..j}
    BY <1>1, <2>1, MembersOfSlice
  <2> QED BY <1>2, <2>2, Zenon
<1>5. /\ SwappedNext(c, k, j) \in Seq(Requests) /\ Distinct(SwappedNext(c, k, j))
      /\ Members(SwappedNext(c, k, j)) = {q[i] : i \in (j + 1)..n}
  <2>1. j + 1 \in 1..(Len(q) + 1) /\ n \in 0..Len(q)
    BY <1>1, <1>2, <1>3
  <2>2. /\ SubSeq(q, j + 1, n) \in Seq(Requests) /\ Distinct(SubSeq(q, j + 1, n))
        /\ Members(SubSeq(q, j + 1, n)) = {q[i] : i \in (j + 1)..n}
    BY <1>1, <2>1, MembersOfSlice
  <2> QED BY <1>2, <2>2, Zenon
<1>6. /\ WaitingNext(c, k, j) \in Seq(Requests) /\ Distinct(WaitingNext(c, k, j))
      /\ Members(WaitingNext(c, k, j)) = {q[i] : i \in (m + 1)..l}
  <2>1. m + 1 \in 1..(Len(q) + 1) /\ l \in 0..Len(q)
    BY <1>2, <1>3
  <2> HIDE DEF m
  <2>2. /\ SubSeq(q, m + 1, l) \in Seq(Requests) /\ Distinct(SubSeq(q, m + 1, l))
        /\ Members(SubSeq(q, m + 1, l)) = {q[i] : i \in (m + 1)..l}
    BY <1>1, <2>1, MembersOfSlice
  <2> QED BY <1>2, <2>2, Zenon
<1>7. {q[i] : i \in (j + 1)..n} \subseteq {q[i] : i \in 1..n}
  BY <1>1, <1>2
<1>8. {q[i] : i \in (m + 1)..l} \subseteq {q[i] : i \in (n + 1)..l}
  BY <1>1, <1>3
<1>9. {q[i] : i \in (m + 1)..l} = StillWaiting(q, n, j + 1)
  <2>1. \A i : i \in (m + 1)..l <=> i \in {x \in 1..Len(q) : x > n /\ x >= j + 1}
    BY <1>1, <1>2, <1>3
  <2>2. (m + 1)..l = {x \in 1..Len(q) : x > n /\ x >= j + 1}
    BY <2>1
  <2> QED BY <2>2 DEF StillWaiting
<1>10. {q[i] : i \in 1..j} \cup {q[i] : i \in (j + 1)..n} \cup {q[i] : i \in (m + 1)..l}
         = {q[i] : i \in 1..n} \cup {q[i] : i \in (n + 1)..l}
  <2>1. \A i \in Int : (i \in 1..j \/ i \in (j + 1)..n \/ i \in (m + 1)..l)
                         <=> (i \in 1..n \/ i \in (n + 1)..l)
    BY <1>1, <1>2, <1>3
  <2>2. 1..j \cup (j + 1)..n \cup (m + 1)..l = 1..n \cup (n + 1)..l
    BY <2>1
  <2> HIDE DEF m
  <2> QED BY <2>2
<1>11. {q[i] : i \in 1..j} \cap ({q[i] : i \in (j + 1)..n} \cup {q[i] : i \in (m + 1)..l}) = {}
  <2> SUFFICES ASSUME NEW i \in 1..j, NEW x \in (j + 1)..n \cup (m + 1)..l, q[i] = q[x]
               PROVE  FALSE
    OBVIOUS
  <2>1. i \in 1..Len(q) /\ x \in 1..Len(q) /\ i # x
    BY <1>1, <1>2, <1>3
  <2> QED BY <1>1, <2>1 DEF Distinct
<1> HIDE DEF m
<1> QED BY <1>1, <1>4, <1>5, <1>6, <1>7, <1>8, <1>9, <1>10, <1>11 DEF q, n

(* The queues and the batch after the round *)
LEMMA RoundQueues ==
    ASSUME TypeOK, QueuesInv, NEW c \in Indexes, NEW k \in SwapOuts(c), NEW j \in Fills(c, k),
           NEW b, b = Members(NextBatch(c, k, j)),
           NEW s, s = Members(SwappedNext(c, k, j)),
           NEW w, w = Members(WaitingNext(c, k, j))
    PROVE  /\ NextBatch(c, k, j) \in Seq(Requests) /\ Distinct(NextBatch(c, k, j))
           /\ b = Members(Kept(c, k)) \cup Members(Taken(c, k, j))
           /\ Members(Kept(c, k)) \cap Members(Taken(c, k, j)) = {}
           /\ b \subseteq Requests /\ s \subseteq Requests /\ w \subseteq Requests
           /\ w \subseteq Members(waiting)
           /\ s \subseteq Members(swapped) \cup Members(Dropped(c, k))
           /\ b \cap s = {} /\ b \cap w = {} /\ s \cap w = {}
           /\ b \cup s \cup w = Members(batches[c]) \cup Members(swapped) \cup Members(waiting)
           /\ OtherBatches(c) \subseteq Requests
           /\ (b \cup s \cup w) \cap OtherBatches(c) = {}
<1> DEFINE kept == Members(Kept(c, k))
           dropped == Members(Dropped(c, k))
           taken == Members(Taken(c, k, j))
<1>1. /\ Kept(c, k) \in Seq(Requests) /\ Distinct(Kept(c, k))
      /\ Dropped(c, k) \in Seq(Requests)
      /\ Members(batches[c]) = kept \cup dropped /\ kept \cap dropped = {}
  BY KeptAndDropped DEF TypeOK, QueuesInv
<1>2. /\ Taken(c, k, j) \in Seq(Requests) /\ Distinct(Taken(c, k, j))
      /\ SwappedNext(c, k, j) \in Seq(Requests) /\ WaitingNext(c, k, j) \in Seq(Requests)
      /\ s \subseteq Members(swapped) \cup dropped /\ w \subseteq Members(waiting)
      /\ taken \cup s \cup w = Members(swapped) \cup dropped \cup Members(waiting)
      /\ taken \cap (s \cup w) = {}
  BY RoundDeals
<1>3. Members(batches[c]) \subseteq InBatches /\ OtherBatches(c) \subseteq InBatches
      /\ Members(batches[c]) \cap OtherBatches(c) = {}
  BY DEF InBatches, OtherBatches, QueuesInv
<1>4. /\ Members(waiting) \cap (Members(swapped) \cup InBatches) = {}
      /\ Members(swapped) \cap InBatches = {}
  BY DEF QueuesInv
<1>5. NextBatch(c, k, j) = Kept(c, k) \o Taken(c, k, j)
  BY DEF NextBatch, Taken
<1>6. \A i \in Indexes : Members(batches[i]) \subseteq Requests
  BY ElementOfSeq DEF TypeOK, Members
<1>7. OtherBatches(c) \subseteq Requests
  BY <1>6 DEF OtherBatches
<1> HIDE DEF kept, dropped, taken
<1>8. kept \cap taken = {}
  BY <1>1, <1>2, <1>3, <1>4
<1>9. /\ NextBatch(c, k, j) \in Seq(Requests) /\ Distinct(NextBatch(c, k, j))
      /\ b = kept \cup taken
  BY <1>1, <1>2, <1>5, <1>8, MembersOfConcat DEF kept, taken
<1>10. b \subseteq Requests /\ s \subseteq Requests /\ w \subseteq Requests
  BY <1>2, <1>9, ElementOfSeq DEF Members
<1>11. b \cup s \cup w = Members(batches[c]) \cup Members(swapped) \cup Members(waiting)
  BY <1>1, <1>2, <1>9
<1>12. b \cap s = {} /\ b \cap w = {} /\ s \cap w = {}
  BY <1>1, <1>2, <1>3, <1>4, <1>9
<1> QED BY <1>2, <1>3, <1>4, <1>7, <1>8, <1>9, <1>10, <1>11, <1>12 DEF kept, dropped, taken

(* The blocks and the places after the round *)
LEMMA RoundMem ==
    ASSUME Inv, pc = "step", NEW c \in Indexes, NEW k \in SwapOuts(c), NEW j \in Fills(c, k),
           NEW b, b = Members(NextBatch(c, k, j)),
           NEW s, s = Members(SwappedNext(c, k, j)),
           NEW w, w = Members(WaitingNext(c, k, j)),
           NEW m, m = NextMem(c, k, j)
    PROVE  /\ m \in [blocks: [Requests -> Nat], loc: [Requests -> Places]]
           /\ \A r \in Requests :
                /\ m.blocks[r] = IF r \in b THEN Need[r] ELSE mem.blocks[r]
                /\ m.loc[r] = IF r \in s THEN "cpu"
                              ELSE IF r \in OtherBatches(c) \cup b \cup w THEN "gpu" ELSE "none"
<1>1. /\ TypeOK /\ QueuesInv /\ BlocksInv /\ LocationMatchesQueue
      /\ out \in [Requests -> Nat]
  BY DEF Inv
<1> DEFINE kept == Members(Kept(c, k))
           dropped == Members(Dropped(c, k))
           taken == Members(Taken(c, k, j))
<1>2. /\ b = kept \cup taken
      /\ b \subseteq Requests /\ s \subseteq Requests /\ w \subseteq Requests
      /\ w \subseteq Members(waiting) /\ s \subseteq Members(swapped) \cup dropped
      /\ b \cap s = {} /\ b \cap w = {} /\ s \cap w = {}
      /\ b \cup s \cup w = Members(batches[c]) \cup Members(swapped) \cup Members(waiting)
      /\ OtherBatches(c) \subseteq Requests
      /\ (b \cup s \cup w) \cap OtherBatches(c) = {}
  BY <1>1, RoundQueues
<1>3. Members(batches[c]) = kept \cup dropped /\ kept \cap dropped = {}
  BY <1>1, KeptAndDropped DEF TypeOK, QueuesInv
<1>4. taken \cup s \cup w = Members(swapped) \cup dropped \cup Members(waiting)
  BY <1>1, RoundDeals
<1>5. /\ Members(waiting) \cap (Members(swapped) \cup InBatches) = {}
      /\ Members(swapped) \cap InBatches = {}
      /\ migrating = {}
      /\ InBatches = OtherBatches(c) \cup Members(batches[c])
      /\ Accepted = InBatches \cup Members(waiting) \cup Members(swapped)
  BY <1>1, BatchSplit DEF QueuesInv, Accepted
<1>6. \A r \in Requests : mem.loc[r] = IF r \in Members(swapped) THEN "cpu"
                                       ELSE IF r \in Accepted THEN "gpu" ELSE "none"
  BY <1>1 DEF LocationMatchesQueue
<1>7. /\ m.blocks = [r \in Requests |-> IF r \in b /\ Need[r] > mem.blocks[r]
                                        THEN Need[r] ELSE mem.blocks[r]]
      /\ m.loc = [r \in Requests |-> IF r \in taken THEN "gpu"
                                     ELSE IF r \in dropped THEN "cpu" ELSE mem.loc[r]]
      /\ m = [blocks |-> m.blocks, loc |-> m.loc]
  <2>1. mem \in [blocks: [Requests -> Nat], loc: [Requests -> Places]]
    BY <1>1 DEF TypeOK
  <2> DEFINE a == AfterSwaps(Dropped(c, k), SubSeq(Queue(c, k), 1, j))
             l == [r \in Requests |-> IF r \in taken THEN "gpu"
                                     ELSE IF r \in dropped THEN "cpu" ELSE mem.loc[r]]
  <2>2. a = [mem EXCEPT !.loc = l]
    BY DEF AfterSwaps, Taken
  <2> HIDE DEF a, l
  <2>3. a = [blocks |-> mem.blocks, loc |-> l]
    BY <2>1, <2>2
  <2> DEFINE f == [r \in Requests |-> IF r \in b /\ Need[r] > mem.blocks[r]
                                      THEN Need[r] ELSE mem.blocks[r]]
  <2>4. a.blocks = mem.blocks /\ a.loc = l
    BY <2>3
  <2>5. m = [a EXCEPT !.blocks = f]
    BY <2>4, Zenon DEF NextMem, AfterAllocation, a
  <2> HIDE DEF f
  <2>6. m = [blocks |-> f, loc |-> l]
    BY <2>3, <2>5
  <2> QED BY <2>6 DEF f, l
<1>8. \A r \in Requests : Need[r] \in Nat /\ mem.blocks[r] \in Nat
  BY <1>1, Needs DEF TypeOK
<1>9. \A r \in b : mem.blocks[r] <= Need[r]
  <2> SUFFICES ASSUME NEW r \in b PROVE mem.blocks[r] <= Need[r]
    OBVIOUS
  <2>1. CASE r \in Members(waiting)
    BY <1>1, <1>2, <2>1, Needs DEF BlocksInv
  <2>2. CASE r \in Members(swapped) \cup InBatches
    BY <1>1, <2>2 DEF BlocksInv
  <2> QED BY <1>2, <1>5, <2>1, <2>2
<1> HIDE DEF kept, dropped, taken
<1>10. \A r \in Requests : m.blocks[r] = IF r \in b THEN Need[r] ELSE mem.blocks[r]
  <2> SUFFICES ASSUME NEW r \in Requests
               PROVE  m.blocks[r] = IF r \in b THEN Need[r] ELSE mem.blocks[r]
    OBVIOUS
  <2>1. m.blocks[r] = IF r \in b /\ Need[r] > mem.blocks[r] THEN Need[r] ELSE mem.blocks[r]
    BY <1>7, Zenon
  <2> QED BY <1>8, <1>9, <2>1
<1>11. \A r \in Requests :
          m.loc[r] = IF r \in s THEN "cpu"
                     ELSE IF r \in OtherBatches(c) \cup b \cup w THEN "gpu" ELSE "none"
  <2> SUFFICES ASSUME NEW r \in Requests
               PROVE  m.loc[r] = IF r \in s THEN "cpu"
                                 ELSE IF r \in OtherBatches(c) \cup b \cup w
                                      THEN "gpu" ELSE "none"
    OBVIOUS
  <2>1. m.loc[r] = IF r \in taken THEN "gpu"
                   ELSE IF r \in dropped THEN "cpu" ELSE mem.loc[r]
    BY <1>7, Zenon
  <2>2. mem.loc[r] = IF r \in Members(swapped) THEN "cpu"
                     ELSE IF r \in Accepted THEN "gpu" ELSE "none"
    BY <1>6
  <2>3. CASE r \in s
    BY <1>2, <1>5, <2>1, <2>2, <2>3
  <2>4. CASE r \in b
    <3>1. CASE r \in taken
      BY <1>2, <2>1, <2>4, <3>1
    <3>2. CASE r \in kept
      BY <1>2, <1>3, <1>5, <2>1, <2>2, <2>4, <3>2
    <3> QED BY <1>2, <2>4, <3>1, <3>2
  <2>5. CASE r \in w
    BY <1>2, <1>3, <1>5, <2>1, <2>2, <2>5
  <2>6. CASE r \notin b \cup s \cup w
    BY <1>2, <1>3, <1>4, <1>5, <2>1, <2>2, <2>6
  <2> QED BY <2>3, <2>4, <2>5, <2>6
<1>12. m \in [blocks: [Requests -> Nat], loc: [Requests -> Places]]
  <2>1. m.blocks \in [Requests -> Nat]
    BY <1>7, <1>8
  <2>2. m.loc \in [Requests -> Places]
    BY <1>1, <1>7 DEF TypeOK, Places
  <2> QED BY <1>7, <2>1, <2>2
<1> QED BY <1>10, <1>11, <1>12

(* One more request in the batch adds what it needs; fewer requests in the *)
(* waiting queue take nothing away that was not counted.                   *)
LEMMA DemandGrows ==
    ASSUME out \in [Requests -> Nat], NEW c \in Indexes, OtherBatches(c) \subseteq Requests,
           NEW b, NEW d, NEW r \in Requests,
           Members(b) \subseteq Requests, Members(d) = Members(b) \cup {r},
           r \notin OtherBatches(c) \cup Members(b),
           NEW v \in SUBSET Requests, NEW w \in SUBSET v,
           Demand(c, b, v) + Need[r] <= MaxGpuBlocks
    PROVE  Demand(c, d, w) <= MaxGpuBlocks
<1> DEFINE S == OtherBatches(c) \cup Members(b)
<1>1. Need \in [Requests -> Nat] /\ PromptNeed \in [Requests -> Nat]
  BY NeedFunctions
<1>2. /\ S \subseteq Requests /\ r \notin S /\ IsFiniteSet(S) /\ IsFiniteSet({r})
      /\ OtherBatches(c) \cup Members(d) = S \cup {r}
      /\ IsFiniteSet(v)
  BY FS_Singleton, RequestSets, <1>1
<1>3. /\ Demand(c, b, v) = SumOver(Need, S) + SumOver(PromptNeed, v)
      /\ Demand(c, d, w) = SumOver(Need, S \cup {r}) + SumOver(PromptNeed, w)
  BY <1>2 DEF Demand
<1> HIDE DEF S
<1>4. /\ SumOver(Need, S) \in Nat /\ SumOver(PromptNeed, v) \in Nat
      /\ SumOver(PromptNeed, w) \in Nat /\ Need[r] \in Nat
  BY <1>1, <1>2, RequestSets
<1>5. SumOver(Need, S \cup {r}) = SumOver(Need, S) + Need[r]
  <2>1. S \cap {r} = {} /\ \A x \in S \cup {r} : Need[x] \in Nat
    BY <1>1, <1>2
  <2>2. SumOver(Need, S \cup {r}) = SumOver(Need, S) + SumOver(Need, {r})
    BY <1>2, <2>1, SumUnion
  <2> QED BY <1>4, <2>2, SumSingleton
<1>6. SumOver(PromptNeed, w) <= SumOver(PromptNeed, v)
  <2>1. \A x \in v : PromptNeed[x] \in Nat
    BY <1>1
  <2> QED BY <1>2, <2>1, SumSubset
<1> QED BY <1>3, <1>4, <1>5, <1>6, KVCountsAssumption

(* What the batch, the others and the waiting queue need after the round   *)
(* fits the GPU, whichever request was the last that was checked.          *)
LEMMA RoundDemand ==
    ASSUME Inv, NEW c \in Indexes, NEW k \in SwapOuts(c), NEW j \in Fills(c, k),
           IsSchedule(c, k, j)
    PROVE  Demand(c, NextBatch(c, k, j), Members(WaitingNext(c, k, j))) <= MaxGpuBlocks
<1>1. TypeOK /\ QueuesInv /\ out \in [Requests -> Nat]
  BY DEF Inv
<1> DEFINE q == Queue(c, k)
           n == Len(swapped) + k
           kept == Kept(c, k)
           w == Members(WaitingNext(c, k, j))
<1>2. /\ q \in Seq(Requests) /\ Distinct(q) /\ n \in 0..Len(q)
      /\ {q[i] : i \in (n + 1)..Len(q)} = Members(waiting)
      /\ Len(q) \in Nat /\ j \in 0..Len(q)
  BY <1>1, QueueFacts DEF Fills
<1>3. /\ kept \in Seq(Requests) /\ OtherBatches(c) \subseteq Requests
      /\ (Members(kept) \cup Members(Taken(c, k, j))) \cap OtherBatches(c) = {}
      /\ Members(kept) \cap Members(Taken(c, k, j)) = {}
      /\ Members(NextBatch(c, k, j)) = Members(kept) \cup Members(Taken(c, k, j))
      /\ NextBatch(c, k, j) \in Seq(Requests)
      /\ Distinct(NextBatch(c, k, j))
  BY <1>1, RoundQueues, KeptAndDropped DEF TypeOK, QueuesInv
<1>4. w = StillWaiting(q, n, j + 1)
  BY <1>1, RoundDeals
<1>5. /\ NextBatch(c, k, j) = kept \o SubSeq(q, 1, j)
      /\ Taken(c, k, j) = SubSeq(q, 1, j)
  BY DEF NextBatch, Taken
<1>6. /\ FitsGpu(c, k)
      /\ \A i \in 1..j : FitsBatch(c, kept \o SubSeq(q, 1, i - 1), StillWaiting(q, n, i), q[i])
  BY DEF IsSchedule, IsSwapOut, IsFill
<1>7. \A i \in 1..(Len(q) + 1) : StillWaiting(q, n, i) \in SUBSET Requests
  BY <1>2, ElementOfSeq DEF StillWaiting
<1> HIDE DEF q, n, kept, w
<1>8. CASE j = 0
  <2>1. SubSeq(q, 1, j) \in Seq(Requests) /\ Members(SubSeq(q, 1, j)) = {}
    <3>1. 1 \in 1..(Len(q) + 1) /\ 0 \in 0..Len(q)
      BY <1>2
    <3>2. /\ SubSeq(q, 1, 0) \in Seq(Requests)
          /\ Members(SubSeq(q, 1, 0)) = {q[i] : i \in 1..0}
      BY <1>2, <3>1, MembersOfSlice
    <3> QED BY <1>8, <3>2
  <2>2. Members(NextBatch(c, k, j)) = Members(kept)
    BY <1>3, <1>5, <2>1
  <2>3. w = Members(waiting)
    <3>1. \A i : i \in (n + 1)..Len(q) <=> i \in {x \in 1..Len(q) : x > n /\ x >= j + 1}
      BY <1>2, <1>8
    <3>2. (n + 1)..Len(q) = {x \in 1..Len(q) : x > n /\ x >= j + 1}
      BY <3>1
    <3> QED BY <1>2, <1>4, <3>2 DEF StillWaiting
  <2> QED BY <1>6, <2>2, <2>3 DEF FitsGpu, Demand, kept, w
<1>9. CASE j > 0
  <2> DEFINE b == kept \o SubSeq(q, 1, j - 1)
             r == q[j]
             v == StillWaiting(q, n, j)
  <2>1. /\ j \in 1..j /\ j \in 1..Len(q) /\ j \in 1..(Len(q) + 1) /\ r \in Requests
    BY <1>2, <1>9, ElementOfSeq
  <2>2. Demand(c, b, v) + Need[r] <= MaxGpuBlocks
    BY <1>6, <2>1 DEF FitsBatch
  <2>3. v \in SUBSET Requests /\ w \in SUBSET v
    <3>1. \A x \in 1..Len(q) : x >= j + 1 => x >= j
      BY <1>2, <1>9
    <3> QED BY <1>4, <1>7, <2>1, <3>1 DEF StillWaiting
  <2>4. /\ SubSeq(q, 1, j - 1) \in Seq(Requests)
        /\ Members(SubSeq(q, 1, j - 1)) = {q[i] : i \in 1..(j - 1)}
    <3>1. 1 \in 1..(Len(q) + 1) /\ j - 1 \in 0..Len(q)
      BY <1>2, <1>9
    <3> QED BY <1>2, <3>1, MembersOfSlice
  <2>5. Members(SubSeq(q, 1, j)) = {q[i] : i \in 1..j}
    <3>1. 1 \in 1..(Len(q) + 1) /\ j \in 0..Len(q)
      BY <1>2
    <3> QED BY <1>2, <3>1, MembersOfSlice
  <2>6. Members(b) = Members(kept) \cup {q[i] : i \in 1..(j - 1)}
    <3> DEFINE t == SubSeq(q, 1, j - 1)
    <3>1. t \in Seq(Requests) /\ Members(t) = {q[i] : i \in 1..(j - 1)}
      BY <2>4
    <3> HIDE DEF t
    <3>2. Members(kept \o t) = Members(kept) \cup Members(t)
      BY <1>3, <3>1, MembersOfConcat
    <3> QED BY <3>1, <3>2 DEF t
  <2>7. {q[i] : i \in 1..j} = {q[i] : i \in 1..(j - 1)} \cup {r}
    <3>1. \A i \in 1..j : i \in 1..(j - 1) \/ i = j
      BY <1>2, <1>9
    <3>2. \A i \in 1..(j - 1) : i \in 1..j
      BY <1>2, <1>9
    <3> QED BY <2>1, <3>1, <3>2
  <2>8. r \notin Members(kept) \cup {q[i] : i \in 1..(j - 1)}
    <3>1. ASSUME NEW i \in 1..(j - 1), r = q[i] PROVE FALSE
      <4>1. i \in 1..Len(q) /\ j \in 1..Len(q) /\ i # j
        BY <1>2, <1>9
      <4> QED BY <1>2, <3>1, <4>1 DEF Distinct
    <3>2. r \in {q[i] : i \in 1..j}
      BY <2>7
    <3>3. Members(kept) \cap {q[i] : i \in 1..j} = {}
      BY <1>3, <1>5, <2>5
    <3> QED BY <3>1, <3>2, <3>3
  <2>9. Members(NextBatch(c, k, j)) = Members(b) \cup {r}
    BY <1>3, <1>5, <2>5, <2>6, <2>7
  <2>10. r \notin OtherBatches(c)
    BY <1>3, <1>5, <2>5, <2>7
  <2>11. Members(b) \subseteq Requests
    <3>1. Members(NextBatch(c, k, j)) \subseteq Requests
      BY <1>3, ElementOfSeq DEF Members
    <3> QED BY <2>9, <3>1
  <2> HIDE DEF b, r, v
  <2>12. r \notin OtherBatches(c) \cup Members(b)
    BY <2>6, <2>8, <2>10
  <2> QED BY <1>1, <1>3, <2>1, <2>2, <2>3, <2>9, <2>11, <2>12, DemandGrows DEF w
<1> QED BY <1>2, <1>8, <1>9

(* The allocation after the round finds room: the scheduler counted at     *)
(* least the blocks that every request on the GPU holds by then.           *)
LEMMA RoundFits ==
    ASSUME Inv, pc = "step", NEW c \in Indexes, c = CurIndex,
           NEW k \in SwapOuts(c), NEW j \in Fills(c, k), IsSchedule(c, k, j)
    PROVE  HeldOn(NextMem(c, k, j), "gpu") <= MaxGpuBlocks
<1>1. TypeOK /\ QueuesInv /\ BlocksInv /\ out \in [Requests -> Nat]
  BY DEF Inv
<1> DEFINE b == Members(NextBatch(c, k, j))
           s == Members(SwappedNext(c, k, j))
           w == Members(WaitingNext(c, k, j))
           m == NextMem(c, k, j)
           S == OtherBatches(c) \cup b
<1>2. /\ b \subseteq Requests /\ s \subseteq Requests /\ w \subseteq Requests
      /\ w \subseteq Members(waiting) /\ b \cap s = {} /\ b \cap w = {} /\ s \cap w = {}
      /\ OtherBatches(c) \subseteq Requests
      /\ (b \cup s \cup w) \cap OtherBatches(c) = {}
  BY <1>1, RoundQueues
<1>3. /\ m.blocks \in [Requests -> Nat]
      /\ \A r \in Requests :
           /\ m.blocks[r] = IF r \in b THEN Need[r] ELSE mem.blocks[r]
           /\ m.loc[r] = IF r \in s THEN "cpu"
                         ELSE IF r \in OtherBatches(c) \cup b \cup w THEN "gpu" ELSE "none"
  BY RoundMem
<1>4. Demand(c, NextBatch(c, k, j), w) = SumOver(Need, S) + SumOver(PromptNeed, w)
  BY DEF Demand
<1>5. Demand(c, NextBatch(c, k, j), w) <= MaxGpuBlocks
  BY RoundDemand
<1> HIDE DEF b, s, w, m
<1>6. S \in SUBSET Requests /\ w \in SUBSET Requests /\ S \cap w = {}
  BY <1>2
<1>7. {r \in Requests : m.loc[r] = "gpu"} = S \cup w
  BY <1>2, <1>3
<1>8. \A r \in S : m.blocks[r] <= Need[r]
  <2> SUFFICES ASSUME NEW r \in S PROVE m.blocks[r] <= Need[r]
    OBVIOUS
  <2>1. r \in Requests /\ Need[r] \in Nat
    BY <1>1, <1>6, Needs
  <2>2. CASE r \in b
    BY <1>3, <2>1, <2>2
  <2>3. CASE r \in OtherBatches(c)
    <3>1. mem.blocks[r] <= Need[r]
      BY <1>1, <2>3, BatchSplit DEF BlocksInv
    <3> QED BY <1>2, <1>3, <2>1, <2>3, <3>1
  <2> QED BY <2>2, <2>3
<1>9. \A r \in w : m.blocks[r] <= PromptNeed[r]
  <2> SUFFICES ASSUME NEW r \in w PROVE m.blocks[r] <= PromptNeed[r]
    OBVIOUS
  <2>1. r \in Requests /\ PromptNeed[r] \in Nat /\ mem.blocks[r] = PromptNeed[r]
    BY <1>1, <1>2, Needs DEF BlocksInv
  <2> QED BY <1>2, <1>3, <2>1
<1> HIDE DEF S
<1>10. Need \in [Requests -> Nat] /\ PromptNeed \in [Requests -> Nat]
  BY <1>1, NeedFunctions
<1>11. /\ IsFiniteSet(S) /\ IsFiniteSet(w)
       /\ SumOver(m.blocks, S) \in Nat /\ SumOver(m.blocks, w) \in Nat
       /\ SumOver(Need, S) \in Nat /\ SumOver(PromptNeed, w) \in Nat
  BY <1>3, <1>6, <1>10, RequestSets
<1>12. SumOver(m.blocks, S) <= SumOver(Need, S)
  <2>1. \A r \in S : m.blocks[r] \in Nat /\ Need[r] \in Nat
    BY <1>3, <1>6, <1>10
  <2> QED BY <1>8, <1>11, <2>1, SumMonotone
<1>13. SumOver(m.blocks, w) <= SumOver(PromptNeed, w)
  <2>1. \A r \in w : m.blocks[r] \in Nat /\ PromptNeed[r] \in Nat
    BY <1>3, <1>6, <1>10
  <2> QED BY <1>9, <1>11, <2>1, SumMonotone
<1>14. HeldOn(m, "gpu") = SumOver(m.blocks, S) + SumOver(m.blocks, w)
  <2>1. \A r \in S \cup w : m.blocks[r] \in Nat
    BY <1>3, <1>6
  <2>2. SumOver(m.blocks, S \cup w) = SumOver(m.blocks, S) + SumOver(m.blocks, w)
    BY <1>6, <1>11, <2>1, SumUnion
  <2> QED BY <1>7, <2>2 DEF HeldOn
<1>15. HeldOn(m, "gpu") <= MaxGpuBlocks
  BY <1>4, <1>5, <1>11, <1>12, <1>13, <1>14, KVCountsAssumption
<1> QED BY <1>15 DEF m

(* Popping the whole batch always makes the count fit: the other batches   *)
(* hold what they need, and the waiting requests what their prompts need.  *)
LEMMA PopsSuffice ==
    ASSUME Inv, pc = "step"
    PROVE  ~PopsEmpty(CurIndex)
<1> DEFINE c == CurIndex
           S == OtherBatches(c)
           w == Members(waiting)
           all == Len(batches[c])
<1>1. /\ TypeOK /\ QueuesInv /\ BlocksInv /\ LocationMatchesQueue
      /\ out \in [Requests -> Nat]
  BY DEF Inv
<1>2. /\ c \in Indexes /\ batches[c] \in Seq(Requests) /\ waiting \in Seq(Requests)
      /\ all \in SwapOuts(c) /\ all \in Nat
  BY <1>1, CurIndexFacts DEF TypeOK, SwapOuts
<1>3. Members(Kept(c, all)) = {}
  BY <1>2, MembersOfSlice DEF Kept
<1>4. /\ \A i \in Indexes : Members(batches[i]) \subseteq Requests
      /\ w \subseteq Requests
  BY <1>1, ElementOfSeq DEF TypeOK, Members
<1>5. S \in SUBSET Requests /\ w \in SUBSET Requests /\ S \cap w = {}
  BY <1>1, <1>4 DEF OtherBatches, QueuesInv, InBatches
<1>6. \A r \in S : mem.blocks[r] = Need[r]
  BY <1>1 DEF OtherBatches, BlocksInv
<1>7. \A r \in w : mem.blocks[r] = PromptNeed[r]
  BY <1>1 DEF BlocksInv
<1>8. \A r \in S \cup w : mem.loc[r] = "gpu"
  <2>1. S \cup w \subseteq Accepted /\ (S \cup w) \cap Members(swapped) = {}
    BY <1>1, BatchSplit, <1>2 DEF QueuesInv, Accepted
  <2> QED BY <1>1, <1>5, <2>1 DEF LocationMatchesQueue
<1> DEFINE G == {r \in Requests : mem.loc[r] = "gpu"}
<1>9. S \cup w \in SUBSET G /\ G \in SUBSET Requests
  BY <1>5, <1>8
<1>10. FitsGpu(c, all) <=> SumOver(Need, S) + SumOver(PromptNeed, w) <= MaxGpuBlocks
  <2>1. S \cup Members(Kept(c, all)) = S
    BY <1>3
  <2>2. Demand(c, Kept(c, all), w) = SumOver(Need, S) + SumOver(PromptNeed, w)
    BY <2>1, Zenon DEF Demand
  <2> QED BY <2>2 DEF FitsGpu
<1>11. HeldOn(mem, "gpu") = SumOver(mem.blocks, G) /\ HeldOn(mem, "gpu") <= MaxGpuBlocks
  BY <1>1 DEF HeldOn, BlocksInv
<1> HIDE DEF c, S, w, all, G
<1>12. /\ mem.blocks \in [Requests -> Nat]
       /\ Need \in [Requests -> Nat] /\ PromptNeed \in [Requests -> Nat]
  BY <1>1, NeedFunctions DEF TypeOK
<1>13. /\ IsFiniteSet(S) /\ IsFiniteSet(w) /\ IsFiniteSet(G)
       /\ SumOver(mem.blocks, S) \in Nat /\ SumOver(mem.blocks, w) \in Nat
       /\ SumOver(mem.blocks, G) \in Nat
       /\ SumOver(Need, S) \in Nat /\ SumOver(PromptNeed, w) \in Nat
  BY <1>5, <1>9, <1>12, RequestSets
<1>14. SumOver(Need, S) <= SumOver(mem.blocks, S)
  <2>1. \A r \in S : Need[r] \in Nat /\ mem.blocks[r] \in Nat /\ Need[r] <= mem.blocks[r]
    BY <1>5, <1>6, <1>12
  <2> QED BY <1>13, <2>1, SumMonotone
<1>15. SumOver(PromptNeed, w) <= SumOver(mem.blocks, w)
  <2>1. \A r \in w : /\ PromptNeed[r] \in Nat /\ mem.blocks[r] \in Nat
                     /\ PromptNeed[r] <= mem.blocks[r]
    BY <1>5, <1>7, <1>12
  <2> QED BY <1>13, <2>1, SumMonotone
<1>16. SumOver(mem.blocks, S) + SumOver(mem.blocks, w) <= SumOver(mem.blocks, G)
  <2>1. \A r \in G : mem.blocks[r] \in Nat
    BY <1>9, <1>12
  <2>2. SumOver(mem.blocks, S \cup w) = SumOver(mem.blocks, S) + SumOver(mem.blocks, w)
    <3>1. \A r \in S \cup w : mem.blocks[r] \in Nat
      BY <1>9, <2>1
    <3> QED BY <1>5, <1>13, <3>1, SumUnion
  <2>3. SumOver(mem.blocks, S \cup w) <= SumOver(mem.blocks, G)
    BY <1>9, <1>13, <2>1, SumSubset
  <2> QED BY <2>2, <2>3
<1>17. FitsGpu(c, all)
  BY <1>10, <1>11, <1>13, <1>14, <1>15, <1>16, KVCountsAssumption
<1> QED BY <1>2, <1>17 DEF PopsEmpty, c

-----------------------------------------------------------------------------
(* The pipeline: batches follow each other in turn, so that the oldest of  *)
(* a full pipeline is the next to be scheduled.                            *)
LEMMA BackFacts ==
    ASSUME cur \in Indexes, NEW n \in 0..(PipelineSize - 1)
    PROVE  /\ Back(cur, n) \in Indexes
           /\ Back(cur, n) = CurIndex <=> n = PipelineSize - 1
<1>1. PipelineSize \in Nat \ {0} /\ cur \in 0..(PipelineSize - 1)
  BY DecodeFCFSAssumption DEF Indexes
<1>2. CurIndex = IF cur + 1 = PipelineSize THEN 0 ELSE cur + 1
  BY CurIndexFacts
<1>3. Back(cur, n) = IF cur >= n THEN cur - n ELSE cur - n + PipelineSize
  BY DEF Back
<1> QED BY <1>1, <1>2, <1>3 DEF Indexes

LEMMA OldestIsNext ==
    ASSUME TypeOK, PipelineInv, pc = "await"
    PROVE  /\ cur \in Indexes
           /\ pipeline \in Seq([batch: Indexes, future: BOOLEAN])
           /\ Len(pipeline) = PipelineSize /\ pipeline # <<>>
           /\ pipeline[1].batch = CurIndex /\ CurIndex \in Indexes /\ LastStage = CurIndex
           /\ batches[CurIndex] # <<>>
<1>1. PipelineSize \in Nat \ {0}
  BY DecodeFCFSAssumption
<1>2. /\ pipeline \in Seq([batch: Indexes, future: BOOLEAN])
      /\ Len(pipeline) = PipelineSize /\ pipeline[1].future
      /\ 1 \in 1..Len(pipeline)
  BY <1>1 DEF TypeOK, PipelineInv
<1>3. pipeline # <<>>
  BY <1>1, <1>2
<1>4. cur \in Indexes
  BY <1>3 DEF TypeOK, PipelineInv
<1>5. /\ pipeline[1].batch = Back(cur, PipelineSize - 1)
      /\ batches[pipeline[1].batch] # <<>>
  BY <1>2 DEF PipelineInv
<1>6. Back(cur, PipelineSize - 1) = CurIndex
  <2>1. PipelineSize - 1 \in 0..(PipelineSize - 1)
    BY <1>1
  <2> QED BY <1>4, <2>1, BackFacts
<1> QED BY <1>2, <1>3, <1>4, <1>5, <1>6, CurIndexFacts

(* A pushed batch is the newest; the others are one further back. *)
LEMMA BackShifts ==
    ASSUME cur \in Indexes, cur' = CurIndex, NEW n \in 0..(PipelineSize - 2)
    PROVE  Back(cur, n) = Back(cur', n + 1)
<1>1. PipelineSize \in Nat \ {0} /\ cur \in 0..(PipelineSize - 1)
  BY DecodeFCFSAssumption DEF Indexes
<1>2. CurIndex = IF cur + 1 = PipelineSize THEN 0 ELSE cur + 1
  BY CurIndexFacts
<1>3. Back(cur, n) = IF cur >= n THEN cur - n ELSE cur - n + PipelineSize
  BY DEF Back
<1>4. Back(cur', n + 1) = IF cur' >= n + 1 THEN cur' - (n + 1) ELSE cur' - (n + 1) + PipelineSize
  BY DEF Back
<1> QED BY <1>1, <1>2, <1>3, <1>4

(* Without its oldest element the pipeline is still in turn. *)
LEMMA TailElements ==
    ASSUME NEW E, NEW p \in Seq(E), p # <<>>
    PROVE  /\ Tail(p) \in Seq(E) /\ Len(p) \in Nat \ {0} /\ Len(Tail(p)) = Len(p) - 1
           /\ \A i \in 1..Len(Tail(p)) :
                /\ i + 1 \in 1..Len(p) /\ Tail(p)[i] = p[i + 1]
                /\ Len(p) - (i + 1) = Len(Tail(p)) - i
<1>1. /\ Tail(p) \in Seq(E) /\ Len(p) \in Nat \ {0} /\ Len(Tail(p)) = Len(p) - 1
      /\ \A i \in 1..Len(Tail(p)) : Tail(p)[i] = p[i + 1]
  BY HeadTailProperties
<1> QED BY <1>1

(* A scheduling round keeps the turn, whether the oldest batch is awaited, *)
(* dropped because it was empty, or not yet due.                           *)
LEMMA StepPipeline ==
    ASSUME TypeOK, PipelineInv, pc = "step", cur' = CurIndex,
           NEW b \in Seq(Requests), batches' = [batches EXCEPT ![CurIndex] = b],
           NEW pushed, pushed = Append(pipeline, [batch |-> CurIndex, future |-> b # <<>>]),
           pipeline' = IF Len(pushed) = PipelineSize /\ ~pushed[1].future
                       THEN Tail(pushed) ELSE pushed,
           pc' = IF Len(pushed) = PipelineSize /\ pushed[1].future THEN "await" ELSE "post"
    PROVE  /\ PipelineInv'
           /\ pipeline' \in Seq([batch: Indexes, future: BOOLEAN])
           /\ Len(pipeline') <= PipelineSize
<1> DEFINE E == [batch: Indexes, future: BOOLEAN]
           e == [batch |-> CurIndex, future |-> b # <<>>]
           L == Len(pipeline)
<1>1. /\ PipelineSize \in Nat \ {0} /\ CurIndex \in Indexes
      /\ pipeline \in Seq(E) /\ L \in Nat /\ L < PipelineSize
      /\ batches \in [Indexes -> Seq(Requests)]
  <2>1. /\ pipeline \in Seq(E) /\ batches \in [Indexes -> Seq(Requests)]
        /\ cur \in Indexes \cup {-1}
    BY DEF TypeOK
  <2>2. Len(pipeline) < PipelineSize
    BY DEF PipelineInv
  <2> QED BY <2>1, <2>2, DecodeFCFSAssumption, CurIndexFacts
<1>2. e \in E /\ e.batch = CurIndex /\ e.future = (b # <<>>)
  BY <1>1
<1> HIDE DEF e, E
<1>3. /\ pushed \in Seq(E) /\ Len(pushed) = L + 1 /\ pushed[L + 1] = e
      /\ \A i \in 1..L : pushed[i] = pipeline[i]
  BY <1>1, <1>2, AppendProperties DEF e
<1>4. \A i \in Indexes : batches'[i] = IF i = CurIndex THEN b ELSE batches[i]
  BY <1>1
<1>5. ASSUME NEW i \in 1..L
      PROVE  /\ pushed[i].batch = Back(cur', (L + 1) - i)
             /\ pushed[i].future => batches'[pushed[i].batch] # <<>>
  <2>1. cur \in Indexes
    BY <1>1 DEF TypeOK, PipelineInv
  <2>2. L - i \in 0..(PipelineSize - 2) /\ L - i \in 0..(PipelineSize - 1)
        /\ (L - i) + 1 = (L + 1) - i /\ L - i # PipelineSize - 1
    BY <1>1
  <2>3. /\ pipeline[i].batch = Back(cur, L - i)
        /\ pipeline[i].future => batches[pipeline[i].batch] # <<>>
    BY DEF PipelineInv
  <2>4. Back(cur, L - i) = Back(cur', (L - i) + 1)
    BY <2>1, <2>2, BackShifts
  <2>5. Back(cur, L - i) \in Indexes /\ Back(cur, L - i) # CurIndex
    BY <2>1, <2>2, BackFacts
  <2>6. pushed[i] = pipeline[i]
    BY <1>3
  <2>7. pushed[i].batch = Back(cur', (L + 1) - i)
    BY <2>2, <2>3, <2>4, <2>6
  <2>8. pushed[i].future => batches'[pushed[i].batch] # <<>>
    BY <1>4, <2>3, <2>5, <2>6
  <2> QED BY <2>7, <2>8
<1>6. /\ pushed[L + 1].batch = Back(cur', (L + 1) - (L + 1))
      /\ pushed[L + 1].future => batches'[pushed[L + 1].batch] # <<>>
  <2>1. Back(cur', 0) = CurIndex
    BY <1>1 DEF Back, Indexes
  <2>2. (L + 1) - (L + 1) = 0
    BY <1>1
  <2>3. pushed[L + 1].batch = Back(cur', (L + 1) - (L + 1))
    BY <1>2, <1>3, <2>1, <2>2
  <2> QED BY <1>1, <1>2, <1>3, <1>4, <2>3
<1>7. \A i \in 1..Len(pushed) :
        /\ pushed[i].batch = Back(cur', Len(pushed) - i)
        /\ pushed[i].future => batches'[pushed[i].batch] # <<>>
  <2> SUFFICES ASSUME NEW i \in 1..Len(pushed)
               PROVE  /\ pushed[i].batch = Back(cur', (L + 1) - i)
                      /\ pushed[i].future => batches'[pushed[i].batch] # <<>>
    BY <1>3, Zenon
  <2>1. CASE i = L + 1
    BY <1>6, <2>1, Zenon
  <2>2. CASE i # L + 1
    <3>1. i \in 1..L
      BY <1>1, <1>3, <2>2
    <3> QED BY <1>5, <3>1
  <2> QED BY <2>1, <2>2
<1>8. cur' # -1
  BY <1>1 DEF Indexes
<1> DEFINE full == Len(pushed) = PipelineSize
<1>9. CASE full /\ ~pushed[1].future
  <2>1. pipeline' = Tail(pushed) /\ pc' = "post"
    BY <1>9, Zenon
  <2>2. pushed # <<>>
    BY <1>1, <1>3
  <2> DEFINE t == Tail(pushed)
  <2>3. /\ t \in Seq(E) /\ Len(t) = Len(pushed) - 1
        /\ \A i \in 1..Len(t) :
             i + 1 \in 1..Len(pushed) /\ t[i] = pushed[i + 1]
             /\ Len(pushed) - (i + 1) = Len(t) - i
    BY <1>3, <2>2, TailElements
  <2> HIDE DEF t
  <2>4. \A i \in 1..Len(t) :
          /\ t[i].batch = Back(cur', Len(t) - i)
          /\ t[i].future => batches'[t[i].batch] # <<>>
    <3> SUFFICES ASSUME NEW i \in 1..Len(t)
                 PROVE  /\ t[i].batch = Back(cur', Len(t) - i)
                        /\ t[i].future => batches'[t[i].batch] # <<>>
      OBVIOUS
    <3>1. /\ i + 1 \in 1..Len(pushed) /\ t[i] = pushed[i + 1]
          /\ Len(pushed) - (i + 1) = Len(t) - i
      BY <2>3
    <3> QED BY <1>7, <3>1
  <2>5. pipeline' = t
    BY <2>1 DEF t
  <2>6. Len(t) < PipelineSize
    BY <1>1, <1>3, <2>3
  <2>7. pc' # "await" /\ Len(pipeline') < PipelineSize
    BY <2>1, <2>5, <2>6
  <2>8. PipelineInv'
    BY <1>8, <2>4, <2>5, <2>7, Zenon DEF PipelineInv
  <2>9. Len(pipeline') <= PipelineSize
    BY <1>1, <1>3, <2>3, <2>5
  <2> QED BY <2>3, <2>5, <2>8, <2>9 DEF E
<1>10. CASE ~(full /\ ~pushed[1].future)
  <2>1. pipeline' = pushed
    BY <1>10, Zenon
  <2>2. Len(pushed) <= PipelineSize
    BY <1>1, <1>3
  <2>3. CASE full
    <3>1. pushed[1].future /\ pc' = "await"
      BY <1>10, <2>3, Zenon
    <3>2. PipelineInv'
      BY <1>7, <1>8, <2>1, <2>3, <3>1, Zenon DEF PipelineInv
    <3> QED BY <1>3, <2>1, <2>2, <3>2 DEF E
  <2>4. CASE ~full
    <3>1. pc' = "post"
      BY <2>4, Zenon
    <3>2. pc' # "await" /\ Len(pipeline') < PipelineSize
      BY <1>1, <1>3, <2>1, <2>2, <2>4, <3>1
    <3>3. PipelineInv'
      BY <1>7, <1>8, <2>1, <3>2, Zenon DEF PipelineInv
    <3> QED BY <1>3, <2>1, <2>2, <3>3 DEF E
  <2> QED BY <2>3, <2>4
<1> QED BY <1>9, <1>10

-----------------------------------------------------------------------------
(* The actions preserve the invariant. *)
LEMMA StepKeepsInv == Inv /\ Step => Inv'
<1> SUFFICES ASSUME Inv, Step PROVE Inv'
  OBVIOUS
<1> DEFINE c == CurIndex
<1>1. /\ TypeOK /\ QueuesInv /\ PipelineInv /\ BlocksInv /\ Unfinished
      /\ LocationMatchesQueue /\ OnlyCpuCanFail /\ out \in [Requests -> Nat]
  BY DEF Inv
<1>2. PICK k \in SwapOuts(c) : \E j \in Fills(c, k) :
        LET q      == Queue(c, k)
            n      == Len(swapped) + k
            batch  == NextBatch(c, k, j)
            pushed == Append(pipeline, [batch |-> c, future |-> batch # <<>>])
            full   == Len(pushed) = PipelineSize
        IN  /\ IsSchedule(c, k, j)
            /\ ~LacksCpu(c, k) /\ ~LacksGpu(c, k, j)
            /\ mem' = NextMem(c, k, j)
            /\ cur' = c
            /\ batches' = [batches EXCEPT ![c] = batch]
            /\ swapped' = SubSeq(q, j + 1, n)
            /\ waiting' = SubSeq(q, (IF j > n THEN j ELSE n) + 1, Len(q))
            /\ pipeline' = IF full /\ ~pushed[1].future
                           THEN Tail(pushed) ELSE pushed
            /\ pc' = IF full /\ pushed[1].future THEN "await" ELSE "post"
  BY Zenon DEF Step
<1>3. PICK j \in Fills(c, k) :
        LET batch  == NextBatch(c, k, j)
            pushed == Append(pipeline, [batch |-> c, future |-> batch # <<>>])
            full   == Len(pushed) = PipelineSize
        IN  /\ IsSchedule(c, k, j)
            /\ mem' = NextMem(c, k, j)
            /\ cur' = c
            /\ batches' = [batches EXCEPT ![c] = batch]
            /\ swapped' = SwappedNext(c, k, j)
            /\ waiting' = WaitingNext(c, k, j)
            /\ pipeline' = IF full /\ ~pushed[1].future
                           THEN Tail(pushed) ELSE pushed
            /\ pc' = IF full /\ pushed[1].future THEN "await" ELSE "post"
  BY <1>2, Zenon DEF SwappedNext, WaitingNext
<1>4. /\ pc = "step" /\ failed = "none" /\ c \in Indexes /\ cur' = c
      /\ UNCHANGED <<issued, out, finished, unaccepted, migrating, done, failed>>
  BY <1>1, <1>3, CurIndexFacts DEF Step, TypeOK
<1> DEFINE batch == NextBatch(c, k, j)
           b == Members(batch)
           s == Members(SwappedNext(c, k, j))
           w == Members(WaitingNext(c, k, j))
           m == NextMem(c, k, j)
           other == OtherBatches(c)
<1>5. /\ batch \in Seq(Requests) /\ Distinct(batch)
      /\ b \subseteq Requests /\ s \subseteq Requests /\ w \subseteq Requests
      /\ w \subseteq Members(waiting)
      /\ s \subseteq Members(swapped) \cup Members(Dropped(c, k))
      /\ b \cap s = {} /\ b \cap w = {} /\ s \cap w = {}
      /\ b \cup s \cup w = Members(batches[c]) \cup Members(swapped) \cup Members(waiting)
      /\ other \subseteq Requests /\ (b \cup s \cup w) \cap other = {}
  BY <1>1, <1>4, RoundQueues
<1>6. /\ SwappedNext(c, k, j) \in Seq(Requests) /\ Distinct(SwappedNext(c, k, j))
      /\ WaitingNext(c, k, j) \in Seq(Requests) /\ Distinct(WaitingNext(c, k, j))
  BY <1>1, <1>4, RoundDeals
<1>7. /\ m \in [blocks: [Requests -> Nat], loc: [Requests -> Places]]
      /\ \A r \in Requests :
           /\ m.blocks[r] = IF r \in b THEN Need[r] ELSE mem.blocks[r]
           /\ m.loc[r] = IF r \in s THEN "cpu"
                         ELSE IF r \in other \cup b \cup w THEN "gpu" ELSE "none"
  BY <1>4, RoundMem
<1>8. HeldOn(m, "gpu") <= MaxGpuBlocks
  BY <1>3, <1>4, RoundFits
<1>9. PipelineInv' /\ pipeline' \in Seq([batch: Indexes, future: BOOLEAN])
      /\ Len(pipeline') <= PipelineSize
  BY <1>1, <1>3, <1>4, <1>5, StepPipeline
<1>10. Members(Dropped(c, k)) \subseteq Members(batches[c])
  BY <1>1, <1>4, KeptAndDropped DEF TypeOK, QueuesInv
<1>11. /\ mem' = m /\ batches' = [batches EXCEPT ![c] = batch]
       /\ Members(swapped') = s /\ Members(waiting') = w
       /\ swapped' = SwappedNext(c, k, j) /\ waiting' = WaitingNext(c, k, j)
  BY <1>3, Zenon
<1>12. /\ batches \in [Indexes -> Seq(Requests)] /\ migrating = {}
       /\ InBatches = other \cup Members(batches[c])
  BY <1>1, <1>4, BatchSplit DEF TypeOK, QueuesInv
<1> HIDE DEF batch, s, w, m, c
<1>13. /\ InBatches' = other \cup b
       /\ \A i \in Indexes : batches'[i] = IF i = c THEN batch ELSE batches[i]
       /\ batches' \in [Indexes -> Seq(Requests)]
  <2>1. batches' \in [Indexes -> Seq(Requests)]
    BY <1>4, <1>5, <1>11, <1>12
  <2> QED BY <1>4, <1>11, <1>12, <2>1, BatchChanged
<1>14. other = UNION {Members(batches[i]) : i \in Indexes \ {c}}
  BY DEF OtherBatches
<1> HIDE DEF b, other
<1>15. pc' \in {"await", "post"}
  BY <1>3
<1>16. migrating' = {}
  BY <1>4, <1>12
<1>17. /\ Accepted' = other \cup b \cup s \cup w
       /\ Accepted' = Accepted
  <2>1. Accepted' = other \cup b \cup s \cup w
    BY <1>11, <1>13, <1>16 DEF Accepted
  <2>2. Accepted = other \cup Members(batches[c]) \cup Members(waiting) \cup Members(swapped)
    BY <1>12 DEF Accepted
  <2> QED BY <1>5, <2>1, <2>2
<1>18. TypeOK'
  <2>1. /\ mem' \in [blocks: [Requests -> Nat], loc: [Requests -> Places]]
        /\ waiting' \in Seq(Requests) /\ swapped' \in Seq(Requests)
        /\ batches' \in [Indexes -> Seq(Requests)]
        /\ cur' \in Indexes \cup {-1}
        /\ pipeline' \in Seq([batch: Indexes, future: BOOLEAN])
        /\ Len(pipeline') <= PipelineSize
        /\ pc' \in {"step", "await", "post", "migrate"}
    BY <1>4, <1>6, <1>7, <1>9, <1>11, <1>13, <1>15
  <2>2. /\ issued' = issued /\ out' = out /\ finished' = finished /\ done' = done
        /\ unaccepted' = unaccepted /\ migrating' = migrating /\ failed' = failed
    BY <1>4
  <2> QED BY <1>1, <2>1, <2>2, Zenon DEF TypeOK
<1>19. QueuesInv'
  <2>1. \A i \in Indexes : Distinct(batches'[i])
    BY <1>1, <1>5, <1>13 DEF QueuesInv
  <2>2. \A x, y \in Indexes : x # y => Members(batches'[x]) \cap Members(batches'[y]) = {}
    <3> SUFFICES ASSUME NEW x \in Indexes, NEW y \in Indexes, x # y
                 PROVE  Members(batches'[x]) \cap Members(batches'[y]) = {}
      OBVIOUS
    <3>1. Members(batches'[c]) = b /\ b \cap other = {}
      BY <1>4, <1>5, <1>13 DEF b
    <3>2. \A i \in Indexes \ {c} : /\ batches'[i] = batches[i]
                                   /\ Members(batches[i]) \subseteq other
      BY <1>13, <1>14
    <3>3. CASE x = c \/ y = c
      BY <3>1, <3>2, <3>3
    <3>4. CASE x # c /\ y # c
      <4>1. Members(batches[x]) \cap Members(batches[y]) = {}
        BY <1>1 DEF QueuesInv
      <4> QED BY <3>2, <3>4, <4>1
    <3> QED BY <3>3, <3>4
  <2>3. Members(unaccepted) \cap (Accepted \cup done) = {} /\ Distinct(unaccepted)
        /\ done \cap Accepted = {} /\ issued = Members(unaccepted) \cup Accepted \cup done
    BY <1>1 DEF QueuesInv
  <2>4. unaccepted' = unaccepted /\ done' = done /\ issued' = issued
    BY <1>4
  <2>5. /\ Distinct(unaccepted') /\ Distinct(waiting') /\ Distinct(swapped')
        /\ Members(unaccepted') \cap (Accepted' \cup done') = {}
        /\ done' \cap Accepted' = {}
        /\ issued' = Members(unaccepted') \cup Accepted' \cup done'
    BY <1>6, <1>11, <1>17, <2>3, <2>4
  <2>6. /\ migrating' \cap (Members(waiting') \cup Members(swapped') \cup InBatches') = {}
        /\ Members(waiting') \cap (Members(swapped') \cup InBatches') = {}
        /\ Members(swapped') \cap InBatches' = {}
    BY <1>5, <1>11, <1>13, <1>16
  <2>7. pc' # "migrate"
    BY <1>15
  <2> QED BY <1>16, <2>1, <2>2, <2>5, <2>6, <2>7, Zenon DEF QueuesInv
<1>20. LocationMatchesQueue'
  <2> SUFFICES ASSUME NEW r \in Requests
               PROVE  mem'.loc[r] = IF r \in Members(swapped') THEN "cpu"
                                    ELSE IF r \in Accepted' THEN "gpu" ELSE "none"
    BY DEF LocationMatchesQueue
  <2> QED BY <1>7, <1>11, <1>17
<1>21. Need' = Need
  BY <1>4 DEF Need
<1>22. BlocksInv'
  <2>1. ASSUME NEW r \in Requests, r \notin Accepted' PROVE mem'.blocks[r] = 0
    <3>1. mem.blocks[r] = 0
      BY <1>1, <1>17, <2>1 DEF BlocksInv
    <3> QED BY <1>7, <1>11, <1>17, <2>1, <3>1
  <2>2. ASSUME NEW r \in migrating' \cup Members(waiting')
        PROVE  mem'.blocks[r] = PromptNeed[r]
    <3>1. r \in w /\ r \in Members(waiting) /\ r \in Requests /\ r \notin b
      BY <1>5, <1>11, <1>16, <2>2
    <3> QED BY <1>1, <1>7, <1>11, <3>1 DEF BlocksInv
  <2>3. ASSUME NEW r \in Members(swapped') \cup InBatches'
        PROVE  mem'.blocks[r] <= Need[r]
    <3>1. r \in s \cup other \cup b /\ r \in Requests
      BY <1>5, <1>11, <1>13, <2>3
    <3>2. Need[r] \in Nat
      BY <1>1, <3>1, Needs
    <3>3. CASE r \in b
      BY <1>7, <1>11, <3>1, <3>2, <3>3
    <3>4. CASE r \notin b
      <4>1. r \in Members(swapped) \cup InBatches
        BY <1>5, <1>10, <1>12, <3>1, <3>4
      <4> QED BY <1>1, <1>7, <1>11, <3>1, <3>4, <4>1 DEF BlocksInv
    <3> QED BY <3>3, <3>4
  <2>4. ASSUME NEW i \in Indexes, NEW r \in Members(batches'[i])
        PROVE  mem'.blocks[r] = Need[r]
    <3>1. CASE i = c
      <4>1. r \in b /\ r \in Requests
        BY <1>5, <1>13, <3>1, <2>4 DEF b
      <4> QED BY <1>7, <1>11, <4>1
    <3>2. CASE i # c
      <4>1. r \in Members(batches[i]) /\ r \in other /\ r \in Requests /\ r \notin b
        BY <1>5, <1>13, <1>14, <2>4, <3>2
      <4>2. mem.blocks[r] = Need[r]
        BY <1>1, <3>2, <4>1 DEF BlocksInv, c
      <4> QED BY <1>7, <1>11, <4>1, <4>2
    <3> QED BY <3>1, <3>2
  <2>5. HeldOn(mem', "gpu") <= MaxGpuBlocks
    BY <1>8, <1>11
  <2> QED BY <1>21, <2>1, <2>2, <2>3, <2>4, <2>5, Zenon DEF BlocksInv
<1>23. Unfinished'
  BY <1>1, <1>4 DEF Unfinished
<1>24. OnlyCpuCanFail' /\ out' \in [Requests -> Nat]
  BY <1>1, <1>4 DEF OnlyCpuCanFail
<1> QED BY <1>9, <1>18, <1>19, <1>20, <1>22, <1>23, <1>24 DEF Inv

LEMMA StepRaisesKeepsInv == Inv /\ StepRaises => Inv'
<1> SUFFICES ASSUME Inv, StepRaises PROVE Inv'
  OBVIOUS
<1>1. /\ TypeOK /\ QueuesInv /\ PipelineInv /\ BlocksInv /\ Unfinished
      /\ LocationMatchesQueue /\ out \in [Requests -> Nat]
  BY DEF Inv
<1>2. pc = "step" /\ CurIndex \in Indexes
  BY <1>1, CurIndexFacts DEF StepRaises, TypeOK
<1>3. PICK why \in {"pop", "cpu", "gpu"} : Raises(why) /\ failed' = why
  BY DEF StepRaises
<1>4. ~PopsEmpty(CurIndex)
  BY <1>2, PopsSuffice
<1>5. why = "cpu"
  <2>1. PICK k \in SwapOuts(CurIndex) : \E j \in Fills(CurIndex, k) :
          /\ IsSchedule(CurIndex, k, j)
          /\ IF LacksCpu(CurIndex, k) THEN why = "cpu"
             ELSE LacksGpu(CurIndex, k, j) /\ why = "gpu"
    BY <1>3, <1>4, Zenon DEF Raises
  <2>2. PICK j \in Fills(CurIndex, k) :
          /\ IsSchedule(CurIndex, k, j)
          /\ IF LacksCpu(CurIndex, k) THEN why = "cpu"
             ELSE LacksGpu(CurIndex, k, j) /\ why = "gpu"
    BY <2>1
  <2> DEFINE held == HeldOn(NextMem(CurIndex, k, j), "gpu")
  <2>3. held <= MaxGpuBlocks
    BY <1>2, <2>2, RoundFits
  <2>4. LacksGpu(CurIndex, k, j) => held > MaxGpuBlocks
    BY DEF LacksGpu
  <2>5. held \in Nat
    <3>1. /\ NextMem(CurIndex, k, j).blocks \in [Requests -> Nat]
      BY <1>2, RoundMem
    <3> QED BY <3>1, RequestSets DEF HeldOn
  <2> HIDE DEF held
  <2>6. ~LacksGpu(CurIndex, k, j)
    BY <2>3, <2>4, <2>5, KVCountsAssumption
  <2> QED BY <2>2, <2>6
<1>6. UNCHANGED <<mem, issued, out, finished, unaccepted, migrating, waiting,
                  swapped, batches, cur, pipeline, pc, done>>
  BY DEF StepRaises
<1>7. failed' = "cpu"
  BY <1>3, <1>5
<1>8. TypeOK'
  BY <1>1, <1>6, <1>7 DEF TypeOK
<1>9. InBatches' = InBatches /\ Accepted' = Accepted
  BY <1>6 DEF InBatches, Accepted, Members
<1>10. QueuesInv'
  BY <1>1, <1>6, <1>9 DEF QueuesInv
<1>11. PipelineInv'
  BY <1>1, <1>6 DEF PipelineInv
<1>12. BlocksInv'
  BY <1>1, <1>6, <1>9 DEF BlocksInv, Need, CurIndex
<1>13. Unfinished' /\ LocationMatchesQueue' /\ out' \in [Requests -> Nat]
  BY <1>1, <1>6, <1>9 DEF Unfinished, LocationMatchesQueue
<1>14. OnlyCpuCanFail'
  BY <1>7 DEF OnlyCpuCanFail
<1> QED BY <1>8, <1>10, <1>11, <1>12, <1>13, <1>14 DEF Inv

LEMMA AddRequestKeepsInv ==
    ASSUME NEW r \in Requests PROVE Inv /\ AddRequest(r) => Inv'
<1> SUFFICES ASSUME Inv, AddRequest(r) PROVE Inv'
  OBVIOUS
<1>1. /\ TypeOK /\ QueuesInv /\ PipelineInv /\ BlocksInv /\ Unfinished
      /\ LocationMatchesQueue /\ OnlyCpuCanFail /\ out \in [Requests -> Nat]
  BY DEF Inv
<1>2. /\ r \notin issued /\ issued' = issued \cup {r}
      /\ unaccepted' = Append(unaccepted, r)
      /\ UNCHANGED <<mem, out, finished, migrating, waiting, swapped, batches,
                     cur, pipeline, pc, done, failed>>
  BY DEF AddRequest
<1>3. /\ r \notin Members(unaccepted) /\ r \notin Accepted /\ r \notin done
  BY <1>1, <1>2 DEF QueuesInv
<1>4. /\ Append(unaccepted, r) \in Seq(Requests)
      /\ Members(Append(unaccepted, r)) = Members(unaccepted) \cup {r}
      /\ Distinct(Append(unaccepted, r))
  BY <1>1, <1>3, MembersOfAppend DEF TypeOK, QueuesInv
<1>5. InBatches' = InBatches /\ Accepted' = Accepted
  BY <1>2 DEF InBatches, Accepted, Members
<1>6. TypeOK'
  BY <1>1, <1>2, <1>4 DEF TypeOK
<1>7. QueuesInv'
  BY <1>1, <1>2, <1>3, <1>4, <1>5 DEF QueuesInv
<1>8. PipelineInv'
  BY <1>1, <1>2 DEF PipelineInv
<1>9. BlocksInv'
  BY <1>1, <1>2, <1>5 DEF BlocksInv, Need, CurIndex
<1>10. /\ Unfinished' /\ LocationMatchesQueue' /\ OnlyCpuCanFail'
       /\ out' \in [Requests -> Nat]
  BY <1>1, <1>2, <1>5 DEF Unfinished, LocationMatchesQueue, OnlyCpuCanFail
<1> QED BY <1>6, <1>7, <1>8, <1>9, <1>10 DEF Inv

LEMMA BeginMigrationKeepsInv == Inv /\ BeginMigration => Inv'
<1> SUFFICES ASSUME Inv, BeginMigration PROVE Inv'
  OBVIOUS
<1>1. /\ TypeOK /\ QueuesInv /\ PipelineInv /\ BlocksInv /\ Unfinished
      /\ LocationMatchesQueue /\ OnlyCpuCanFail /\ out \in [Requests -> Nat]
  BY DEF Inv
<1> DEFINE r == Head(unaccepted)
<1>2. /\ pc = "post" /\ unaccepted # <<>> /\ ShouldAccept(r)
      /\ unaccepted' = Tail(unaccepted) /\ migrating' = {r}
      /\ mem' = Allocated(mem, r, PromptNeed[r])
      /\ pc' = "migrate"
      /\ UNCHANGED <<issued, out, finished, waiting, swapped, batches, cur,
                     pipeline, done, failed>>
  BY DEF BeginMigration
<1>3. /\ r \in Members(unaccepted) /\ Tail(unaccepted) \in Seq(Requests)
      /\ Members(unaccepted) = Members(Tail(unaccepted)) \cup {r}
      /\ r \notin Members(Tail(unaccepted)) /\ Distinct(Tail(unaccepted))
  BY <1>1, <1>2, MembersOfTail DEF TypeOK, QueuesInv
<1>4. Members(unaccepted) \subseteq Requests
  BY <1>1, ElementOfSeq DEF TypeOK, Members
<1> HIDE DEF r
<1>5. r \in Requests /\ r \notin Accepted /\ r \notin done
  BY <1>1, <1>3, <1>4 DEF QueuesInv
<1>6. migrating = {} /\ Accepted = InBatches \cup Members(waiting) \cup Members(swapped)
  BY <1>1, <1>2 DEF QueuesInv, Accepted
<1>7. InBatches' = InBatches /\ Accepted' = Accepted \cup {r}
  <2>1. InBatches' = InBatches
    BY <1>2 DEF InBatches, Members
  <2> QED BY <1>2, <1>6, <2>1 DEF Accepted
<1>8. PromptNeed[r] \in Nat /\ mem.blocks[r] = 0 /\ mem.loc[r] = "none"
  BY <1>1, <1>5, <1>6, Needs DEF BlocksInv, LocationMatchesQueue
<1>9. /\ mem' \in [blocks: [Requests -> Nat], loc: [Requests -> Places]]
      /\ \A x \in Requests :
           /\ mem'.blocks[x] = IF x = r THEN PromptNeed[r] ELSE mem.blocks[x]
           /\ mem'.loc[x] = IF x = r THEN "gpu" ELSE mem.loc[x]
  BY <1>1, <1>2, <1>5, <1>8 DEF Allocated, TypeOK, Places
<1>10. TypeOK'
  <2>1. migrating' \subseteq Requests
    BY <1>2, <1>5
  <2> QED BY <1>1, <1>2, <1>3, <1>9, <2>1 DEF TypeOK
<1>11. QueuesInv'
  BY <1>1, <1>2, <1>3, <1>5, <1>6, <1>7 DEF QueuesInv
<1>12. PipelineInv'
  BY <1>1, <1>2 DEF PipelineInv
<1>13. HeldOn(mem', "gpu") <= MaxGpuBlocks
  <2> DEFINE G == {x \in Requests : mem.loc[x] = "gpu"}
  <2>1. {x \in Requests : mem'.loc[x] = "gpu"} = G \cup {r}
    BY <1>5, <1>9
  <2>2. r \notin G /\ G \in SUBSET Requests
    BY <1>8
  <2>3. HeldOn(mem, "gpu") = SumOver(mem.blocks, G)
    BY DEF HeldOn
  <2> HIDE DEF G
  <2>4. mem.blocks \in [Requests -> Nat] /\ mem'.blocks \in [Requests -> Nat]
    BY <1>1, <1>9 DEF TypeOK
  <2>5. /\ IsFiniteSet(G) /\ IsFiniteSet({r})
        /\ SumOver(mem.blocks, G) \in Nat /\ SumOver(mem'.blocks, G) \in Nat
    BY <2>2, <2>4, RequestSets, FS_Singleton
  <2>6. SumOver(mem'.blocks, G) <= SumOver(mem.blocks, G)
    <3>1. \A x \in G : /\ mem'.blocks[x] \in Nat /\ mem.blocks[x] \in Nat
                       /\ mem'.blocks[x] <= mem.blocks[x]
      BY <1>9, <2>2, <2>4
    <3> QED BY <2>5, <3>1, SumMonotone
  <2>7. SumOver(mem'.blocks, {r}) = PromptNeed[r]
    BY <1>5, <1>8, <1>9, SumSingleton
  <2>8. SumOver(mem'.blocks, G \cup {r}) = SumOver(mem'.blocks, G) + SumOver(mem'.blocks, {r})
    <3>1. G \cap {r} = {} /\ \A x \in G \cup {r} : mem'.blocks[x] \in Nat
      BY <1>5, <2>2, <2>4
    <3> QED BY <2>5, <3>1, SumUnion
  <2>9. HeldOn(mem', "gpu") = SumOver(mem'.blocks, G) + PromptNeed[r]
    BY <2>1, <2>7, <2>8 DEF HeldOn
  <2>10. PromptNeed[r] <= MaxGpuBlocks - HeldOn(mem, "gpu")
    BY <1>2 DEF ShouldAccept, AvailGpu
  <2> QED BY <1>8, <2>3, <2>5, <2>6, <2>9, <2>10, KVCountsAssumption
<1>14. /\ Need' = Need /\ PromptNeed' = PromptNeed /\ CurIndex' = CurIndex
  BY <1>2 DEF Need, PromptNeed, CurIndex
<1>15. BlocksInv'
  <2>1. \A x \in Accepted : x # r
    BY <1>5
  <2>2. Accepted \subseteq Requests
    <3>1. /\ waiting \in Seq(Requests) /\ swapped \in Seq(Requests)
          /\ \A i \in Indexes : batches[i] \in Seq(Requests)
      BY <1>1 DEF TypeOK
    <3>2. /\ Members(waiting) \subseteq Requests /\ Members(swapped) \subseteq Requests
          /\ \A i \in Indexes : Members(batches[i]) \subseteq Requests
      BY <3>1, ElementOfSeq DEF Members
    <3> QED BY <1>6, <3>2 DEF InBatches
  <2>3. \A x \in Accepted : mem'.blocks[x] = mem.blocks[x]
    BY <1>9, <2>1, <2>2
  <2>4. \A x \in Requests : x \notin Accepted' => mem'.blocks[x] = 0
    BY <1>1, <1>7, <1>9 DEF BlocksInv
  <2>5. \A x \in migrating' \cup Members(waiting') : mem'.blocks[x] = PromptNeed[x]
    BY <1>1, <1>2, <1>5, <1>6, <1>9, <2>3 DEF BlocksInv
  <2>6. \A x \in Members(swapped') \cup InBatches' : mem'.blocks[x] <= Need[x]
    BY <1>1, <1>2, <1>6, <1>7, <2>3 DEF BlocksInv
  <2>7. \A i \in Indexes : \A x \in Members(batches'[i]) :
          (pc' = "await" \/ i # CurIndex) => mem'.blocks[x] = Need[x]
    <3>1. \A i \in Indexes : Members(batches[i]) \subseteq Accepted
      BY <1>6 DEF InBatches
    <3>2. pc' # "await" /\ batches' = batches
      BY <1>2
    <3> QED BY <1>1, <2>3, <3>1, <3>2 DEF BlocksInv
  <2> QED BY <1>13, <1>14, <2>4, <2>5, <2>6, <2>7, Zenon DEF BlocksInv
<1>16. LocationMatchesQueue'
  <2>1. r \notin Members(swapped)
    BY <1>5, <1>6
  <2> QED BY <1>1, <1>2, <1>5, <1>7, <1>9, <2>1 DEF LocationMatchesQueue
<1>17. Unfinished' /\ OnlyCpuCanFail' /\ out' \in [Requests -> Nat]
  BY <1>1, <1>2 DEF Unfinished, OnlyCpuCanFail
<1> QED BY <1>10, <1>11, <1>12, <1>15, <1>16, <1>17 DEF Inv

LEMMA EndMigrationKeepsInv == Inv /\ EndMigration => Inv'
<1> SUFFICES ASSUME Inv, EndMigration PROVE Inv'
  OBVIOUS
<1>1. /\ TypeOK /\ QueuesInv /\ PipelineInv /\ BlocksInv /\ Unfinished
      /\ LocationMatchesQueue /\ OnlyCpuCanFail /\ out \in [Requests -> Nat]
  BY DEF Inv
<1>2. PICK r \in migrating : waiting' = Append(waiting, r)
  BY DEF EndMigration
<1>3. /\ pc = "migrate" /\ migrating' = {} /\ pc' = "post"
      /\ UNCHANGED <<mem, issued, out, finished, unaccepted, swapped, batches,
                     cur, pipeline, done, failed>>
  BY DEF EndMigration
<1>4. migrating = {r} /\ r \in Requests
  BY <1>1, <1>3 DEF QueuesInv
<1>5. r \notin Members(waiting) \cup Members(swapped) \cup InBatches
  BY <1>1, <1>4 DEF QueuesInv
<1>6. /\ waiting' \in Seq(Requests) /\ Distinct(waiting')
      /\ Members(waiting') = Members(waiting) \cup {r}
  BY <1>1, <1>2, <1>4, <1>5, MembersOfAppend DEF TypeOK, QueuesInv
<1>7. InBatches' = InBatches
  BY <1>3 DEF InBatches, Members
<1>8. Accepted' = Accepted
  BY <1>3, <1>4, <1>6, <1>7 DEF Accepted
<1>9. TypeOK'
  BY <1>1, <1>3, <1>6 DEF TypeOK
<1>10. QueuesInv'
  BY <1>1, <1>3, <1>4, <1>5, <1>6, <1>7, <1>8 DEF QueuesInv
<1>11. PipelineInv'
  BY <1>1, <1>3 DEF PipelineInv
<1>12. BlocksInv'
  BY <1>1, <1>3, <1>4, <1>6, <1>7, <1>8 DEF BlocksInv, Need, CurIndex
<1>13. LocationMatchesQueue'
  BY <1>1, <1>3, <1>8 DEF LocationMatchesQueue
<1>14. Unfinished' /\ OnlyCpuCanFail' /\ out' \in [Requests -> Nat]
  BY <1>1, <1>3 DEF Unfinished, OnlyCpuCanFail
<1> QED BY <1>9, <1>10, <1>11, <1>12, <1>13, <1>14 DEF Inv

LEMMA EndPostProcessKeepsInv == Inv /\ EndPostProcess => Inv'
<1> SUFFICES ASSUME Inv, EndPostProcess PROVE Inv'
  OBVIOUS
<1>1. /\ TypeOK /\ QueuesInv /\ PipelineInv /\ BlocksInv /\ Unfinished
      /\ LocationMatchesQueue /\ OnlyCpuCanFail /\ out \in [Requests -> Nat]
  BY DEF Inv
<1>2. /\ pc = "post" /\ pc' = "step"
      /\ UNCHANGED <<mem, issued, out, finished, unaccepted, migrating, waiting,
                     swapped, batches, cur, pipeline, done, failed>>
  BY DEF EndPostProcess
<1>3. InBatches' = InBatches /\ Accepted' = Accepted
  BY <1>2 DEF InBatches, Accepted, Members
<1>4. TypeOK'
  BY <1>1, <1>2 DEF TypeOK
<1>5. QueuesInv'
  BY <1>1, <1>2, <1>3 DEF QueuesInv
<1>6. PipelineInv'
  BY <1>1, <1>2 DEF PipelineInv
<1>7. BlocksInv'
  BY <1>1, <1>2, <1>3 DEF BlocksInv, Need, CurIndex
<1>8. /\ Unfinished' /\ LocationMatchesQueue' /\ OnlyCpuCanFail'
      /\ out' \in [Requests -> Nat]
  BY <1>1, <1>2, <1>3 DEF Unfinished, LocationMatchesQueue, OnlyCpuCanFail
<1> QED BY <1>4, <1>5, <1>6, <1>7, <1>8 DEF Inv

(* The answer of the oldest batch is popped from the batch it belongs to.  *)
LEMMA ReturnKeepsInv == Inv /\ Return => Inv'
<1> SUFFICES ASSUME Inv, Return PROVE Inv'
  OBVIOUS
<1>1. /\ TypeOK /\ QueuesInv /\ PipelineInv /\ BlocksInv /\ Unfinished
      /\ LocationMatchesQueue /\ OnlyCpuCanFail /\ out \in [Requests -> Nat]
  BY DEF Inv
<1> DEFINE last == CurIndex
           returned == Members(batches[last])
           popped == Members(batches[last]) \cap finished'
           other == OtherBatches(last)
           E == [batch: Indexes, future: BOOLEAN]
<1>2. /\ pc = "await" /\ pc' = "post" /\ pipeline' = Tail(pipeline)
      /\ UNCHANGED <<issued, unaccepted, migrating, waiting, swapped, cur, failed>>
  BY DEF Return
<1>3. /\ cur \in Indexes /\ pipeline \in Seq(E)
      /\ Len(pipeline) = PipelineSize /\ pipeline # <<>>
      /\ pipeline[1].batch = last /\ last \in Indexes /\ LastStage = last
  BY <1>1, <1>2, OldestIsNext
<1>4. PICK F \in SUBSET returned :
        /\ \A r \in returned : ReachesLimit(r) => r \in F
        /\ out' = WithToken(returned)
        /\ finished' = finished \cup F
        /\ batches' = [batches EXCEPT ![last] = Remaining(@, popped)]
        /\ mem' = [blocks |-> [r \in Requests |->
                       IF r \in popped THEN 0 ELSE mem.blocks[r]],
                   loc    |-> [r \in Requests |->
                       IF r \in popped THEN "none" ELSE mem.loc[r]]]
        /\ done' = done \cup popped
  BY <1>3, Zenon DEF Return
<1>5. /\ batches \in [Indexes -> Seq(Requests)]
      /\ batches[last] \in Seq(Requests) /\ Distinct(batches[last])
      /\ \A i \in Indexes : Members(batches[i]) \subseteq Requests
  BY <1>1, <1>3, ElementOfSeq DEF TypeOK, QueuesInv, Members
<1> DEFINE left == Remaining(batches[last], popped)
<1>6. /\ left \in Seq(Requests) /\ Distinct(left)
      /\ Members(left) = returned \ popped
  BY <1>5, RemainingMembers
<1>7. batches' = [batches EXCEPT ![last] = left]
  BY <1>4
<1>8. other = UNION {Members(batches[i]) : i \in Indexes \ {last}}
  BY DEF OtherBatches
<1>9. InBatches = other \cup returned
  BY <1>3, BatchSplit
<1> HIDE DEF left, last, other
<1>10. /\ InBatches' = OtherBatches(last) \cup Members(left)
       /\ \A i \in Indexes : batches'[i] = IF i = last THEN left ELSE batches[i]
       /\ batches' \in [Indexes -> Seq(Requests)]
  BY <1>3, <1>5, <1>6, <1>7, BatchChanged
<1>11. /\ popped \subseteq returned /\ F \subseteq popped /\ returned \subseteq Requests
       /\ other \cap returned = {} /\ migrating = {} /\ other \subseteq Requests
  BY <1>1, <1>2, <1>3, <1>4, <1>5, <1>8 DEF QueuesInv
<1> HIDE DEF popped, returned
<1>12. InBatches' = InBatches \ popped /\ InBatches' = other \cup (returned \ popped)
  BY <1>6, <1>9, <1>10, <1>11 DEF other
<1>13. /\ Accepted' = Accepted \ popped /\ popped \subseteq Accepted
       /\ popped \cap Members(waiting) = {} /\ popped \cap Members(swapped) = {}
       /\ returned \cap Members(waiting) = {} /\ returned \cap Members(swapped) = {}
  <2>1. /\ returned \cap Members(waiting) = {} /\ returned \cap Members(swapped) = {}
    BY <1>1, <1>9 DEF QueuesInv
  <2>2. /\ Accepted = InBatches \cup Members(waiting) \cup Members(swapped)
        /\ Accepted' = InBatches' \cup Members(waiting) \cup Members(swapped)
    BY <1>2, <1>11 DEF Accepted
  <2> QED BY <1>9, <1>11, <1>12, <2>1, <2>2
<1>14. /\ mem' \in [blocks: [Requests -> Nat], loc: [Requests -> Places]]
       /\ \A r \in Requests :
            /\ mem'.blocks[r] = IF r \in popped THEN 0 ELSE mem.blocks[r]
            /\ mem'.loc[r] = IF r \in popped THEN "none" ELSE mem.loc[r]
  <2>1. /\ \A r \in Requests : mem.blocks[r] \in Nat /\ mem.loc[r] \in Places
    BY <1>1 DEF TypeOK
  <2> DEFINE bl == [r \in Requests |-> IF r \in popped THEN 0 ELSE mem.blocks[r]]
             lo == [r \in Requests |-> IF r \in popped THEN "none" ELSE mem.loc[r]]
  <2>2. bl \in [Requests -> Nat] /\ lo \in [Requests -> Places]
    BY <2>1 DEF Places
  <2>3. mem' = [blocks |-> bl, loc |-> lo]
    BY <1>4
  <2>4. /\ \A r \in Requests : bl[r] = IF r \in popped THEN 0 ELSE mem.blocks[r]
        /\ \A r \in Requests : lo[r] = IF r \in popped THEN "none" ELSE mem.loc[r]
    OBVIOUS
  <2> HIDE DEF bl, lo
  <2> QED BY <2>2, <2>3, <2>4
<1>15. \A r \in Requests : /\ out[r] \in Nat
                           /\ out'[r] = IF r \in returned THEN out[r] + 1 ELSE out[r]
  BY <1>1, <1>4 DEF WithToken
<1>16. out' \in [Requests -> Nat]
  BY <1>1, <1>4, <1>15 DEF WithToken
<1>17. \A r \in returned : r \notin done /\ out[r] < MaxOutput[r]
  BY <1>1, <1>9, <1>11 DEF QueuesInv, Accepted, Unfinished
<1>18. \A r \in Requests : MaxOutput[r] \in Nat
  BY DecodeFCFSAssumption
<1>19. TypeOK'
  <2>1. finished' \subseteq Requests /\ done' \subseteq Requests
    BY <1>1, <1>4, <1>11 DEF TypeOK
  <2>2. \A r \in Requests : out'[r] \in 1..MaxOutput[r]
    <3>1. \A r \in Requests : out[r] \in 1..MaxOutput[r]
      BY <1>1 DEF TypeOK
    <3>2. \A r \in Requests : r \in returned => out[r] + 1 <= MaxOutput[r]
      BY <1>15, <1>17, <1>18
    <3> QED BY <1>15, <1>18, <3>1, <3>2
  <2>3. pipeline' \in Seq(E) /\ Len(pipeline') <= PipelineSize
    <3>1. PipelineSize \in Nat \ {0}
      BY DecodeFCFSAssumption
    <3>2. Tail(pipeline) \in Seq(E) /\ Len(Tail(pipeline)) = PipelineSize - 1
      BY <1>3, TailElements
    <3> QED BY <1>2, <3>1, <3>2
  <2>4. /\ issued' = issued /\ unaccepted' = unaccepted /\ migrating' = migrating
        /\ waiting' = waiting /\ swapped' = swapped /\ cur' = cur /\ failed' = failed
    BY <1>2
  <2>5. pc' \in {"step", "await", "post", "migrate"}
    BY <1>2
  <2> QED BY <1>1, <1>10, <1>14, <2>1, <2>2, <2>3, <2>4, <2>5, Zenon DEF TypeOK
<1>20. QueuesInv'
  <2>1. \A i \in Indexes : /\ Distinct(batches'[i])
                           /\ Members(batches'[i]) \subseteq Members(batches[i])
    BY <1>1, <1>6, <1>10 DEF QueuesInv, returned
  <2>2. \A x, y \in Indexes : x # y => Members(batches'[x]) \cap Members(batches'[y]) = {}
    BY <1>1, <2>1 DEF QueuesInv
  <2>3. Accepted' \cup done' = Accepted \cup done /\ done' \cap Accepted' = {}
    BY <1>1, <1>4, <1>13 DEF QueuesInv
  <2>4. InBatches' \subseteq InBatches
    BY <1>12
  <2> QED BY <1>1, <1>2, <1>11, <2>1, <2>2, <2>3, <2>4 DEF QueuesInv
<1>21. PipelineInv'
  <2> DEFINE t == Tail(pipeline)
  <2>1. /\ Len(t) = PipelineSize - 1
        /\ \A i \in 1..Len(t) : i + 1 \in 1..Len(pipeline) /\ t[i] = pipeline[i + 1]
                                /\ Len(pipeline) - (i + 1) = Len(t) - i
    BY <1>3, TailElements
  <2>2. PipelineSize \in Nat \ {0} /\ cur # -1 /\ cur' = cur
    BY <1>2, <1>3, DecodeFCFSAssumption DEF Indexes
  <2> HIDE DEF t
  <2>3. ASSUME NEW i \in 1..Len(t)
        PROVE  /\ t[i].batch = Back(cur', Len(t) - i)
               /\ t[i].future => batches'[t[i].batch] # <<>>
    <3>1. /\ i + 1 \in 1..Len(pipeline) /\ t[i] = pipeline[i + 1]
          /\ Len(pipeline) - (i + 1) = Len(t) - i
      BY <2>1
    <3>2. /\ pipeline[i + 1].batch = Back(cur, Len(pipeline) - (i + 1))
          /\ pipeline[i + 1].future => batches[pipeline[i + 1].batch] # <<>>
      BY <1>1, <3>1 DEF PipelineInv
    <3>3. t[i].batch = Back(cur, Len(t) - i)
      BY <3>1, <3>2
    <3>4. Len(t) - i \in 0..(PipelineSize - 1) /\ Len(t) - i # PipelineSize - 1
      BY <2>1, <2>2
    <3>5. t[i].batch \in Indexes /\ t[i].batch # last
      BY <1>3, <3>3, <3>4, BackFacts DEF last
    <3>6. batches'[t[i].batch] = batches[t[i].batch]
      BY <1>10, <3>5
    <3> QED BY <2>2, <3>1, <3>2, <3>3, <3>6, Zenon
  <2>4. pipeline' = t /\ pc' # "await" /\ Len(t) < PipelineSize /\ cur' # -1
    BY <1>2, <2>1, <2>2 DEF t
  <2> QED BY <2>3, <2>4, Zenon DEF PipelineInv
<1>22. LocationMatchesQueue'
  <2> SUFFICES ASSUME NEW r \in Requests
               PROVE  mem'.loc[r] = IF r \in Members(swapped) THEN "cpu"
                                    ELSE IF r \in Accepted' THEN "gpu" ELSE "none"
    BY <1>2 DEF LocationMatchesQueue
  <2>1. mem.loc[r] = IF r \in Members(swapped) THEN "cpu"
                     ELSE IF r \in Accepted THEN "gpu" ELSE "none"
    BY <1>1 DEF LocationMatchesQueue
  <2> QED BY <1>13, <1>14, <2>1
<1>23. \A r \in Requests :
         /\ Need[r] \in Nat /\ Need'[r] \in Nat
         /\ Need[r] <= Need'[r]
         /\ r \notin returned => Need'[r] = Need[r]
  <2> SUFFICES ASSUME NEW r \in Requests
               PROVE  /\ Need[r] \in Nat /\ Need'[r] \in Nat
                      /\ Need[r] <= Need'[r]
                      /\ r \notin returned => Need'[r] = Need[r]
    OBVIOUS
  <2>1. Need[r] = BlocksFor(PromptLen[r] + out[r]) /\ Need'[r] = BlocksFor(PromptLen[r] + out'[r])
    BY DEF Need
  <2>2. /\ PromptLen[r] + out[r] \in Nat /\ PromptLen[r] + out'[r] \in Nat
        /\ PromptLen[r] + out[r] <= PromptLen[r] + out'[r]
    BY <1>15, DecodeFCFSAssumption
  <2>3. r \notin returned => out'[r] = out[r]
    BY <1>15
  <2> QED BY <2>1, <2>2, <2>3, BlocksForMonotone
<1>24. HeldOn(mem', "gpu") <= MaxGpuBlocks
  <2> DEFINE G == {r \in Requests : mem.loc[r] = "gpu"}
             H == {r \in Requests : mem'.loc[r] = "gpu"}
  <2>1. /\ mem.blocks \in [Requests -> Nat] /\ mem'.blocks \in [Requests -> Nat]
    BY <1>1, <1>14 DEF TypeOK
  <2>2. H \subseteq G /\ G \in SUBSET Requests /\ \A r \in H : mem'.blocks[r] = mem.blocks[r]
    BY <1>14
  <2>3. /\ HeldOn(mem, "gpu") = SumOver(mem.blocks, G) /\ HeldOn(mem, "gpu") <= MaxGpuBlocks
        /\ HeldOn(mem', "gpu") = SumOver(mem'.blocks, H)
    BY <1>1 DEF HeldOn, BlocksInv
  <2> HIDE DEF G, H
  <2>4. /\ IsFiniteSet(G) /\ IsFiniteSet(H) /\ SumOver(mem.blocks, G) \in Nat
        /\ SumOver(mem.blocks, H) \in Nat /\ SumOver(mem'.blocks, H) \in Nat
    BY <2>1, <2>2, RequestSets
  <2>5. SumOver(mem'.blocks, H) <= SumOver(mem.blocks, H)
    <3>1. \A r \in H : /\ mem'.blocks[r] \in Nat /\ mem.blocks[r] \in Nat
                       /\ mem'.blocks[r] <= mem.blocks[r]
      BY <2>1, <2>2
    <3> QED BY <2>4, <3>1, SumMonotone
  <2>6. SumOver(mem.blocks, H) <= SumOver(mem.blocks, G)
    <3>1. \A r \in G : mem.blocks[r] \in Nat
      BY <2>1, <2>2
    <3> QED BY <2>2, <2>4, <3>1, SumSubset
  <2> QED BY <2>3, <2>4, <2>5, <2>6, KVCountsAssumption
<1>25. CurIndex' = last
  BY <1>2 DEF CurIndex, last
<1>26. BlocksInv'
  <2>1. ASSUME NEW r \in Requests, r \notin Accepted' PROVE mem'.blocks[r] = 0
    BY <1>1, <1>13, <1>14, <2>1 DEF BlocksInv
  <2>2. ASSUME NEW r \in migrating' \cup Members(waiting')
        PROVE  mem'.blocks[r] = PromptNeed[r]
    <3>1. r \in Members(waiting) /\ r \in Requests /\ r \notin popped
      BY <1>1, <1>2, <1>11, <1>13, <2>2, ElementOfSeq DEF TypeOK, Members
    <3> QED BY <1>1, <1>14, <3>1 DEF BlocksInv
  <2>3. ASSUME NEW r \in Members(swapped') \cup InBatches'
        PROVE  mem'.blocks[r] <= Need'[r]
    <3>1. /\ r \in Members(swapped) \cup InBatches /\ r \notin popped /\ r \in Requests
      <4>1. r \in Members(swapped) \cup InBatches /\ r \notin popped
        BY <1>2, <1>12, <1>13, <2>3
      <4>2. Members(swapped) \subseteq Requests
        BY <1>1, ElementOfSeq DEF TypeOK, Members
      <4> QED BY <1>9, <1>11, <4>1, <4>2
    <3>2. mem.blocks[r] <= Need[r] /\ mem.blocks[r] \in Nat
      BY <1>1, <3>1 DEF BlocksInv, TypeOK
    <3> QED BY <1>14, <1>23, <3>1, <3>2
  <2>4. ASSUME NEW i \in Indexes, NEW r \in Members(batches'[i]), i # last
        PROVE  mem'.blocks[r] = Need'[r]
    <3>1. r \in Members(batches[i]) /\ r \in other /\ r \in Requests
          /\ r \notin returned /\ r \notin popped
      BY <1>8, <1>10, <1>11, <2>4
    <3>2. mem.blocks[r] = Need[r]
      BY <1>1, <1>2, <3>1 DEF BlocksInv
    <3> QED BY <1>14, <1>23, <3>1, <3>2
  <2>5. pc' # "await"
    BY <1>2
  <2> QED BY <1>24, <1>25, <2>1, <2>2, <2>3, <2>4, <2>5, Zenon DEF BlocksInv
<1>27. Unfinished'
  <2> SUFFICES ASSUME NEW r \in Requests, r \notin done' PROVE out'[r] < MaxOutput[r]
    BY DEF Unfinished
  <2>1. r \notin done /\ r \notin popped
    BY <1>4
  <2>2. CASE r \in returned
    <3>1. ~ReachesLimit(r)
      BY <1>4, <1>11, <2>1, <2>2
    <3> QED BY <1>15, <1>18, <2>2, <3>1 DEF ReachesLimit
  <2>3. CASE r \notin returned
    BY <1>1, <1>15, <2>1, <2>3 DEF Unfinished
  <2> QED BY <2>2, <2>3
<1>28. OnlyCpuCanFail'
  BY <1>1, <1>2 DEF OnlyCpuCanFail
<1> QED BY <1>16, <1>19, <1>20, <1>21, <1>22, <1>26, <1>27, <1>28 DEF Inv

LEMMA StutterKeepsInv == Inv /\ UNCHANGED vars => Inv'
<1> SUFFICES ASSUME Inv, UNCHANGED vars PROVE Inv'
  OBVIOUS
<1>1. /\ TypeOK /\ QueuesInv /\ PipelineInv /\ BlocksInv /\ Unfinished
      /\ LocationMatchesQueue /\ OnlyCpuCanFail /\ out \in [Requests -> Nat]
  BY DEF Inv
<1>2. UNCHANGED <<mem, issued, out, finished, unaccepted, migrating, waiting,
                  swapped, batches, cur, pipeline, pc, done, failed>>
  BY DEF vars
<1>3. InBatches' = InBatches /\ Accepted' = Accepted
  BY <1>2 DEF InBatches, Accepted, Members
<1>4. TypeOK' /\ QueuesInv'
  BY <1>1, <1>2, <1>3 DEF TypeOK, QueuesInv
<1>5. PipelineInv'
  BY <1>1, <1>2 DEF PipelineInv
<1>6. BlocksInv'
  BY <1>1, <1>2, <1>3 DEF BlocksInv, Need, CurIndex
<1>7. /\ Unfinished' /\ LocationMatchesQueue' /\ OnlyCpuCanFail'
      /\ out' \in [Requests -> Nat]
  BY <1>1, <1>2, <1>3 DEF Unfinished, LocationMatchesQueue, OnlyCpuCanFail
<1> QED BY <1>4, <1>5, <1>6, <1>7 DEF Inv

LEMMA NextKeepsInv == Inv /\ [Next]_vars => Inv'
BY StepKeepsInv, StepRaisesKeepsInv, ReturnKeepsInv, BeginMigrationKeepsInv,
   EndMigrationKeepsInv, EndPostProcessKeepsInv, AddRequestKeepsInv, StutterKeepsInv
   DEF Next

LEMMA Invariant == Spec => []Inv
BY InitInv, NextKeepsInv, PTL DEF Spec

-----------------------------------------------------------------------------
(* Every variable keeps its type; no request generates more tokens than it *)
(* asked for.                                                              *)
THEOREM DecodeTypeCorrect == Spec => []TypeOK
<1>1. Inv => TypeOK
  BY DEF Inv
<1> QED BY <1>1, Invariant, PTL

(* A request is in one queue or batch at a time and once, from the bridge  *)
(* until it is freed.                                                      *)
THEOREM DecodeConserves == Spec => []RequestConserved
<1>1. Inv => RequestConserved
  <2> SUFFICES ASSUME Inv PROVE RequestConserved
    OBVIOUS
  <2>1. TypeOK /\ QueuesInv
    BY DEF Inv
  <2> DEFINE S == Seq(Requests)
             first == <<unaccepted, waiting, swapped>>
             rest == [i \in 1..PipelineSize |-> batches[i - 1]]
             queues == first \o rest
  <2>2. PipelineSize \in Nat \ {0} /\ \A i \in 1..PipelineSize : i - 1 \in Indexes
    BY DecodeFCFSAssumption DEF Indexes
  <2>3. first \in Seq(S) /\ Len(first) = 3
        /\ first[1] = unaccepted /\ first[2] = waiting /\ first[3] = swapped
    BY <2>1 DEF TypeOK
  <2>4. rest \in Seq(S) /\ Len(rest) = PipelineSize
        /\ \A i \in 1..PipelineSize : rest[i] = batches[i - 1]
    <3>1. \A i \in 1..PipelineSize : batches[i - 1] \in S
      BY <2>1, <2>2 DEF TypeOK
    <3> HIDE DEF S
    <3> QED BY <2>2, <3>1
  <2> HIDE DEF first, rest
  <2>5. /\ queues \in Seq(S) /\ Len(queues) = 3 + PipelineSize
        /\ \A i \in 1..(3 + PipelineSize) :
             queues[i] = IF i <= 3 THEN first[i] ELSE rest[i - 3]
    <3> HIDE DEF S
    <3>1. /\ first \o rest \in Seq(S) /\ Len(first \o rest) = Len(first) + Len(rest)
          /\ \A i \in 1..(Len(first) + Len(rest)) :
               (first \o rest)[i] = IF i <= Len(first) THEN first[i] ELSE rest[i - Len(first)]
      BY <2>3, <2>4, ConcatProperties
    <3> QED BY <2>3, <2>4, <3>1, Zenon
  <2> HIDE DEF queues
  <2>6. queues[1] = unaccepted /\ queues[2] = waiting /\ queues[3] = swapped
    BY <2>2, <2>3, <2>5
  <2>7. \A i \in 4..Len(queues) : i - 4 \in Indexes /\ queues[i] = batches[i - 4]
    <3> SUFFICES ASSUME NEW i \in 4..Len(queues)
                 PROVE  i - 4 \in Indexes /\ queues[i] = batches[i - 4]
      OBVIOUS
    <3>1. /\ i \in 1..(3 + PipelineSize) /\ ~(i <= 3) /\ i - 3 \in 1..PipelineSize
          /\ (i - 3) - 1 = i - 4
      BY <2>2, <2>5
    <3>2. queues[i] = rest[i - 3] /\ rest[i - 3] = batches[(i - 3) - 1]
          /\ (i - 3) - 1 \in Indexes
      BY <2>2, <2>4, <2>5, <3>1
    <3> QED BY <3>1, <3>2
  <2>8. \A i \in 1..Len(queues) : i = 1 \/ i = 2 \/ i = 3 \/ i \in 4..Len(queues)
    BY <2>2, <2>5
  <2>9. \A i \in 4..Len(queues) : Members(queues[i]) \subseteq InBatches
    BY <2>7 DEF InBatches
  <2>10. \A i, j \in 4..Len(queues) :
           i # j => Members(queues[i]) \cap Members(queues[j]) = {}
    <3> SUFFICES ASSUME NEW i \in 4..Len(queues), NEW j \in 4..Len(queues), i # j
                 PROVE  Members(queues[i]) \cap Members(queues[j]) = {}
      OBVIOUS
    <3>1. i - 4 # j - 4
      OBVIOUS
    <3>2. Members(batches[i - 4]) \cap Members(batches[j - 4]) = {}
      BY <2>1, <2>7, <3>1 DEF QueuesInv
    <3> QED BY <2>7, <3>2
  <2>11. /\ Members(unaccepted) \cap (Members(waiting) \cup Members(swapped)
                                        \cup InBatches \cup migrating) = {}
         /\ migrating \cap (Members(waiting) \cup Members(swapped) \cup InBatches) = {}
         /\ Members(waiting) \cap (Members(swapped) \cup InBatches) = {}
         /\ Members(swapped) \cap InBatches = {}
    BY <2>1 DEF QueuesInv, Accepted
  <2>12. \A i, j \in 1..Len(queues) :
           i # j => Members(queues[i]) \cap Members(queues[j]) = {}
    BY <2>6, <2>8, <2>9, <2>10, <2>11
  <2>13. \A i \in 1..Len(queues) : Cardinality(Members(queues[i])) = Len(queues[i])
    <3> SUFFICES ASSUME NEW i \in 1..Len(queues)
                 PROVE  Cardinality(Members(queues[i])) = Len(queues[i])
      OBVIOUS
    <3>1. queues[i] \in Seq(Requests)
      BY <2>5, ElementOfSeq
    <3>2. Distinct(queues[i])
      BY <2>1, <2>6, <2>7, <2>8 DEF QueuesInv
    <3> QED BY <3>1, <3>2, DistinctCardinality
  <2>14. migrating \cap UNION {Members(queues[i]) : i \in 1..Len(queues)} = {}
    <3>1. \A i \in 1..Len(queues) : migrating \cap Members(queues[i]) = {}
      BY <2>6, <2>8, <2>9, <2>11
    <3> QED BY <3>1
  <2>15. /\ issued = Members(unaccepted) \cup Accepted \cup done
         /\ done \cap (Members(unaccepted) \cup Accepted) = {}
    BY <2>1 DEF QueuesInv
  <2> QED BY <2>12, <2>13, <2>14, <2>15, Zenon DEF RequestConserved, queues, first, rest
<1> QED BY <1>1, Invariant, PTL

(* The queue of a request says on which device its K/V is. *)
THEOREM DecodeLocatesKV == Spec => []LocationMatchesQueue
<1>1. Inv => LocationMatchesQueue
  BY DEF Inv
<1> QED BY <1>1, Invariant, PTL

(* The scheduler's count of blocks is good enough: the allocation after a  *)
(* scheduling round never fails, nor does the loop that pops requests.     *)
THEOREM DecodeOnlyFailsOnCpu == Spec => []OnlyCpuCanFail
<1>1. Inv => OnlyCpuCanFail
  BY DEF Inv
<1> QED BY <1>1, Invariant, PTL

(* The answer that is awaited belongs to the batch the scheduler pops, and *)
(* that batch is on the GPU with the blocks it needs.                      *)
THEOREM DecodeAnswersFit == Spec => []AnswerFitsBatch
<1>1. Inv => AnswerFitsBatch
  <2> SUFFICES ASSUME Inv, pc = "await"
               PROVE  /\ pipeline[1].batch = CurIndex
                      /\ batches[pipeline[1].batch] # <<>>
                      /\ \A r \in Members(batches[pipeline[1].batch]) :
                           mem.loc[r] = "gpu" /\ mem.blocks[r] = Need[r]
    BY DEF AnswerFitsBatch
  <2>1. TypeOK /\ QueuesInv /\ PipelineInv /\ BlocksInv /\ LocationMatchesQueue
    BY DEF Inv
  <2>2. /\ pipeline[1].batch = CurIndex /\ CurIndex \in Indexes
        /\ batches[CurIndex] # <<>>
    BY <2>1, OldestIsNext
  <2>3. ASSUME NEW r \in Members(batches[CurIndex])
        PROVE  mem.loc[r] = "gpu" /\ mem.blocks[r] = Need[r]
    <3>1. r \in InBatches /\ r \notin Members(swapped) /\ r \in Accepted
      BY <2>1, <2>2, InBatchesElements DEF QueuesInv, Accepted
    <3>2. r \in Requests
      BY <2>1, <2>2, ElementOfSeq DEF TypeOK, Members
    <3>3. mem.blocks[r] = Need[r]
      BY <2>1, <2>2 DEF BlocksInv
    <3> QED BY <2>1, <3>1, <3>2, <3>3 DEF LocationMatchesQueue
  <2> QED BY <2>2, <2>3
<1> QED BY <1>1, Invariant, PTL

-----------------------------------------------------------------------------
(* Progress.  A scheduling round is a loop that pops and a loop that fills *)
(* a batch, and each has one outcome.                                      *)
OneSchedule(c) ==
    \E k \in SwapOuts(c) : \E j \in Fills(c, k) :
        /\ IsSchedule(c, k, j)
        /\ \A x \in SwapOuts(c) : \A y \in Fills(c, x) :
             IsSchedule(c, x, y) => x = k /\ y = j
RoundDecided == pc = "step" => OneSchedule(CurIndex)

LEMMA FillEnds ==
    ASSUME NEW c, NEW b, NEW n, NEW m \in Nat, NEW q, Len(q) = m
    PROVE  \E j \in 0..m : /\ IsFill(c, b, q, n, j)
                           /\ \A y \in 0..m : IsFill(c, b, q, n, y) => y = j
<1> DEFINE fits(i) == FitsBatch(c, b \o SubSeq(q, 1, i - 1), StillWaiting(q, n, i), q[i])
           f == [i \in 1..(m + 1) |-> fits(i)]
           stops == {j \in 0..m : j < m => ~f[j + 1]}
<1>1. \A j \in 0..m : IsFill(c, b, q, n, j) <=> /\ \A i \in 1..j : f[i]
                                                /\ j < m => ~f[j + 1]
  <2> SUFFICES ASSUME NEW j \in 0..m
               PROVE  IsFill(c, b, q, n, j) <=> /\ \A i \in 1..j : f[i]
                                                /\ j < m => ~f[j + 1]
    OBVIOUS
  <2>1. \A i \in 1..j : i \in 1..(m + 1)
    OBVIOUS
  <2>2. j + 1 \in 1..(m + 1) /\ (j + 1) - 1 = j
    OBVIOUS
  <2>3. (\A i \in 1..j : f[i]) <=> \A i \in 1..j : fits(i)
    BY <2>1
  <2>4. f[j + 1] <=> FitsBatch(c, b \o SubSeq(q, 1, j), StillWaiting(q, n, j + 1), q[j + 1])
    BY <2>2, Zenon
  <2> QED BY <2>3, <2>4 DEF IsFill
<1> HIDE DEF f
<1>2. m \in stops /\ stops \subseteq Nat
  OBVIOUS
<1>3. PICK j \in stops : \A y \in stops : j <= y
  BY <1>2, LeastNatural
<1>4. \A i \in 1..j : f[i]
  <2> SUFFICES ASSUME NEW i \in 1..j, ~f[i] PROVE FALSE
    OBVIOUS
  <2>1. i - 1 \in 0..m /\ i - 1 < m /\ (i - 1) + 1 = i /\ ~(j <= i - 1)
    BY <1>3
  <2> QED BY <1>3, <2>1
<1>5. j \in 0..m /\ IsFill(c, b, q, n, j)
  BY <1>1, <1>3, <1>4
<1>6. ASSUME NEW y \in 0..m, IsFill(c, b, q, n, y)
      PROVE  y = j
  <2>1. /\ \A i \in 1..y : f[i]
        /\ y < m => ~f[y + 1]
    BY <1>1, <1>6
  <2>2. CASE y < j
    BY <1>4, <1>5, <2>1, <2>2, y + 1 \in 1..j, y < m
  <2>3. CASE j < y
    BY <1>3, <1>5, <2>1, <2>3, j + 1 \in 1..y, j < m
  <2> QED BY <1>5, <2>2, <2>3
<1> QED BY <1>5, <1>6

LEMMA OneRound ==
    ASSUME Inv, pc = "step"
    PROVE  OneSchedule(CurIndex)
<1> DEFINE c == CurIndex
           n == Len(batches[c])
           fitting == {k \in 0..n : FitsGpu(c, k)}
<1>1. TypeOK /\ QueuesInv /\ c \in Indexes
  BY CurIndexFacts DEF Inv, TypeOK
<1>2. n \in Nat /\ SwapOuts(c) = 0..n
  BY <1>1, LenProperties DEF TypeOK, SwapOuts
<1>3. fitting # {} /\ fitting \subseteq Nat
  BY <1>2, PopsSuffice DEF PopsEmpty
<1>4. PICK k \in fitting : \A x \in fitting : k <= x
  BY <1>3, LeastNatural
<1> HIDE DEF c, n
<1>5. k \in SwapOuts(c) /\ IsSwapOut(c, k)
  <2>1. \A i \in 0..(k - 1) : i \in 0..n /\ ~(k <= i)
    BY <1>2, <1>4
  <2> QED BY <1>2, <1>4, <2>1 DEF IsSwapOut
<1>6. ASSUME NEW x \in SwapOuts(c), IsSwapOut(c, x)
      PROVE  x = k
  <2>1. x \in fitting /\ k <= x
    BY <1>2, <1>4, <1>6 DEF IsSwapOut
  <2>2. CASE k < x
    BY <1>2, <1>4, <1>6, <2>2, k \in 0..(x - 1) DEF IsSwapOut
  <2> QED BY <1>2, <1>4, <2>1, <2>2
<1> DEFINE q == Queue(c, k)
           s == Len(swapped) + k
<1>7. Len(q) \in Nat /\ Fills(c, k) = 0..Len(q)
  <2>1. q \in Seq(Requests)
    BY <1>1, <1>5, QueueFacts
  <2> QED BY <2>1, LenProperties DEF Fills
<1>8. PICK j \in 0..Len(q) :
        /\ IsFill(c, Kept(c, k), q, s, j)
        /\ \A y \in 0..Len(q) : IsFill(c, Kept(c, k), q, s, y) => y = j
  BY <1>7, FillEnds
<1>9. IsSchedule(c, k, j) /\ j \in Fills(c, k)
  BY <1>5, <1>7, <1>8 DEF IsSchedule
<1>10. \A x \in SwapOuts(c) : \A y \in Fills(c, x) : IsSchedule(c, x, y) => x = k /\ y = j
  BY <1>6, <1>7, <1>8 DEF IsSchedule
<1> QED BY <1>5, <1>9, <1>10 DEF OneSchedule, c

(* Each time the event loop gets to a round, the round ends, and in one    *)
(* way only: with a batch, or with the CPU out of blocks.                  *)
THEOREM DecodeRoundDecided == Spec => []RoundDecided
<1>1. Inv => RoundDecided
  BY OneRound DEF RoundDecided
<1> QED BY <1>1, Invariant, PTL

(* The stall that NoLastingStall shows on a small instance.  No batch has  *)
(* a request, and the first of the queues does not fit beside the waiting  *)
(* ones, although they hold their blocks already and it may be one of them. *)
FirstInLine == IF swapped # <<>> THEN Head(swapped) ELSE Head(waiting)
Backlog == swapped # <<>> \/ waiting # <<>>
HeadFits == SumOver(PromptNeed, Members(waiting)) + Need[FirstInLine] <= MaxGpuBlocks
Stalled == InBatches = {} /\ Backlog /\ ~HeadFits
StallLasts == Stalled => Stalled'

(* A round of an idle engine, with nothing in the batches, sends off the   *)
(* first in line unless it is stalled.                                     *)
IdleRoundDispatches ==
    Step /\ InBatches = {} /\ Backlog /\ ~Stalled => FirstInLine \in InBatches'

(* The head of the queue that an idle round fills its batch from *)
LEMMA IdleQueue ==
    ASSUME TypeOK, QueuesInv, InBatches = {}, NEW c \in Indexes,
           NEW k \in SwapOuts(c), NEW q, q = Queue(c, k)
    PROVE  /\ k = 0 /\ batches[c] = <<>> /\ Kept(c, k) = <<>>
           /\ q \in Seq(Requests) /\ q = swapped \o waiting
           /\ Len(q) = Len(swapped) + Len(waiting)
           /\ StillWaiting(q, Len(swapped) + k, 1) = Members(waiting)
           /\ Backlog <=> 0 < Len(q)
           /\ Backlog => q[1] = FirstInLine /\ FirstInLine \in Requests
<1>1. /\ batches[c] \in Seq(Requests) /\ swapped \in Seq(Requests)
      /\ waiting \in Seq(Requests)
  BY DEF TypeOK
<1>2. batches[c] = <<>>
  <2>1. Members(batches[c]) = {}
    BY InBatchesElements
  <2>2. ASSUME batches[c] # <<>> PROVE FALSE
    <3>1. 1 \in 1..Len(batches[c])
      BY <1>1, <2>2, EmptySeq
    <3> QED BY <2>1, <3>1 DEF Members
  <2> QED BY <2>2
<1>3. k = 0 /\ Kept(c, k) = <<>>
  <2>1. Len(batches[c]) = 0
    BY <1>2
  <2>2. k = 0
    BY <2>1 DEF SwapOuts
  <2> QED BY <2>1, <2>2, <1>1, SubSeqEmpty DEF Kept
<1>4. Dropped(c, k) = <<>>
  <2>1. Dropped(c, k) \in Seq(Requests) /\ Len(Dropped(c, k)) = 0
    BY <1>1, <1>3, KeptAndDropped DEF QueuesInv
  <2> QED BY <2>1, EmptySeq
<1>5. q = swapped \o waiting
  BY <1>1, <1>4, ConcatEmptySeq DEF Queue
<1>6. /\ q \in Seq(Requests) /\ Len(q) = Len(swapped) + Len(waiting)
      /\ \A i \in 1..(Len(swapped) + Len(waiting)) :
           q[i] = IF i <= Len(swapped) THEN swapped[i] ELSE waiting[i - Len(swapped)]
  BY <1>1, <1>5, ConcatProperties
<1> DEFINE n == Len(swapped)
           l == Len(q)
<1>7. n \in Nat /\ Len(waiting) \in Nat /\ l \in Nat /\ n <= l
  BY <1>1, <1>6, LenProperties
<1>8. StillWaiting(q, n + k, 1) = Members(waiting)
  <2>1. {q[i] : i \in (n + 1)..l} = Members(waiting)
    BY <1>3, QueueFacts, n + k = n, <1>7
  <2>2. \A x : x \in {y \in 1..l : y > n + k /\ y >= 1} <=> x \in (n + 1)..l
    BY <1>3, <1>7
  <2>3. {y \in 1..l : y > n + k /\ y >= 1} = (n + 1)..l
    BY <2>2
  <2> QED BY <2>1, <2>3 DEF StillWaiting
<1>9. Backlog <=> 0 < l
  BY <1>1, <1>6, <1>7, EmptySeq DEF Backlog
<1>10. ASSUME Backlog PROVE q[1] = FirstInLine /\ FirstInLine \in Requests
  <2>1. 1 \in 1..l
    BY <1>7, <1>9, <1>10
  <2>2. q[1] \in Requests
    BY <1>6, <2>1, ElementOfSeq
  <2>3. q[1] = FirstInLine
    <3>1. CASE swapped # <<>>
      <4>1. n \in Nat \ {0} /\ Head(swapped) = swapped[1]
        BY <1>1, <3>1, EmptySeq
      <4>2. q[1] = swapped[1]
        BY <1>6, <2>1, <4>1
      <4> QED BY <3>1, <4>1, <4>2 DEF FirstInLine
    <3>2. CASE swapped = <<>>
      <4>1. n = 0 /\ Head(waiting) = waiting[1]
        BY <1>1, <3>2, <1>10, EmptySeq DEF Backlog
      <4>2. q[1] = waiting[1]
        BY <1>6, <2>1, <4>1
      <4> QED BY <3>2, <4>1, <4>2 DEF FirstInLine
    <3> QED BY <3>1, <3>2
  <2> QED BY <2>2, <2>3
<1> HIDE DEF l
<1> QED BY <1>2, <1>3, <1>5, <1>6, <1>8, <1>9, <1>10 DEF l

(* The first in line is taken if it fits, and if it does not, nobody is.   *)
LEMMA IdleRound ==
    ASSUME Inv, pc = "step", InBatches = {}, Backlog, NEW c, c = CurIndex,
           NEW k \in SwapOuts(c), NEW j \in Fills(c, k), IsSchedule(c, k, j)
    PROVE  /\ MaxBatchSize > 0 /\ MaxTokensPerBatch > 0 /\ HeadFits => j > 0
           /\ ~HeadFits => j = 0
<1>1. TypeOK /\ QueuesInv /\ out \in [Requests -> Nat] /\ c \in Indexes
  BY CurIndexFacts DEF Inv, TypeOK
<1> DEFINE q == Queue(c, k)
           w == Members(waiting)
           s == Len(swapped) + k
<1>2. /\ Kept(c, k) = <<>> /\ q \in Seq(Requests) /\ Len(q) \in Nat /\ 0 < Len(q)
      /\ StillWaiting(q, s, 1) = w /\ q[1] = FirstInLine /\ FirstInLine \in Requests
  BY <1>1, IdleQueue, LenProperties
<1>3. j \in 0..Len(q)
  BY DEF Fills
<1>4. IsFill(c, <<>>, q, s, j)
  BY <1>2 DEF IsSchedule
<1> HIDE DEF q, s
<1>5. SubSeq(q, 1, 0) = <<>> /\ <<>> \o SubSeq(q, 1, 0) = <<>>
  BY SubSeqEmpty, ConcatEmptySeq, EmptySeq
<1>6. FitsBatch(c, <<>>, w, FirstInLine) <=>
        MaxBatchSize > 0 /\ MaxTokensPerBatch > 0 /\ HeadFits
  <2>1. Members(<<>>) = {} /\ OtherBatches(c) = {}
    BY <1>1, BatchSplit DEF Members
  <2>2. Demand(c, <<>>, w) = SumOver(PromptNeed, w)
    <3>1. Demand(c, <<>>, w) = SumOver(Need, {}) + SumOver(PromptNeed, w)
      BY <2>1 DEF Demand
    <3>2. SumOver(PromptNeed, w) \in Nat
      <4>1. w \in SUBSET Requests
        BY <1>1, ElementOfSeq DEF TypeOK, Members
      <4> QED BY <1>1, <4>1, NeedFunctions, RequestSets
    <3> HIDE DEF w
    <3> QED BY <3>1, <3>2, SumEmpty
  <2>3. Len(<<>>) = 0
    OBVIOUS
  <2>4. MaxBatchSize \in Nat /\ MaxTokensPerBatch \in Nat
    BY DecodeFCFSAssumption
  <2> HIDE DEF w
  <2> QED BY <2>2, <2>3, <2>4 DEF FitsBatch, HeadFits, w
<1>7. CASE j = 0
  <2>1. ~FitsBatch(c, <<>> \o SubSeq(q, 1, 0), StillWaiting(q, s, 1), q[1])
    BY <1>2, <1>4, <1>7, 0 + 1 = 1 DEF IsFill
  <2>2. ~FitsBatch(c, <<>>, w, FirstInLine)
    BY <1>2, <1>5, <2>1 DEF q, s
  <2> QED BY <1>6, <1>7, <2>2
<1>8. CASE j > 0
  <2>1. FitsBatch(c, <<>> \o SubSeq(q, 1, 0), StillWaiting(q, s, 1), q[1])
    BY <1>3, <1>4, <1>8, 1 \in 1..j, 1 - 1 = 0 DEF IsFill
  <2>2. FitsBatch(c, <<>>, w, FirstInLine)
    BY <1>2, <1>5, <2>1 DEF q, s
  <2> QED BY <1>6, <1>8, <2>2
<1> QED BY <1>2, <1>3, <1>7, <1>8

(* What a round changes, without the pipeline *)
LEMMA StepDeals ==
    ASSUME Inv, Step
    PROVE  LET c == CurIndex IN
           /\ c \in Indexes /\ pc = "step"
           /\ \E k \in SwapOuts(c) : \E j \in Fills(c, k) :
                /\ IsSchedule(c, k, j)
                /\ batches' = [batches EXCEPT ![c] = NextBatch(c, k, j)]
                /\ swapped' = SwappedNext(c, k, j)
                /\ waiting' = WaitingNext(c, k, j)
           /\ UNCHANGED <<out, migrating>>
<1> DEFINE c == CurIndex
<1>1. PICK k \in SwapOuts(c) : \E j \in Fills(c, k) :
        LET q      == Queue(c, k)
            n      == Len(swapped) + k
            batch  == NextBatch(c, k, j)
            pushed == Append(pipeline, [batch |-> c, future |-> batch # <<>>])
            full   == Len(pushed) = PipelineSize
        IN  /\ IsSchedule(c, k, j)
            /\ batches' = [batches EXCEPT ![c] = batch]
            /\ swapped' = SubSeq(q, j + 1, n)
            /\ waiting' = SubSeq(q, (IF j > n THEN j ELSE n) + 1, Len(q))
  BY Zenon DEF Step
<1>2. c \in Indexes /\ pc = "step" /\ UNCHANGED <<out, migrating>>
  BY CurIndexFacts DEF Step, Inv, TypeOK
<1> QED BY <1>1, <1>2, Zenon DEF SwappedNext, WaitingNext

LEMMA IdleStep ==
    ASSUME Inv, Step, InBatches = {}, Backlog
    PROVE  /\ HeadFits /\ MaxBatchSize > 0 /\ MaxTokensPerBatch > 0 => FirstInLine \in InBatches'
           /\ ~HeadFits => UNCHANGED <<swapped, waiting, batches, out>>
<1> DEFINE c == CurIndex
<1>1. /\ TypeOK /\ QueuesInv /\ c \in Indexes /\ pc = "step" /\ UNCHANGED <<out, migrating>>
  BY StepDeals DEF Inv
<1>2. PICK k \in SwapOuts(c) : \E j \in Fills(c, k) :
        /\ IsSchedule(c, k, j)
        /\ batches' = [batches EXCEPT ![c] = NextBatch(c, k, j)]
        /\ swapped' = SwappedNext(c, k, j)
        /\ waiting' = WaitingNext(c, k, j)
  BY StepDeals
<1>3. PICK j \in Fills(c, k) :
        /\ IsSchedule(c, k, j)
        /\ batches' = [batches EXCEPT ![c] = NextBatch(c, k, j)]
        /\ swapped' = SwappedNext(c, k, j)
        /\ waiting' = WaitingNext(c, k, j)
  BY <1>2
<1> DEFINE q == Queue(c, k)
<1>4. /\ k = 0 /\ batches[c] = <<>> /\ Kept(c, k) = <<>>
      /\ q \in Seq(Requests) /\ q = swapped \o waiting
      /\ Len(q) = Len(swapped) + Len(waiting) /\ 0 < Len(q) /\ q[1] = FirstInLine
  BY <1>1, IdleQueue
<1>5. /\ MaxBatchSize > 0 /\ MaxTokensPerBatch > 0 /\ HeadFits => j > 0
      /\ ~HeadFits => j = 0
  BY <1>1, <1>3, IdleRound
<1>6. /\ swapped \in Seq(Requests) /\ waiting \in Seq(Requests)
      /\ Len(swapped) \in Nat /\ Len(waiting) \in Nat
      /\ batches \in [Indexes -> Seq(Requests)] /\ j \in 0..Len(q)
  BY <1>1, LenProperties DEF TypeOK, Fills
<1>7. NextBatch(c, k, j) = <<>> \o SubSeq(q, 1, j)
  BY <1>4 DEF NextBatch
<1>8. ASSUME j > 0 PROVE FirstInLine \in InBatches'
  <2>1. /\ SubSeq(q, 1, j) \in Seq(Requests)
        /\ Members(SubSeq(q, 1, j)) = {q[i] : i \in 1..j}
    BY <1>4, <1>6, 1 \in 1..(Len(q) + 1), MembersOfSlice
  <2>2. NextBatch(c, k, j) = SubSeq(q, 1, j)
    BY <1>7, <2>1, ConcatEmptySeq
  <2>3. FirstInLine \in Members(NextBatch(c, k, j))
    BY <1>4, <1>6, <1>8, <2>1, <2>2, 1 \in 1..j
  <2>4. InBatches' = OtherBatches(c) \cup Members(NextBatch(c, k, j))
    BY <1>1, <1>3, <1>6, BatchChanged
  <2> QED BY <2>3, <2>4
<1>9. ASSUME j = 0 PROVE UNCHANGED <<swapped, waiting, batches, out>>
  <2> DEFINE n == Len(swapped)
  <2>1. NextBatch(c, k, j) = <<>>
    BY <1>7, <1>9, SubSeqEmpty, ConcatEmptySeq, EmptySeq
  <2>2. batches' = batches
    BY <1>3, <1>4, <1>6, <2>1, <1>1
  <2>3. /\ SwappedNext(c, k, j) = SubSeq(q, 1, n)
        /\ WaitingNext(c, k, j) = SubSeq(q, n + 1, n + Len(waiting))
    <3>1. j + 1 = 1 /\ n + k = n /\ ~(j > n + k)
      BY <1>4, <1>6, <1>9
    <3> QED BY <1>4, <3>1 DEF SwappedNext, WaitingNext
  <2>4. SubSeq(q, 1, n) = swapped /\ SubSeq(q, n + 1, n + Len(waiting)) = waiting
    BY <1>4, <1>6, SubSeqOfConcat1, SubSeqOfConcat2, SubSeqFull
  <2> QED BY <1>1, <1>3, <2>2, <2>3, <2>4
<1> QED BY <1>5, <1>8, <1>9

(* A step that leaves the batches and the lengths alone and takes nothing  *)
(* off the queues leaves the stall as it is.                               *)
LEMMA SameStall ==
    ASSUME UNCHANGED <<swapped, waiting, batches, out>>
    PROVE  StallLasts
<1>1. InBatches' = InBatches
  BY DEF InBatches, Members
<1>2. Need' = Need /\ FirstInLine' = FirstInLine /\ Members(waiting)' = Members(waiting)
  BY DEF Need, FirstInLine, Members
<1>3. HeadFits' <=> HeadFits
  BY <1>2 DEF HeadFits
<1>4. Backlog' <=> Backlog
  BY DEF Backlog
<1> QED BY <1>1, <1>3, <1>4 DEF StallLasts, Stalled

(* Another request in the waiting queue makes it worse. *)
LEMMA LongerStall ==
    ASSUME Inv, EndMigration
    PROVE  StallLasts
<1> SUFFICES ASSUME Stalled PROVE Stalled'
  BY DEF StallLasts
<1>1. TypeOK /\ QueuesInv /\ out \in [Requests -> Nat]
  BY DEF Inv
<1>2. PICK r \in migrating : waiting' = Append(waiting, r)
  BY DEF EndMigration
<1>3. r \in Requests /\ UNCHANGED <<swapped, batches, out>>
  BY <1>1 DEF EndMigration, TypeOK
<1>4. waiting \in Seq(Requests) /\ swapped \in Seq(Requests)
  BY <1>1 DEF TypeOK
<1> DEFINE v == Members(waiting)
           u == Members(waiting')
<1>5. u = v \cup {r} /\ waiting' # <<>>
  BY <1>2, <1>3, <1>4, MembersOfAppend, AppendProperties
<1>6. FirstInLine' = FirstInLine
  <2>1. swapped = <<>> => waiting # <<>>
    BY DEF Stalled, Backlog
  <2>2. waiting # <<>> => Head(waiting') = Head(waiting)
    BY <1>2, <1>4, HeadTailAppend
  <2> QED BY <1>3, <2>1, <2>2 DEF FirstInLine
<1>7. InBatches' = InBatches /\ Need' = Need
  BY <1>3 DEF InBatches, Members, Need
<1>8. v \in SUBSET u /\ u \in SUBSET Requests
  BY <1>1, <1>3, <1>4, <1>5, ElementOfSeq DEF Members
<1> HIDE DEF v, u
<1>9. PromptNeed \in [Requests -> Nat] /\ Need \in [Requests -> Nat]
  BY <1>1, NeedFunctions
<1>10. /\ SumOver(PromptNeed, v) \in Nat /\ SumOver(PromptNeed, u) \in Nat
       /\ IsFiniteSet(u) /\ \A x \in u : PromptNeed[x] \in Nat
  BY <1>8, <1>9, RequestSets
<1>11. SumOver(PromptNeed, v) <= SumOver(PromptNeed, u)
  BY <1>8, <1>10, SumSubset
<1>12. Need[FirstInLine] \in Nat
  <2>1. FirstInLine \in Requests
    BY <1>4, HeadTailProperties DEF FirstInLine, Stalled, Backlog
  <2> QED BY <1>9, <2>1
<1>13. SumOver(PromptNeed, v) + Need[FirstInLine] > MaxGpuBlocks
  BY <1>10, <1>12, KVCountsAssumption DEF Stalled, HeadFits, v
<1>14. SumOver(PromptNeed, u) + Need[FirstInLine] > MaxGpuBlocks
  BY <1>10, <1>11, <1>12, <1>13, KVCountsAssumption
<1>15. ~HeadFits'
  <2>1. HeadFits' <=> SumOver(PromptNeed, u) + Need[FirstInLine] <= MaxGpuBlocks
    BY <1>6, <1>7 DEF HeadFits, u
  <2> QED BY <1>10, <1>12, <1>14, <2>1, KVCountsAssumption
<1>16. Backlog' /\ InBatches' = {}
  BY <1>5, <1>7 DEF Backlog, Stalled
<1> QED BY <1>15, <1>16 DEF Stalled

LEMMA StallStep ==
    ASSUME Inv, [Next]_vars
    PROVE  StallLasts
<1>1. CASE Step
  <2> SUFFICES ASSUME Stalled PROVE Stalled'
    BY DEF StallLasts
  <2>1. UNCHANGED <<swapped, waiting, batches, out>>
    BY <1>1, IdleStep DEF Stalled
  <2> QED BY <2>1, SameStall DEF StallLasts
<1>2. CASE Return
  <2>1. pc = "await" /\ TypeOK /\ PipelineInv
    BY <1>2 DEF Inv, Return
  <2>2. CurIndex \in Indexes /\ batches[CurIndex] # <<>>
    BY <2>1, OldestIsNext
  <2>3. batches[CurIndex] \in Seq(Requests)
    BY <2>1, <2>2 DEF TypeOK
  <2>4. Head(batches[CurIndex]) \in Members(batches[CurIndex])
    BY <2>2, <2>3, MembersOfTail
  <2>5. InBatches # {}
    BY <2>2, <2>4, InBatchesElements
  <2> QED BY <2>5 DEF StallLasts, Stalled
<1>3. CASE StepRaises \/ BeginMigration \/ EndPostProcess
  <2>1. UNCHANGED <<swapped, waiting, batches, out>>
    BY <1>3 DEF StepRaises, BeginMigration, EndPostProcess
  <2> QED BY <2>1, SameStall
<1>4. CASE EndMigration
  BY <1>4, LongerStall
<1>5. CASE UNCHANGED vars
  BY <1>5, SameStall DEF vars
<1>6. ASSUME NEW r \in Requests, AddRequest(r) PROVE StallLasts
  <2>1. UNCHANGED <<swapped, waiting, batches, out>>
    BY <1>6 DEF AddRequest
  <2> QED BY <2>1, SameStall
<1> QED BY <1>1, <1>2, <1>3, <1>4, <1>5, <1>6 DEF Next

(* A stall never ends: whatever arrives, is accepted or is raised later,   *)
(* the requests of a stalled stage stay where they are.                    *)
THEOREM StallIsForEver == Spec => [][StallLasts]_vars
<1>1. Inv /\ [Next]_vars => [StallLasts]_vars
  BY StallStep
<1> QED BY <1>1, Invariant, PTL DEF Spec

(* And it is the only way to stop: an idle engine that is not stalled      *)
(* dispatches the first in line in its next round, if batches may hold a   *)
(* request at all.                                                         *)
THEOREM OnlyStallsStop ==
    ASSUME MaxBatchSize > 0, MaxTokensPerBatch > 0
    PROVE  Spec => [][IdleRoundDispatches]_vars
<1>1. Inv /\ [Next]_vars => [IdleRoundDispatches]_vars
  BY IdleStep DEF IdleRoundDispatches, Stalled
<1> QED BY <1>1, Invariant, PTL DEF Spec

(* A configuration under which there is no stall: p blocks hold any prompt *)
(* and n any request, and what should_accept admits below its threshold    *)
(* leaves room for one more prompt and for one request.                    *)
Roomy(p, n) ==
    /\ \A r \in Requests : PromptNeed[r] <= p /\ BlocksFor(PromptLen[r] + MaxOutput[r]) <= n
    /\ n <= MaxGpuBlocks
    /\ \A w \in Nat : w * 100 < MaxGpuBlocks * WaitingPercent => w + p + n <= MaxGpuBlocks

(* What was admitted: the waiting queue and the request that is migrated   *)
(* to it exceed the threshold by no more than one prompt.                  *)
AdmittedSum == SumOver(PromptNeed, Members(waiting) \cup migrating)
Admitted(p) ==
    \/ Members(waiting) \cup migrating = {}
    \/ \E w \in Nat : w * 100 < MaxGpuBlocks * WaitingPercent /\ AdmittedSum <= w + p

LEMMA AdmittedType ==
    ASSUME TypeOK, NEW p \in Nat
    PROVE  /\ Members(waiting) \cup migrating \in SUBSET Requests
           /\ \A S \in SUBSET Requests : /\ IsFiniteSet(S) /\ SumOver(PromptNeed, S) \in Nat
                                         /\ \A r \in S : PromptNeed[r] \in Nat
<1>1. Members(waiting) \cup migrating \in SUBSET Requests
  BY ElementOfSeq DEF TypeOK, Members
<1>2. PromptNeed \in [Requests -> Nat]
  BY BlocksForMonotone, DecodeFCFSAssumption DEF PromptNeed
<1> QED BY <1>1, <1>2, RequestSets

(* A step after which no other request is admitted *)
LEMMA FewerAdmitted ==
    ASSUME TypeOK, NEW p \in Nat, Admitted(p),
           (Members(waiting) \cup migrating)' \subseteq Members(waiting) \cup migrating
    PROVE  Admitted(p)'
<1> DEFINE S == Members(waiting) \cup migrating
           T == Members(waiting') \cup migrating'
<1>1. S \in SUBSET Requests /\ IsFiniteSet(S) /\ \A r \in S : PromptNeed[r] \in Nat
  BY AdmittedType
<1>2. T \in SUBSET S
  BY DEF Members
<1>3. SumOver(PromptNeed, S) \in Nat /\ SumOver(PromptNeed, T) \in Nat
  BY <1>1, <1>2, AdmittedType
<1>4. SumOver(PromptNeed, T) <= SumOver(PromptNeed, S)
  BY <1>1, <1>2, SumSubset
<1>5. /\ Admitted(p) <=> \/ S = {}
                         \/ \E w \in Nat : /\ w * 100 < MaxGpuBlocks * WaitingPercent
                                           /\ SumOver(PromptNeed, S) <= w + p
      /\ Admitted(p)' <=> \/ T = {}
                          \/ \E w \in Nat : /\ w * 100 < MaxGpuBlocks * WaitingPercent
                                            /\ SumOver(PromptNeed, T) <= w + p
  BY DEF Admitted, AdmittedSum, Members
<1> HIDE DEF S, T
<1>6. CASE S = {}
  BY <1>2, <1>5, <1>6
<1>7. ASSUME NEW w \in Nat, w * 100 < MaxGpuBlocks * WaitingPercent,
             SumOver(PromptNeed, S) <= w + p
      PROVE  Admitted(p)'
  <2>1. SumOver(PromptNeed, T) <= w + p
    BY <1>3, <1>4, <1>7
  <2> QED BY <1>5, <1>7, <2>1
<1> QED BY <1>5, <1>6, <1>7

(* Only post_process admits a request, below the threshold. *)
LEMMA AcceptAdmitted ==
    ASSUME Inv, NEW p \in Nat, \A r \in Requests : PromptNeed[r] <= p, BeginMigration
    PROVE  Admitted(p)'
<1>1. TypeOK /\ QueuesInv
  BY DEF Inv
<1> DEFINE r == Head(unaccepted)
           v == Members(waiting)
<1>2. /\ SumOver(PromptNeed, v) * 100 < MaxGpuBlocks * WaitingPercent
      /\ migrating' = {r} /\ waiting' = waiting /\ unaccepted # <<>>
  BY DEF BeginMigration, ShouldAccept
<1>3. r \in Requests /\ r \in Members(unaccepted)
  BY <1>1, <1>2, MembersOfTail, HeadTailProperties DEF TypeOK
<1>4. v \in SUBSET Requests /\ r \notin v
  BY <1>1, <1>3, ElementOfSeq DEF QueuesInv, Accepted, TypeOK, Members
<1> HIDE DEF r, v
<1>5. /\ IsFiniteSet(v) /\ IsFiniteSet({r}) /\ v \cap {r} = {}
      /\ \A x \in v \cup {r} : PromptNeed[x] \in Nat
      /\ SumOver(PromptNeed, v) \in Nat /\ PromptNeed[r] \in Nat
  BY <1>1, <1>3, <1>4, AdmittedType, {r} \in SUBSET Requests
<1>6. SumOver(PromptNeed, v \cup {r}) = SumOver(PromptNeed, v) + PromptNeed[r]
  BY <1>5, SumUnion, SumSingleton
<1>7. SumOver(PromptNeed, v \cup {r}) <= SumOver(PromptNeed, v) + p
  BY <1>3, <1>5, <1>6
<1>8. AdmittedSum' = SumOver(PromptNeed, v \cup {r})
  <2>1. (Members(waiting) \cup migrating)' = v \cup {r}
    BY <1>2 DEF Members, v
  <2> QED BY <2>1 DEF AdmittedSum
<1> QED BY <1>2, <1>5, <1>7, <1>8 DEF Admitted

LEMMA AdmittedKept ==
    ASSUME Inv, NEW p \in Nat, \A r \in Requests : PromptNeed[r] <= p,
           Admitted(p), [Next]_vars
    PROVE  Admitted(p)'
<1>1. TypeOK /\ QueuesInv
  BY DEF Inv
<1>2. CASE BeginMigration
  BY <1>2, AcceptAdmitted
<1>3. CASE Step
  <2> DEFINE c == CurIndex
  <2>1. /\ c \in Indexes /\ migrating' = migrating
        /\ \E k \in SwapOuts(c) : \E j \in Fills(c, k) : waiting' = WaitingNext(c, k, j)
    BY <1>3, StepDeals
  <2>2. Members(waiting') \subseteq Members(waiting)
    BY <1>1, <2>1, RoundDeals
  <2>3. (Members(waiting) \cup migrating)' \subseteq Members(waiting) \cup migrating
    BY <2>1, <2>2 DEF Members
  <2> QED BY <1>1, <2>3, FewerAdmitted
<1>4. CASE EndMigration
  <2>1. PICK r \in migrating : waiting' = Append(waiting, r)
    BY <1>4 DEF EndMigration
  <2>2. migrating' = {} /\ r \in Requests /\ waiting \in Seq(Requests)
    BY <1>1, <1>4 DEF EndMigration, TypeOK
  <2>3. Members(waiting') = Members(waiting) \cup {r}
    BY <2>1, <2>2, MembersOfAppend
  <2>4. (Members(waiting) \cup migrating)' \subseteq Members(waiting) \cup migrating
    BY <2>1, <2>2, <2>3 DEF Members
  <2> QED BY <1>1, <2>4, FewerAdmitted
<1>5. CASE StepRaises \/ Return \/ EndPostProcess \/ UNCHANGED vars
  <2>1. UNCHANGED <<waiting, migrating>>
    BY <1>5 DEF StepRaises, Return, EndPostProcess, vars
  <2>2. (Members(waiting) \cup migrating)' \subseteq Members(waiting) \cup migrating
    BY <2>1 DEF Members
  <2> QED BY <1>1, <2>2, FewerAdmitted
<1>6. ASSUME NEW r \in Requests, AddRequest(r) PROVE Admitted(p)'
  <2>1. UNCHANGED <<waiting, migrating>>
    BY <1>6 DEF AddRequest
  <2>2. (Members(waiting) \cup migrating)' \subseteq Members(waiting) \cup migrating
    BY <2>1 DEF Members
  <2> QED BY <1>1, <2>2, FewerAdmitted
<1> QED BY <1>2, <1>3, <1>4, <1>5, <1>6 DEF Next

LEMMA AdmittedFits ==
    ASSUME Inv, NEW p \in Nat, NEW n \in Nat, Roomy(p, n), Admitted(p), Backlog
    PROVE  HeadFits
<1>1. TypeOK /\ out \in [Requests -> Nat]
  BY DEF Inv
<1> DEFINE h == FirstInLine
           v == Members(waiting)
           S == Members(waiting) \cup migrating
<1>2. h \in Requests
  BY <1>1, HeadTailProperties DEF FirstInLine, Backlog, TypeOK
<1>3. Need[h] \in Nat /\ Need[h] <= n
  <2>1. /\ PromptLen[h] + out[h] \in Nat /\ PromptLen[h] + MaxOutput[h] \in Nat
        /\ PromptLen[h] + out[h] <= PromptLen[h] + MaxOutput[h]
    BY <1>1, <1>2, DecodeFCFSAssumption DEF TypeOK
  <2>2. /\ BlocksFor(PromptLen[h] + out[h]) \in Nat
        /\ BlocksFor(PromptLen[h] + MaxOutput[h]) \in Nat
        /\ BlocksFor(PromptLen[h] + out[h]) <= BlocksFor(PromptLen[h] + MaxOutput[h])
    BY <2>1, BlocksForMonotone
  <2>3. BlocksFor(PromptLen[h] + MaxOutput[h]) <= n
    BY <1>2 DEF Roomy
  <2>4. Need[h] = BlocksFor(PromptLen[h] + out[h])
    BY <1>2 DEF Need
  <2> HIDE DEF h
  <2> QED BY <2>2, <2>3, <2>4
<1>4. /\ S \in SUBSET Requests /\ v \in SUBSET S
      /\ IsFiniteSet(S) /\ \A r \in S : PromptNeed[r] \in Nat
      /\ SumOver(PromptNeed, S) \in Nat /\ SumOver(PromptNeed, v) \in Nat
  BY <1>1, AdmittedType
<1>5. SumOver(PromptNeed, v) <= SumOver(PromptNeed, S)
  BY <1>4, SumSubset
<1>6. Admitted(p) <=> \/ S = {}
                      \/ \E w \in Nat : /\ w * 100 < MaxGpuBlocks * WaitingPercent
                                        /\ SumOver(PromptNeed, S) <= w + p
  BY DEF Admitted, AdmittedSum
<1>7. HeadFits <=> SumOver(PromptNeed, v) + Need[h] <= MaxGpuBlocks
  BY DEF HeadFits
<1> HIDE DEF h, v, S
<1>8. CASE S = {}
  <2>1. SumOver(PromptNeed, v) = 0
    BY <1>4, <1>8, SumEmpty
  <2> QED BY <1>3, <1>7, <2>1, KVCountsAssumption DEF Roomy
<1>9. ASSUME NEW w \in Nat, w * 100 < MaxGpuBlocks * WaitingPercent,
             SumOver(PromptNeed, S) <= w + p
      PROVE  HeadFits
  <2>1. w + p + n <= MaxGpuBlocks
    BY <1>9 DEF Roomy
  <2> QED BY <1>3, <1>4, <1>5, <1>7, <1>9, <2>1, KVCountsAssumption
<1> QED BY <1>6, <1>8, <1>9

(* In such a configuration the stage never stalls. *)
THEOREM RoomyNeverStalls ==
    ASSUME NEW p \in Nat, NEW n \in Nat, Roomy(p, n)
    PROVE  Spec => []~Stalled
<1>1. \A r \in Requests : PromptNeed[r] <= p
  BY DEF Roomy
<1>2. Init => Admitted(p)
  BY DEF Init, Admitted, Members
<1>3. Inv /\ Admitted(p) /\ [Next]_vars => Admitted(p)'
  BY <1>1, AdmittedKept
<1>4. Inv /\ Admitted(p) => ~Stalled
  BY AdmittedFits DEF Stalled
<1> QED BY <1>2, <1>3, <1>4, Invariant, PTL DEF Spec

=============================================================================
