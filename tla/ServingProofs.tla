--------------------------- MODULE ServingProofs ----------------------------
(***************************************************************************)
(* For every number of requests, size of the two stages and behaviour of   *)
(* the callers: the callbacks of both engines find the tables they write   *)
(* to, the K/V of a request is handed over and never in two places, the    *)
(* lifetime events are the documented ones, and what a caller sees is the  *)
(* stream of TokenStream.                                                  *)
(*                                                                         *)
(* The decoding stage does here what DecodeFCFS allows, so that its        *)
(* invariant holds.  Of the context stage the proof needs where requests   *)
(* are and which of them hold blocks (CtxInv), not how many blocks there   *)
(* are.  What joins the two is the bridge (BridgeInv): a request that the  *)
(* decoding stage has not finished copying is unaccepted in the context    *)
(* stage.  On that rest the contents of the two tables: the outputs of a   *)
(* request are the tokens that its caller has not been given (OutputsInv), *)
(* and its events follow from the place it has reached (EventsInv).        *)
(***************************************************************************)
EXTENDS Serving, DecodeFCFSProofs

(* The context stage: a request is in one place, and holds blocks from its *)
(* dispatch until it is finished or cleared.                               *)
CtxInv ==
    /\ ctxWaiting \in Seq(Requests) /\ Distinct(ctxWaiting)
    /\ ctxPipeline \in Seq(SUBSET Requests) /\ Apart(ctxPipeline)
    /\ ctxAwaiting => ctxPipeline # <<>>
    /\ Members(ctxWaiting) \cap Pooled(ctxPipeline) = {}
    /\ (Members(ctxWaiting) \cup Pooled(ctxPipeline)) \cap Returned = {}
    /\ ctxUnaccepted \cap ctxDone = {}
    /\ ctxIssued = Members(ctxWaiting) \cup Pooled(ctxPipeline) \cup Returned
    /\ ctxIssued \subseteq Requests
    /\ ctxHolding = Pooled(ctxPipeline) \cup ctxUnaccepted
    /\ ctxBridge = ctxUnaccepted

(* The decoding stage, besides its own invariant *)
StageInv ==
    /\ Inv
    /\ finished = done
    /\ \A r \in Requests : r \notin issued => out[r] = 1

(* The bridge queue: what the decoding stage has not cleared, the context  *)
(* stage still keeps.                                                      *)
BridgeInv ==
    /\ bridgeQueue \in Seq(Requests) /\ Distinct(bridgeQueue)
    /\ Members(bridgeQueue) \cap issued = {}
    /\ ctxBridge = Members(bridgeQueue) \cup Members(unaccepted) \cup migrating
    /\ issued \subseteq Returned

(* The tables have an entry for each request that was asked for, unless    *)
(* its caller has had the last token.                                      *)
ClientInv ==
    /\ client \in [Requests -> {"none", "reading", "ending", "closed", "gone"}]
    /\ received \in [Requests -> Nat]
    /\ ctxIssued = {r \in Requests : client[r] # "none"}
    /\ DOMAIN outputs = {r \in Requests : client[r] \in {"reading", "ending", "gone"}}
    /\ DOMAIN outputs \subseteq DOMAIN events
    /\ DOMAIN events \subseteq ctxIssued
    /\ \A r \in Requests : client[r] = "none" => received[r] = 0

(* The outputs of a request are the tokens its caller has not been given,  *)
(* and the newest is marked as the last when the request is over.          *)
Made(r) == IF r \in Returned THEN out[r] ELSE 0
Unread(r) ==
    /\ outputs[r] \in Seq([token: Nat, last: BOOLEAN])
    /\ received[r] + Len(outputs[r]) = Made(r)
    /\ \A i \in 1..Len(outputs[r]) :
         /\ outputs[r][i].token = received[r] + i
         /\ outputs[r][i].last <=> (r \in Over /\ i = Len(outputs[r]))
OutputsInv ==
    /\ \A r \in DOMAIN outputs : Unread(r)
    /\ \A r \in Requests :
        /\ client[r] = "ending" => r \in Over /\ received[r] = Made(r)
        /\ client[r] = "closed" => r \in Over
        /\ client[r] = "reading" /\ r \in Over => outputs[r] # <<>>

(* How many of the lifetime events a request has, by the place it is in *)
StageOf(r) ==
    IF r \in Members(ctxWaiting) THEN 1
    ELSE IF r \in Pooled(ctxPipeline) THEN 2
    ELSE IF r \in finished THEN 7
    ELSE IF r \in InBatches \cup Members(swapped) THEN 6
    ELSE IF r \in Members(waiting) THEN 5
    ELSE IF r \in migrating THEN 4
    ELSE 3
EventsInv == \A r \in DOMAIN events : events[r] = SubSeq(Lifetime, 1, StageOf(r))

ServingInv == CtxInv /\ StageInv /\ BridgeInv /\ ClientInv /\ OutputsInv /\ EventsInv

-----------------------------------------------------------------------------
(* The context stage, as ContextStage names its parts *)
LEMMA CtxNames ==
    /\ Ctx!Waiting = Members(ctxWaiting)
    /\ Ctx!InFlight = Pooled(ctxPipeline)
    /\ \A k \in 0..Len(ctxWaiting) : Ctx!Prefix(k) = {ctxWaiting[i] : i \in 1..k}
BY DEF Ctx!Waiting, Ctx!InFlight, Ctx!Prefix, Members, Pooled

LEMMA CtxInitInv == ServingInit => CtxInv
<1> SUFFICES ASSUME ServingInit PROVE CtxInv
  OBVIOUS
<1>1. /\ ctxIssued = {} /\ ctxWaiting = <<>> /\ ctxUnaccepted = {}
      /\ ctxPipeline = <<>> /\ ctxAwaiting = FALSE
      /\ ctxHolding = {} /\ ctxBridge = {} /\ ctxDone = {}
  BY DEF ServingInit, Ctx!Init
<1>2. Members(ctxWaiting) = {} /\ Pooled(ctxPipeline) = {}
  BY <1>1 DEF Members, Pooled
<1>3. Distinct(ctxWaiting) /\ Apart(ctxPipeline)
  BY <1>1 DEF Distinct, Apart
<1>4. ctxWaiting \in Seq(Requests) /\ ctxPipeline \in Seq(SUBSET Requests)
  BY <1>1
<1> QED BY <1>1, <1>2, <1>3, <1>4 DEF CtxInv, Returned

(* What each action of the context stage does to the places *)
LEMMA CtxAddEffect ==
    ASSUME CtxInv, NEW r \in Requests, Ctx!AddRequest(r)
    PROVE  /\ CtxInv'
           /\ r \notin ctxIssued /\ ctxIssued' = ctxIssued \cup {r}
           /\ Members(ctxWaiting') = Members(ctxWaiting) \cup {r}
           /\ UNCHANGED <<ctxPipeline, ctxUnaccepted, ctxDone, ctxHolding, ctxBridge>>
<1>1. /\ r \notin ctxIssued /\ ctxIssued' = ctxIssued \cup {r}
      /\ ctxWaiting' = Append(ctxWaiting, r)
      /\ UNCHANGED <<ctxPipeline, ctxUnaccepted, ctxDone, ctxHolding, ctxBridge,
                     ctxAwaiting>>
  BY DEF Ctx!AddRequest
<1>2. ctxWaiting \in Seq(Requests) /\ Distinct(ctxWaiting) /\ r \notin Members(ctxWaiting)
  BY <1>1 DEF CtxInv
<1>3. /\ ctxWaiting' \in Seq(Requests) /\ Distinct(ctxWaiting')
      /\ Members(ctxWaiting') = Members(ctxWaiting) \cup {r}
  BY <1>1, <1>2, MembersOfAppend
<1>4. Pooled(ctxPipeline)' = Pooled(ctxPipeline) /\ Returned' = Returned
  BY <1>1 DEF Pooled, Returned
<1>5. CtxInv'
  BY <1>1, <1>3, <1>4 DEF CtxInv
<1> QED BY <1>1, <1>3, <1>5

LEMMA CtxStepEffect ==
    ASSUME CtxInv, Ctx!Step
    PROVE  /\ CtxInv'
           /\ UNCHANGED <<ctxIssued, ctxUnaccepted, ctxDone, ctxBridge>>
           /\ \E S \in SUBSET Members(ctxWaiting) :
                /\ Last(ctxPipeline') = S
                /\ Members(ctxWaiting') = Members(ctxWaiting) \ S
                /\ Pooled(ctxPipeline') = Pooled(ctxPipeline) \cup S
<1>1. PICK k \in 0..Len(ctxWaiting) :
         /\ ctxWaiting' = SubSeq(ctxWaiting, k + 1, Len(ctxWaiting))
         /\ ctxHolding' = ctxHolding \cup Ctx!Prefix(k)
         /\ ctxPipeline' = Append(ctxPipeline, Ctx!Prefix(k))
  BY DEF Ctx!Step
<1>2. UNCHANGED <<ctxIssued, ctxUnaccepted, ctxDone, ctxBridge>>
  BY DEF Ctx!Step
<1> DEFINE S == {ctxWaiting[i] : i \in 1..k}
           n == Len(ctxWaiting)
<1>3. Ctx!Prefix(k) = S
  BY CtxNames
<1>4. ctxWaiting \in Seq(Requests) /\ Distinct(ctxWaiting) /\ n \in Nat
  BY DEF CtxInv
<1>5. /\ ctxWaiting' \in Seq(Requests) /\ Distinct(ctxWaiting')
      /\ Members(ctxWaiting') = {ctxWaiting[i] : i \in (k + 1)..n}
  <2>1. k + 1 \in 1..(n + 1) /\ n \in 0..n
    BY <1>4
  <2> QED BY <1>1, <1>4, <2>1, MembersOfSlice
<1>6. /\ S \subseteq Members(ctxWaiting) /\ S \subseteq Requests
      /\ Members(ctxWaiting') = Members(ctxWaiting) \ S
  <2>1. \A x : x \in Members(ctxWaiting) <=> \E i \in 1..n : x = ctxWaiting[i]
    BY DEF Members
  <2>2. \A i \in 1..n : ctxWaiting[i] \in Requests
    BY <1>4
  <2>3. \A i \in (k + 1)..n : i \in 1..n /\ ctxWaiting[i] \notin S
    BY <1>4 DEF Distinct
  <2>4. \A i \in 1..n : i \in 1..k \/ i \in (k + 1)..n
    BY <1>4
  <2>5. \A i \in 1..k : i \in 1..n
    BY <1>4
  <2> QED BY <1>5, <2>1, <2>2, <2>3, <2>4, <2>5
<1> HIDE DEF S, n
<1>7. /\ ctxPipeline \in Seq(SUBSET Requests) /\ Apart(ctxPipeline)
      /\ S \in SUBSET Requests /\ Pooled(ctxPipeline) \cap S = {}
      /\ ctxPipeline' = Append(ctxPipeline, S)
  BY <1>1, <1>3, <1>6 DEF CtxInv
<1>8. /\ ctxPipeline' \in Seq(SUBSET Requests) /\ Last(ctxPipeline') = S
      /\ ctxPipeline' # <<>>
  BY <1>7 DEF Last
<1>9. Apart(ctxPipeline')
  BY <1>7, PooledAppend
<1>10. Pooled(ctxPipeline') = Pooled(ctxPipeline) \cup S
  BY <1>7, PooledAppend
<1>11. Returned' = Returned
  BY <1>2 DEF Returned
<1>12. ctxHolding' = ctxHolding \cup S
  BY <1>1, <1>3
<1>13. CtxInv'
  BY <1>2, <1>5, <1>6, <1>8, <1>9, <1>10, <1>11, <1>12 DEF CtxInv
<1> QED BY <1>2, <1>6, <1>8, <1>10, <1>13

LEMMA CtxReturnEffect ==
    ASSUME CtxInv, Ctx!Return
    PROVE  /\ CtxInv'
           /\ UNCHANGED <<ctxIssued, ctxWaiting>>
           /\ Head(ctxPipeline) \subseteq Pooled(ctxPipeline)
           /\ Pooled(ctxPipeline') = Pooled(ctxPipeline) \ Head(ctxPipeline)
           /\ \E F \in SUBSET Head(ctxPipeline) :
                /\ ctxUnaccepted' = ctxUnaccepted \cup (Head(ctxPipeline) \ F)
                /\ ctxBridge' = ctxBridge \cup (Head(ctxPipeline) \ F)
                /\ ctxDone' = ctxDone \cup F
<1> DEFINE S == Head(ctxPipeline)
<1>1. PICK F \in SUBSET S :
         /\ ctxUnaccepted' = ctxUnaccepted \cup (S \ F)
         /\ ctxBridge' = ctxBridge \cup (S \ F)
         /\ ctxHolding' = ctxHolding \ F
         /\ ctxDone' = ctxDone \cup F
  BY DEF Ctx!Return
<1>2. /\ ctxAwaiting /\ ctxAwaiting' = FALSE
      /\ ctxPipeline' = Tail(ctxPipeline)
      /\ UNCHANGED <<ctxIssued, ctxWaiting>>
  BY DEF Ctx!Return
<1>3. /\ ctxPipeline \in Seq(SUBSET Requests) /\ ctxPipeline # <<>>
      /\ Apart(ctxPipeline)
  BY <1>2 DEF CtxInv
<1>4. ctxPipeline' \in Seq(SUBSET Requests)
  BY <1>2, <1>3
<1>5. Apart(ctxPipeline')
  BY <1>2, <1>3, PooledTail
<1>6. Pooled(ctxPipeline') = Pooled(ctxPipeline) \ S
  BY <1>2, <1>3, PooledTail
<1>7. S \subseteq Pooled(ctxPipeline)
  BY <1>3, PooledTail
<1> HIDE DEF S
<1>8. Returned' = Returned \cup S
  BY <1>1 DEF Returned
<1>9. /\ Pooled(ctxPipeline) \cap ctxUnaccepted = {}
      /\ Pooled(ctxPipeline) \cap ctxDone = {}
  BY DEF CtxInv, Returned
<1>10. CtxInv'
  BY <1>1, <1>2, <1>4, <1>5, <1>6, <1>7, <1>8, <1>9 DEF CtxInv
<1> QED BY <1>1, <1>2, <1>6, <1>7, <1>10 DEF S

LEMMA CtxClearEffect ==
    ASSUME CtxInv, NEW r \in Requests, Ctx!ClearMigrated(r)
    PROVE  /\ CtxInv'
           /\ r \in ctxUnaccepted
           /\ ctxUnaccepted' = ctxUnaccepted \ {r} /\ ctxBridge' = ctxBridge \ {r}
           /\ ctxDone' = ctxDone \cup {r}
           /\ UNCHANGED <<ctxIssued, ctxWaiting, ctxPipeline>>
<1>1. /\ r \in ctxBridge /\ ctxBridge' = ctxBridge \ {r}
      /\ ctxHolding' = ctxHolding \ {r}
      /\ ctxUnaccepted' = ctxUnaccepted \ {r} /\ ctxDone' = ctxDone \cup {r}
      /\ UNCHANGED <<ctxIssued, ctxWaiting, ctxPipeline, ctxAwaiting>>
  BY DEF Ctx!ClearMigrated
<1>2. /\ r \in ctxUnaccepted /\ r \notin Pooled(ctxPipeline)
  BY <1>1 DEF CtxInv, Returned
<1>3. Returned' = Returned
  BY <1>1, <1>2 DEF Returned
<1>4. /\ Members(ctxWaiting)' = Members(ctxWaiting)
      /\ Pooled(ctxPipeline)' = Pooled(ctxPipeline)
      /\ Distinct(ctxWaiting)' = Distinct(ctxWaiting)
      /\ Apart(ctxPipeline)' = Apart(ctxPipeline)
  BY <1>1 DEF Members, Pooled, Distinct, Apart
<1>5. CtxInv'
  BY <1>1, <1>2, <1>3, <1>4 DEF CtxInv
<1> QED BY <1>1, <1>2, <1>5

LEMMA CtxStutter ==
    ASSUME CtxInv, UNCHANGED ctxVars
    PROVE  CtxInv'
<1>1. UNCHANGED <<ctxIssued, ctxWaiting, ctxUnaccepted, ctxPipeline, ctxAwaiting,
                  ctxHolding, ctxBridge, ctxDone>>
  BY DEF ctxVars
<1>2. /\ Members(ctxWaiting)' = Members(ctxWaiting)
      /\ Pooled(ctxPipeline)' = Pooled(ctxPipeline)
      /\ Distinct(ctxWaiting)' = Distinct(ctxWaiting)
      /\ Apart(ctxPipeline)' = Apart(ctxPipeline)
      /\ Returned' = Returned
  BY <1>1 DEF Members, Pooled, Distinct, Apart, Returned
<1> QED BY <1>1, <1>2 DEF CtxInv

-----------------------------------------------------------------------------
(* What each action of the decoding stage does to the places *)
DecodingQueues == Members(unaccepted) \cup migrating \cup Members(waiting)
                    \cup Members(swapped) \cup InBatches

LEMMA DecodingPlaces ==
    ASSUME StageInv
    PROVE  /\ issued = DecodingQueues \cup finished /\ issued \subseteq Requests
           /\ finished \cap DecodingQueues = {}
           /\ Members(unaccepted) \cap (migrating \cup Members(waiting)
                \cup Members(swapped) \cup InBatches) = {}
           /\ migrating \cap (Members(waiting) \cup Members(swapped) \cup InBatches) = {}
           /\ Members(waiting) \cap (Members(swapped) \cup InBatches) = {}
<1>1. TypeOK /\ QueuesInv /\ finished = done
  BY DEF StageInv, Inv
<1> QED BY <1>1 DEF QueuesInv, Accepted, DecodingQueues, TypeOK

LEMMA StageInitInv == ServingInit => StageInv
<1> SUFFICES ASSUME ServingInit PROVE StageInv
  OBVIOUS
<1>1. Init
  BY DEF ServingInit
<1>2. Inv
  BY <1>1, InitInv
<1>3. finished = done /\ out = [r \in Requests |-> 1]
  BY <1>1 DEF Init
<1> QED BY <1>2, <1>3 DEF StageInv

LEMMA StageKept ==
    ASSUME StageInv, [Next]_vars, UNCHANGED <<finished, done, out>>, issued \subseteq issued'
    PROVE  StageInv'
<1>1. Inv'
  BY NextKeepsInv DEF StageInv
<1> QED BY <1>1 DEF StageInv

LEMMA StepEffect ==
    ASSUME StageInv, Step
    PROVE  /\ StageInv'
           /\ UNCHANGED <<issued, out, finished, unaccepted, migrating, failed>>
           /\ Members(batches'[cur']) \subseteq InBatches'
           /\ Members(waiting') \subseteq Members(waiting)
           /\ Members(waiting) \ Members(waiting')
                = (InBatches' \cup Members(swapped')) \ (InBatches \cup Members(swapped))
           /\ Members(waiting) \ Members(waiting') \subseteq Members(batches'[cur'])
           /\ InBatches \cup Members(swapped) \subseteq InBatches' \cup Members(swapped')
<1> DEFINE c == CurIndex
<1>1. UNCHANGED <<issued, out, finished, unaccepted, migrating, done, failed>>
  BY DEF Step
<1>2. StageInv'
  <2>1. [Next]_vars
    BY DEF Next
  <2> QED BY <1>1, <2>1, StageKept
<1>3. TypeOK /\ QueuesInv
  BY DEF StageInv, Inv
<1>4. PICK k \in SwapOuts(c) : \E j \in Fills(c, k) :
        LET q      == Queue(c, k)
            n      == Len(swapped) + k
            batch  == NextBatch(c, k, j)
            pushed == Append(pipeline, [batch |-> c, future |-> batch # <<>>])
            full   == Len(pushed) = PipelineSize
        IN  /\ IsSchedule(c, k, j)
            /\ ~LacksCpu(c, k) /\ ~LacksGpu(c, k, j)
            /\ mem' = NextMem(c, k, j)
            /\ cur' = c
            /\ batches' = [batches EXCEPT ![c] = batch]
            /\ swapped' = SubSeq(q, j + 1, n)
            /\ waiting' = SubSeq(q, (IF j > n THEN j ELSE n) + 1, Len(q))
            /\ pipeline' = IF full /\ ~pushed[1].future
                           THEN Tail(pushed) ELSE pushed
            /\ pc' = IF full /\ pushed[1].future THEN "await" ELSE "post"
  BY Zenon DEF Step
<1>5. PICK j \in Fills(c, k) :
        /\ cur' = c
        /\ batches' = [batches EXCEPT ![c] = NextBatch(c, k, j)]
        /\ swapped' = SwappedNext(c, k, j)
        /\ waiting' = WaitingNext(c, k, j)
  BY <1>4, Zenon DEF SwappedNext, WaitingNext
<1>6. c \in Indexes /\ batches \in [Indexes -> Seq(Requests)]
  BY <1>3, CurIndexFacts DEF TypeOK
<1> DEFINE b == Members(NextBatch(c, k, j))
           s == Members(SwappedNext(c, k, j))
           w == Members(WaitingNext(c, k, j))
           old == Members(batches[c])
           other == OtherBatches(c)
<1>7. /\ w \subseteq Members(waiting)
      /\ s \subseteq Members(swapped) \cup Members(Dropped(c, k))
      /\ b \cap s = {} /\ b \cap w = {} /\ s \cap w = {}
      /\ b \cup s \cup w = old \cup Members(swapped) \cup Members(waiting)
      /\ (b \cup s \cup w) \cap other = {}
  BY <1>3, <1>6, RoundQueues
<1>8. Members(Dropped(c, k)) \subseteq old
  BY <1>3, <1>6, KeptAndDropped DEF TypeOK, QueuesInv
<1>9. /\ InBatches' = other \cup b
      /\ \A i \in Indexes : batches'[i] = IF i = c THEN NextBatch(c, k, j) ELSE batches[i]
  BY <1>5, <1>6, BatchChanged
<1>10. Members(batches'[cur']) = b
  BY <1>5, <1>6, <1>9
<1>11. InBatches = other \cup old
  BY <1>6, BatchSplit
<1>12. Members(swapped') = s /\ Members(waiting') = w
  BY <1>5
<1>13. Members(waiting) \cap (Members(swapped) \cup InBatches) = {}
  BY <1>3 DEF QueuesInv
<1> HIDE DEF b, s, w, old, other, c
<1> QED BY <1>1, <1>2, <1>7, <1>8, <1>9, <1>10, <1>11, <1>12, <1>13

LEMMA RaisesEffect ==
    ASSUME StageInv, StepRaises
    PROVE  /\ StageInv'
           /\ UNCHANGED <<issued, out, finished, unaccepted, migrating, waiting,
                          swapped, batches, InBatches>>
<1>1. UNCHANGED <<issued, out, finished, unaccepted, migrating, waiting,
                  swapped, batches, done>>
  BY DEF StepRaises
<1>2. StageInv'
  <2>1. [Next]_vars
    BY DEF Next
  <2> QED BY <1>1, <2>1, StageKept
<1>3. InBatches' = InBatches
  BY <1>1 DEF InBatches, Indexes, Members
<1> QED BY <1>1, <1>2, <1>3

LEMMA AddEffect ==
    ASSUME StageInv, NEW r \in Requests, AddRequest(r)
    PROVE  /\ StageInv'
           /\ r \notin issued /\ issued' = issued \cup {r}
           /\ Members(unaccepted') = Members(unaccepted) \cup {r}
           /\ UNCHANGED <<out, finished, migrating, waiting, swapped, batches, InBatches>>
<1>1. /\ r \notin issued /\ issued' = issued \cup {r}
      /\ unaccepted' = Append(unaccepted, r)
      /\ UNCHANGED <<out, finished, migrating, waiting, swapped, batches, done>>
  BY DEF AddRequest
<1>2. StageInv'
  <2>1. [Next]_vars
    BY DEF Next
  <2> QED BY <1>1, <2>1, StageKept
<1>3. InBatches' = InBatches
  BY <1>1 DEF InBatches, Indexes, Members
<1>4. Members(unaccepted') = Members(unaccepted) \cup {r}
  <2>1. unaccepted \in Seq(Requests)
    BY DEF StageInv, Inv, TypeOK
  <2> QED BY <1>1, <2>1, MembersOfAppend
<1> QED BY <1>1, <1>2, <1>3, <1>4

LEMMA BeginMigrationEffect ==
    ASSUME StageInv, BeginMigration
    PROVE  /\ StageInv' /\ migrating = {}
           /\ UNCHANGED <<issued, out, finished, waiting, swapped, batches, InBatches>>
           /\ \E r \in Members(unaccepted) :
                /\ migrating' = {r}
                /\ Members(unaccepted') = Members(unaccepted) \ {r}
<1> DEFINE r == Head(unaccepted)
<1>1. /\ pc = "post" /\ unaccepted # <<>>
      /\ unaccepted' = Tail(unaccepted) /\ migrating' = {r}
      /\ UNCHANGED <<issued, out, finished, waiting, swapped, batches, done>>
  BY DEF BeginMigration
<1>2. StageInv'
  <2>1. [Next]_vars
    BY DEF Next
  <2> QED BY <1>1, <2>1, StageKept
<1>3. InBatches' = InBatches
  BY <1>1 DEF InBatches, Indexes, Members
<1>4. TypeOK /\ QueuesInv
  BY DEF StageInv, Inv
<1>5. migrating = {}
  BY <1>1, <1>4 DEF QueuesInv
<1>6. /\ r \in Members(unaccepted) /\ r \notin Members(Tail(unaccepted))
      /\ Members(unaccepted) = Members(Tail(unaccepted)) \cup {r}
  BY <1>1, <1>4, MembersOfTail DEF TypeOK, QueuesInv
<1> QED BY <1>1, <1>2, <1>3, <1>5, <1>6

LEMMA EndMigrationEffect ==
    ASSUME StageInv, EndMigration
    PROVE  /\ StageInv'
           /\ UNCHANGED <<issued, out, finished, unaccepted, swapped, batches, InBatches>>
           /\ \E r \in Requests :
                /\ migrating = {r} /\ migrating' = {}
                /\ Members(waiting') = Members(waiting) \cup {r}
<1>1. PICK r \in migrating : waiting' = Append(waiting, r)
  BY DEF EndMigration
<1>2. /\ pc = "migrate" /\ migrating' = {}
      /\ UNCHANGED <<issued, out, finished, unaccepted, swapped, batches, done>>
  BY DEF EndMigration
<1>3. StageInv'
  <2>1. [Next]_vars
    BY DEF Next
  <2> QED BY <1>2, <2>1, StageKept
<1>4. InBatches' = InBatches
  BY <1>2 DEF InBatches, Indexes, Members
<1>5. TypeOK /\ QueuesInv
  BY DEF StageInv, Inv
<1>6. migrating = {r} /\ r \in Requests
  BY <1>1, <1>2, <1>5 DEF QueuesInv
<1>7. Members(waiting') = Members(waiting) \cup {r}
  <2>1. waiting \in Seq(Requests)
    BY <1>5 DEF TypeOK
  <2> QED BY <1>1, <1>6, <2>1, MembersOfAppend
<1> QED BY <1>2, <1>3, <1>4, <1>6, <1>7

LEMMA EndPostEffect ==
    ASSUME StageInv, EndPostProcess
    PROVE  /\ StageInv'
           /\ UNCHANGED <<issued, out, finished, unaccepted, migrating, waiting,
                          swapped, batches, InBatches>>
<1>1. UNCHANGED <<issued, out, finished, unaccepted, migrating, waiting,
                  swapped, batches, done>>
  BY DEF EndPostProcess
<1>2. StageInv'
  <2>1. [Next]_vars
    BY DEF Next
  <2> QED BY <1>1, <2>1, StageKept
<1>3. InBatches' = InBatches
  BY <1>1 DEF InBatches, Indexes, Members
<1> QED BY <1>1, <1>2, <1>3

LEMMA StageStutter ==
    ASSUME StageInv, UNCHANGED vars
    PROVE  /\ StageInv'
           /\ UNCHANGED <<issued, out, finished, unaccepted, migrating, waiting,
                          swapped, batches, InBatches>>
<1>1. UNCHANGED <<issued, out, finished, unaccepted, migrating, waiting,
                  swapped, batches, done>>
  BY DEF vars
<1>2. StageInv'
  BY <1>1, StageKept
<1>3. InBatches' = InBatches
  BY <1>1 DEF InBatches, Indexes, Members
<1> QED BY <1>1, <1>2, <1>3

(* The answer of the oldest batch: the requests that it finished are those *)
(* the scheduler pops.                                                     *)
LEMMA ReturnEffect ==
    ASSUME StageInv, Return
    PROVE  LET returned == Members(batches[pipeline[1].batch]) IN
           /\ StageInv'
           /\ UNCHANGED <<issued, unaccepted, migrating, waiting, swapped>>
           /\ returned \subseteq InBatches
           /\ \A r \in returned : ReachesLimit(r) => r \in finished'
           /\ out' = WithToken(returned)
           /\ finished \subseteq finished' /\ finished' \ finished \subseteq returned
           /\ InBatches' = InBatches \ (finished' \ finished)
<1> DEFINE last == CurIndex
           returned == Members(batches[last])
           popped == Members(batches[last]) \cap finished'
           left == Remaining(batches[last], popped)
<1>1. /\ pc = "await"
      /\ UNCHANGED <<issued, unaccepted, migrating, waiting, swapped>>
  BY DEF Return
<1>2. TypeOK /\ QueuesInv /\ PipelineInv /\ out \in [Requests -> Nat] /\ finished = done
  BY DEF StageInv, Inv
<1>3. pipeline[1].batch = last /\ last \in Indexes /\ LastStage = last
  BY <1>1, <1>2, OldestIsNext
<1>4. PICK F \in SUBSET returned :
        /\ \A r \in returned : ReachesLimit(r) => r \in F
        /\ out' = WithToken(returned)
        /\ finished' = finished \cup F
        /\ batches' = [batches EXCEPT ![last] = Remaining(@, popped)]
        /\ done' = done \cup popped
  BY <1>3, Zenon DEF Return
<1>5. /\ batches \in [Indexes -> Seq(Requests)]
      /\ batches[last] \in Seq(Requests) /\ Distinct(batches[last])
  BY <1>2, <1>3 DEF TypeOK, QueuesInv
<1>6. Members(left) = returned \ popped
  BY <1>5, RemainingMembers
<1>7. batches' = [batches EXCEPT ![last] = left]
  BY <1>4
<1>8. InBatches' = OtherBatches(last) \cup Members(left)
  BY <1>3, <1>5, <1>7, BatchChanged
<1>9. InBatches = OtherBatches(last) \cup returned
  BY <1>3, BatchSplit
<1>10. OtherBatches(last) \cap returned = {}
  BY <1>2, <1>3 DEF QueuesInv, OtherBatches
<1>11. InBatches \cap finished = {}
  BY <1>2 DEF QueuesInv, Accepted
<1> HIDE DEF last, left
<1>12. popped = F /\ finished' \ finished = F
  BY <1>4, <1>9, <1>11
<1>13. finished' = done'
  BY <1>2, <1>4, <1>12
<1>14. returned \subseteq issued
  BY <1>2, <1>9 DEF QueuesInv, Accepted
<1>15. \A r \in Requests : r \notin issued => out'[r] = 1
  BY <1>4, <1>14 DEF StageInv, WithToken
<1>16. Inv'
  BY NextKeepsInv DEF StageInv, Next
<1>17. StageInv'
  BY <1>1, <1>13, <1>15, <1>16 DEF StageInv
<1>18. \A r \in returned : ReachesLimit(r) => r \in finished'
  BY <1>4
<1>19. returned = Members(batches[pipeline[1].batch])
  BY <1>3
<1>20. /\ finished \subseteq finished' /\ finished' \ finished \subseteq returned
       /\ returned \subseteq InBatches
       /\ InBatches' = InBatches \ (finished' \ finished)
  BY <1>4, <1>6, <1>8, <1>9, <1>10, <1>12
<1>21. out' = WithToken(returned)
  BY <1>4
<1> HIDE DEF returned
<1> QED BY <1>1, <1>17, <1>18, <1>19, <1>20, <1>21

-----------------------------------------------------------------------------
(* The two stages together *)
PlacesInv == CtxInv /\ StageInv /\ BridgeInv

(* What the decoding stage does not hold for the first time is done in the *)
(* context stage.                                                          *)
LEMMA TwoStages ==
    ASSUME PlacesInv
    PROVE  /\ ctxUnaccepted = Members(bridgeQueue) \cup Members(unaccepted) \cup migrating
           /\ Members(waiting) \cup Members(swapped) \cup InBatches \cup finished \subseteq ctxDone
           /\ Members(bridgeQueue) \cap issued = {}
           /\ Over \subseteq ctxDone /\ Over \subseteq Requests
           /\ Returned \subseteq Requests /\ ctxUnaccepted \cap ctxDone = {}
<1>1. /\ ctxUnaccepted = Members(bridgeQueue) \cup Members(unaccepted) \cup migrating
      /\ Members(bridgeQueue) \cap issued = {} /\ issued \subseteq Returned
      /\ Returned \subseteq Requests /\ ctxUnaccepted \cap ctxDone = {}
      /\ Returned = ctxUnaccepted \cup ctxDone
  BY DEF PlacesInv, CtxInv, BridgeInv, Returned
<1>2. Members(waiting) \cup Members(swapped) \cup InBatches \cup finished \subseteq ctxDone
  BY <1>1, DecodingPlaces DEF PlacesInv, DecodingQueues
<1> QED BY <1>1, <1>2 DEF Over, EndedInContext

LEMMA PlacesInit == ServingInit => PlacesInv
<1> SUFFICES ASSUME ServingInit PROVE PlacesInv
  OBVIOUS
<1>1. CtxInv /\ StageInv
  BY CtxInitInv, StageInitInv
<1>2. /\ bridgeQueue = <<>> /\ ctxBridge = {} /\ unaccepted = <<>> /\ migrating = {}
      /\ issued = {}
  BY DEF ServingInit, Ctx!Init, Init
<1>3. Members(bridgeQueue) = {} /\ Members(unaccepted) = {} /\ Distinct(bridgeQueue)
  BY <1>2 DEF Members, Distinct
<1>4. BridgeInv
  BY <1>2, <1>3 DEF BridgeInv
<1> QED BY <1>1, <1>4 DEF PlacesInv

-----------------------------------------------------------------------------
(* What each action of the system does to the places, to the requests that *)
(* are over, to the tokens made and to the lifetimes                        *)
LEMMA SettledPlaces ==
    ASSUME PlacesInv, UNCHANGED <<vars, ctxVars, bridgeQueue>>
    PROVE  /\ PlacesInv' /\ Over' = Over /\ ctxIssued' = ctxIssued
           /\ \A r \in Requests : Made(r)' = Made(r) /\ StageOf(r)' = StageOf(r)
<1>1. CtxInv' /\ UNCHANGED <<ctxIssued, ctxWaiting, ctxPipeline, ctxUnaccepted, ctxDone, ctxBridge>>
  BY CtxStutter DEF PlacesInv, ctxVars
<1>2. /\ StageInv'
      /\ UNCHANGED <<issued, out, finished, unaccepted, migrating, waiting,
                     swapped, batches, InBatches>>
  BY StageStutter DEF PlacesInv
<1>3. Over' = Over /\ Returned' = Returned
  BY <1>1, <1>2 DEF Over, EndedInContext, Returned
<1>4. BridgeInv'
  BY <1>1, <1>2, <1>3 DEF PlacesInv, BridgeInv, Distinct, Members
<1>5. /\ Members(ctxWaiting)' = Members(ctxWaiting)
      /\ Pooled(ctxPipeline)' = Pooled(ctxPipeline)
      /\ Members(swapped)' = Members(swapped) /\ Members(waiting)' = Members(waiting)
  BY <1>1, <1>2 DEF Members, Pooled
<1>6. \A r \in Requests : Made(r)' = Made(r)
  BY <1>2, <1>3 DEF Made
<1>7. \A r \in Requests : StageOf(r)' = StageOf(r)
  BY <1>2, <1>5 DEF StageOf
<1> QED BY <1>1, <1>2, <1>3, <1>4, <1>6, <1>7 DEF PlacesInv

LEMMA GeneratePlaces ==
    ASSUME PlacesInv, NEW r \in Requests, Ctx!AddRequest(r), UNCHANGED <<vars, bridgeQueue>>
    PROVE  /\ PlacesInv' /\ Over' = Over
           /\ r \notin ctxIssued /\ ctxIssued' = ctxIssued \cup {r}
           /\ \A q \in Requests :
                /\ Made(q)' = Made(q)
                /\ StageOf(q)' = IF q = r THEN 1 ELSE StageOf(q)
<1>1. /\ CtxInv' /\ r \notin ctxIssued /\ ctxIssued' = ctxIssued \cup {r}
      /\ Members(ctxWaiting') = Members(ctxWaiting) \cup {r}
      /\ UNCHANGED <<ctxPipeline, ctxUnaccepted, ctxDone, ctxBridge>>
  BY CtxAddEffect DEF PlacesInv
<1>2. /\ StageInv'
      /\ UNCHANGED <<issued, out, finished, unaccepted, migrating, waiting,
                     swapped, batches, InBatches>>
  BY StageStutter DEF PlacesInv
<1>3. Over' = Over /\ Returned' = Returned
  BY <1>1, <1>2 DEF Over, EndedInContext, Returned
<1>4. BridgeInv'
  BY <1>1, <1>2, <1>3 DEF PlacesInv, BridgeInv, Distinct, Members
<1>5. /\ Pooled(ctxPipeline)' = Pooled(ctxPipeline)
      /\ Members(swapped)' = Members(swapped) /\ Members(waiting)' = Members(waiting)
  BY <1>1, <1>2 DEF Members, Pooled
<1>6. \A q \in Requests : Made(q)' = Made(q)
  BY <1>2, <1>3 DEF Made
<1>7. \A q \in Requests : StageOf(q)' = IF q = r THEN 1 ELSE StageOf(q)
  BY <1>1, <1>2, <1>5 DEF StageOf
<1> QED BY <1>1, <1>2, <1>3, <1>4, <1>6, <1>7 DEF PlacesInv

LEMMA ContextStepPlaces ==
    ASSUME PlacesInv, Ctx!Step, UNCHANGED <<vars, bridgeQueue>>,
           NEW S, S = Last(ctxPipeline')
    PROVE  /\ PlacesInv' /\ Over' = Over /\ ctxIssued' = ctxIssued
           /\ \A r \in Requests :
                /\ Made(r)' = Made(r)
                /\ r \in S => StageOf(r) = 1
                /\ StageOf(r)' = IF r \in S THEN 2 ELSE StageOf(r)
<1>1. /\ CtxInv' /\ UNCHANGED <<ctxIssued, ctxUnaccepted, ctxDone, ctxBridge>>
      /\ S \subseteq Members(ctxWaiting)
      /\ Members(ctxWaiting') = Members(ctxWaiting) \ S
      /\ Pooled(ctxPipeline') = Pooled(ctxPipeline) \cup S
  BY CtxStepEffect DEF PlacesInv
<1>2. /\ StageInv'
      /\ UNCHANGED <<issued, out, finished, unaccepted, migrating, waiting,
                     swapped, batches, InBatches>>
  BY StageStutter DEF PlacesInv
<1>3. Over' = Over /\ Returned' = Returned
  BY <1>1, <1>2 DEF Over, EndedInContext, Returned
<1>4. BridgeInv'
  BY <1>1, <1>2, <1>3 DEF PlacesInv, BridgeInv, Distinct, Members
<1>5. Members(swapped)' = Members(swapped) /\ Members(waiting)' = Members(waiting)
  BY <1>2 DEF Members
<1>6. \A r \in Requests : Made(r)' = Made(r)
  BY <1>2, <1>3 DEF Made
<1>7. \A r \in Requests : r \in S => StageOf(r) = 1
  BY <1>1 DEF StageOf
<1>8. \A r \in Requests : StageOf(r)' = IF r \in S THEN 2 ELSE StageOf(r)
  BY <1>1, <1>2, <1>5 DEF StageOf
<1> QED BY <1>1, <1>2, <1>3, <1>4, <1>6, <1>7, <1>8 DEF PlacesInv

(* Every order of a finite set lists its members, each once. *)
LEMMA SetToSeqsMembers ==
    ASSUME NEW T, NEW S \in SUBSET T, IsFiniteSet(S), NEW s \in SetToSeqs(S)
    PROVE  s \in Seq(T) /\ Distinct(s) /\ Members(s) = S
<1> DEFINE n == Cardinality(S)
<1>1. n \in Nat
  BY FS_CardinalityType
<1>2. s \in [1..n -> S] /\ \A i, j \in 1..n : i # j => s[i] # s[j]
  BY DEF SetToSeqs
<1>3. s \in Seq(T) /\ Len(s) = n
  BY <1>1, <1>2
<1>4. s \in Injection(1..n, S)
  BY <1>2 DEF Injection, IsInjective
<1>5. Cardinality(1..n) = n
  BY <1>1, FS_Interval
<1>6. s \in Surjection(1..n, S)
  BY <1>4, <1>5, FS_Injection
<1>7. Members(s) = S
  BY <1>2, <1>3, <1>6 DEF Members, Surjection
<1>8. Distinct(s)
  BY <1>2, <1>3 DEF Distinct
<1> QED BY <1>3, <1>7, <1>8

LEMMA ContextReturnPlaces ==
    ASSUME PlacesInv, ContextReturn
    PROVE  LET batch == Head(ctxPipeline)
               F == batch \cap ctxDone'
           IN  /\ PlacesInv' /\ ctxIssued' = ctxIssued /\ out' = out
               /\ batch \subseteq ctxIssued /\ batch \cap Over = {} /\ Over' = Over \cup F
               /\ \A r \in Requests :
                    /\ r \in batch => StageOf(r) = 2 /\ Made(r) = 0 /\ out[r] = 1
                    /\ Made(r)' = IF r \in batch THEN Made(r) + 1 ELSE Made(r)
                    /\ StageOf(r)' = IF r \in batch THEN 3 ELSE StageOf(r)
<1> DEFINE batch == Head(ctxPipeline)
           sent == batch \ ctxDone'
<1>1. /\ Ctx!Return /\ UNCHANGED vars
      /\ \E s \in SetToSeqs(sent) : bridgeQueue' = bridgeQueue \o s
  BY DEF ContextReturn, SentToDecoding
<1>2. PICK s \in SetToSeqs(sent) : bridgeQueue' = bridgeQueue \o s
  BY <1>1
<1>3. /\ CtxInv' /\ UNCHANGED <<ctxIssued, ctxWaiting>>
      /\ batch \subseteq Pooled(ctxPipeline)
      /\ Pooled(ctxPipeline') = Pooled(ctxPipeline) \ batch
      /\ \E F \in SUBSET batch :
           /\ ctxUnaccepted' = ctxUnaccepted \cup (batch \ F)
           /\ ctxBridge' = ctxBridge \cup (batch \ F)
           /\ ctxDone' = ctxDone \cup F
  BY <1>1, CtxReturnEffect DEF PlacesInv
<1> HIDE DEF batch
<1>4. PICK F \in SUBSET batch :
           /\ ctxUnaccepted' = ctxUnaccepted \cup (batch \ F)
           /\ ctxBridge' = ctxBridge \cup (batch \ F)
           /\ ctxDone' = ctxDone \cup F
  BY <1>3
<1>5. /\ Pooled(ctxPipeline) \cap Returned = {} /\ Members(ctxWaiting) \cap Pooled(ctxPipeline) = {}
      /\ Pooled(ctxPipeline) \subseteq ctxIssued /\ ctxIssued \subseteq Requests
  BY DEF PlacesInv, CtxInv
<1>6. /\ StageInv'
      /\ UNCHANGED <<issued, out, finished, unaccepted, migrating, waiting,
                     swapped, batches, InBatches>>
  BY <1>1, StageStutter DEF PlacesInv
<1>7. /\ issued \subseteq Returned /\ Returned = ctxUnaccepted \cup ctxDone
      /\ bridgeQueue \in Seq(Requests) /\ Distinct(bridgeQueue)
      /\ Members(bridgeQueue) \cap issued = {} /\ Members(bridgeQueue) \subseteq ctxUnaccepted
      /\ ctxBridge = Members(bridgeQueue) \cup Members(unaccepted) \cup migrating
  BY TwoStages DEF PlacesInv, BridgeInv, Returned
<1>8. batch \cap ctxDone' = F /\ sent = batch \ F
  BY <1>3, <1>4, <1>5, <1>7
<1>9. s \in Seq(Requests) /\ Distinct(s) /\ Members(s) = batch \ F
  <2>1. sent \in SUBSET Requests
    BY <1>3, <1>5
  <2>2. IsFiniteSet(sent)
    BY <2>1, DecodeFCFSAssumption, FS_Subset
  <2> HIDE DEF sent
  <2> QED BY <1>8, <2>1, <2>2, SetToSeqsMembers
<1>10. Members(bridgeQueue) \cap Members(s) = {}
  BY <1>3, <1>5, <1>7, <1>9
<1>11. /\ bridgeQueue' \in Seq(Requests) /\ Distinct(bridgeQueue')
       /\ Members(bridgeQueue') = Members(bridgeQueue) \cup (batch \ F)
  BY <1>2, <1>7, <1>9, <1>10, MembersOfConcat
<1>12. Returned' = Returned \cup batch
  BY <1>4 DEF Returned
<1>13. Members(unaccepted)' = Members(unaccepted)
  BY <1>6 DEF Members
<1>14. BridgeInv'
  BY <1>3, <1>4, <1>5, <1>6, <1>7, <1>11, <1>12, <1>13 DEF BridgeInv
<1>15. batch \cap issued = {} /\ batch \cap ctxDone = {} /\ batch \cap Returned = {}
  BY <1>3, <1>5, <1>7
<1>16. batch \cap Over = {} /\ Over' = Over \cup F
  <2>1. Over \subseteq ctxDone
    BY TwoStages
  <2> QED BY <1>4, <1>6, <1>15, <2>1 DEF Over, EndedInContext
<1>17. \A r \in Requests : r \notin issued => out[r] = 1
  BY DEF PlacesInv, StageInv
<1>18. \A r \in Requests : Made(r)' = IF r \in batch THEN Made(r) + 1 ELSE Made(r)
  BY <1>6, <1>12, <1>15, <1>17 DEF Made
<1>19. \A r \in batch : Made(r) = 0 /\ out[r] = 1
  BY <1>3, <1>5, <1>15, <1>17 DEF Made
<1>20. Members(ctxWaiting)' = Members(ctxWaiting)
  BY <1>3
<1>21. Members(swapped)' = Members(swapped) /\ Members(waiting)' = Members(waiting)
  BY <1>6 DEF Members
<1>22. \A r \in batch : /\ r \notin Members(ctxWaiting) /\ r \notin finished
                        /\ r \notin InBatches \cup Members(swapped)
                        /\ r \notin Members(waiting) /\ r \notin migrating
  BY <1>3, <1>5, <1>15, DecodingPlaces DEF PlacesInv, DecodingQueues
<1>23. \A r \in Requests : StageOf(r)' = IF r \in batch THEN 3 ELSE StageOf(r)
  BY <1>3, <1>6, <1>20, <1>21, <1>22 DEF StageOf
<1>24. \A r \in batch : StageOf(r) = 2
  BY <1>3, <1>22 DEF StageOf
<1>25. PlacesInv'
  BY <1>3, <1>6, <1>14 DEF PlacesInv
<1> QED BY <1>3, <1>5, <1>6, <1>8, <1>16, <1>18, <1>19, <1>23, <1>24, <1>25 DEF batch

(* The decoding stage moves while the context stage and the bridge rest *)
LEMMA ContextRests ==
    ASSUME PlacesInv, UNCHANGED <<ctxVars, bridgeQueue>>, StageInv',
           issued' = issued,
           Members(unaccepted') \cup migrating' = Members(unaccepted) \cup migrating
    PROVE  /\ PlacesInv' /\ Returned' = Returned
           /\ UNCHANGED <<ctxIssued, ctxDone>>
           /\ Members(ctxWaiting)' = Members(ctxWaiting)
           /\ Pooled(ctxPipeline)' = Pooled(ctxPipeline)
<1>1. /\ CtxInv' /\ UNCHANGED <<ctxIssued, ctxWaiting, ctxPipeline, ctxUnaccepted, ctxDone, ctxBridge>>
  BY CtxStutter DEF PlacesInv, ctxVars
<1>2. Returned' = Returned
  BY <1>1 DEF Returned
<1>3. Members(bridgeQueue)' = Members(bridgeQueue) /\ Distinct(bridgeQueue)' = Distinct(bridgeQueue)
  BY DEF Members, Distinct
<1>4. BridgeInv'
  BY <1>1, <1>2, <1>3 DEF PlacesInv, BridgeInv
<1>5. /\ Members(ctxWaiting)' = Members(ctxWaiting)
      /\ Pooled(ctxPipeline)' = Pooled(ctxPipeline)
  BY <1>1 DEF Members, Pooled
<1> QED BY <1>1, <1>2, <1>4, <1>5 DEF PlacesInv

LEMMA AcceptPlaces ==
    ASSUME PlacesInv, Accept
    PROVE  /\ PlacesInv' /\ Over' = Over /\ ctxIssued' = ctxIssued
           /\ \A r \in Requests : Made(r)' = Made(r) /\ StageOf(r)' = StageOf(r)
<1> DEFINE r == Head(bridgeQueue)
<1>1. /\ bridgeQueue # <<>> /\ AddRequest(r) /\ bridgeQueue' = Tail(bridgeQueue)
      /\ UNCHANGED ctxVars
  BY DEF Accept
<1>2. bridgeQueue \in Seq(Requests) /\ Distinct(bridgeQueue)
  BY DEF PlacesInv, BridgeInv
<1>3. /\ r \in Members(bridgeQueue) /\ bridgeQueue' \in Seq(Requests)
      /\ Members(bridgeQueue) = Members(bridgeQueue') \cup {r}
      /\ r \notin Members(bridgeQueue') /\ Distinct(bridgeQueue')
  BY <1>1, <1>2, MembersOfTail
<1>4. r \in Requests
  BY <1>2, <1>3, ElementOfSeq DEF Members
<1> HIDE DEF r
<1>5. /\ StageInv' /\ r \notin issued /\ issued' = issued \cup {r}
      /\ Members(unaccepted') = Members(unaccepted) \cup {r}
      /\ UNCHANGED <<out, finished, migrating, waiting, swapped, batches, InBatches>>
  BY <1>1, <1>4, AddEffect DEF PlacesInv
<1>6. /\ CtxInv' /\ UNCHANGED <<ctxIssued, ctxWaiting, ctxPipeline, ctxUnaccepted, ctxDone, ctxBridge>>
  BY <1>1, CtxStutter DEF PlacesInv, ctxVars
<1>7. Returned' = Returned
  BY <1>6 DEF Returned
<1>8. /\ ctxUnaccepted = Members(bridgeQueue) \cup Members(unaccepted) \cup migrating
      /\ Members(bridgeQueue) \cap issued = {} /\ ctxUnaccepted \cap ctxDone = {}
      /\ ctxBridge = ctxUnaccepted /\ issued \subseteq Returned
      /\ Returned = ctxUnaccepted \cup ctxDone
  BY TwoStages DEF PlacesInv, BridgeInv, CtxInv, Returned
<1>9. BridgeInv'
  BY <1>3, <1>5, <1>6, <1>7, <1>8 DEF BridgeInv
<1>10. Over' = Over
  BY <1>3, <1>5, <1>6, <1>8 DEF Over, EndedInContext
<1>11. \A q \in Requests : Made(q)' = Made(q)
  BY <1>5, <1>7 DEF Made
<1>12. /\ Members(ctxWaiting)' = Members(ctxWaiting)
       /\ Pooled(ctxPipeline)' = Pooled(ctxPipeline)
       /\ Members(swapped)' = Members(swapped) /\ Members(waiting)' = Members(waiting)
  BY <1>5, <1>6 DEF Members, Pooled
<1>13. \A q \in Requests : StageOf(q)' = StageOf(q)
  BY <1>5, <1>12 DEF StageOf
<1> QED BY <1>5, <1>6, <1>9, <1>10, <1>11, <1>13 DEF PlacesInv

LEMMA DecodingStepPlaces ==
    ASSUME PlacesInv, Step, UNCHANGED <<ctxVars, bridgeQueue>>,
           NEW S, S = Members(batches'[cur'])
    PROVE  /\ PlacesInv' /\ Over' = Over /\ ctxIssued' = ctxIssued
           /\ \A r \in Requests :
                /\ Made(r)' = Made(r)
                /\ r \in S => StageOf(r) \in {5, 6}
                /\ StageOf(r)' = IF r \in S THEN 6 ELSE StageOf(r)
<1>1. /\ StageInv'
      /\ UNCHANGED <<issued, out, finished, unaccepted, migrating>>
      /\ S \subseteq InBatches'
      /\ Members(waiting') \subseteq Members(waiting)
      /\ Members(waiting) \ Members(waiting')
           = (InBatches' \cup Members(swapped')) \ (InBatches \cup Members(swapped))
      /\ Members(waiting) \ Members(waiting') \subseteq S
      /\ InBatches \cup Members(swapped) \subseteq InBatches' \cup Members(swapped')
  BY StepEffect DEF PlacesInv
<1>2. Members(unaccepted)' = Members(unaccepted)
  BY <1>1 DEF Members
<1>3. /\ PlacesInv' /\ Returned' = Returned /\ UNCHANGED <<ctxIssued, ctxDone>>
      /\ Members(ctxWaiting)' = Members(ctxWaiting)
      /\ Pooled(ctxPipeline)' = Pooled(ctxPipeline)
  BY <1>1, <1>2, ContextRests
<1>4. Over' = Over
  BY <1>1, <1>3 DEF Over, EndedInContext
<1>5. \A r \in Requests : Made(r)' = Made(r)
  BY <1>1, <1>3 DEF Made
<1>6. S \subseteq InBatches \cup Members(swapped) \cup Members(waiting)
  BY <1>1
<1>7. \A r \in S : /\ r \notin Members(ctxWaiting) /\ r \notin Pooled(ctxPipeline)
                   /\ r \notin finished
  BY <1>6, TwoStages, DecodingPlaces DEF PlacesInv, CtxInv, Returned, DecodingQueues
<1>8. \A r \in S : StageOf(r) \in {5, 6}
  BY <1>6, <1>7 DEF StageOf
<1>9. \A r \in S : StageOf(r)' = 6
  BY <1>1, <1>3, <1>7 DEF StageOf
<1>10. \A r \in Requests : r \notin S => StageOf(r)' = StageOf(r)
  <2>1. ASSUME NEW r \in Requests, r \notin S
        PROVE  /\ r \in InBatches' \cup Members(swapped') <=> r \in InBatches \cup Members(swapped)
               /\ r \in Members(waiting') <=> r \in Members(waiting)
    BY <1>1, <2>1
  <2> QED BY <1>1, <1>3, <2>1 DEF StageOf
<1> QED BY <1>3, <1>4, <1>5, <1>8, <1>9, <1>10

LEMMA DecodingRestsPlaces ==
    ASSUME PlacesInv, StepRaises \/ EndPostProcess, UNCHANGED <<ctxVars, bridgeQueue>>
    PROVE  /\ PlacesInv' /\ Over' = Over /\ ctxIssued' = ctxIssued
           /\ \A r \in Requests : Made(r)' = Made(r) /\ StageOf(r)' = StageOf(r)
<1>1. /\ StageInv'
      /\ UNCHANGED <<issued, out, finished, unaccepted, migrating, waiting,
                     swapped, batches, InBatches>>
  BY RaisesEffect, EndPostEffect DEF PlacesInv
<1>2. /\ Members(unaccepted)' = Members(unaccepted)
      /\ Members(swapped)' = Members(swapped) /\ Members(waiting)' = Members(waiting)
  BY <1>1 DEF Members
<1>3. /\ PlacesInv' /\ Returned' = Returned /\ UNCHANGED <<ctxIssued, ctxDone>>
      /\ Members(ctxWaiting)' = Members(ctxWaiting)
      /\ Pooled(ctxPipeline)' = Pooled(ctxPipeline)
  BY <1>1, <1>2, ContextRests
<1>4. Over' = Over
  BY <1>1, <1>3 DEF Over, EndedInContext
<1>5. \A r \in Requests : Made(r)' = Made(r)
  BY <1>1, <1>3 DEF Made
<1>6. \A r \in Requests : StageOf(r)' = StageOf(r)
  BY <1>1, <1>2, <1>3 DEF StageOf
<1> QED BY <1>3, <1>4, <1>5, <1>6

LEMMA DecodingReturnPlaces ==
    ASSUME PlacesInv, Return, UNCHANGED <<ctxVars, bridgeQueue>>,
           NEW S, S = Members(batches[pipeline[1].batch])
    PROVE  LET F == S \cap finished' IN
           /\ PlacesInv' /\ ctxIssued' = ctxIssued
           /\ S \subseteq ctxIssued /\ S \cap Over = {} /\ Over' = Over \cup F
           /\ \A r \in Requests :
                /\ out'[r] = IF r \in S THEN out[r] + 1 ELSE out[r]
                /\ r \in S => Made(r) = out[r] /\ (out'[r] >= MaxOutput[r] => r \in F)
                /\ Made(r)' = IF r \in S THEN Made(r) + 1 ELSE Made(r)
                /\ r \in F => StageOf(r) = 6
                /\ StageOf(r)' = IF r \in F THEN 7 ELSE StageOf(r)
<1> DEFINE F == S \cap finished'
<1>1. /\ StageInv'
      /\ UNCHANGED <<issued, unaccepted, migrating, waiting, swapped>>
      /\ S \subseteq InBatches
      /\ \A r \in S : ReachesLimit(r) => r \in finished'
      /\ out' = WithToken(S)
      /\ finished \subseteq finished' /\ finished' \ finished \subseteq S
      /\ InBatches' = InBatches \ (finished' \ finished)
  BY ReturnEffect DEF PlacesInv
<1>2. /\ Members(unaccepted)' = Members(unaccepted)
      /\ Members(swapped)' = Members(swapped) /\ Members(waiting)' = Members(waiting)
  BY <1>1 DEF Members
<1>3. /\ PlacesInv' /\ Returned' = Returned /\ UNCHANGED <<ctxIssued, ctxDone>>
      /\ Members(ctxWaiting)' = Members(ctxWaiting)
      /\ Pooled(ctxPipeline)' = Pooled(ctxPipeline)
  BY <1>1, <1>2, ContextRests
<1>4. /\ issued \cap Members(ctxWaiting) = {} /\ issued \cap Pooled(ctxPipeline) = {}
      /\ issued \subseteq Returned /\ Returned \subseteq ctxIssued
  BY DEF PlacesInv, CtxInv, BridgeInv
<1>5. /\ S \subseteq issued /\ S \cap finished = {}
      /\ Members(swapped) \cap finished = {}
      /\ Members(waiting) \cap InBatches = {}
  BY <1>1, DecodingPlaces DEF PlacesInv, DecodingQueues
<1>6. F = finished' \ finished
  BY <1>1, <1>5
<1>7. S \cap Over = {} /\ Over' = Over \cup F
  BY <1>1, <1>3, <1>5, <1>6 DEF Over, EndedInContext
<1>8. \A r \in Requests : out'[r] = IF r \in S THEN out[r] + 1 ELSE out[r]
  BY <1>1 DEF WithToken
<1>9. \A r \in Requests :
        /\ r \in S => Made(r) = out[r]
        /\ Made(r)' = IF r \in S THEN Made(r) + 1 ELSE Made(r)
  BY <1>3, <1>4, <1>5, <1>8 DEF Made
<1>10. \A r \in S : r \in Requests /\ (out'[r] >= MaxOutput[r] => r \in F)
  BY <1>1, <1>4, <1>5, <1>8, DecodingPlaces DEF ReachesLimit, PlacesInv
<1>11. \A r \in F : StageOf(r) = 6
  BY <1>1, <1>4, <1>5 DEF StageOf
<1>12. \A r \in Requests : StageOf(r)' = IF r \in F THEN 7 ELSE StageOf(r)
  BY <1>1, <1>2, <1>3, <1>4, <1>5, <1>6 DEF StageOf
<1> HIDE DEF F
<1>13. S \subseteq ctxIssued
  BY <1>4, <1>5
<1> QED BY <1>3, <1>7, <1>8, <1>9, <1>10, <1>11, <1>12, <1>13 DEF F

LEMMA MigrationBeginsPlaces ==
    ASSUME PlacesInv, BeginMigration, UNCHANGED <<ctxVars, bridgeQueue>>
    PROVE  /\ PlacesInv' /\ Over' = Over /\ ctxIssued' = ctxIssued
           /\ \A r \in Requests :
                /\ Made(r)' = Made(r)
                /\ r \in migrating' => StageOf(r) = 3
                /\ StageOf(r)' = IF r \in migrating' THEN 4 ELSE StageOf(r)
<1>1. /\ StageInv' /\ migrating = {}
      /\ UNCHANGED <<issued, out, finished, waiting, swapped, batches, InBatches>>
  BY BeginMigrationEffect DEF PlacesInv
<1>2. PICK m \in Members(unaccepted) :
           /\ migrating' = {m}
           /\ Members(unaccepted') = Members(unaccepted) \ {m}
  BY BeginMigrationEffect DEF PlacesInv
<1>3. /\ PlacesInv' /\ Returned' = Returned /\ UNCHANGED <<ctxIssued, ctxDone>>
      /\ Members(ctxWaiting)' = Members(ctxWaiting)
      /\ Pooled(ctxPipeline)' = Pooled(ctxPipeline)
  BY <1>1, <1>2, ContextRests
<1>4. Over' = Over
  BY <1>1, <1>3 DEF Over, EndedInContext
<1>5. \A r \in Requests : Made(r)' = Made(r)
  BY <1>1, <1>3 DEF Made
<1>6. Members(swapped)' = Members(swapped) /\ Members(waiting)' = Members(waiting)
  BY <1>1 DEF Members
<1>7. /\ m \notin Members(ctxWaiting) /\ m \notin Pooled(ctxPipeline)
      /\ m \notin finished /\ m \notin Members(waiting)
      /\ m \notin Members(swapped) /\ m \notin InBatches
  BY <1>2, TwoStages, DecodingPlaces DEF PlacesInv, CtxInv, Returned, DecodingQueues
<1>8. StageOf(m) = 3
  BY <1>1, <1>7 DEF StageOf
<1>9. \A r \in Requests : StageOf(r)' = IF r \in migrating' THEN 4 ELSE StageOf(r)
  BY <1>1, <1>2, <1>3, <1>6, <1>7 DEF StageOf
<1> QED BY <1>2, <1>3, <1>4, <1>5, <1>8, <1>9

LEMMA MigrationEndsPlaces ==
    ASSUME PlacesInv, MigrationEnds
    PROVE  /\ PlacesInv' /\ Over' = Over /\ ctxIssued' = ctxIssued
           /\ \A r \in Requests :
                /\ Made(r)' = Made(r)
                /\ r \in migrating => StageOf(r) = 4
                /\ StageOf(r)' = IF r \in migrating THEN 5 ELSE StageOf(r)
<1>1. /\ EndMigration /\ bridgeQueue' = bridgeQueue
      /\ \E r \in migrating : Ctx!ClearMigrated(r)
  BY DEF MigrationEnds
<1>2. /\ StageInv'
      /\ UNCHANGED <<issued, out, finished, unaccepted, swapped, batches, InBatches>>
  BY <1>1, EndMigrationEffect DEF PlacesInv
<1>3. PICK m \in Requests :
           /\ migrating = {m} /\ migrating' = {}
           /\ Members(waiting') = Members(waiting) \cup {m}
  BY <1>1, EndMigrationEffect DEF PlacesInv
<1>4. Ctx!ClearMigrated(m)
  BY <1>1, <1>3
<1>5. /\ CtxInv' /\ m \in ctxUnaccepted
      /\ ctxUnaccepted' = ctxUnaccepted \ {m} /\ ctxBridge' = ctxBridge \ {m}
      /\ ctxDone' = ctxDone \cup {m}
      /\ UNCHANGED <<ctxIssued, ctxWaiting, ctxPipeline>>
  BY <1>4, CtxClearEffect DEF PlacesInv
<1>6. Returned' = Returned
  BY <1>5 DEF Returned
<1>7. /\ Members(unaccepted)' = Members(unaccepted)
      /\ Members(swapped)' = Members(swapped)
      /\ Members(ctxWaiting)' = Members(ctxWaiting)
      /\ Pooled(ctxPipeline)' = Pooled(ctxPipeline)
      /\ Members(bridgeQueue)' = Members(bridgeQueue)
      /\ Distinct(bridgeQueue)' = Distinct(bridgeQueue)
  BY <1>1, <1>2, <1>5 DEF Members, Pooled, Distinct
<1>8. /\ m \notin Members(ctxWaiting) /\ m \notin Pooled(ctxPipeline)
      /\ m \in issued /\ m \notin Members(unaccepted) /\ m \notin Members(bridgeQueue)
      /\ m \notin finished /\ m \notin Members(waiting)
      /\ m \notin Members(swapped) /\ m \notin InBatches
  BY <1>3, <1>5, TwoStages, DecodingPlaces DEF PlacesInv, CtxInv, Returned, DecodingQueues
<1>9. BridgeInv'
  BY <1>1, <1>2, <1>3, <1>5, <1>6, <1>7, <1>8 DEF PlacesInv, BridgeInv
<1>10. Over' = Over
  BY <1>2, <1>5, <1>8 DEF Over, EndedInContext
<1>11. \A r \in Requests : Made(r)' = Made(r)
  BY <1>2, <1>6 DEF Made
<1>12. StageOf(m) = 4
  BY <1>3, <1>8 DEF StageOf
<1>13. \A r \in Requests : StageOf(r)' = IF r \in migrating THEN 5 ELSE StageOf(r)
  BY <1>2, <1>3, <1>7, <1>8 DEF StageOf
<1> QED BY <1>2, <1>3, <1>5, <1>9, <1>10, <1>11, <1>12, <1>13 DEF PlacesInv

-----------------------------------------------------------------------------
(* The lifetime events: what a request gets is the next one of its life *)
LEMMA FirstPart ==
    ASSUME NEW T, NEW s \in Seq(T), NEW k \in 1..Len(s)
    PROVE  /\ SubSeq(s, 1, k) \in Seq(T) /\ Len(SubSeq(s, 1, k)) = k
           /\ \A i \in 1..k : SubSeq(s, 1, k)[i] = s[i]
<1> DEFINE p == SubSeq(s, 1, k)
<1>1. 1 \in 1..(Len(s) + 1) /\ k \in 0..Len(s)
  OBVIOUS
<1>2. /\ p \in Seq(T) /\ Len(p) = (IF 1 <= k THEN k - 1 + 1 ELSE 0)
      /\ \A i \in 1..(k - 1 + 1) : p[i] = s[1 + i - 1]
  BY <1>1, SubSeqProperties
<1>3. k - 1 + 1 = k /\ 1 <= k /\ \A i \in 1..k : 1 + i - 1 = i
  OBVIOUS
<1> QED BY <1>2, <1>3

LEMMA LifetimePrefix ==
    ASSUME NEW k \in 1..7
    PROVE  LET p == SubSeq(Lifetime, 1, k) IN
           /\ Last(p) = Lifetime[k] /\ IsPrefix(p, Lifetime)
           /\ k # 7 => Append(p, Lifetime[k + 1]) = SubSeq(Lifetime, 1, k + 1)
           /\ k # 7 => Lifetime[k] # Lifetime[k + 1]
<1> DEFINE T == {"issued", "context_begin", "context_end", "migration_begin",
                 "migration_end", "decoding_begin", "decoding_end"}
           p == SubSeq(Lifetime, 1, k)
           q == SubSeq(Lifetime, 1, k + 1)
<1>1. Lifetime \in Seq(T) /\ Len(Lifetime) = 7
  BY DEF Lifetime
<1>2. \A i \in 1..6 : Lifetime[i] # Lifetime[i + 1]
  <2> SUFFICES ASSUME NEW i \in 1..6 PROVE Lifetime[i] # Lifetime[i + 1]
    OBVIOUS
  <2>1. i = 1 \/ i = 2 \/ i = 3 \/ i = 4 \/ i = 5 \/ i = 6
    OBVIOUS
  <2> QED BY <2>1 DEF Lifetime
<1> HIDE DEF T
<1>3. p \in Seq(T) /\ Len(p) = k /\ \A i \in 1..k : p[i] = Lifetime[i]
  BY <1>1, FirstPart
<1>4. Last(p) = Lifetime[k]
  BY <1>3 DEF Last
<1>5. IsPrefix(p, Lifetime)
  <2>1. SubSeq(p, 1, k) = p
    <3>1. p = SubSeq(p, 1, Len(p))
      BY <1>3, SubSeqFull
    <3> QED BY <1>3, <3>1
  <2> QED BY <1>1, <1>3, <2>1 DEF IsPrefix
<1>6. ASSUME k # 7 PROVE Append(p, Lifetime[k + 1]) = q
  <2>1. k + 1 \in 1..7 /\ Lifetime[k + 1] \in T
    BY <1>1, <1>6
  <2>2. q \in Seq(T) /\ Len(q) = k + 1 /\ \A i \in 1..(k + 1) : q[i] = Lifetime[i]
    <3>1. k + 1 \in 1..Len(Lifetime)
      BY <1>1, <2>1
    <3> QED BY <1>1, <3>1, FirstPart
  <2> DEFINE a == Append(p, Lifetime[k + 1])
  <2>3. a \in Seq(T) /\ Len(a) = k + 1 /\ a[k + 1] = Lifetime[k + 1]
        /\ \A i \in 1..k : a[i] = p[i]
    BY <1>3, <2>1
  <2>4. \A i \in 1..(k + 1) : i = k + 1 \/ i \in 1..k
    OBVIOUS
  <2>5. \A i \in 1..Len(a) : a[i] = q[i]
    BY <1>3, <2>2, <2>3, <2>4
  <2> HIDE DEF a, q
  <2> QED BY <2>2, <2>3, <2>5, SeqEqual DEF a
<1>7. k # 7 => k \in 1..6
  OBVIOUS
<1> QED BY <1>2, <1>4, <1>5, <1>6, <1>7

LEMMA StageOfType ==
    ASSUME NEW r PROVE StageOf(r) \in 1..7
BY DEF StageOf

LEMMA EventsGrow ==
    ASSUME EventsInv, DOMAIN events \subseteq Requests,
           NEW S, NEW n \in 2..7, events' = WithEvent(S, Lifetime[n]),
           \A r \in Requests :
             /\ r \in S => StageOf(r) = n - 1 \/ (n = 6 /\ StageOf(r) = 6)
             /\ StageOf(r)' = IF r \in S THEN n ELSE StageOf(r)
    PROVE  EventsInv' /\ DOMAIN events' = DOMAIN events
<1>1. /\ DOMAIN events' = DOMAIN events
      /\ \A r \in DOMAIN events :
           events'[r] = IF r \in S /\ ~(Lifetime[n] = "decoding_begin"
                                       /\ Last(events[r]) = Lifetime[n])
                        THEN Append(events[r], Lifetime[n]) ELSE events[r]
  BY DEF WithEvent
<1>2. ASSUME NEW r \in DOMAIN events
      PROVE  events'[r] = SubSeq(Lifetime, 1, StageOf(r)')
  <2>1. events[r] = SubSeq(Lifetime, 1, StageOf(r)) /\ r \in Requests
    BY <1>2 DEF EventsInv
  <2>2. CASE r \notin S
    BY <1>1, <2>1, <2>2
  <2>3. CASE r \in S /\ n = 6 /\ StageOf(r) = 6
    <3>1. Last(SubSeq(Lifetime, 1, n)) = Lifetime[n]
      BY LifetimePrefix
    <3>2. Lifetime[6] = "decoding_begin"
      BY DEF Lifetime
    <3> QED BY <1>1, <2>1, <2>3, <3>1, <3>2
  <2>4. CASE r \in S /\ StageOf(r) = n - 1
    <3>1. n - 1 \in 1..7 /\ n - 1 # 7 /\ (n - 1) + 1 = n
      OBVIOUS
    <3>2. /\ Last(SubSeq(Lifetime, 1, n - 1)) = Lifetime[n - 1]
          /\ Append(SubSeq(Lifetime, 1, n - 1), Lifetime[(n - 1) + 1])
               = SubSeq(Lifetime, 1, (n - 1) + 1)
          /\ Lifetime[n - 1] # Lifetime[(n - 1) + 1]
      BY <3>1, LifetimePrefix
    <3> QED BY <1>1, <2>1, <2>4, <3>1, <3>2
  <2> QED BY <2>1, <2>2, <2>3, <2>4
<1> QED BY <1>1, <1>2 DEF EventsInv

LEMMA EventsRest ==
    ASSUME EventsInv, DOMAIN events \subseteq Requests, events' = events,
           \A r \in Requests : StageOf(r)' = StageOf(r)
    PROVE  EventsInv'
<1>1. ASSUME NEW r \in DOMAIN events
      PROVE  events'[r] = SubSeq(Lifetime, 1, StageOf(r)')
  BY DEF EventsInv
<1> QED BY <1>1 DEF EventsInv

-----------------------------------------------------------------------------
(* The outputs: each token that is made is put at the end of its queue *)
LEMMA OutputsRest ==
    ASSUME OutputsInv, DOMAIN outputs \subseteq Requests,
           UNCHANGED <<outputs, received, client>>,
           Over' = Over, \A r \in Requests : Made(r)' = Made(r)
    PROVE  OutputsInv'
<1>1. ASSUME NEW r \in DOMAIN outputs PROVE Unread(r)'
  BY DEF OutputsInv, Unread
<1>2. ASSUME NEW r \in Requests
      PROVE  /\ client'[r] = "ending" => r \in Over' /\ received'[r] = Made(r)'
             /\ client'[r] = "closed" => r \in Over'
             /\ client'[r] = "reading" /\ r \in Over' => outputs'[r] # <<>>
  BY DEF OutputsInv
<1> QED BY <1>1, <1>2 DEF OutputsInv

StepOutput == [token: Nat, last: BOOLEAN]

LEMMA StepOutputFields ==
    ASSUME NEW t \in Nat, NEW b \in BOOLEAN, NEW o, o = [token |-> t, last |-> b]
    PROVE  o \in StepOutput /\ o.token = t /\ o.last = b
BY DEF StepOutput

(* A queue that holds the tokens after the first n ones and the last one *)
(* of which is marked if the request is over                             *)
Holds(q, n, made, over) ==
    /\ q \in Seq(StepOutput)
    /\ n + Len(q) = made
    /\ \A i \in 1..Len(q) :
         /\ q[i].token = n + i
         /\ q[i].last <=> (over /\ i = Len(q))

LEMMA UnreadHolds ==
    ASSUME NEW r
    PROVE  /\ Unread(r) <=> Holds(outputs[r], received[r], Made(r), r \in Over)
           /\ Unread(r)' <=> Holds(outputs'[r], received'[r], Made(r)', r \in Over')
BY DEF Unread, Holds, StepOutput

LEMMA HoldsAppend ==
    ASSUME NEW q, NEW n \in Nat, NEW made \in Nat, Holds(q, n, made, FALSE),
           NEW b \in BOOLEAN, NEW o, o = [token |-> made + 1, last |-> b]
    PROVE  Holds(Append(q, o), n, made + 1, b) /\ Append(q, o) # <<>>
<1>1. o \in StepOutput /\ o.token = made + 1 /\ o.last = b
  BY StepOutputFields
<1>2. /\ q \in Seq(StepOutput) /\ n + Len(q) = made
      /\ \A i \in 1..Len(q) : q[i].token = n + i /\ ~q[i].last
  BY DEF Holds
<1> DEFINE a == Append(q, o)
           m == Len(q)
<1>3. /\ a \in Seq(StepOutput) /\ Len(a) = m + 1 /\ a[m + 1] = o
      /\ \A i \in 1..m : a[i] = q[i]
  BY <1>1, <1>2
<1>4. m \in Nat /\ n + m = made
  BY <1>2
<1> HIDE DEF a, m, StepOutput
<1>5. a # <<>>
  <2>1. Len(a) # 0
    BY <1>3, <1>4
  <2> QED BY <2>1
<1>6. \A i \in 1..Len(a) : a[i].token = n + i /\ (a[i].last <=> (b /\ i = Len(a)))
  <2> SUFFICES ASSUME NEW i \in 1..Len(a)
               PROVE  a[i].token = n + i /\ (a[i].last <=> (b /\ i = Len(a)))
    OBVIOUS
  <2>1. CASE i \in 1..m
    <3>1. i # Len(a)
      BY <1>3, <1>4, <2>1
    <3>2. a[i].token = n + i /\ ~a[i].last
      BY <1>2, <1>3, <2>1 DEF m
    <3> QED BY <3>1, <3>2, Zenon
  <2>2. CASE i = m + 1
    <3>1. i = Len(a) /\ n + i = made + 1
      BY <1>3, <1>4, <2>2
    <3>2. a[i] = o
      BY <1>3, <2>2
    <3> QED BY <1>1, <3>1, <3>2, Zenon
  <2>3. i \in 1..m \/ i = m + 1
    BY <1>3, <1>4
  <2> QED BY <2>1, <2>2, <2>3
<1>7. n + Len(a) = made + 1
  BY <1>3, <1>4
<1> QED BY <1>3, <1>5, <1>6, <1>7 DEF Holds, a

LEMMA HoldsTail ==
    ASSUME NEW q, NEW n \in Nat, NEW made \in Nat, NEW over \in BOOLEAN,
           Holds(q, n, made, over), q # <<>>
    PROVE  /\ Head(q).token = n + 1
           /\ Holds(Tail(q), n + 1, made, over)
           /\ Head(q).last <=> (over /\ n + 1 = made)
           /\ n < made
           /\ Tail(q) = <<>> <=> n + 1 = made
<1> DEFINE t == Tail(q)
<1>1. /\ q \in Seq(StepOutput) /\ n + Len(q) = made
      /\ \A i \in 1..Len(q) : q[i].token = n + i /\ (q[i].last <=> (over /\ i = Len(q)))
  BY DEF Holds
<1>2. /\ t \in Seq(StepOutput) /\ Len(q) \in Nat \ {0} /\ Len(t) = Len(q) - 1
      /\ \A i \in 1..Len(t) : i + 1 \in 1..Len(q) /\ t[i] = q[i + 1]
  BY <1>1, TailElements
<1>3. Head(q) = q[1] /\ 1 \in 1..Len(q)
  <2>1. 1 \in 1..Len(q)
    BY <1>2
  <2>2. Head(q) = q[1]
    <3>1. q \in Seq(StepOutput)
      BY <1>1
    <3> QED BY <3>1, EmptySeq
  <2> QED BY <2>1, <2>2
<1>4. t = <<>> <=> Len(t) = 0
  BY <1>2
<1> HIDE DEF t, StepOutput
<1>5. Head(q).token = n + 1 /\ (Head(q).last <=> (over /\ 1 = Len(q)))
  BY <1>1, <1>3
<1>6. /\ 1 = Len(q) <=> n + 1 = made
      /\ n < made /\ (Len(t) = 0 <=> n + 1 = made)
      /\ (n + 1) + Len(t) = made
  <2> DEFINE l == Len(q)
             lt == Len(t)
  <2>1. l \in Nat \ {0} /\ n + l = made /\ lt = l - 1
    BY <1>1, <1>2
  <2> HIDE DEF l, lt
  <2>2. (1 = l <=> n + 1 = made) /\ n < made /\ (lt = 0 <=> n + 1 = made)
        /\ (n + 1) + lt = made
    BY <2>1
  <2> QED BY <2>2 DEF l, lt
<1>7. \A i \in 1..Len(t) : t[i].token = (n + 1) + i /\ (t[i].last <=> (over /\ i = Len(t)))
  <2> SUFFICES ASSUME NEW i \in 1..Len(t)
               PROVE  t[i].token = (n + 1) + i /\ (t[i].last <=> (over /\ i = Len(t)))
    OBVIOUS
  <2>1. /\ i + 1 \in 1..Len(q) /\ t[i] = q[i + 1]
        /\ n + (i + 1) = (n + 1) + i
        /\ i + 1 = Len(q) <=> i = Len(t)
    BY <1>2
  <2>2. q[i + 1].token = n + (i + 1) /\ (q[i + 1].last <=> (over /\ i + 1 = Len(q)))
    BY <1>1, <2>1
  <2> QED BY <2>1, <2>2, Zenon
<1>8. Holds(t, n + 1, made, over)
  BY <1>2, <1>6, <1>7 DEF Holds
<1> QED BY <1>4, <1>5, <1>6, <1>8 DEF t

(* What a caller and its queue have to do with each other *)
LEMMA OutputsInvAt ==
    OutputsInv <=>
      /\ \A r \in DOMAIN outputs : Holds(outputs[r], received[r], Made(r), r \in Over)
      /\ \A r \in Requests :
           /\ client[r] = "ending" => r \in Over /\ received[r] = Made(r)
           /\ client[r] = "closed" => r \in Over
           /\ client[r] = "reading" /\ r \in Over => outputs[r] # <<>>
BY UnreadHolds, Zenon DEF OutputsInv

LEMMA OutputsGrow ==
    ASSUME ClientInv, OutputsInv, StageInv, UNCHANGED <<received, client>>,
           NEW S, NEW F \in SUBSET S, NEW n, outputs' = WithOutput(S, n, F),
           S \cap Over = {}, Over' = Over \cup F,
           \A r \in Requests :
             /\ Made(r)' = IF r \in S THEN Made(r) + 1 ELSE Made(r)
             /\ r \in S => n[r] = Made(r) + 1
    PROVE  OutputsInv' /\ DOMAIN outputs' = DOMAIN outputs
<1>1. /\ DOMAIN outputs' = DOMAIN outputs
      /\ \A r \in DOMAIN outputs :
           outputs'[r] = IF r \in S THEN Append(outputs[r], [token |-> n[r], last |-> r \in F])
                         ELSE outputs[r]
  BY DEF WithOutput
<1>2. /\ DOMAIN outputs = {r \in Requests : client[r] \in {"reading", "ending", "gone"}}
      /\ received \in [Requests -> Nat]
  BY DEF ClientInv
<1>3. \A r \in DOMAIN outputs : Holds(outputs[r], received[r], Made(r), r \in Over)
  BY OutputsInvAt
<1>4. \A r \in Requests :
        /\ client[r] = "ending" => r \in Over /\ received[r] = Made(r)
        /\ client[r] = "closed" => r \in Over
        /\ client[r] = "reading" /\ r \in Over => outputs[r] # <<>>
  BY OutputsInvAt
<1>5. ASSUME NEW r \in DOMAIN outputs
      PROVE  /\ Holds(outputs'[r], received'[r], Made(r)', r \in Over')
             /\ r \in S => outputs'[r] # <<>>
  <2>1. r \in Requests /\ received[r] \in Nat /\ received'[r] = received[r]
    BY <1>2
  <2>2. Holds(outputs[r], received[r], Made(r), r \in Over)
    BY <1>3
  <2>3. CASE r \notin S
    <3>1. Made(r)' = Made(r) /\ outputs'[r] = outputs[r]
      BY <1>1, <2>1, <2>3
    <3>2. r \in Over' <=> r \in Over
      BY <2>3
    <3>3. (r \in Over') = (r \in Over)
      BY <3>2
    <3> QED BY <2>1, <2>2, <2>3, <3>1, <3>3
  <2>4. CASE r \in S
    <3>1. Holds(outputs[r], received[r], Made(r), FALSE)
      <4>1. (r \in Over) = FALSE
        BY <2>4
      <4> QED BY <2>2, <4>1
    <3>2. Made(r) \in Nat
      BY <2>1 DEF Made, StageInv, Inv
    <3> DEFINE b == r \in F
               o == [token |-> Made(r) + 1, last |-> b]
    <3>3. b \in BOOLEAN
      OBVIOUS
    <3>4. (r \in Over') = b
      BY <2>4
    <3>5. outputs'[r] = Append(outputs[r], o)
      BY <1>1, <2>1, <2>4
    <3>6. Made(r)' = Made(r) + 1
      BY <2>1, <2>4
    <3> HIDE DEF b
    <3>7. /\ Holds(Append(outputs[r], o), received[r], Made(r) + 1, b)
          /\ Append(outputs[r], o) # <<>>
      BY <2>1, <3>1, <3>2, <3>3, HoldsAppend
    <3> HIDE DEF o
    <3> QED BY <2>1, <3>4, <3>5, <3>6, <3>7
  <2> QED BY <2>3, <2>4
<1>6. ASSUME NEW r \in Requests
      PROVE  /\ client'[r] = "ending" => r \in Over' /\ received'[r] = Made(r)'
             /\ client'[r] = "closed" => r \in Over'
             /\ client'[r] = "reading" /\ r \in Over' => outputs'[r] # <<>>
  <2>1. client'[r] = client[r] /\ received'[r] = received[r] /\ (r \in Over => r \in Over')
    OBVIOUS
  <2>2. client[r] = "ending" => Made(r)' = Made(r)
    BY <1>4
  <2>3. ASSUME client[r] = "reading", r \in Over' PROVE outputs'[r] # <<>>
    <3>1. r \in DOMAIN outputs
      BY <1>2, <2>3
    <3>2. CASE r \in S
      BY <1>5, <3>1, <3>2
    <3>3. CASE r \notin S
      BY <1>1, <1>4, <2>3, <3>1, <3>3
    <3> QED BY <3>2, <3>3
  <2> QED BY <1>4, <2>1, <2>2, <2>3
<1>7. \A r \in DOMAIN outputs' : Unread(r)'
  BY <1>1, <1>5, UnreadHolds
<1> QED BY <1>1, <1>6, <1>7 DEF OutputsInv

LEMMA ClientRests ==
    ASSUME ClientInv, UNCHANGED <<received, client>>, ctxIssued' = ctxIssued,
           DOMAIN outputs' = DOMAIN outputs, DOMAIN events' = DOMAIN events
    PROVE  ClientInv'
BY DEF ClientInv

LEMMA TableKeys ==
    ASSUME ClientInv
    PROVE  DOMAIN outputs \subseteq Requests /\ DOMAIN events \subseteq Requests
BY DEF ClientInv

(* The actions that put a token or an event in the tables *)
LEMMA ContextStepKeeps == ServingInv /\ ContextStep => ServingInv'
<1> SUFFICES ASSUME ServingInv, ContextStep PROVE ServingInv'
  OBVIOUS
<1> DEFINE S == Last(ctxPipeline')
<1>1. /\ Ctx!Step /\ events' = WithEvent(S, "context_begin")
      /\ UNCHANGED <<vars, bridgeQueue, outputs, callers>>
  BY DEF ContextStep
<1>2. UNCHANGED <<vars, bridgeQueue, outputs, received, client>>
  BY <1>1 DEF callers
<1>3. PlacesInv /\ ClientInv /\ OutputsInv /\ EventsInv
  BY DEF ServingInv, PlacesInv
<1>4. /\ PlacesInv' /\ Over' = Over /\ ctxIssued' = ctxIssued
      /\ \A r \in Requests :
           /\ Made(r)' = Made(r)
           /\ r \in S => StageOf(r) = 1
           /\ StageOf(r)' = IF r \in S THEN 2 ELSE StageOf(r)
  BY <1>1, <1>2, <1>3, ContextStepPlaces
<1>5. "context_begin" = Lifetime[2]
  BY DEF Lifetime
<1> HIDE DEF S
<1>6. EventsInv' /\ DOMAIN events' = DOMAIN events
  <2>1. \A r \in Requests :
          /\ r \in S => StageOf(r) = 2 - 1
          /\ StageOf(r)' = IF r \in S THEN 2 ELSE StageOf(r)
    BY <1>4
  <2> QED BY <1>1, <1>3, <1>5, <2>1, EventsGrow, TableKeys
<1>7. OutputsInv'
  BY <1>2, <1>3, <1>4, OutputsRest, TableKeys
<1>8. ClientInv'
  BY <1>2, <1>3, <1>4, <1>6, ClientRests
<1> QED BY <1>4, <1>6, <1>7, <1>8 DEF ServingInv, PlacesInv

LEMMA ContextReturnKeeps == ServingInv /\ ContextReturn => ServingInv'
<1> SUFFICES ASSUME ServingInv, ContextReturn PROVE ServingInv'
  OBVIOUS
<1> DEFINE S == Head(ctxPipeline)
           F == S \cap ctxDone'
<1>1. /\ events' = WithEvent(S, "context_end") /\ outputs' = WithOutput(S, out, F)
      /\ UNCHANGED <<received, client>>
  BY DEF ContextReturn, callers
<1>2. PlacesInv /\ ClientInv /\ OutputsInv /\ EventsInv /\ StageInv
  BY DEF ServingInv, PlacesInv
<1>3. /\ PlacesInv' /\ ctxIssued' = ctxIssued
      /\ S \cap Over = {} /\ Over' = Over \cup F
      /\ \A r \in Requests :
           /\ r \in S => StageOf(r) = 2 /\ Made(r) = 0 /\ out[r] = 1
           /\ Made(r)' = IF r \in S THEN Made(r) + 1 ELSE Made(r)
           /\ StageOf(r)' = IF r \in S THEN 3 ELSE StageOf(r)
  BY <1>2, ContextReturnPlaces
<1>4. "context_end" = Lifetime[3]
  BY DEF Lifetime
<1>5. F \in SUBSET S
  OBVIOUS
<1> HIDE DEF S, F
<1>6. EventsInv' /\ DOMAIN events' = DOMAIN events
  <2>1. \A r \in Requests :
          /\ r \in S => StageOf(r) = 3 - 1
          /\ StageOf(r)' = IF r \in S THEN 3 ELSE StageOf(r)
    BY <1>3
  <2> QED BY <1>1, <1>2, <1>4, <2>1, EventsGrow, TableKeys
<1>7. OutputsInv' /\ DOMAIN outputs' = DOMAIN outputs
  <2>1. \A r \in Requests :
          /\ Made(r)' = IF r \in S THEN Made(r) + 1 ELSE Made(r)
          /\ r \in S => out[r] = Made(r) + 1
    BY <1>3
  <2> QED BY <1>1, <1>2, <1>3, <1>5, <2>1, OutputsGrow
<1>8. ClientInv'
  BY <1>1, <1>2, <1>3, <1>6, <1>7, ClientRests
<1> QED BY <1>3, <1>6, <1>7, <1>8 DEF ServingInv, PlacesInv

LEMMA DecodingStepKeeps == ServingInv /\ DecodingStep => ServingInv'
<1> SUFFICES ASSUME ServingInv, DecodingStep PROVE ServingInv'
  OBVIOUS
<1> DEFINE S == Members(batches'[cur'])
<1>1. /\ Step /\ events' = WithEvent(S, "decoding_begin")
      /\ UNCHANGED <<ctxVars, bridgeQueue, outputs, callers>>
  BY DEF DecodingStep
<1>2. UNCHANGED <<ctxVars, bridgeQueue, outputs, received, client>>
  BY <1>1 DEF callers
<1>3. PlacesInv /\ ClientInv /\ OutputsInv /\ EventsInv
  BY DEF ServingInv, PlacesInv
<1>4. /\ PlacesInv' /\ Over' = Over /\ ctxIssued' = ctxIssued
      /\ \A r \in Requests :
           /\ Made(r)' = Made(r)
           /\ r \in S => StageOf(r) \in {5, 6}
           /\ StageOf(r)' = IF r \in S THEN 6 ELSE StageOf(r)
  BY <1>1, <1>2, <1>3, DecodingStepPlaces
<1>5. "decoding_begin" = Lifetime[6]
  BY DEF Lifetime
<1> HIDE DEF S
<1>6. EventsInv' /\ DOMAIN events' = DOMAIN events
  <2>1. \A r \in Requests :
          /\ r \in S => StageOf(r) = 6 - 1 \/ StageOf(r) = 6
          /\ StageOf(r)' = IF r \in S THEN 6 ELSE StageOf(r)
    BY <1>4
  <2> QED BY <1>1, <1>3, <1>5, <2>1, EventsGrow, TableKeys
<1>7. OutputsInv'
  BY <1>2, <1>3, <1>4, OutputsRest, TableKeys
<1>8. ClientInv'
  BY <1>2, <1>3, <1>4, <1>6, ClientRests
<1> QED BY <1>4, <1>6, <1>7, <1>8 DEF ServingInv, PlacesInv

LEMMA DecodingReturnKeeps == ServingInv /\ DecodingReturn => ServingInv'
<1> SUFFICES ASSUME ServingInv, DecodingReturn PROVE ServingInv'
  OBVIOUS
<1> DEFINE S == Members(batches[pipeline[1].batch])
           F == S \cap finished'
<1>1. /\ Return /\ events' = WithEvent(F, "decoding_end")
      /\ outputs' = WithOutput(S, out', F)
      /\ UNCHANGED <<ctxVars, bridgeQueue, received, client>>
  BY DEF DecodingReturn, callers
<1>2. PlacesInv /\ ClientInv /\ OutputsInv /\ EventsInv /\ StageInv
  BY DEF ServingInv, PlacesInv
<1>3. /\ PlacesInv' /\ ctxIssued' = ctxIssued
      /\ S \cap Over = {} /\ Over' = Over \cup F
      /\ \A r \in Requests :
           /\ out'[r] = IF r \in S THEN out[r] + 1 ELSE out[r]
           /\ r \in S => Made(r) = out[r]
           /\ Made(r)' = IF r \in S THEN Made(r) + 1 ELSE Made(r)
           /\ r \in F => StageOf(r) = 6
           /\ StageOf(r)' = IF r \in F THEN 7 ELSE StageOf(r)
  BY <1>1, <1>2, DecodingReturnPlaces
<1>4. "decoding_end" = Lifetime[7]
  BY DEF Lifetime
<1>5. F \in SUBSET S
  OBVIOUS
<1> HIDE DEF S, F
<1>6. EventsInv' /\ DOMAIN events' = DOMAIN events
  <2>1. \A r \in Requests :
          /\ r \in F => StageOf(r) = 7 - 1
          /\ StageOf(r)' = IF r \in F THEN 7 ELSE StageOf(r)
    BY <1>3
  <2> QED BY <1>1, <1>2, <1>4, <2>1, EventsGrow, TableKeys
<1>7. OutputsInv' /\ DOMAIN outputs' = DOMAIN outputs
  <2> DEFINE n == out'
  <2>1. \A r \in Requests :
          /\ Made(r)' = IF r \in S THEN Made(r) + 1 ELSE Made(r)
          /\ r \in S => n[r] = Made(r) + 1
    BY <1>3
  <2>2. outputs' = WithOutput(S, n, F)
    BY <1>1
  <2> HIDE DEF n
  <2> QED BY <1>1, <1>2, <1>3, <1>5, <2>1, <2>2, OutputsGrow
<1>8. ClientInv'
  BY <1>1, <1>2, <1>3, <1>6, <1>7, ClientRests
<1> QED BY <1>3, <1>6, <1>7, <1>8 DEF ServingInv, PlacesInv

LEMMA MigrationBeginsKeeps == ServingInv /\ MigrationBegins => ServingInv'
<1> SUFFICES ASSUME ServingInv, MigrationBegins PROVE ServingInv'
  OBVIOUS
<1> DEFINE S == migrating'
<1>1. /\ BeginMigration /\ events' = WithEvent(S, "migration_begin")
      /\ UNCHANGED <<ctxVars, bridgeQueue, outputs, received, client>>
  BY DEF MigrationBegins, callers
<1>2. PlacesInv /\ ClientInv /\ OutputsInv /\ EventsInv
  BY DEF ServingInv, PlacesInv
<1>3. /\ PlacesInv' /\ Over' = Over /\ ctxIssued' = ctxIssued
      /\ \A r \in Requests :
           /\ Made(r)' = Made(r)
           /\ r \in S => StageOf(r) = 3
           /\ StageOf(r)' = IF r \in S THEN 4 ELSE StageOf(r)
  BY <1>1, <1>2, MigrationBeginsPlaces
<1>4. "migration_begin" = Lifetime[4]
  BY DEF Lifetime
<1> HIDE DEF S
<1>5. EventsInv' /\ DOMAIN events' = DOMAIN events
  <2>1. \A r \in Requests :
          /\ r \in S => StageOf(r) = 4 - 1
          /\ StageOf(r)' = IF r \in S THEN 4 ELSE StageOf(r)
    BY <1>3
  <2> QED BY <1>1, <1>2, <1>4, <2>1, EventsGrow, TableKeys
<1>6. OutputsInv'
  BY <1>1, <1>2, <1>3, OutputsRest, TableKeys
<1>7. ClientInv'
  BY <1>1, <1>2, <1>3, <1>5, ClientRests
<1> QED BY <1>3, <1>5, <1>6, <1>7 DEF ServingInv, PlacesInv

LEMMA MigrationEndsKeeps == ServingInv /\ MigrationEnds => ServingInv'
<1> SUFFICES ASSUME ServingInv, MigrationEnds PROVE ServingInv'
  OBVIOUS
<1>1. /\ events' = WithEvent(migrating, "migration_end")
      /\ UNCHANGED <<bridgeQueue, outputs, received, client>>
  BY DEF MigrationEnds, callers
<1>2. PlacesInv /\ ClientInv /\ OutputsInv /\ EventsInv
  BY DEF ServingInv, PlacesInv
<1>3. /\ PlacesInv' /\ Over' = Over /\ ctxIssued' = ctxIssued
      /\ \A r \in Requests :
           /\ Made(r)' = Made(r)
           /\ r \in migrating => StageOf(r) = 4
           /\ StageOf(r)' = IF r \in migrating THEN 5 ELSE StageOf(r)
  BY <1>2, MigrationEndsPlaces
<1>4. "migration_end" = Lifetime[5]
  BY DEF Lifetime
<1>5. EventsInv' /\ DOMAIN events' = DOMAIN events
  <2>1. \A r \in Requests :
          /\ r \in migrating => StageOf(r) = 5 - 1
          /\ StageOf(r)' = IF r \in migrating THEN 5 ELSE StageOf(r)
    BY <1>3
  <2> QED BY <1>1, <1>2, <1>4, <2>1, EventsGrow, TableKeys
<1>6. OutputsInv'
  BY <1>1, <1>2, <1>3, OutputsRest, TableKeys
<1>7. ClientInv'
  BY <1>1, <1>2, <1>3, <1>5, ClientRests
<1> QED BY <1>3, <1>5, <1>6, <1>7 DEF ServingInv, PlacesInv

(* The actions that change neither what is made nor where a request is *)
LEMMA TablesRest ==
    ASSUME ServingInv, PlacesInv', Over' = Over, ctxIssued' = ctxIssued,
           \A r \in Requests : Made(r)' = Made(r) /\ StageOf(r)' = StageOf(r),
           UNCHANGED <<outputs, events, received, client>>
    PROVE  ServingInv'
<1>1. ClientInv /\ OutputsInv /\ EventsInv
  BY DEF ServingInv
<1>2. EventsInv' /\ OutputsInv'
  BY <1>1, EventsRest, OutputsRest, TableKeys
<1>3. ClientInv'
  BY <1>1, ClientRests
<1> QED BY <1>2, <1>3 DEF ServingInv, PlacesInv

LEMMA EnginesRestKeeps ==
    ServingInv /\ (Accept \/ DecodingFails \/ PostProcessEnds \/ OfflineReturns
                     \/ UNCHANGED servingVars) => ServingInv'
<1>1. ASSUME ServingInv, Accept PROVE ServingInv'
  <2>1. UNCHANGED <<outputs, events, received, client>>
    BY <1>1 DEF Accept, tables, callers
  <2>2. PlacesInv
    BY <1>1 DEF ServingInv, PlacesInv
  <2> QED BY <1>1, <2>1, <2>2, AcceptPlaces, TablesRest
<1>2. ASSUME ServingInv, DecodingFails \/ PostProcessEnds PROVE ServingInv'
  <2>1. /\ StepRaises \/ EndPostProcess
        /\ UNCHANGED <<ctxVars, bridgeQueue, outputs, events, received, client>>
    BY <1>2 DEF DecodingFails, PostProcessEnds, tables, callers
  <2>2. PlacesInv
    BY <1>2 DEF ServingInv, PlacesInv
  <2>3. /\ PlacesInv' /\ Over' = Over /\ ctxIssued' = ctxIssued
        /\ \A r \in Requests : Made(r)' = Made(r) /\ StageOf(r)' = StageOf(r)
    BY <2>1, <2>2, DecodingRestsPlaces
  <2> QED BY <1>2, <2>1, <2>3, TablesRest
<1>3. ASSUME ServingInv, OfflineReturns \/ UNCHANGED servingVars PROVE ServingInv'
  <2>1. UNCHANGED <<vars, ctxVars, bridgeQueue, outputs, events, received, client>>
    BY <1>3 DEF OfflineReturns, tables, callers, servingVars
  <2>2. PlacesInv
    BY <1>3 DEF ServingInv, PlacesInv
  <2>3. /\ PlacesInv' /\ Over' = Over /\ ctxIssued' = ctxIssued
        /\ \A r \in Requests : Made(r)' = Made(r) /\ StageOf(r)' = StageOf(r)
    BY <2>1, <2>2, SettledPlaces
  <2> QED BY <1>3, <2>1, <2>3, TablesRest
<1> QED BY <1>1, <1>2, <1>3

-----------------------------------------------------------------------------
(* The callers *)
LEMMA GenerateKeeps ==
    ASSUME NEW r \in Requests PROVE ServingInv /\ Generate(r) => ServingInv'
<1> SUFFICES ASSUME ServingInv, Generate(r) PROVE ServingInv'
  OBVIOUS
<1>1. /\ client[r] = "none" /\ client' = [client EXCEPT ![r] = "reading"]
      /\ outputs' = With(outputs, r, <<>>) /\ events' = With(events, r, <<"issued">>)
      /\ Ctx!AddRequest(r)
      /\ UNCHANGED <<vars, bridgeQueue, frontend, received>>
  BY DEF Generate
<1>2. PlacesInv /\ ClientInv /\ OutputsInv /\ EventsInv
  BY DEF ServingInv, PlacesInv
<1>3. /\ PlacesInv' /\ Over' = Over
      /\ r \notin ctxIssued /\ ctxIssued' = ctxIssued \cup {r}
      /\ \A q \in Requests :
           /\ Made(q)' = Made(q)
           /\ StageOf(q)' = IF q = r THEN 1 ELSE StageOf(q)
  BY <1>1, <1>2, GeneratePlaces
<1>4. /\ DOMAIN outputs' = DOMAIN outputs \cup {r}
      /\ outputs'[r] = <<>>
      /\ \A q \in DOMAIN outputs : q # r => outputs'[q] = outputs[q]
      /\ DOMAIN events' = DOMAIN events \cup {r}
      /\ events'[r] = <<"issued">>
      /\ \A q \in DOMAIN events : q # r => events'[q] = events[q]
  BY <1>1 DEF With
<1>5. /\ client' \in [Requests -> {"none", "reading", "ending", "closed", "gone"}]
      /\ client'[r] = "reading"
      /\ \A q \in Requests : q # r => client'[q] = client[q]
  BY <1>1, <1>2 DEF ClientInv
<1>6. ClientInv'
  <2>1. ctxIssued' = {q \in Requests : client'[q] # "none"}
    BY <1>2, <1>3, <1>5 DEF ClientInv
  <2>2. DOMAIN outputs' = {q \in Requests : client'[q] \in {"reading", "ending", "gone"}}
    BY <1>2, <1>4, <1>5 DEF ClientInv
  <2>3. DOMAIN outputs' \subseteq DOMAIN events' /\ DOMAIN events' \subseteq ctxIssued'
    BY <1>2, <1>3, <1>4 DEF ClientInv
  <2>4. \A q \in Requests : client'[q] = "none" => received'[q] = 0
    BY <1>1, <1>2, <1>5 DEF ClientInv
  <2>5. received' \in [Requests -> Nat]
    BY <1>1, <1>2 DEF ClientInv
  <2> QED BY <1>5, <2>1, <2>2, <2>3, <2>4, <2>5 DEF ClientInv
<1>7. EventsInv'
  <2>1. <<"issued">> = SubSeq(Lifetime, 1, 1)
    BY DEF Lifetime
  <2>2. ASSUME NEW q \in DOMAIN events'
        PROVE  events'[q] = SubSeq(Lifetime, 1, StageOf(q)')
    BY <1>2, <1>3, <1>4, <2>1, TableKeys DEF EventsInv
  <2> QED BY <2>2 DEF EventsInv
<1>8. /\ r \notin Over /\ Made(r) = 0 /\ received[r] = 0
  <2>1. Over \subseteq ctxDone /\ ctxDone \subseteq Returned /\ Returned \subseteq ctxIssued
    BY <1>2, TwoStages DEF PlacesInv, CtxInv, Returned
  <2> QED BY <1>1, <1>2, <1>3, <2>1 DEF Made, ClientInv
<1>9. ASSUME NEW q \in DOMAIN outputs' PROVE Unread(q)'
  <2>1. CASE q = r
    <3>1. Holds(<<>>, 0, 0, FALSE)
      BY DEF Holds
    <3>2. (r \in Over') = FALSE
      BY <1>3, <1>8
    <3>3. outputs'[r] = <<>> /\ received'[r] = 0 /\ Made(r)' = 0
      BY <1>1, <1>3, <1>4, <1>8
    <3>4. Unread(r)'
      BY <3>1, <3>2, <3>3, UnreadHolds
    <3> QED BY <2>1, <3>4
  <2>2. CASE q # r
    <3>1. q \in DOMAIN outputs /\ q \in Requests
      BY <1>2, <1>4, <2>2, TableKeys
    <3>2. Unread(q)
      BY <1>2, <3>1 DEF OutputsInv
    <3> QED BY <1>1, <1>3, <1>4, <2>2, <3>1, <3>2 DEF Unread
  <2> QED BY <2>1, <2>2
<1>10. ASSUME NEW q \in Requests
       PROVE  /\ client'[q] = "ending" => q \in Over' /\ received'[q] = Made(q)'
              /\ client'[q] = "closed" => q \in Over'
              /\ client'[q] = "reading" /\ q \in Over' => outputs'[q] # <<>>
  <2>1. CASE q = r
    BY <1>3, <1>5, <1>8, <2>1
  <2>2. CASE q # r
    <3>1. client'[q] = client[q] /\ received'[q] = received[q] /\ Made(q)' = Made(q)
      BY <1>1, <1>3, <1>5, <2>2
    <3>2. client[q] = "reading" => outputs'[q] = outputs[q]
      BY <1>2, <1>4, <2>2 DEF ClientInv
    <3> QED BY <1>2, <1>3, <3>1, <3>2 DEF OutputsInv
  <2> QED BY <2>1, <2>2
<1>11. OutputsInv'
  BY <1>9, <1>10 DEF OutputsInv
<1> QED BY <1>3, <1>6, <1>7, <1>11 DEF ServingInv, PlacesInv

(* A caller's own step: the engines rest, the others' queues are the same. *)
CallerMoves(r) ==
    /\ UNCHANGED <<vars, ctxVars, bridgeQueue>>
    /\ \A q \in Requests : q # r =>
         /\ client'[q] = client[q] /\ received'[q] = received[q]
         /\ q \in DOMAIN outputs' <=> q \in DOMAIN outputs
         /\ q \in DOMAIN outputs => outputs'[q] = outputs[q]
    /\ DOMAIN outputs' \subseteq DOMAIN outputs
    /\ DOMAIN events' \subseteq DOMAIN events
    /\ \A q \in DOMAIN events' : events'[q] = events[q]

LEMMA CallerEffect ==
    ASSUME ServingInv, NEW r \in Requests, CallerMoves(r),
           r \in DOMAIN outputs' => Unread(r)',
           client'[r] = "ending" => r \in Over /\ received'[r] = Made(r),
           client'[r] = "closed" => r \in Over,
           client'[r] = "reading" /\ r \in Over => outputs'[r] # <<>>
    PROVE  PlacesInv' /\ OutputsInv' /\ EventsInv' /\ ctxIssued' = ctxIssued
<1>1. PlacesInv /\ ClientInv /\ OutputsInv /\ EventsInv
  BY DEF ServingInv, PlacesInv
<1>2. /\ PlacesInv' /\ Over' = Over /\ ctxIssued' = ctxIssued
      /\ \A q \in Requests : Made(q)' = Made(q) /\ StageOf(q)' = StageOf(q)
  BY <1>1, SettledPlaces DEF CallerMoves
<1>3. ASSUME NEW q \in DOMAIN events'
      PROVE  events'[q] = SubSeq(Lifetime, 1, StageOf(q)')
  <2>1. q \in DOMAIN events /\ events'[q] = events[q] /\ q \in Requests
    BY <1>1, TableKeys DEF CallerMoves
  <2> QED BY <1>1, <1>2, <2>1 DEF EventsInv
<1>4. ASSUME NEW q \in DOMAIN outputs' PROVE Unread(q)'
  <2>1. q \in DOMAIN outputs /\ q \in Requests
    BY <1>1, TableKeys DEF CallerMoves
  <2>2. CASE q # r
    <3>1. outputs'[q] = outputs[q] /\ received'[q] = received[q]
      BY <2>1, <2>2 DEF CallerMoves
    <3>2. Unread(q)
      BY <1>1, <2>1 DEF OutputsInv
    <3> QED BY <1>2, <2>1, <3>1, <3>2 DEF Unread
  <2> QED BY <2>2
<1>5. ASSUME NEW q \in Requests
      PROVE  /\ client'[q] = "ending" => q \in Over' /\ received'[q] = Made(q)'
             /\ client'[q] = "closed" => q \in Over'
             /\ client'[q] = "reading" /\ q \in Over' => outputs'[q] # <<>>
  <2>1. CASE q = r
    BY <1>2, <2>1
  <2>2. CASE q # r
    <3>1. client'[q] = client[q] /\ received'[q] = received[q]
      BY <2>2 DEF CallerMoves
    <3>2. client[q] = "reading" => outputs'[q] = outputs[q]
      BY <1>1, <2>2 DEF CallerMoves, ClientInv
    <3> QED BY <1>1, <1>2, <3>1, <3>2 DEF OutputsInv
  <2> QED BY <2>1, <2>2
<1>6. EventsInv' /\ OutputsInv'
  BY <1>3, <1>4, <1>5 DEF EventsInv, OutputsInv
<1> QED BY <1>2, <1>6

LEMMA TakeEffect ==
    ASSUME ServingInv, NEW r \in Requests, Take(r)
    PROVE  /\ CallerMoves(r)
           /\ received' = [received EXCEPT ![r] = @ + 1]
           /\ client[r] = "reading" /\ received[r] < Made(r)
           /\ client'[r] \in {"reading", "ending"}
           /\ client'[r] = "ending" => r \in Over /\ received'[r] = Made(r)
           /\ client'[r] = "reading" /\ r \in Over => outputs'[r] # <<>>
           /\ DOMAIN outputs' = DOMAIN outputs /\ events' = events
           /\ Unread(r)'
<1> DEFINE q == outputs[r]
           n == received[r]
<1>1. /\ client[r] = "reading" /\ q # <<>>
      /\ received' = [received EXCEPT ![r] = Head(q).token]
      /\ outputs' = [outputs EXCEPT ![r] = Tail(q)]
      /\ client' = [client EXCEPT ![r] = IF Head(q).last THEN "ending" ELSE "reading"]
      /\ UNCHANGED <<vars, ctxVars, bridgeQueue, events, frontend>>
  BY DEF Take, NextOutput
<1>2. PlacesInv /\ ClientInv /\ OutputsInv
  BY DEF ServingInv, PlacesInv
<1>3. r \in DOMAIN outputs /\ n \in Nat /\ received \in [Requests -> Nat]
  BY <1>1, <1>2 DEF ClientInv
<1>4. Holds(q, n, Made(r), r \in Over)
  BY <1>2, <1>3, UnreadHolds DEF OutputsInv
<1>5. Made(r) \in Nat
  BY <1>2 DEF Made, PlacesInv, StageInv, Inv
<1>6. /\ Head(q).token = n + 1
      /\ Holds(Tail(q), n + 1, Made(r), r \in Over)
      /\ Head(q).last <=> (r \in Over /\ n + 1 = Made(r))
      /\ n < Made(r)
      /\ Tail(q) = <<>> <=> n + 1 = Made(r)
  <2> DEFINE over == r \in Over
  <2>1. over \in BOOLEAN
    OBVIOUS
  <2> HIDE DEF over
  <2>2. Holds(q, n, Made(r), over)
    BY <1>4 DEF over
  <2>3. /\ Head(q).token = n + 1
        /\ Holds(Tail(q), n + 1, Made(r), over)
        /\ Head(q).last <=> (over /\ n + 1 = Made(r))
        /\ n < Made(r)
        /\ Tail(q) = <<>> <=> n + 1 = Made(r)
    BY <1>1, <1>3, <1>5, <2>1, <2>2, HoldsTail
  <2> QED BY <2>3, Zenon DEF over
<1>7. received' = [received EXCEPT ![r] = n + 1] /\ received'[r] = n + 1
  BY <1>1, <1>3, <1>6
<1>8. /\ DOMAIN outputs' = DOMAIN outputs /\ outputs'[r] = Tail(q)
      /\ \A p \in DOMAIN outputs : p # r => outputs'[p] = outputs[p]
  BY <1>1, <1>3
<1>9. /\ client'[r] = IF Head(q).last THEN "ending" ELSE "reading"
      /\ \A p \in Requests : p # r => client'[p] = client[p]
  BY <1>1, <1>2, Zenon DEF ClientInv
<1>10. CallerMoves(r)
  <2>1. ASSUME NEW p \in Requests, p # r
        PROVE  /\ client'[p] = client[p] /\ received'[p] = received[p]
               /\ p \in DOMAIN outputs' <=> p \in DOMAIN outputs
               /\ p \in DOMAIN outputs => outputs'[p] = outputs[p]
    BY <1>1, <1>3, <1>8, <1>9, <2>1
  <2> QED BY <1>1, <1>8, <2>1 DEF CallerMoves
<1>11. Over' = Over /\ Made(r)' = Made(r)
  BY <1>1, <1>2, SettledPlaces
<1>12. Unread(r)'
  BY <1>6, <1>7, <1>8, <1>11, UnreadHolds
<1>13. /\ client'[r] \in {"reading", "ending"}
       /\ client'[r] = "ending" => r \in Over /\ n + 1 = Made(r)
       /\ client'[r] = "reading" /\ r \in Over => Tail(q) # <<>>
  <2>1. CASE Head(q).last
    <3>1. client'[r] = "ending" /\ r \in Over /\ n + 1 = Made(r)
      BY <1>6, <1>9, <2>1, Zenon
    <3> QED BY <3>1
  <2>2. CASE ~Head(q).last
    <3>1. client'[r] = "reading"
      BY <1>9, <2>2, Zenon
    <3>2. r \in Over => n + 1 # Made(r)
      BY <1>6, <2>2, Zenon
    <3>3. r \in Over => Tail(q) # <<>>
      BY <1>6, <3>2, Zenon
    <3> QED BY <3>1, <3>3
  <2> QED BY <2>1, <2>2
<1>14. UNCHANGED events /\ client[r] = "reading" /\ received[r] < Made(r)
  BY <1>1, <1>6
<1>15. received' = [received EXCEPT ![r] = @ + 1]
  BY <1>7
<1> HIDE DEF q, n
<1>16. /\ client'[r] = "ending" => r \in Over /\ received'[r] = Made(r)
       /\ client'[r] = "reading" /\ r \in Over => outputs'[r] # <<>>
  BY <1>7, <1>8, <1>13
<1> QED BY <1>8, <1>10, <1>12, <1>13, <1>14, <1>15, <1>16

LEMMA TakeKeeps ==
    ASSUME NEW r \in Requests PROVE ServingInv /\ Take(r) => ServingInv'
<1> SUFFICES ASSUME ServingInv, Take(r) PROVE ServingInv'
  OBVIOUS
<1>1. /\ CallerMoves(r) /\ Unread(r)' /\ client[r] = "reading"
      /\ received' = [received EXCEPT ![r] = @ + 1]
      /\ client'[r] \in {"reading", "ending"}
      /\ client'[r] = "ending" => r \in Over /\ received'[r] = Made(r)
      /\ client'[r] = "reading" /\ r \in Over => outputs'[r] # <<>>
      /\ DOMAIN outputs' = DOMAIN outputs /\ events' = events
  BY TakeEffect
<1>2. PlacesInv' /\ OutputsInv' /\ EventsInv' /\ ctxIssued' = ctxIssued
  BY <1>1, CallerEffect
<1>3. ClientInv
  BY DEF ServingInv
<1>4. /\ client' = [client EXCEPT ![r] = client'[r]]
      /\ client' \in [Requests -> {"none", "reading", "ending", "closed", "gone"}]
      /\ \A q \in Requests : q # r => client'[q] = client[q]
  BY <1>1, <1>3 DEF Take, ClientInv
<1>5. received' \in [Requests -> Nat] /\ \A q \in Requests : q # r => received'[q] = received[q]
  BY <1>1, <1>3 DEF ClientInv
<1>6. ClientInv'
  BY <1>1, <1>2, <1>3, <1>4, <1>5 DEF ClientInv
<1> QED BY <1>2, <1>6 DEF ServingInv, PlacesInv

LEMMA CloseKeeps ==
    ASSUME NEW r \in Requests PROVE ServingInv /\ Close(r) => ServingInv'
<1> SUFFICES ASSUME ServingInv, Close(r) PROVE ServingInv'
  OBVIOUS
<1>1. /\ client[r] = "ending" /\ client' = [client EXCEPT ![r] = "closed"]
      /\ outputs' = Without(outputs, r)
      /\ events' = events \/ events' = Without(events, r)
      /\ UNCHANGED <<vars, ctxVars, bridgeQueue, frontend, received>>
  BY Zenon DEF Close
<1>2. ClientInv /\ OutputsInv
  BY DEF ServingInv
<1>3. /\ DOMAIN outputs' = DOMAIN outputs \ {r}
      /\ \A q \in DOMAIN outputs : q # r => outputs'[q] = outputs[q]
  BY <1>1 DEF Without, Restrict
<1>4. /\ DOMAIN events' \subseteq DOMAIN events
      /\ DOMAIN events \ {r} \subseteq DOMAIN events'
      /\ \A q \in DOMAIN events' : events'[q] = events[q]
  BY <1>1 DEF Without, Restrict
<1>5. /\ client' \in [Requests -> {"none", "reading", "ending", "closed", "gone"}]
      /\ client'[r] = "closed" /\ \A q \in Requests : q # r => client'[q] = client[q]
  BY <1>1, <1>2 DEF ClientInv
<1>6. r \in Over
  BY <1>1, <1>2 DEF OutputsInv
<1>7. CallerMoves(r) /\ r \notin DOMAIN outputs'
  BY <1>1, <1>3, <1>4, <1>5 DEF CallerMoves
<1>8. PlacesInv' /\ OutputsInv' /\ EventsInv' /\ ctxIssued' = ctxIssued
  BY <1>5, <1>6, <1>7, CallerEffect
<1>9. ClientInv'
  BY <1>1, <1>2, <1>3, <1>4, <1>5, <1>8 DEF ClientInv
<1> QED BY <1>8, <1>9 DEF ServingInv, PlacesInv

LEMMA LeaveKeeps ==
    ASSUME NEW r \in Requests PROVE ServingInv /\ Leave(r) => ServingInv'
<1> SUFFICES ASSUME ServingInv, Leave(r) PROVE ServingInv'
  OBVIOUS
<1>1. /\ client[r] \in {"reading", "ending"} /\ client' = [client EXCEPT ![r] = "gone"]
      /\ UNCHANGED <<vars, ctxVars, bridgeQueue, outputs, events, received>>
  BY DEF Leave, Abort, tables
<1>2. PlacesInv /\ ClientInv /\ OutputsInv
  BY DEF ServingInv, PlacesInv
<1>3. /\ client' \in [Requests -> {"none", "reading", "ending", "closed", "gone"}]
      /\ client'[r] = "gone" /\ \A q \in Requests : q # r => client'[q] = client[q]
  BY <1>1, <1>2 DEF ClientInv
<1>4. CallerMoves(r)
  BY <1>1, <1>3 DEF CallerMoves
<1>5. Unread(r)'
  <2>1. Over' = Over /\ Made(r)' = Made(r)
    BY <1>1, <1>2, SettledPlaces
  <2>2. Unread(r)
    BY <1>1, <1>2 DEF ClientInv, OutputsInv
  <2> QED BY <1>1, <2>1, <2>2 DEF Unread
<1>6. PlacesInv' /\ OutputsInv' /\ EventsInv' /\ ctxIssued' = ctxIssued
  BY <1>3, <1>4, <1>5, CallerEffect
<1>7. ClientInv'
  BY <1>1, <1>2, <1>3, <1>6 DEF ClientInv
<1> QED BY <1>6, <1>7 DEF ServingInv, PlacesInv

-----------------------------------------------------------------------------
LEMMA ServingInitInv == ServingInit => ServingInv
<1> SUFFICES ASSUME ServingInit PROVE ServingInv
  OBVIOUS
<1>1. PlacesInv
  BY PlacesInit
<1>2. /\ outputs = <<>> /\ events = <<>> /\ ctxIssued = {}
      /\ client = [r \in Requests |-> "none"] /\ received = [r \in Requests |-> 0]
  BY DEF ServingInit, Ctx!Init
<1>3. DOMAIN outputs = {} /\ DOMAIN events = {}
  BY <1>2
<1>4. ClientInv /\ OutputsInv /\ EventsInv
  BY <1>2, <1>3 DEF ClientInv, OutputsInv, EventsInv
<1> QED BY <1>1, <1>4 DEF ServingInv, PlacesInv

LEMMA ServingNextInv == ServingInv /\ [ServingNext]_servingVars => ServingInv'
BY ContextStepKeeps, ContextReturnKeeps, DecodingStepKeeps, DecodingReturnKeeps,
   MigrationBeginsKeeps, MigrationEndsKeeps, EnginesRestKeeps,
   GenerateKeeps, TakeKeeps, CloseKeeps, LeaveKeeps DEF ServingNext

LEMMA ServingInvariant == ServingSpec => []ServingInv
<1> QED BY ServingInitInv, ServingNextInv, PTL DEF ServingSpec

(* The callbacks of both engines find the tables of a request that is not  *)
(* over, whatever its caller did: only a caller that was given the last    *)
(* token removes them, and after the last token nobody calls back.         *)
THEOREM TablesFound == ServingSpec => []CallbacksFindTables
<1>1. ServingInv => CallbacksFindTables
  <2> SUFFICES ASSUME ServingInv, NEW r \in ctxIssued \ Over
               PROVE  r \in DOMAIN outputs \cap DOMAIN events
    BY DEF CallbacksFindTables
  <2>1. ClientInv /\ OutputsInv
    BY DEF ServingInv
  <2>2. r \in Requests /\ client[r] # "none" /\ client[r] # "closed"
    BY <2>1 DEF ClientInv, OutputsInv
  <2>3. client[r] \in {"reading", "ending", "gone"}
    BY <2>1, <2>2 DEF ClientInv
  <2> QED BY <2>1, <2>2, <2>3 DEF ClientInv
<1> QED BY <1>1, ServingInvariant, PTL

(* The K/V of a request that is not over is somewhere, and in both stages  *)
(* only while it is copied; the context stage keeps exactly the requests   *)
(* that the decoding stage will still take.                                *)
THEOREM KVHandover == ServingSpec => []KVHandedOver
<1>1. ServingInv => KVHandedOver
  <2> SUFFICES ASSUME ServingInv PROVE KVHandedOver
    OBVIOUS
  <2>1. CtxInv /\ StageInv /\ BridgeInv /\ PlacesInv
    BY DEF ServingInv, PlacesInv
  <2>2. LocationMatchesQueue /\ QueuesInv
    BY <2>1 DEF StageInv, Inv
  <2>3. ASSUME NEW r \in Returned \ Over
        PROVE  /\ r \in ctxHolding \/ mem.loc[r] # "none"
               /\ r \in ctxHolding /\ mem.loc[r] # "none" => r \in migrating
    <3>1. /\ r \in Requests /\ (r \in ctxUnaccepted \/ r \in ctxDone)
          /\ r \notin Pooled(ctxPipeline)
      BY <2>1 DEF CtxInv, Returned
    <3>2. CASE r \in ctxUnaccepted
      <4>1. r \in Members(bridgeQueue) \/ r \in Members(unaccepted) \/ r \in migrating
        BY <2>1, <3>2, TwoStages
      <4>2. r \in Accepted => r \in issued /\ r \notin Members(unaccepted)
        BY <2>2 DEF QueuesInv
      <4>3. mem.loc[r] # "none" => r \in Accepted
        <5>1. r \in Members(swapped) => r \in Accepted
          BY DEF Accepted
        <5> QED BY <2>2, <3>1, <5>1 DEF LocationMatchesQueue
      <4>4. mem.loc[r] # "none" => r \in migrating
        BY <2>1, <4>1, <4>2, <4>3, TwoStages
      <4> QED BY <2>1, <3>2, <4>4 DEF CtxInv
    <3>3. CASE r \in ctxDone
      <4>1. r \notin ctxUnaccepted /\ r \notin ctxHolding
        BY <2>1, <3>1, <3>3 DEF CtxInv
      <4>2. r \in issued /\ r \notin finished
        BY <3>3 DEF Over, EndedInContext
      <4>3. r \notin Members(unaccepted) /\ r \notin migrating
        BY <2>1, <4>1, TwoStages
      <4>4. r \in Accepted
        BY <2>1, <4>2, <4>3, DecodingPlaces DEF DecodingQueues, Accepted
      <4>5. mem.loc[r] # "none"
        BY <2>2, <3>1, <4>4 DEF LocationMatchesQueue
      <4> QED BY <4>1, <4>5
    <3> QED BY <3>1, <3>2, <3>3
  <2>4. ctxBridge = Members(bridgeQueue) \cup Members(unaccepted) \cup migrating
    BY <2>1 DEF BridgeInv
  <2> QED BY <2>3, <2>4 DEF KVHandedOver
<1> QED BY <1>1, ServingInvariant, PTL

(* The events of a request are a prefix of the documented lifetime, one    *)
(* that is complete for the stage that finished it when its caller is to   *)
(* pop them.                                                               *)
THEOREM LifetimesDocumented == ServingSpec => []LifetimeAsDocumented
<1>1. ServingInv => LifetimeAsDocumented
  <2> SUFFICES ASSUME ServingInv, NEW r \in DOMAIN events
               PROVE  /\ IsPrefix(events[r], Lifetime)
                      /\ client[r] = "ending" =>
                           Last(events[r]) \in {"context_end", "decoding_end"}
    BY DEF LifetimeAsDocumented
  <2>1. CtxInv /\ StageInv /\ PlacesInv /\ ClientInv /\ OutputsInv /\ EventsInv
    BY DEF ServingInv, PlacesInv
  <2>2. events[r] = SubSeq(Lifetime, 1, StageOf(r)) /\ r \in Requests
    BY <2>1, TableKeys DEF EventsInv
  <2>3. IsPrefix(events[r], Lifetime) /\ Last(events[r]) = Lifetime[StageOf(r)]
    BY <2>2, StageOfType, LifetimePrefix
  <2>4. ASSUME client[r] = "ending" PROVE StageOf(r) \in {3, 7}
    <3>1. r \in Over /\ r \in ctxDone
      BY <2>1, <2>2, <2>4, TwoStages DEF OutputsInv
    <3>2. r \notin Members(ctxWaiting) /\ r \notin Pooled(ctxPipeline)
      BY <2>1, <3>1 DEF CtxInv, Returned
    <3>3. r \in finished \/ r \notin issued
      BY <3>1 DEF Over, EndedInContext
    <3>4. CASE r \in finished
      BY <3>2, <3>4 DEF StageOf
    <3>5. CASE r \notin issued
      <4>1. r \notin DecodingQueues /\ r \notin finished
        BY <2>1, <3>5, DecodingPlaces
      <4> QED BY <3>2, <4>1 DEF StageOf, DecodingQueues
    <3> QED BY <3>3, <3>4, <3>5
  <2>5. Lifetime[3] = "context_end" /\ Lifetime[7] = "decoding_end"
    BY DEF Lifetime
  <2> QED BY <2>3, <2>4, <2>5
<1> QED BY <1>1, ServingInvariant, PTL

-----------------------------------------------------------------------------
(* The stream that a caller sees: the values that Serving gives to the     *)
(* variables of TokenStream                                                *)
StreamMade == [r \in Requests |-> IF r \in Returned THEN out[r] ELSE 0]
StreamCaller == [r \in Requests |->
    CASE client[r] = "none" -> "none"
      [] client[r] \in {"reading", "ending"} -> "reads"
      [] client[r] = "closed" -> "served"
      [] client[r] = "gone" -> "left"]

LEMMA StreamNames ==
    /\ \A batch : Stream!Produce(batch) <=>
         /\ \A r \in batch : StreamCaller[r] # "none" /\ r \notin Over
         /\ StreamMade' = [r \in Requests |->
              IF r \in batch THEN StreamMade[r] + 1 ELSE StreamMade[r]]
         /\ \E last \in SUBSET batch :
              /\ \A r \in batch : StreamMade'[r] >= MaxOutput[r] => r \in last
              /\ Over' = Over \cup last
         /\ UNCHANGED <<received, StreamCaller>>
    /\ \A r : Stream!Ask(r) <=>
         /\ StreamCaller[r] = "none"
         /\ StreamCaller' = [StreamCaller EXCEPT ![r] = "reads"]
         /\ UNCHANGED <<StreamMade, Over, received>>
    /\ \A r : Stream!Hand(r) <=>
         /\ StreamCaller[r] = "reads" /\ received[r] < StreamMade[r]
         /\ received' = [received EXCEPT ![r] = @ + 1]
         /\ UNCHANGED <<StreamMade, Over, StreamCaller>>
    /\ \A r : Stream!End(r) <=>
         /\ StreamCaller[r] = "reads" /\ r \in Over /\ received[r] = StreamMade[r]
         /\ StreamCaller' = [StreamCaller EXCEPT ![r] = "served"]
         /\ UNCHANGED <<StreamMade, Over, received>>
    /\ \A r : Stream!GiveUp(r) <=>
         /\ StreamCaller[r] = "reads"
         /\ StreamCaller' = [StreamCaller EXCEPT ![r] = "left"]
         /\ UNCHANGED <<StreamMade, Over, received>>
    /\ Stream!StreamInit <=>
         /\ StreamMade = [r \in Requests |-> 0] /\ Over = {}
         /\ received = [r \in Requests |-> 0]
         /\ StreamCaller = [r \in Requests |-> "none"]
    /\ Stream!streamVars' = Stream!streamVars <=>
         UNCHANGED <<StreamMade, Over, received, StreamCaller>>
<1>1. \A batch : Stream!Produce(batch) <=>
         /\ \A r \in batch : StreamCaller[r] # "none" /\ r \notin Over
         /\ StreamMade' = [r \in Requests |->
              IF r \in batch THEN StreamMade[r] + 1 ELSE StreamMade[r]]
         /\ \E last \in SUBSET batch :
              /\ \A r \in batch : StreamMade'[r] >= MaxOutput[r] => r \in last
              /\ Over' = Over \cup last
         /\ UNCHANGED <<received, StreamCaller>>
  BY Zenon DEF Stream!Produce, StreamMade, StreamCaller
<1>2. \A r : Stream!Ask(r) <=>
         /\ StreamCaller[r] = "none"
         /\ StreamCaller' = [StreamCaller EXCEPT ![r] = "reads"]
         /\ UNCHANGED <<StreamMade, Over, received>>
  BY Zenon DEF Stream!Ask, StreamMade, StreamCaller
<1>3. \A r : Stream!Hand(r) <=>
         /\ StreamCaller[r] = "reads" /\ received[r] < StreamMade[r]
         /\ received' = [received EXCEPT ![r] = @ + 1]
         /\ UNCHANGED <<StreamMade, Over, StreamCaller>>
  BY Zenon DEF Stream!Hand, StreamMade, StreamCaller
<1>4. \A r : Stream!End(r) <=>
         /\ StreamCaller[r] = "reads" /\ r \in Over /\ received[r] = StreamMade[r]
         /\ StreamCaller' = [StreamCaller EXCEPT ![r] = "served"]
         /\ UNCHANGED <<StreamMade, Over, received>>
  BY Zenon DEF Stream!End, StreamMade, StreamCaller
<1>5. \A r : Stream!GiveUp(r) <=>
         /\ StreamCaller[r] = "reads"
         /\ StreamCaller' = [StreamCaller EXCEPT ![r] = "left"]
         /\ UNCHANGED <<StreamMade, Over, received>>
  BY Zenon DEF Stream!GiveUp, StreamMade, StreamCaller
<1>6. Stream!StreamInit <=>
         /\ StreamMade = [r \in Requests |-> 0] /\ Over = {}
         /\ received = [r \in Requests |-> 0]
         /\ StreamCaller = [r \in Requests |-> "none"]
  BY Zenon DEF Stream!StreamInit, StreamMade, StreamCaller
<1>7. Stream!streamVars' = Stream!streamVars <=>
         UNCHANGED <<StreamMade, Over, received, StreamCaller>>
  BY Zenon DEF Stream!streamVars, StreamMade, StreamCaller
<1> QED BY <1>1, <1>2, <1>3, <1>4, <1>5, <1>6, <1>7

(* The values of the stream for one request *)
LEMMA StreamValues ==
    ASSUME ClientInv, NEW r \in Requests
    PROVE  /\ StreamMade[r] = Made(r)
           /\ client[r] = "none" <=> StreamCaller[r] = "none"
           /\ client[r] \in {"reading", "ending"} <=> StreamCaller[r] = "reads"
           /\ client[r] = "closed" <=> StreamCaller[r] = "served"
           /\ client[r] = "gone" <=> StreamCaller[r] = "left"
<1>1. StreamMade[r] = Made(r)
  BY DEF StreamMade, Made
<1>2. client[r] \in {"none", "reading", "ending", "closed", "gone"}
  BY DEF ClientInv
<1>3. StreamCaller[r] = CASE client[r] = "none" -> "none"
                          [] client[r] \in {"reading", "ending"} -> "reads"
                          [] client[r] = "closed" -> "served"
                          [] client[r] = "gone" -> "left"
  BY DEF StreamCaller
<1> QED BY <1>1, <1>2, <1>3

LEMMA StreamValuesNext ==
    ASSUME ClientInv', NEW r \in Requests
    PROVE  /\ StreamMade'[r] = Made(r)'
           /\ client'[r] = "none" <=> StreamCaller'[r] = "none"
           /\ client'[r] \in {"reading", "ending"} <=> StreamCaller'[r] = "reads"
           /\ client'[r] = "closed" <=> StreamCaller'[r] = "served"
           /\ client'[r] = "gone" <=> StreamCaller'[r] = "left"
<1>1. StreamMade'[r] = Made(r)'
  BY DEF StreamMade, Made
<1>2. client'[r] \in {"none", "reading", "ending", "closed", "gone"}
  BY DEF ClientInv
<1>3. StreamCaller'[r] = CASE client'[r] = "none" -> "none"
                           [] client'[r] \in {"reading", "ending"} -> "reads"
                           [] client'[r] = "closed" -> "served"
                           [] client'[r] = "gone" -> "left"
  BY DEF StreamCaller
<1> QED BY <1>1, <1>2, <1>3

LEMMA StreamMadeKept ==
    ASSUME \A r \in Requests : Made(r)' = Made(r) PROVE StreamMade' = StreamMade
<1>1. StreamMade = [r \in Requests |-> Made(r)] /\ StreamMade' = [r \in Requests |-> Made(r)']
  BY DEF StreamMade, Made
<1> HIDE DEF StreamMade
<1> QED BY <1>1

(* What a caller's state shows of it: the stream's view is the same        *)
(* function of the caller's state for every request.                       *)
CallerOf(c) == CASE c = "none" -> "none"
                 [] c \in {"reading", "ending"} -> "reads"
                 [] c = "closed" -> "served"
                 [] c = "gone" -> "left"

LEMMA StreamCallerByState ==
    /\ StreamCaller = [r \in Requests |-> CallerOf(client[r])]
    /\ StreamCaller' = [r \in Requests |-> CallerOf(client'[r])]
BY Zenon DEF StreamCaller, CallerOf

LEMMA StreamCallerSame ==
    ASSUME NEW q \in Requests, client'[q] = client[q]
    PROVE  StreamCaller'[q] = StreamCaller[q]
<1> HIDE DEF StreamCaller, CallerOf
<1>1. StreamCaller[q] = CallerOf(client[q]) /\ StreamCaller'[q] = CallerOf(client'[q])
  BY StreamCallerByState
<1> QED BY <1>1

LEMMA StreamCallerFunctions ==
    /\ StreamCaller' = [q \in Requests |-> StreamCaller'[q]]
    /\ StreamCaller = [q \in Requests |-> StreamCaller[q]]
<1> HIDE DEF StreamCaller, CallerOf
<1> DEFINE f == StreamCaller
           g == StreamCaller'
           F(q) == CallerOf(client[q])
           G(q) == CallerOf(client'[q])
<1>1. f = [q \in Requests |-> F(q)] /\ g = [q \in Requests |-> G(q)]
  BY StreamCallerByState
<1> HIDE DEF f, g, F, G
<1>2. f = [q \in Requests |-> f[q]] /\ g = [q \in Requests |-> g[q]]
  BY <1>1
<1> QED BY <1>2 DEF f, g

LEMMA StreamCallerKept ==
    ASSUME client' = client PROVE StreamCaller' = StreamCaller
BY DEF StreamCaller

LEMMA StreamCallerChanged ==
    ASSUME ClientInv, NEW r \in Requests, NEW c, NEW v,
           client' = [client EXCEPT ![r] = c], ClientInv',
           StreamCaller'[r] = v
    PROVE  StreamCaller' = [StreamCaller EXCEPT ![r] = v]
<1>1. \A q \in Requests : q # r => client'[q] = client[q]
  BY DEF ClientInv
<1>2. \A q \in Requests : q # r => StreamCaller'[q] = StreamCaller[q]
  BY <1>1, StreamCallerSame
<1>3. /\ StreamCaller' = [q \in Requests |-> StreamCaller'[q]]
      /\ StreamCaller = [q \in Requests |-> StreamCaller[q]]
  BY StreamCallerFunctions
<1> HIDE DEF StreamCaller
<1> DEFINE f == StreamCaller
           g == StreamCaller'
<1>4. /\ f = [q \in Requests |-> f[q]] /\ g = [q \in Requests |-> g[q]]
      /\ \A q \in Requests : q # r => g[q] = f[q]
      /\ g[r] = v
  BY <1>2, <1>3
<1> HIDE DEF f, g
<1>5. g = [f EXCEPT ![r] = v]
  BY <1>4
<1> QED BY <1>5 DEF f, g

(* The steps that make no token and are seen by no caller *)
LEMMA UnseenStep ==
    ASSUME Over' = Over, \A r \in Requests : Made(r)' = Made(r),
           UNCHANGED <<received, client>>
    PROVE  UNCHANGED Stream!streamVars
BY StreamMadeKept, StreamCallerKept, StreamNames

(* A batch of either stage makes a token for each of its requests. *)
LEMMA ProduceStep ==
    ASSUME ServingInv, UNCHANGED <<received, client>>,
           NEW S, NEW F, S \subseteq ctxIssued, F \subseteq S,
           S \cap Over = {}, Over' = Over \cup F,
           \A r \in Requests :
             /\ Made(r)' = IF r \in S THEN Made(r) + 1 ELSE Made(r)
             /\ r \in S => (Made(r)' >= MaxOutput[r] => r \in F)
    PROVE  Stream!StreamNext
<1>1. ClientInv
  BY DEF ServingInv
<1>2. S \subseteq Requests /\ \A r \in S : client[r] # "none"
  BY <1>1 DEF ClientInv
<1>3. \A r \in S : StreamCaller[r] # "none" /\ r \notin Over
  BY <1>1, <1>2, StreamValues
<1>4. /\ \A r \in Requests : StreamMade[r] = Made(r)
      /\ \A r \in Requests : StreamMade'[r] = Made(r)'
      /\ StreamMade' = [r \in Requests |-> Made(r)']
  BY <1>1, StreamValues DEF StreamMade, Made
<1>5. StreamMade' = [r \in Requests |->
         IF r \in S THEN StreamMade[r] + 1 ELSE StreamMade[r]]
  BY <1>4
<1>6. \A r \in S : StreamMade'[r] >= MaxOutput[r] => r \in F
  BY <1>2, <1>4
<1>7. UNCHANGED <<received, StreamCaller>>
  BY StreamCallerKept
<1>8. Stream!Produce(S)
  BY <1>3, <1>5, <1>6, <1>7, StreamNames
<1> QED BY <1>2, <1>8 DEF Stream!StreamNext

LEMMA ContextReturnProduces ==
    ASSUME ServingInv, ContextReturn PROVE Stream!StreamNext
<1> DEFINE S == Head(ctxPipeline)
           F == S \cap ctxDone'
<1>1. PlacesInv /\ UNCHANGED <<received, client>>
  BY DEF ServingInv, PlacesInv, ContextReturn, callers
<1>2. /\ S \subseteq ctxIssued /\ S \cap Over = {} /\ Over' = Over \cup F
      /\ \A r \in Requests :
           /\ r \in S => Made(r) = 0
           /\ Made(r)' = IF r \in S THEN Made(r) + 1 ELSE Made(r)
  BY <1>1, ContextReturnPlaces
<1>3. \A r \in Requests : MaxOutput[r] \in Nat \ {0, 1}
  BY DecodeFCFSAssumption
<1> HIDE DEF S
<1>4. \A r \in Requests : r \in S => ~(Made(r)' >= MaxOutput[r])
  BY <1>2, <1>3
<1>5. F \subseteq S
  OBVIOUS
<1> HIDE DEF F
<1> QED BY <1>1, <1>2, <1>4, <1>5, ProduceStep

LEMMA DecodingReturnProduces ==
    ASSUME ServingInv, DecodingReturn PROVE Stream!StreamNext
<1> DEFINE S == Members(batches[pipeline[1].batch])
           F == S \cap finished'
<1>1. PlacesInv /\ Return /\ UNCHANGED <<ctxVars, bridgeQueue, received, client>>
  BY DEF ServingInv, PlacesInv, DecodingReturn, callers
<1>2. /\ S \subseteq ctxIssued /\ S \cap Over = {} /\ Over' = Over \cup F
      /\ \A r \in Requests :
           /\ out'[r] = IF r \in S THEN out[r] + 1 ELSE out[r]
           /\ r \in S => Made(r) = out[r] /\ (out'[r] >= MaxOutput[r] => r \in F)
           /\ Made(r)' = IF r \in S THEN Made(r) + 1 ELSE Made(r)
  BY <1>1, DecodingReturnPlaces
<1> HIDE DEF S
<1>3. \A r \in Requests : r \in S => (Made(r)' >= MaxOutput[r] => r \in F)
  BY <1>2
<1>4. F \subseteq S
  OBVIOUS
<1> HIDE DEF F
<1> QED BY <1>1, <1>2, <1>3, <1>4, ProduceStep

LEMMA CallerSteps ==
    ASSUME ServingInv, ServingInv', NEW r \in Requests,
           Generate(r) \/ Take(r) \/ Close(r) \/ Leave(r)
    PROVE  Stream!StreamNext
<1>1. PlacesInv /\ ClientInv /\ OutputsInv /\ ClientInv'
  BY DEF ServingInv, PlacesInv
<1>2. CASE Generate(r)
  <2>1. /\ client[r] = "none" /\ client' = [client EXCEPT ![r] = "reading"]
        /\ Ctx!AddRequest(r) /\ UNCHANGED <<vars, bridgeQueue, received>>
    BY <1>2 DEF Generate
  <2>2. Over' = Over /\ \A q \in Requests : Made(q)' = Made(q)
    BY <1>1, <2>1, GeneratePlaces
  <2>3. client'[r] = "reading"
    BY <1>1, <2>1 DEF ClientInv
  <2>4. StreamCaller[r] = "none" /\ StreamCaller'[r] = "reads"
    BY <1>1, <2>1, <2>3, StreamValues, StreamValuesNext
  <2>5. StreamCaller' = [StreamCaller EXCEPT ![r] = "reads"]
    BY <1>1, <2>1, <2>4, StreamCallerChanged
  <2>6. StreamMade' = StreamMade
    BY <2>2, StreamMadeKept
  <2>7. Stream!Ask(r)
    BY <2>1, <2>2, <2>4, <2>5, <2>6, StreamNames
  <2> QED BY <2>7 DEF Stream!StreamNext
<1>3. CASE Take(r)
  <2>1. /\ CallerMoves(r) /\ received' = [received EXCEPT ![r] = @ + 1]
        /\ client[r] = "reading" /\ received[r] < Made(r)
        /\ client'[r] \in {"reading", "ending"}
    BY <1>3, TakeEffect
  <2>2. Over' = Over /\ \A q \in Requests : Made(q)' = Made(q)
    BY <1>1, <2>1, SettledPlaces DEF CallerMoves
  <2>3. /\ StreamCaller[r] = "reads" /\ StreamCaller'[r] = "reads" /\ StreamMade[r] = Made(r)
    BY <1>1, <2>1, StreamValues, StreamValuesNext
  <2>4. StreamMade' = StreamMade
    BY <2>2, StreamMadeKept
  <2>5. StreamCaller' = StreamCaller
    <3>1. \A q \in Requests : q # r => client'[q] = client[q]
      BY <2>1 DEF CallerMoves
    <3>2. \A q \in Requests : q # r => StreamCaller'[q] = StreamCaller[q]
      BY <3>1, StreamCallerSame
    <3>3. \A q \in Requests : StreamCaller'[q] = StreamCaller[q]
      BY <2>3, <3>2
    <3>4. /\ StreamCaller' = [q \in Requests |-> StreamCaller'[q]]
          /\ StreamCaller = [q \in Requests |-> StreamCaller[q]]
      BY StreamCallerFunctions
    <3> QED BY <3>3, <3>4
  <2>6. Stream!Hand(r)
    <3>1. StreamCaller[r] = "reads" /\ received[r] < StreamMade[r]
      BY <2>1, <2>3
    <3>2. received' = [received EXCEPT ![r] = @ + 1]
      BY <2>1
    <3>3. UNCHANGED <<StreamMade, Over, StreamCaller>>
      BY <2>2, <2>4, <2>5
    <3> QED BY Zenon, <3>1, <3>2, <3>3, StreamNames
  <2> QED BY <2>6 DEF Stream!StreamNext
<1>4. CASE Close(r)
  <2>1. /\ client[r] = "ending" /\ client' = [client EXCEPT ![r] = "closed"]
        /\ UNCHANGED <<vars, ctxVars, bridgeQueue, received>>
    BY <1>4 DEF Close
  <2>2. Over' = Over /\ \A q \in Requests : Made(q)' = Made(q)
    BY <1>1, <2>1, SettledPlaces
  <2>3. client'[r] = "closed" /\ r \in Over /\ received[r] = Made(r)
    BY <1>1, <2>1 DEF ClientInv, OutputsInv
  <2>4. /\ StreamCaller[r] = "reads" /\ StreamCaller'[r] = "served"
        /\ StreamMade[r] = Made(r)
    BY <1>1, <2>1, <2>3, StreamValues, StreamValuesNext
  <2>5. StreamCaller' = [StreamCaller EXCEPT ![r] = "served"]
    BY <1>1, <2>1, <2>4, StreamCallerChanged
  <2>6. StreamMade' = StreamMade
    BY <2>2, StreamMadeKept
  <2>7. Stream!End(r)
    BY <2>1, <2>2, <2>3, <2>4, <2>5, <2>6, StreamNames
  <2> QED BY <2>7 DEF Stream!StreamNext
<1>5. CASE Leave(r)
  <2>1. /\ client[r] \in {"reading", "ending"} /\ client' = [client EXCEPT ![r] = "gone"]
        /\ UNCHANGED <<vars, ctxVars, bridgeQueue, received>>
    BY <1>5 DEF Leave, Abort
  <2>2. Over' = Over /\ \A q \in Requests : Made(q)' = Made(q)
    BY <1>1, <2>1, SettledPlaces
  <2>3. client'[r] = "gone"
    BY <1>1, <2>1 DEF ClientInv
  <2>4. StreamCaller[r] = "reads" /\ StreamCaller'[r] = "left"
    BY <1>1, <2>1, <2>3, StreamValues, StreamValuesNext
  <2>5. StreamCaller' = [StreamCaller EXCEPT ![r] = "left"]
    BY <1>1, <2>1, <2>4, StreamCallerChanged
  <2>6. StreamMade' = StreamMade
    BY <2>2, StreamMadeKept
  <2>7. Stream!GiveUp(r)
    BY <2>1, <2>2, <2>4, <2>5, <2>6, StreamNames
  <2> QED BY <2>7 DEF Stream!StreamNext
<1> QED BY <1>2, <1>3, <1>4, <1>5

LEMMA EngineStepsUnseen ==
    ASSUME ServingInv,
           \/ ContextStep \/ Accept \/ DecodingStep \/ DecodingFails
           \/ MigrationBegins \/ MigrationEnds \/ PostProcessEnds
           \/ OfflineReturns \/ UNCHANGED servingVars
    PROVE  UNCHANGED Stream!streamVars
<1>1. PlacesInv
  BY DEF ServingInv, PlacesInv
<1>2. UNCHANGED <<received, client>>
  BY DEF ContextStep, Accept, DecodingStep, DecodingFails, MigrationBegins,
         MigrationEnds, PostProcessEnds, OfflineReturns, servingVars, callers
<1>3. Over' = Over /\ \A r \in Requests : Made(r)' = Made(r)
  <2>1. CASE ContextStep
    <3>1. Ctx!Step /\ UNCHANGED <<vars, bridgeQueue>>
      BY <2>1 DEF ContextStep
    <3> QED BY <1>1, <3>1, ContextStepPlaces
  <2>2. CASE Accept
    BY <1>1, <2>2, AcceptPlaces
  <2>3. CASE DecodingStep
    <3>1. Step /\ UNCHANGED <<ctxVars, bridgeQueue>>
      BY <2>3 DEF DecodingStep
    <3> QED BY <1>1, <3>1, DecodingStepPlaces
  <2>4. CASE DecodingFails \/ PostProcessEnds
    <3>1. (StepRaises \/ EndPostProcess) /\ UNCHANGED <<ctxVars, bridgeQueue>>
      BY <2>4 DEF DecodingFails, PostProcessEnds
    <3> QED BY <1>1, <3>1, DecodingRestsPlaces
  <2>5. CASE MigrationBegins
    <3>1. BeginMigration /\ UNCHANGED <<ctxVars, bridgeQueue>>
      BY <2>5 DEF MigrationBegins
    <3> QED BY <1>1, <3>1, MigrationBeginsPlaces
  <2>6. CASE MigrationEnds
    BY <1>1, <2>6, MigrationEndsPlaces
  <2>7. CASE OfflineReturns \/ UNCHANGED servingVars
    <3>1. UNCHANGED <<vars, ctxVars, bridgeQueue>>
      BY <2>7 DEF OfflineReturns, servingVars
    <3> QED BY <1>1, <3>1, SettledPlaces
  <2> QED BY <2>1, <2>2, <2>3, <2>4, <2>5, <2>6, <2>7
<1> QED BY <1>2, <1>3, UnseenStep

(* Whatever the two stages do with a request - batches, migration, swaps - *)
(* its caller sees the stream of TokenStream: every token once, in order,  *)
(* and the end after the last.                                             *)
THEOREM StreamImplemented == ServingSpec => ImplementsTokenStream
<1>1. ServingInit => Stream!StreamInit
  <2> SUFFICES ASSUME ServingInit PROVE Stream!StreamInit
    OBVIOUS
  <2>1. /\ client = [r \in Requests |-> "none"] /\ received = [r \in Requests |-> 0]
        /\ ctxUnaccepted = {} /\ ctxDone = {} /\ finished = {}
    BY DEF ServingInit, Ctx!Init, Init
  <2>2. Returned = {} /\ Over = {}
    BY <2>1 DEF Returned, Over, EndedInContext
  <2>3. StreamMade = [r \in Requests |-> 0]
    BY <2>2 DEF StreamMade
  <2>4. StreamCaller = [r \in Requests |-> "none"]
    BY <2>1 DEF StreamCaller
  <2> QED BY <2>1, <2>2, <2>3, <2>4, StreamNames
<1>2. ASSUME ServingInv, ServingInv', [ServingNext]_servingVars
      PROVE  [Stream!StreamNext]_(Stream!streamVars)
  <2>1. CASE ContextReturn
    BY <1>2, <2>1, ContextReturnProduces
  <2>2. CASE DecodingReturn
    BY <1>2, <2>2, DecodingReturnProduces
  <2>3. ASSUME NEW r \in Requests, Generate(r) \/ Take(r) \/ Close(r) \/ Leave(r)
        PROVE  [Stream!StreamNext]_(Stream!streamVars)
    BY <1>2, <2>3, CallerSteps
  <2>4. CASE \/ ContextStep \/ Accept \/ DecodingStep \/ DecodingFails
             \/ MigrationBegins \/ MigrationEnds \/ PostProcessEnds
             \/ OfflineReturns \/ UNCHANGED servingVars
    BY <1>2, <2>4, EngineStepsUnseen
  <2> QED BY <1>2, <2>1, <2>2, <2>3, <2>4 DEF ServingNext
<1> QED BY <1>1, <1>2, ServingInvariant, PTL DEF ServingSpec, ImplementsTokenStream, Stream!StreamSpec

=============================================================================
