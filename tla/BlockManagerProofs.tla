------------------------- MODULE BlockManagerProofs -------------------------
(***************************************************************************)
(* For every set of requests, every number of blocks and every block size: *)
(* the lists and the block tables partition each device, and an operation  *)
(* never loses a request's K/V blocks.                                     *)
(*                                                                         *)
(* The inductive invariant is the type invariant and the partition.  Most  *)
(* of the work is in two lemmas about the shape of the operations: what    *)
(* _get_free_blocks takes out of the lists (GetFreeBlocksTakes), and that  *)
(* handing blocks to one request keeps the partition (one lemma per        *)
(* action).  The last part is about the manager with the worker that does  *)
(* its copying, SwapSync.                                                  *)
(***************************************************************************)
EXTENDS SwapSync, CommonLemmas

Inv == TypeOK /\ BlocksPartitioned

(* Owned(d) element by element. *)
LEMMA OwnedElements ==
    ASSUME NEW d, NEW x
    PROVE  x \in Owned(d) <=>
             \E r \in Requests : location[r] = d /\ x \in block_table[r]
BY DEF Owned, Residents

LEMMA OwnedElementsNext ==
    ASSUME NEW d, NEW x
    PROVE  x \in Owned(d)' <=>
             \E r \in Requests : location'[r] = d /\ x \in block_table'[r]
BY DEF Owned, Residents

(* _get_free_blocks splits what was free or swapping into the blocks it    *)
(* returns and the two lists it leaves, without overlap and without loss.  *)
LEMMA GetFreeBlocksTakes ==
    ASSUME NEW d \in Devices, NEW n, NEW B, GetFreeBlocks(n, d, B),
           free[d] \cap swapping[d] = {}
    PROVE  /\ B \subseteq free[d] \cup swapping[d]
           /\ FreeAfterGet(n, d, B) \cup SwappingAfterGet(n, d)
                = (free[d] \cup swapping[d]) \ B
           /\ FreeAfterGet(n, d, B) \cap SwappingAfterGet(n, d) = {}
BY DEF GetFreeBlocks, FreeAfterGet, SwappingAfterGet

LEMMA InitInv == Init => Inv
<1>1. SUFFICES ASSUME Init PROVE Inv
  OBVIOUS
<1>2. TypeOK
  BY <1>1 DEF Init, TypeOK, BlocksOf, Devices
<1>3. \A d \in Devices : Owned(d) = {}
  BY <1>1 DEF Init, Owned, Residents, Devices
<1>4. BlocksPartitioned
  BY <1>1, <1>3 DEF Init, BlocksPartitioned, NoDoubleOwner, NoLeak,
                    TableMatchesLocation
<1> QED BY <1>2, <1>4 DEF Inv

-----------------------------------------------------------------------------
(* allocate_blocks of a new request keeps the invariant. *)
LEMMA AllocateNewInv ==
    ASSUME Inv, NEW r \in Requests, AllocateNew(r)
    PROVE  Inv'
<1> USE DEF Devices, Inv, BlocksPartitioned
<1>1. PICK B \in Candidates("gpu") :
        LET n == NumBlocksNeeded(r) IN
        /\ GetFreeBlocks(n, "gpu", B)
        /\ free' = [free EXCEPT !["gpu"] = FreeAfterGet(n, "gpu", B)]
        /\ swapping' = [swapping EXCEPT !["gpu"] = SwappingAfterGet(n, "gpu")]
        /\ block_table' = [block_table EXCEPT ![r] = B]
  BY DEF AllocateNew
<1>2. /\ B \subseteq free["gpu"] \cup swapping["gpu"]
      /\ free'["gpu"] \cup swapping'["gpu"] = (free["gpu"] \cup swapping["gpu"]) \ B
      /\ free'["gpu"] \cap swapping'["gpu"] = {}
  BY <1>1, GetFreeBlocksTakes DEF TypeOK, NoDoubleOwner
<1>3. free'["cpu"] = free["cpu"] /\ swapping'["cpu"] = swapping["cpu"]
  BY <1>1 DEF TypeOK
<1>4. /\ location[r] = "none"
      /\ location' = [location EXCEPT ![r] = "gpu"]
      /\ tokens' = tokens
  BY DEF AllocateNew
<1>5. TypeOK'
  <2>1. free' \in [Devices -> SUBSET (GpuBlocks \cup CpuBlocks)]
    BY <1>1, <1>2 DEF TypeOK
  <2>2. swapping' \in [Devices -> SUBSET (GpuBlocks \cup CpuBlocks)]
    BY <1>1, <1>2 DEF TypeOK
  <2>3. block_table' \in [Requests -> SUBSET (GpuBlocks \cup CpuBlocks)]
    BY <1>1, <1>2 DEF TypeOK
  <2> QED BY <2>1, <2>2, <2>3, <1>4 DEF TypeOK
<1>6. Owned("gpu")' = Owned("gpu") \cup B
  BY <1>1, <1>4 DEF Owned, Residents, TypeOK
<1>7. Owned("cpu")' = Owned("cpu")
  BY <1>1, <1>4 DEF Owned, Residents, TypeOK
<1>8. NoDoubleOwner'
  BY <1>1, <1>2, <1>3, <1>4, <1>6, <1>7, OwnedElements DEF NoDoubleOwner, TypeOK
<1>9. NoLeak'
  BY <1>2, <1>3, <1>6, <1>7 DEF NoLeak
<1>10. TableMatchesLocation'
  BY <1>1, <1>4 DEF TableMatchesLocation, TypeOK
<1> QED BY <1>5, <1>8, <1>9, <1>10

(* allocate_blocks of a request that has outgrown its blocks. *)
LEMMA AllocateAppendInv ==
    ASSUME Inv, NEW r \in Requests, AllocateAppend(r)
    PROVE  Inv'
<1> USE DEF Devices, Inv, BlocksPartitioned
<1>1. PICK B \in Candidates("gpu") :
        LET n == NumAppendBlocksNeeded(r) IN
        /\ GetFreeBlocks(n, "gpu", B)
        /\ free' = [free EXCEPT !["gpu"] = FreeAfterGet(n, "gpu", B)]
        /\ swapping' = [swapping EXCEPT !["gpu"] = SwappingAfterGet(n, "gpu")]
        /\ block_table' = [block_table EXCEPT ![r] = @ \cup B]
  BY DEF AllocateAppend
<1>2. /\ B \subseteq free["gpu"] \cup swapping["gpu"]
      /\ free'["gpu"] \cup swapping'["gpu"] = (free["gpu"] \cup swapping["gpu"]) \ B
      /\ free'["gpu"] \cap swapping'["gpu"] = {}
  BY <1>1, GetFreeBlocksTakes DEF TypeOK, NoDoubleOwner
<1>3. free'["cpu"] = free["cpu"] /\ swapping'["cpu"] = swapping["cpu"]
  BY <1>1 DEF TypeOK
<1>4. location[r] = "gpu" /\ location' = location /\ tokens' = tokens
  BY DEF AllocateAppend
<1>5. TypeOK'
  <2>1. free' \in [Devices -> SUBSET (GpuBlocks \cup CpuBlocks)]
    BY <1>1, <1>2 DEF TypeOK
  <2>2. swapping' \in [Devices -> SUBSET (GpuBlocks \cup CpuBlocks)]
    BY <1>1, <1>2 DEF TypeOK
  <2>3. block_table' \in [Requests -> SUBSET (GpuBlocks \cup CpuBlocks)]
    BY <1>1, <1>2 DEF TypeOK
  <2> QED BY <2>1, <2>2, <2>3, <1>4 DEF TypeOK
<1>6. Owned("gpu")' = Owned("gpu") \cup B
  BY <1>1, <1>4 DEF Owned, Residents, TypeOK
<1>7. Owned("cpu")' = Owned("cpu")
  BY <1>1, <1>4 DEF Owned, Residents, TypeOK
<1>8. NoDoubleOwner'
  BY <1>1, <1>2, <1>3, <1>4, <1>6, <1>7, OwnedElements DEF NoDoubleOwner, TypeOK
<1>9. NoLeak'
  BY <1>2, <1>3, <1>6, <1>7 DEF NoLeak
<1>10. TableMatchesLocation'
  BY <1>1, <1>4 DEF TableMatchesLocation, TypeOK
<1> QED BY <1>5, <1>8, <1>9, <1>10

(* free_blocks. *)
LEMMA FreeBlocksInv ==
    ASSUME Inv, NEW r \in Requests, FreeBlocks(r)
    PROVE  Inv'
<1> USE DEF Devices, Inv, BlocksPartitioned
<1> DEFINE d == location[r]
<1>1. /\ d \in Devices
      /\ free' = [free EXCEPT ![d] = @ \cup block_table[r]]
      /\ block_table' = [block_table EXCEPT ![r] = {}]
      /\ location' = [location EXCEPT ![r] = "none"]
      /\ swapping' = swapping /\ tokens' = tokens
  BY DEF FreeBlocks
<1> HIDE DEF d
<1>2. block_table[r] \subseteq Owned(d)
  BY DEF Owned, Residents, d
<1>3. TypeOK'
  BY <1>1 DEF TypeOK
<1>4. ASSUME NEW e \in Devices
      PROVE  Owned(e)' = Owned(e) \ (IF e = d THEN block_table[r] ELSE {})
  <2>1. CASE e = d
    <3>1. \A x : x \in Owned(e)' => x \in Owned(e) \ block_table[r]
      BY <1>1, <2>1, OwnedElements, OwnedElementsNext DEF NoDoubleOwner, TypeOK, d
    <3>2. \A x : x \in Owned(e) \ block_table[r] => x \in Owned(e)'
      BY <1>1, <2>1, OwnedElements, OwnedElementsNext DEF TypeOK
    <3> QED BY <2>1, <3>1, <3>2
  <2>2. CASE e # d
    BY <1>1, <2>2 DEF Owned, Residents, TypeOK, d
  <2> QED BY <2>1, <2>2
<1>5. NoDoubleOwner'
  BY <1>1, <1>2, <1>4 DEF NoDoubleOwner, TypeOK
<1>6. NoLeak'
  BY <1>1, <1>2, <1>4 DEF NoLeak, TypeOK
<1>7. TableMatchesLocation'
  BY <1>1 DEF TableMatchesLocation, TypeOK
<1> QED BY <1>3, <1>5, <1>6, <1>7

(* swap_requests, in either direction. *)
LEMMA SwapRequestInv ==
    ASSUME Inv, NEW r \in Requests, NEW d \in Devices, SwapRequest(r, d)
    PROVE  Inv'
<1> USE DEF Devices, Inv, BlocksPartitioned
<1> DEFINE e == Other(d)
           n == Cardinality(block_table[r])
<1>0. e \in Devices /\ e # d /\ \A c \in Devices : c = d \/ c = e
  BY DEF Other
<1>1. PICK B \in Candidates(e) :
        /\ GetFreeBlocks(n, e, B)
        /\ free' = [free EXCEPT ![e] = FreeAfterGet(n, e, B)]
        /\ swapping' = [swapping EXCEPT ![e] = SwappingAfterGet(n, e),
                                       ![d] = @ \cup block_table[r]]
        /\ block_table' = [block_table EXCEPT ![r] = B]
  BY DEF SwapRequest
<1>4. /\ location[r] = d
      /\ location' = [location EXCEPT ![r] = e]
      /\ tokens' = tokens
  BY DEF SwapRequest
<1> HIDE DEF e, n
<1>2. /\ B \subseteq free[e] \cup swapping[e]
      /\ free'[e] \cup swapping'[e] = (free[e] \cup swapping[e]) \ B
      /\ free'[e] \cap swapping'[e] = {}
  BY <1>0, <1>1, GetFreeBlocksTakes DEF TypeOK, NoDoubleOwner
<1>3. free'[d] = free[d] /\ swapping'[d] = swapping[d] \cup block_table[r]
  BY <1>0, <1>1 DEF TypeOK
<1>11. block_table[r] \subseteq Owned(d)
  BY <1>4 DEF Owned, Residents
<1>5. TypeOK'
  <2>1. free' \in [Devices -> SUBSET (GpuBlocks \cup CpuBlocks)]
    BY <1>0, <1>1, <1>2 DEF TypeOK
  <2>2. swapping' \in [Devices -> SUBSET (GpuBlocks \cup CpuBlocks)]
    BY <1>0, <1>1, <1>2, <1>3 DEF TypeOK
  <2>3. block_table' \in [Requests -> SUBSET (GpuBlocks \cup CpuBlocks)]
    BY <1>0, <1>1, <1>2 DEF TypeOK
  <2> QED BY <2>1, <2>2, <2>3, <1>0, <1>4 DEF TypeOK
<1>6. Owned(e)' = Owned(e) \cup B
  <2>1. \A x : x \in Owned(e)' => x \in Owned(e) \cup B
    BY <1>0, <1>1, <1>4, OwnedElements, OwnedElementsNext DEF TypeOK
  <2>2. \A x : x \in Owned(e) \cup B => x \in Owned(e)'
    BY <1>0, <1>1, <1>4, OwnedElements, OwnedElementsNext DEF TypeOK
  <2> QED BY <2>1, <2>2
<1>7. Owned(d)' = Owned(d) \ block_table[r]
  <2>1. \A x : x \in Owned(d)' => x \in Owned(d) \ block_table[r]
    BY <1>0, <1>1, <1>4, OwnedElements, OwnedElementsNext DEF TypeOK, NoDoubleOwner
  <2>2. \A x : x \in Owned(d) \ block_table[r] => x \in Owned(d)'
    BY <1>0, <1>1, <1>4, OwnedElements, OwnedElementsNext DEF TypeOK
  <2> QED BY <2>1, <2>2
<1>8. NoDoubleOwner'
  <2>1. \A c \in Devices : /\ free'[c] \cap swapping'[c] = {}
                           /\ Owned(c)' \cap (free'[c] \cup swapping'[c]) = {}
    BY <1>0, <1>2, <1>3, <1>6, <1>7, <1>11 DEF NoDoubleOwner
  <2>2. ASSUME NEW q \in Requests, NEW s \in Requests,
               q # s, location'[q] = location'[s]
        PROVE  block_table'[q] \cap block_table'[s] = {}
    <3>1. ASSUME NEW t \in Requests, t # r, location[t] = e
          PROVE  block_table[t] \cap B = {}
      BY <1>0, <1>2, <3>1, OwnedElements DEF NoDoubleOwner
    <3>2. CASE q # r /\ s # r
      BY <2>2, <3>2, <1>1, <1>4 DEF NoDoubleOwner, TypeOK
    <3>3. CASE q = r
      BY <2>2, <3>1, <3>3, <1>1, <1>4 DEF TypeOK
    <3>4. CASE s = r
      BY <2>2, <3>1, <3>4, <1>1, <1>4 DEF TypeOK
    <3> QED BY <3>2, <3>3, <3>4
  <2> QED BY <2>1, <2>2 DEF NoDoubleOwner
<1>9. NoLeak'
  BY <1>0, <1>2, <1>3, <1>6, <1>7, <1>11 DEF NoLeak
<1>10. TableMatchesLocation'
  BY <1>0, <1>1, <1>4 DEF TableMatchesLocation, TypeOK
<1> QED BY <1>5, <1>8, <1>9, <1>10

LEMMA NextInv ==
    ASSUME Inv, [Next]_vars
    PROVE  Inv'
<1>1. CASE UNCHANGED vars
  BY <1>1 DEF vars, Inv, TypeOK, BlocksPartitioned, NoDoubleOwner, NoLeak,
              TableMatchesLocation, Owned, Residents
<1>2. CASE Next
  <2>1. PICK r \in Requests :
          \/ AllocateNew(r) \/ AllocateAppend(r) \/ FreeBlocks(r)
          \/ SwapOut(r) \/ SwapIn(r) \/ Generate(r)
    BY <1>2 DEF Next
  <2>2. CASE AllocateNew(r)
    BY <2>2, AllocateNewInv
  <2>3. CASE AllocateAppend(r)
    BY <2>3, AllocateAppendInv
  <2>4. CASE FreeBlocks(r)
    BY <2>4, FreeBlocksInv
  <2>5. CASE SwapOut(r)
    BY <2>5, SwapRequestInv DEF SwapOut, Devices
  <2>6. CASE SwapIn(r)
    BY <2>6, SwapRequestInv DEF SwapIn, Devices
  <2>7. CASE Generate(r)
    BY <2>7, BlockManagerAssumption
       DEF Generate, Inv, TypeOK, BlocksPartitioned, NoDoubleOwner, NoLeak,
           TableMatchesLocation, Owned, Residents
  <2> QED BY <2>1, <2>2, <2>3, <2>4, <2>5, <2>6, <2>7
<1> QED BY <1>1, <1>2

LEMMA InvAlways == Spec => []Inv
BY InitInv, NextInv, PTL DEF Spec

(* Every reachable state has the types of TypeOK. *)
THEOREM TypeCorrect == Spec => []TypeOK
BY InvAlways, PTL DEF Inv

(* However allocate_blocks, free_blocks and swap_requests are called, no   *)
(* block has two owners, none leaks, and a freed request keeps none.       *)
THEOREM PartitionCorrect == Spec => []BlocksPartitioned
BY InvAlways, PTL DEF Inv

-----------------------------------------------------------------------------
(* The lists and the blocks owned are three disjoint parts of the device,  *)
(* so their cardinalities add up: what get_num_avail_gpu_blocks and        *)
(* get_num_avail_cpu_blocks return is what is not owned.                   *)
LEMMA PartitionCounts ==
    ASSUME Inv, NEW d \in Devices
    PROVE  NumAvail(d) = Cardinality(BlocksOf(d)) - Cardinality(Owned(d))
<1>1. IsFiniteSet(BlocksOf(d))
  BY BlockManagerAssumption DEF BlocksOf
<1>2. /\ free[d] \cap swapping[d] = {}
      /\ Owned(d) \cap (free[d] \cup swapping[d]) = {}
      /\ free[d] \cup swapping[d] \cup Owned(d) = BlocksOf(d)
  BY DEF Inv, BlocksPartitioned, NoDoubleOwner, NoLeak
<1>3. /\ IsFiniteSet(free[d])
      /\ IsFiniteSet(swapping[d])
      /\ IsFiniteSet(Owned(d))
  BY <1>1, <1>2, FS_Subset
<1>4. Cardinality(free[d] \cup swapping[d]) = NumAvail(d)
  <2>1. Cardinality(free[d] \cap swapping[d]) = 0
    BY <1>2, FS_EmptySet
  <2> QED BY <1>3, <2>1, FS_Union, FS_CardinalityType DEF NumAvail
<1>5. Cardinality(BlocksOf(d)) = NumAvail(d) + Cardinality(Owned(d))
  <2> DEFINE A == free[d] \cup swapping[d]
  <2>1. Cardinality(A \cap Owned(d)) = 0
    BY <1>2, FS_EmptySet
  <2>2. IsFiniteSet(A)
    BY <1>3, FS_Union
  <2>3. A \cup Owned(d) = BlocksOf(d)
    BY <1>2
  <2> HIDE DEF A
  <2>4. Cardinality(A \cup Owned(d))
          = Cardinality(A) + Cardinality(Owned(d)) - Cardinality(A \cap Owned(d))
    BY <1>3, <2>2, FS_Union
  <2>5. Cardinality(A) \in Nat /\ Cardinality(Owned(d)) \in Nat
    BY <1>3, <2>2, FS_CardinalityType
  <2>6. Cardinality(A) = NumAvail(d)
    BY <1>4 DEF A
  <2>7. Cardinality(A \cup Owned(d)) = NumAvail(d) + Cardinality(Owned(d))
    BY <2>1, <2>4, <2>5, <2>6
  <2> QED BY <2>3, <2>7, Zenon
<1>6. NumAvail(d) \in Nat /\ Cardinality(Owned(d)) \in Nat
  BY <1>3, FS_CardinalityType DEF NumAvail
<1> QED BY <1>5, <1>6

(* No operation loses or overwrites cached K/V of a request it keeps.      *)
THEOREM KVNeverLostCorrect == Spec => KVNeverLost
<1>1. ASSUME Inv, [Next]_vars
      PROVE  [KVKept]_vars
  <2>1. CASE UNCHANGED vars
    BY <2>1
  <2>2. CASE Next
    <3>1. PICK r \in Requests :
            \/ AllocateNew(r) \/ AllocateAppend(r) \/ FreeBlocks(r)
            \/ SwapOut(r) \/ SwapIn(r) \/ Generate(r)
      BY <2>2 DEF Next
    <3>2. CASE AllocateNew(r)
      BY <3>2, <1>1 DEF AllocateNew, KVKept, Inv, TypeOK
    <3>3. CASE AllocateAppend(r)
      BY <3>3, <1>1 DEF AllocateAppend, KVKept, Inv, TypeOK
    <3>4. CASE FreeBlocks(r)
      BY <3>4, <1>1 DEF FreeBlocks, KVKept, Inv, TypeOK
    <3>5. ASSUME NEW d \in Devices, SwapRequest(r, d)
          PROVE  KVKept
      BY <3>5, <1>1
         DEF SwapRequest, GetFreeBlocks, KVKept, Inv, TypeOK, Devices, Other
    <3>6. CASE Generate(r)
      BY <3>6, <1>1 DEF Generate, KVKept, Inv, TypeOK
    <3> QED BY <3>1, <3>2, <3>3, <3>4, <3>5, <3>6 DEF SwapOut, SwapIn, Devices
  <2> QED BY <1>1, <2>1, <2>2
<1> QED BY <1>1, InvAlways, PTL DEF Spec, KVNeverLost

-----------------------------------------------------------------------------
(* What one more token does to ceil(tokens / block_size) *)
LEMMA CeilStep ==
    ASSUME NEW t \in Nat, NEW b \in Nat \ {0}
    PROVE  /\ (t + b - 1) \div b \in Nat
           /\ (t + 1 + b - 1) \div b \in Nat
           /\ (t + b - 1) \div b <= (t + 1 + b - 1) \div b
           /\ (t + 1 + b - 1) \div b <= (t + b - 1) \div b + 1
<1> DEFINE p == (t + b - 1) \div b
           q == (t + b) \div b
<1>1. t + b - 1 \in Nat /\ t + b \in Nat /\ t + 1 + b - 1 = t + b
  OBVIOUS
<1>2. p \in Nat /\ b * p <= t + b - 1 /\ t + b - 1 < b * p + b
  BY <1>1, DivBounds
<1>3. q \in Nat /\ b * q <= t + b /\ t + b < b * q + b
  BY <1>1, DivBounds
<1> HIDE DEF p, q
<1>4. p <= q
  <2> SUFFICES ASSUME q + 1 <= p PROVE FALSE
    BY <1>2, <1>3
  <2> QED BY <1>2, <1>3, TimesStep
<1>5. q <= p + 1
  <2> SUFFICES ASSUME (p + 1) + 1 <= q PROVE FALSE
    BY <1>2, <1>3
  <2>1. b * (p + 1) + b <= b * q
    BY <1>2, <1>3, TimesStep
  <2>2. b * p + b <= b * (p + 1)
    BY <1>2, TimesStep
  <2>3. b * p \in Int /\ b * q \in Int /\ b * (p + 1) \in Int
    BY <1>2, <1>3
  <2> QED BY <1>2, <1>3, <2>1, <2>2, <2>3
<1> QED BY <1>1, <1>2, <1>3, <1>4, <1>5 DEF p, q

LEMMA NumBlocksNeededType ==
    ASSUME TypeOK, NEW r \in Requests
    PROVE  NumBlocksNeeded(r) \in Nat
<1>1. tokens[r] \in Nat
  BY BlockManagerAssumption DEF TypeOK
<1> QED BY <1>1, CeilStep, BlockManagerAssumption DEF NumBlocksNeeded

LEMMA TableFinite ==
    ASSUME Inv, NEW r \in Requests
    PROVE  IsFiniteSet(block_table[r]) /\ Cardinality(block_table[r]) \in Nat
<1>1. IsFiniteSet(GpuBlocks \cup CpuBlocks)
  BY BlockManagerAssumption, FS_Union
<1>2. block_table[r] \subseteq GpuBlocks \cup CpuBlocks
  BY DEF Inv, TypeOK
<1> QED BY <1>1, <1>2, FS_Subset, FS_CardinalityType

(* An append takes the missing blocks, which are new to the request. *)
LEMMA AppendCounts ==
    ASSUME Inv, NEW r \in Requests, AllocateAppend(r)
    PROVE  /\ Cardinality(block_table'[r]) = NumBlocksNeeded(r)
           /\ \A s \in Requests : s # r => block_table'[s] = block_table[s]
           /\ NumAppendBlocksNeeded(r) <= NumAvail("gpu")
<1>1. PICK B \in Candidates("gpu") :
        /\ GetFreeBlocks(NumAppendBlocksNeeded(r), "gpu", B)
        /\ block_table' = [block_table EXCEPT ![r] = @ \cup B]
  BY DEF AllocateAppend
<1>2. /\ NumBlocksNeeded(r) \in Nat
      /\ IsFiniteSet(block_table[r]) /\ Cardinality(block_table[r]) \in Nat
  BY NumBlocksNeededType, TableFinite DEF Inv
<1>3. block_table[r] \cap B = {}
  <2>1. B \subseteq free["gpu"] \cup swapping["gpu"]
    BY <1>1 DEF Candidates
  <2>2. block_table[r] \subseteq Owned("gpu")
    BY OwnedElements DEF AllocateAppend
  <2> QED BY <2>1, <2>2 DEF Inv, BlocksPartitioned, NoDoubleOwner, Devices
<1>4. IsFiniteSet(B)
  <2>1. B \subseteq GpuBlocks \cup CpuBlocks
    BY <1>1 DEF Candidates, Inv, TypeOK, Devices
  <2> QED BY <2>1, BlockManagerAssumption, FS_Union, FS_Subset
<1>5. Cardinality(block_table[r] \cup B) = NumBlocksNeeded(r)
  <2>1. Cardinality(block_table[r] \cap B) = 0
    BY <1>3, FS_EmptySet
  <2>2. Cardinality(B) = NumAppendBlocksNeeded(r)
    BY <1>1 DEF GetFreeBlocks
  <2>3. Cardinality(block_table[r] \cup B)
          = Cardinality(block_table[r]) + Cardinality(B)
              - Cardinality(block_table[r] \cap B)
    BY <1>2, <1>4, FS_Union
  <2> QED BY <1>2, <2>1, <2>2, <2>3 DEF NumAppendBlocksNeeded
<1> QED BY <1>1, <1>5 DEF GetFreeBlocks, Inv, TypeOK

(* With the room left for one token, an iteration never outgrows the       *)
(* blocks of a request by more than one, and allocation takes what is      *)
(* missing and not a block more.                                           *)
THEOREM TableFitsCorrect == Spec => []TableFitsTokens
<1>1. Init => TableFitsTokens
  BY DEF Init, TableFitsTokens
<1>2. ASSUME Inv, Inv', TableFitsTokens, [Next]_vars
      PROVE  TableFitsTokens'
  <2>0. /\ TypeOK
        /\ \A s \in Requests : NumBlocksNeeded(s) \in Nat
        /\ \A s \in Requests : Cardinality(block_table[s]) \in Nat
    BY <1>2, NumBlocksNeededType, TableFinite DEF Inv
  <2>1. CASE UNCHANGED vars
    BY <1>2, <2>1 DEF vars, TableFitsTokens, NumBlocksNeeded
  <2>2. CASE Next
    <3>1. PICK r \in Requests :
            \/ AllocateNew(r) \/ AllocateAppend(r) \/ FreeBlocks(r)
            \/ SwapOut(r) \/ SwapIn(r) \/ Generate(r)
      BY <2>2 DEF Next
    <3>2. CASE AllocateNew(r)
      BY <3>2, <1>2, <2>0
         DEF AllocateNew, GetFreeBlocks, TableFitsTokens, NumBlocksNeeded, TypeOK
    <3>3. CASE AllocateAppend(r)
      <4>1. location' = location /\ tokens' = tokens
        BY <3>3 DEF AllocateAppend
      <4>2. /\ Cardinality(block_table'[r]) = NumBlocksNeeded(r)
            /\ \A s \in Requests : s # r => block_table'[s] = block_table[s]
        BY <3>3, <1>2, AppendCounts
      <4> QED BY <4>1, <4>2, <1>2, <2>0
             DEF TableFitsTokens, NumBlocksNeeded, TypeOK
    <3>4. CASE FreeBlocks(r)
      BY <3>4, <1>2, <2>0 DEF FreeBlocks, TableFitsTokens, NumBlocksNeeded, TypeOK
    <3>5. ASSUME NEW d \in Devices, SwapRequest(r, d)
          PROVE  TableFitsTokens'
      BY <3>5, <1>2, <2>0
         DEF SwapRequest, GetFreeBlocks, TableFitsTokens, NumBlocksNeeded, TypeOK, Devices
    <3>6. CASE Generate(r)
      <4>1. /\ tokens[r] \in Nat
            /\ tokens' = [tokens EXCEPT ![r] = @ + 1]
            /\ NumAppendBlocksNeeded(r) <= 0
            /\ location' = location /\ block_table' = block_table
        BY <3>6, <2>0, BlockManagerAssumption DEF Generate, TypeOK
      <4>2. /\ NumBlocksNeeded(r)' \in Nat
            /\ NumBlocksNeeded(r) <= NumBlocksNeeded(r)'
            /\ NumBlocksNeeded(r)' <= NumBlocksNeeded(r) + 1
        <5>1. tokens'[r] = tokens[r] + 1
          BY <4>1, <2>0 DEF TypeOK
        <5> QED BY <4>1, <5>1, CeilStep, BlockManagerAssumption DEF NumBlocksNeeded
      <4>3. \A s \in Requests : s # r => NumBlocksNeeded(s)' = NumBlocksNeeded(s)
        BY <4>1, <2>0 DEF NumBlocksNeeded, TypeOK
      <4> QED BY <4>1, <4>2, <4>3, <1>2, <2>0
             DEF TableFitsTokens, NumAppendBlocksNeeded
    <3> QED BY <3>1, <3>2, <3>3, <3>4, <3>5, <3>6 DEF SwapOut, SwapIn, Devices
  <2> QED BY <1>2, <2>1, <2>2
<1> QED BY <1>1, <1>2, InvAlways, PTL DEF Spec
-----------------------------------------------------------------------------
(* The blocks that the schedulers count for a device are those its         *)
(* requests own.                                                           *)
LEMMA HeldIsOwned ==
    ASSUME Inv, NEW d \in Devices
    PROVE  Counts!HeldOn([blocks |-> [r \in Requests |-> Cardinality(block_table[r])],
                          loc    |-> location], d)
             = Cardinality(Owned(d))
<1> DEFINE f == [r \in Requests |-> Cardinality(block_table[r])]
<1>1. IsFiniteSet(UNION {block_table[r] : r \in Residents(d)})
  <2>1. Owned(d) \subseteq BlocksOf(d)
    BY DEF Inv, BlocksPartitioned, NoLeak
  <2>2. IsFiniteSet(BlocksOf(d))
    BY BlockManagerAssumption DEF BlocksOf
  <2> QED BY <2>1, <2>2, FS_Subset DEF Owned
<1>2. /\ \A r \in Residents(d) : f[r] = Cardinality(block_table[r])
      /\ \A r, s \in Residents(d) : r # s => block_table[r] \cap block_table[s] = {}
  BY DEF Residents, Inv, BlocksPartitioned, NoDoubleOwner
<1> HIDE DEF f
<1>3. SumOver(f, Residents(d)) = Cardinality(Owned(d))
  BY <1>1, <1>2, SumOfCardinalities DEF Owned
<1>4. Counts!SumOver(f, Residents(d)) = SumOver(f, Residents(d))
  BY DEF Counts!SumOver, Counts!Slots, Counts!Cardinality, SumOver, Slots, Cardinality
<1> QED BY <1>3, <1>4 DEF Counts!HeldOn, Residents, f

(* The numbers the schedulers count with. *)
LEMMA CountsOfInv ==
    ASSUME Inv
    PROVE  /\ Counts!AvailGpu([blocks |-> [r \in Requests |-> Cardinality(block_table[r])],
                               loc    |-> location]) = NumAvail("gpu")
           /\ Counts!AvailCpu([blocks |-> [r \in Requests |-> Cardinality(block_table[r])],
                               loc    |-> location]) = NumAvail("cpu")
           /\ NumAvail("gpu") \in Nat /\ NumAvail("gpu") <= Cardinality(GpuBlocks)
           /\ \A r \in Requests : location[r] = "gpu" =>
                Cardinality(block_table[r]) + NumAvail("gpu") <= Cardinality(GpuBlocks)
<1>1. "gpu" \in Devices /\ "cpu" \in Devices
  BY DEF Devices
<1>2. /\ NumAvail("gpu") = Cardinality(GpuBlocks) - Cardinality(Owned("gpu"))
      /\ NumAvail("cpu") = Cardinality(CpuBlocks) - Cardinality(Owned("cpu"))
  BY <1>1, PartitionCounts DEF BlocksOf
<1>3. /\ free["gpu"] \cup swapping["gpu"] \cup Owned("gpu") = GpuBlocks
      /\ IsFiniteSet(GpuBlocks) /\ Cardinality(GpuBlocks) \in Nat
  BY <1>1, BlockManagerAssumption, FS_CardinalityType
     DEF Inv, BlocksPartitioned, NoLeak, BlocksOf
<1>4. /\ IsFiniteSet(Owned("gpu")) /\ Cardinality(Owned("gpu")) \in Nat
      /\ Cardinality(free["gpu"]) \in Nat /\ Cardinality(swapping["gpu"]) \in Nat
  <2>1. /\ Owned("gpu") \subseteq GpuBlocks /\ free["gpu"] \subseteq GpuBlocks
        /\ swapping["gpu"] \subseteq GpuBlocks
    BY <1>3
  <2> QED BY <1>3, <2>1, FS_Subset, FS_CardinalityType
<1>5. \A r \in Requests : location[r] = "gpu" =>
        Cardinality(block_table[r]) <= Cardinality(Owned("gpu"))
  <2> SUFFICES ASSUME NEW r \in Requests, location[r] = "gpu"
               PROVE  Cardinality(block_table[r]) <= Cardinality(Owned("gpu"))
    OBVIOUS
  <2>1. block_table[r] \subseteq Owned("gpu")
    BY DEF Owned, Residents
  <2> QED BY <1>4, <2>1, FS_Subset
<1>6. \A r \in Requests : Cardinality(block_table[r]) \in Nat
  BY TableFinite
<1>7. NumAvail("gpu") \in Nat /\ NumAvail("gpu") <= Cardinality(GpuBlocks)
  BY <1>2, <1>3, <1>4 DEF NumAvail
<1> QED BY <1>1, <1>2, <1>3, <1>4, <1>5, <1>6, <1>7, HeldIsOwned
       DEF Counts!AvailGpu, Counts!AvailCpu

(* Blocks by their identity implement blocks by their number: every call   *)
(* of the manager is one of the four effects that the schedulers count     *)
(* with, and its capacity checks are theirs.                               *)
THEOREM ImplementsCountsCorrect == Spec => ImplementsCounts
<1> DEFINE m == [blocks |-> [r \in Requests |-> Cardinality(block_table[r])],
                 loc    |-> location]
<1>1. Init => Counts!KVInit
  BY FS_EmptySet DEF Init, Counts!KVInit, Counts!NoBlocks
<1>2. ASSUME Inv, Inv', [Next]_vars
      PROVE  [Counts!KVNext]_m
  <2>0. /\ \A r \in Requests : Cardinality(block_table[r]) \in Nat
        /\ \A r \in Requests : NumBlocksNeeded(r) \in Nat
        /\ TypeOK
    BY <1>2, TableFinite, NumBlocksNeededType DEF Inv
  <2>1. CASE UNCHANGED vars
    BY <2>1 DEF vars
  <2>2. ASSUME NEW r \in Requests, AllocateNew(r)
        PROVE  Counts!KVNext
    <3> DEFINE n == NumBlocksNeeded(r)
    <3>1. PICK B \in Candidates("gpu") :
            GetFreeBlocks(n, "gpu", B) /\ block_table' = [block_table EXCEPT ![r] = B]
      BY <2>2 DEF AllocateNew
    <3>2. location[r] = "none" /\ location' = [location EXCEPT ![r] = "gpu"]
      BY <2>2 DEF AllocateNew
    <3>3. n \in 1..Cardinality(GpuBlocks) /\ n <= NumAvail("gpu")
      <4>1. tokens[r] \in Nat /\ tokens[r] >= 1
        BY <2>0, BlockManagerAssumption DEF TypeOK
      <4>2. n >= 1
        <5>1. tokens[r] + BlockSize - 1 \in Nat /\ tokens[r] + BlockSize - 1 >= BlockSize
          BY <4>1, BlockManagerAssumption
        <5>2. tokens[r] + BlockSize - 1 < BlockSize * n + BlockSize
          BY <5>1, DivBounds, BlockManagerAssumption DEF NumBlocksNeeded
        <5>3. n # 0
          BY <5>1, <5>2, BlockManagerAssumption
        <5> QED BY <5>3, <2>0
      <4> QED BY <4>2, <3>1, <2>0, <1>2, CountsOfInv, BlockManagerAssumption,
                 FS_CardinalityType DEF GetFreeBlocks
    <3>4. Cardinality(block_table[r]) = 0
      BY <1>2, <3>2, FS_EmptySet DEF Inv, BlocksPartitioned, TableMatchesLocation
    <3>5. m' = Counts!Allocated(m, r, n)
      <4>1. Cardinality(B) = n /\ n \in Nat /\ n > Cardinality(block_table[r])
        BY <2>0, <3>1, <3>3, <3>4 DEF GetFreeBlocks
      <4> QED BY <2>0, <3>1, <3>2, <4>1 DEF Counts!Allocated, TypeOK
    <3>6. Counts!KVAllocate(r, n)
      BY <1>2, <2>0, <3>2, <3>3, <3>4, <3>5, CountsOfInv DEF Counts!KVAllocate
    <3> QED BY <3>3, <3>6 DEF Counts!KVNext
  <2>3. ASSUME NEW r \in Requests, AllocateAppend(r)
        PROVE  Counts!KVNext
    <3> DEFINE n == NumBlocksNeeded(r)
    <3>1. /\ location[r] = "gpu" /\ location' = location
          /\ NumAppendBlocksNeeded(r) > 0
          /\ block_table' = [block_table EXCEPT ![r] = block_table'[r]]
      BY <2>3, <2>0 DEF AllocateAppend, TypeOK
    <3>2. /\ Cardinality(block_table'[r]) = n
          /\ \A s \in Requests : s # r => block_table'[s] = block_table[s]
          /\ NumAppendBlocksNeeded(r) <= NumAvail("gpu")
      BY <2>3, <1>2, AppendCounts
    <3>3. /\ n > Cardinality(block_table[r])
          /\ n - Cardinality(block_table[r]) <= NumAvail("gpu")
      BY <2>0, <3>1, <3>2 DEF NumAppendBlocksNeeded
    <3>4. n \in 1..Cardinality(GpuBlocks)
      BY <1>2, <2>0, <3>1, <3>3, CountsOfInv, BlockManagerAssumption, FS_CardinalityType
    <3>5. m' = Counts!Allocated(m, r, n)
      BY <2>0, <3>1, <3>2, <3>3 DEF Counts!Allocated, TypeOK
    <3>6. Counts!KVAllocate(r, n)
      BY <1>2, <2>0, <3>1, <3>3, <3>5, CountsOfInv DEF Counts!KVAllocate
    <3> QED BY <3>4, <3>6 DEF Counts!KVNext
  <2>4. ASSUME NEW r \in Requests, FreeBlocks(r)
        PROVE  Counts!KVNext
    <3>1. m' = Counts!Freed(m, r)
      BY <2>0, <2>4, FS_EmptySet DEF FreeBlocks, Counts!Freed, TypeOK
    <3> QED BY <2>4, <3>1 DEF FreeBlocks, Devices, Counts!KVFree, Counts!KVNext
  <2>5. ASSUME NEW r \in Requests, NEW d \in Devices, SwapRequest(r, d)
        PROVE  Counts!KVNext
    <3>1. PICK B \in Candidates(Other(d)) :
            /\ GetFreeBlocks(Cardinality(block_table[r]), Other(d), B)
            /\ block_table' = [block_table EXCEPT ![r] = B]
      BY <2>5 DEF SwapRequest
    <3>2. location[r] = d /\ location' = [location EXCEPT ![r] = Other(d)]
      BY <2>5 DEF SwapRequest
    <3>3. m' = Counts!Moved(m, r, Other(d))
      BY <2>0, <3>1, <3>2 DEF Counts!Moved, GetFreeBlocks, TypeOK
    <3>4. Cardinality(block_table[r]) <= NumAvail(Other(d))
      BY <2>0, <3>1 DEF GetFreeBlocks, NumAvail
    <3>5. CASE d = "gpu"
      BY <1>2, <3>2, <3>3, <3>4, <3>5, CountsOfInv
         DEF Other, Counts!KVSwapOut, Counts!KVNext
    <3>6. CASE d = "cpu"
      BY <1>2, <3>2, <3>3, <3>4, <3>6, CountsOfInv
         DEF Other, Counts!KVSwapIn, Counts!KVNext
    <3> QED BY <3>5, <3>6 DEF Devices
  <2>6. ASSUME NEW r \in Requests, Generate(r)
        PROVE  UNCHANGED m
    BY <2>6 DEF Generate
  <2> QED BY <1>2, <2>1, <2>2, <2>3, <2>4, <2>5, <2>6 DEF Next, SwapOut, SwapIn, Devices
<1> QED BY <1>1, <1>2, InvAlways, PTL DEF Spec, ImplementsCounts, Counts!KVSpec

-----------------------------------------------------------------------------
(* The manager with the worker that copies for it (SwapSync) does nothing  *)
(* but what the manager allows, so that all of the above holds of the two. *)
(* A flush leaves at most one copy behind that reads blocks off the        *)
(* swapping list.  That bound is not inductive by itself; what makes it so *)
(* is where the stale copy is.  The event is at most one copy behind the   *)
(* end of its stream, so that a flush leaves one copy, which is the oldest *)
(* from then on; every younger copy came after the last flush.             *)
Blocks == GpuBlocks \cup CpuBlocks

SyncTypeOK ==
    /\ running \in [Devices -> Seq(SUBSET Blocks)]
    /\ ahead \in [Devices -> Nat]

EventNearEnd ==
    \A d \in Devices : ahead[d] <= Len(running[d]) /\ Len(running[d]) <= ahead[d] + 1

OnlyOldestStale ==
    \A d \in Devices : \A i \in 2..Len(running[d]) : running[d][i] \subseteq swapping[d]

SyncInv == SyncTypeOK /\ EventNearEnd /\ OnlyOldestStale

-----------------------------------------------------------------------------
(* A step of the manager and the worker is a step of the manager, or, when *)
(* a copy completes, no step of it at all.                                 *)
LEMMA StepIsManagerStep ==
    ASSUME [SwapNext]_<<vars, syncVars>>
    PROVE  [Next]_vars
<1>1. CASE UNCHANGED <<vars, syncVars>>
  BY <1>1
<1>2. CASE ManagerStep
  BY <1>2 DEF ManagerStep, Next
<1>3. ASSUME NEW r \in Requests, NEW d \in Devices, SwapBlocks(r, d)
      PROVE  Next
  BY <1>3 DEF SwapBlocks, Next, SwapOut, SwapIn, Devices
<1>4. ASSUME NEW d \in Devices, CopyDone(d)
      PROVE  UNCHANGED vars
  BY <1>4 DEF CopyDone
<1> QED BY <1>1, <1>2, <1>3, <1>4 DEF SwapNext

(* The worker's copies add nothing to what the block manager does: every   *)
(* behaviour of the two is one of the manager.                             *)
THEOREM SwapSyncIsBlockManager == SwapSpec => Spec
<1>1. SwapInit => Init
  BY DEF SwapInit
<1> QED BY <1>1, StepIsManagerStep, PTL DEF SwapSpec, Spec

LEMMA SwapInvAlways == SwapSpec => []Inv
BY SwapSyncIsBlockManager, InvAlways, PTL

-----------------------------------------------------------------------------
(* An operation of the manager empties a swapping list or only adds to it. *)
LEMMA SwappingGrowsOrEmpties ==
    ASSUME TypeOK, Next
    PROVE  \A d \in Devices : swapping'[d] = {} \/ swapping[d] \subseteq swapping'[d]
<1> USE DEF TypeOK, Devices, SwappingAfterGet
<1>1. PICK r \in Requests :
        \/ AllocateNew(r) \/ AllocateAppend(r) \/ FreeBlocks(r)
        \/ SwapOut(r) \/ SwapIn(r) \/ Generate(r)
  BY DEF Next
<1>2. CASE AllocateNew(r)
  BY <1>2 DEF AllocateNew
<1>3. CASE AllocateAppend(r)
  BY <1>3 DEF AllocateAppend
<1>4. CASE FreeBlocks(r)
  BY <1>4 DEF FreeBlocks
<1>5. CASE SwapOut(r)
  BY <1>5 DEF SwapOut, SwapRequest, Other
<1>6. CASE SwapIn(r)
  BY <1>6 DEF SwapIn, SwapRequest, Other
<1>7. CASE Generate(r)
  BY <1>7 DEF Generate
<1> QED BY <1>1, <1>2, <1>3, <1>4, <1>5, <1>6, <1>7

(* What is left of a stream after the wait keeps its order and loses as    *)
(* many copies as the event covers.                                        *)
LEMMA AfterWaitShape ==
    ASSUME SyncTypeOK, EventNearEnd, NEW d \in Devices
    PROVE  /\ AfterWait(d) \in Seq(SUBSET Blocks)
           /\ WaitForAll(d) \in Nat
           /\ Len(AfterWait(d)) = Len(running[d]) - WaitForAll(d)
           /\ \A i \in 1..Len(AfterWait(d)) :
                AfterWait(d)[i] = running[d][i + WaitForAll(d)]
<1>1. /\ running[d] \in Seq(SUBSET Blocks)
      /\ Len(running[d]) \in Nat
      /\ WaitForAll(d) \in Nat
      /\ WaitForAll(d) <= Len(running[d])
  BY DEF SyncTypeOK, EventNearEnd, WaitForAll
<1> QED BY <1>1, SubSeqProperties DEF AfterWait

(* Without a copy of its own, the stream of d keeps the invariant through  *)
(* any step of the manager.                                                *)
LEMMA WaitKeepsStream ==
    ASSUME SyncTypeOK, EventNearEnd, OnlyOldestStale, NEW d \in Devices,
           swapping'[d] = {} \/ swapping[d] \subseteq swapping'[d]
    PROVE  /\ AheadAfterWait(d) \in Nat
           /\ AheadAfterWait(d) <= Len(AfterWait(d))
           /\ Len(AfterWait(d)) <= AheadAfterWait(d) + 1
           /\ \A i \in 2..Len(AfterWait(d)) : AfterWait(d)[i] \subseteq swapping'[d]
<1>1. /\ Len(running[d]) \in Nat /\ ahead[d] \in Nat
      /\ ahead[d] <= Len(running[d]) /\ Len(running[d]) <= ahead[d] + 1
  BY DEF SyncTypeOK, EventNearEnd
<1>2. CASE Flushed(d)
  BY <1>1, <1>2, AfterWaitShape DEF WaitForAll, AheadAfterWait
<1>3. CASE ~Flushed(d)
  <2>1. swapping[d] \subseteq swapping'[d]
    BY <1>3 DEF Flushed
  <2>2. /\ WaitForAll(d) = 0 /\ AheadAfterWait(d) = ahead[d]
        /\ Len(AfterWait(d)) = Len(running[d])
    BY <1>1, <1>3, AfterWaitShape DEF WaitForAll, AheadAfterWait
  <2>3. \A i \in 2..Len(running[d]) : AfterWait(d)[i] = running[d][i]
    BY <1>1, <2>2, AfterWaitShape
  <2> QED BY <1>1, <2>1, <2>2, <2>3 DEF OnlyOldestStale
<1> QED BY <1>2, <1>3

-----------------------------------------------------------------------------
(* A call of the manager that copies nothing keeps both streams. *)
LEMMA ManagerStepInv ==
    ASSUME Inv, SyncInv, ManagerStep
    PROVE  SyncInv'
<1>1. \A d \in Devices : swapping'[d] = {} \/ swapping[d] \subseteq swapping'[d]
  BY SwappingGrowsOrEmpties DEF ManagerStep, Next, Inv
<1>2. /\ running' = [d \in Devices |-> AfterWait(d)]
      /\ ahead' = [d \in Devices |-> AheadAfterWait(d)]
  BY DEF ManagerStep
<1>3. \A d \in Devices : AfterWait(d) \in Seq(SUBSET Blocks)
  BY AfterWaitShape DEF SyncInv
<1>4. \A d \in Devices :
        /\ AheadAfterWait(d) \in Nat
        /\ AheadAfterWait(d) <= Len(AfterWait(d))
        /\ Len(AfterWait(d)) <= AheadAfterWait(d) + 1
        /\ \A i \in 2..Len(AfterWait(d)) : AfterWait(d)[i] \subseteq swapping'[d]
  BY <1>1, WaitKeepsStream DEF SyncInv
<1> QED BY <1>2, <1>3, <1>4 DEF SyncInv, SyncTypeOK, EventNearEnd, OnlyOldestStale

(* A swap puts its copy behind the event, and the blocks the copy reads on *)
(* the swapping list.                                                      *)
LEMMA SwapBlocksInv ==
    ASSUME Inv, SyncInv, NEW r \in Requests, NEW d \in Devices, SwapBlocks(r, d)
    PROVE  SyncInv'
<1> DEFINE s == Append(AfterWait(d), block_table[r])
<1>1. \A e \in Devices : swapping'[e] = {} \/ swapping[e] \subseteq swapping'[e]
  BY SwappingGrowsOrEmpties DEF SwapBlocks, Next, SwapOut, SwapIn, Devices, Inv
<1>2. swapping[d] \subseteq swapping'[d] /\ block_table[r] \subseteq swapping'[d]
  BY DEF SwapBlocks, SwapRequest, Other, Devices, Inv, TypeOK
<1>3. block_table[r] \in SUBSET Blocks
  BY DEF Inv, TypeOK, Blocks
<1>4. \A e \in Devices : AfterWait(e) \in Seq(SUBSET Blocks)
  BY AfterWaitShape DEF SyncInv
<1>5. \A e \in Devices :
        /\ AheadAfterWait(e) \in Nat
        /\ AheadAfterWait(e) <= Len(AfterWait(e))
        /\ Len(AfterWait(e)) <= AheadAfterWait(e) + 1
        /\ \A i \in 2..Len(AfterWait(e)) : AfterWait(e)[i] \subseteq swapping'[e]
  BY <1>1, WaitKeepsStream DEF SyncInv
<1>6. /\ s \in Seq(SUBSET Blocks)
      /\ Len(AfterWait(d)) \in Nat
      /\ Len(s) = Len(AfterWait(d)) + 1
      /\ \A i \in 1..Len(AfterWait(d)) : s[i] = AfterWait(d)[i]
      /\ s[Len(AfterWait(d)) + 1] = block_table[r]
  BY <1>3, <1>4, AppendProperties
<1> HIDE DEF s
<1>7. /\ running' = [e \in Devices |-> IF e = d THEN s ELSE AfterWait(e)]
      /\ ahead' = [e \in Devices |->
                     IF e = d THEN Len(AfterWait(e)) ELSE AheadAfterWait(e)]
  BY DEF SwapBlocks, s
<1>8. \A i \in 2..Len(s) : s[i] \subseteq swapping'[d]
  <2> SUFFICES ASSUME NEW i \in 2..Len(s) PROVE s[i] \subseteq swapping'[d]
    OBVIOUS
  <2>1. CASE i = Len(AfterWait(d)) + 1
    BY <1>2, <1>6, <2>1
  <2>2. CASE i \in 2..Len(AfterWait(d))
    BY <1>5, <1>6, <2>2
  <2> QED BY <1>6, <2>1, <2>2
<1>9. SyncTypeOK'
  BY <1>4, <1>5, <1>6, <1>7 DEF SyncTypeOK
<1>10. EventNearEnd'
  BY <1>5, <1>6, <1>7 DEF EventNearEnd
<1>11. OnlyOldestStale'
  BY <1>5, <1>7, <1>8 DEF OnlyOldestStale
<1> QED BY <1>9, <1>10, <1>11 DEF SyncInv

(* The oldest copy completes; the next one was not stale.                  *)
LEMMA CopyDoneInv ==
    ASSUME SyncInv, NEW d \in Devices, CopyDone(d)
    PROVE  SyncInv'
<1>1. /\ running[d] \in Seq(SUBSET Blocks) /\ running[d] # <<>>
      /\ running' = [running EXCEPT ![d] = Tail(@)]
      /\ ahead' = [ahead EXCEPT ![d] = IF @ = 0 THEN 0 ELSE @ - 1]
      /\ swapping' = swapping
  BY DEF CopyDone, SyncInv, SyncTypeOK, vars
<1>2. /\ Tail(running[d]) \in Seq(SUBSET Blocks)
      /\ Len(running[d]) \in Nat
      /\ Len(Tail(running[d])) = Len(running[d]) - 1
      /\ \A i \in 1..Len(Tail(running[d])) : Tail(running[d])[i] = running[d][i + 1]
  BY <1>1, HeadTailProperties
<1>3. SyncTypeOK'
  BY <1>1, <1>2 DEF SyncInv, SyncTypeOK
<1>4. EventNearEnd'
  BY <1>1, <1>2 DEF SyncInv, SyncTypeOK, EventNearEnd
<1>5. OnlyOldestStale'
  BY <1>1, <1>2 DEF SyncInv, SyncTypeOK, OnlyOldestStale
<1> QED BY <1>3, <1>4, <1>5 DEF SyncInv

LEMMA SyncInvAlways == SwapSpec => []SyncInv
<1>1. SwapInit => SyncInv
  BY EmptySeq, LenProperties
     DEF SwapInit, SyncInv, SyncTypeOK, EventNearEnd, OnlyOldestStale
<1>2. ASSUME Inv, SyncInv, [SwapNext]_<<vars, syncVars>>
      PROVE  SyncInv'
  <2>1. CASE UNCHANGED <<vars, syncVars>>
    BY <1>2, <2>1 DEF vars, syncVars, SyncInv, SyncTypeOK, EventNearEnd, OnlyOldestStale
  <2>2. CASE SwapNext
    BY <1>2, <2>2, ManagerStepInv, SwapBlocksInv, CopyDoneInv DEF SwapNext
  <2> QED BY <1>2, <2>1, <2>2
<1> QED BY <1>1, <1>2, SwapInvAlways, PTL DEF SwapSpec

(* What is left of Requirement 2, which the code does not keep in full     *)
(* (SourcesNotReused): however swaps, flushes and completing copies        *)
(* interleave, at most one copy of a stream still reads blocks that were   *)
(* taken off the swapping list, the one latest_swap_*_event misses.        *)
THEOREM OneCopyCorrect == SwapSpec => []FlushLeavesOneCopy
<1>1. ASSUME SyncInv
      PROVE  FlushLeavesOneCopy
  <2> SUFFICES ASSUME NEW d \in Devices
               PROVE  Cardinality({i \in DOMAIN running[d] :
                                     ~(running[d][i] \subseteq swapping[d])}) <= 1
    BY DEF FlushLeavesOneCopy
  <2> DEFINE stale == {i \in DOMAIN running[d] : ~(running[d][i] \subseteq swapping[d])}
  <2>1. stale \subseteq {1}
    <3>1. DOMAIN running[d] = 1..Len(running[d]) /\ Len(running[d]) \in Nat
      BY <1>1, LenProperties DEF SyncInv, SyncTypeOK
    <3> QED BY <1>1, <3>1 DEF SyncInv, OnlyOldestStale
  <2>2. IsFiniteSet({1}) /\ Cardinality({1}) = 1
    BY FS_Singleton
  <2> HIDE DEF stale
  <2>3. Cardinality(stale) <= 1
    BY <2>1, <2>2, FS_Subset
  <2> QED BY <2>3 DEF stale
<1> QED BY <1>1, SyncInvAlways, PTL
=============================================================================
