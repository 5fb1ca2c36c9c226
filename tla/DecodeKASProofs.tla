--------------------------- MODULE DecodeKASProofs ---------------------------
(***************************************************************************)
(* For every set of requests, lengths, limits and budgets: the KV-aware    *)
(* scheduler conserves its requests, what a round selects can be run, a    *)
(* round respects every limit, and it does not pass a starved request over *)
(* for one of its own level that is not starved.                           *)
(*                                                                         *)
(* A round is a loop over a sorted list, with a loop of evictions inside.  *)
(* GoodScan is what a turn of the outer loop keeps: the blocks that are    *)
(* reserved for the requests selected so far are free, and those requests  *)
(* are on the GPU.  Passed is what relates a turn to the ones before it.   *)
(*                                                                         *)
(* The last section is about progress: what a round needs to dispatch.     *)
(***************************************************************************)
EXTENDS DecodeKAS, CommonLemmas

(* The order of the ready requests *)
LEMMA LevelType ==
    ASSUME NEW r \in Requests
    PROVE  Level(r) \in Int
<1> DEFINE S == {k \in 0..MaxOutput[r] : 2^k <= out[r]}
<1>1. MaxOutput[r] \in Nat /\ MaxLevel \in Nat
  BY DecodeKASAssumption
<1>2. S \in SUBSET (0..MaxOutput[r])
  BY Zenon
<1>3. Level(r) = IF Cardinality(S) < MaxLevel THEN Cardinality(S) ELSE MaxLevel
  BY Zenon DEF Level
<1> HIDE DEF S
<1>4. IsFiniteSet(0..MaxOutput[r])
  BY <1>1, FS_Interval
<1>5. Cardinality(S) \in Nat
  BY <1>2, <1>4, FS_Subset, FS_CardinalityType
<1> QED BY <1>1, <1>3, <1>5

Position(r) == CHOOSE i \in 1..Len(order) : order[i] = r

LEMMA Positions ==
    ASSUME order \in Seq(Requests), NEW r \in Members(order)
    PROVE  Position(r) \in 1..Len(order) /\ order[Position(r)] = r /\ r \in Requests
<1>1. \E i \in 1..Len(order) : order[i] = r
  BY DEF Members
<1> QED BY <1>1, ElementOfSeq DEF Position

LEMMA Lexicographic ==
    ASSUME NEW k, NEW l, \A n \in 1..4 : k[n] \in Int /\ l[n] \in Int
    PROVE  (\E n \in 1..4 : k[n] < l[n] /\ \A i \in 1..(n - 1) : k[i] = l[i])
             <=> \/ k[1] < l[1]
                 \/ k[1] = l[1] /\ k[2] < l[2]
                 \/ k[1] = l[1] /\ k[2] = l[2] /\ k[3] < l[3]
                 \/ k[1] = l[1] /\ k[2] = l[2] /\ k[3] = l[3] /\ k[4] < l[4]
<1>1. \A n \in 1..4 : n = 1 \/ n = 2 \/ n = 3 \/ n = 4
  OBVIOUS
<1>2. /\ \A i : ~(i \in 1..(1 - 1))
      /\ \A i : i \in 1..(2 - 1) <=> i = 1
      /\ \A i : i \in 1..(3 - 1) <=> i = 1 \/ i = 2
      /\ \A i : i \in 1..(4 - 1) <=> i = 1 \/ i = 2 \/ i = 3
  OBVIOUS
<1> QED BY <1>1, <1>2

LEMMA BeforeIsLexicographic ==
    ASSUME order \in Seq(Requests), NEW m, NEW r \in Members(order), NEW s \in Members(order)
    PROVE  LET res(x) == IF Resident(m, x) THEN 0 ELSE 1
               hun(x) == IF Starved(x) THEN 0 ELSE 1
           IN Before(m, r, s) <=>
                \/ Level(r) < Level(s)
                \/ Level(r) = Level(s) /\ hun(r) < hun(s)
                \/ Level(r) = Level(s) /\ hun(r) = hun(s) /\ res(r) < res(s)
                \/ /\ Level(r) = Level(s) /\ hun(r) = hun(s) /\ res(r) = res(s)
                   /\ Position(r) < Position(s)
<1> DEFINE res(x) == IF Resident(m, x) THEN 0 ELSE 1
           hun(x) == IF Starved(x) THEN 0 ELSE 1
           k == Key(m, r)
           l == Key(m, s)
<1>1. Position(r) \in Int /\ Position(s) \in Int /\ r \in Requests /\ s \in Requests
  BY Positions
<1>2. Level(r) \in Int /\ Level(s) \in Int
  BY <1>1, LevelType
<1>3. res(r) \in Int /\ res(s) \in Int /\ hun(r) \in Int /\ hun(s) \in Int
  OBVIOUS
<1>4. k = <<Level(r), hun(r), res(r), Position(r)>> /\ l = <<Level(s), hun(s), res(s), Position(s)>>
  BY Zenon DEF Key, Position
<1> HIDE DEF res, hun, k, l
<1>5. /\ k[1] = Level(r) /\ k[2] = hun(r) /\ k[3] = res(r) /\ k[4] = Position(r)
      /\ l[1] = Level(s) /\ l[2] = hun(s) /\ l[3] = res(s) /\ l[4] = Position(s)
  BY <1>4
<1>6. \A n \in 1..4 : k[n] \in Int /\ l[n] \in Int
  <2>1. \A n \in 1..4 : n = 1 \/ n = 2 \/ n = 3 \/ n = 4
    OBVIOUS
  <2> QED BY <1>1, <1>2, <1>3, <1>5, <2>1
<1>7. Before(m, r, s) <=> \E n \in 1..4 : k[n] < l[n] /\ \A i \in 1..(n - 1) : k[i] = l[i]
  BY Zenon DEF Before, k, l
<1>8. Before(m, r, s) <=>
        \/ Level(r) < Level(s)
        \/ Level(r) = Level(s) /\ hun(r) < hun(s)
        \/ Level(r) = Level(s) /\ hun(r) = hun(s) /\ res(r) < res(s)
        \/ /\ Level(r) = Level(s) /\ hun(r) = hun(s) /\ res(r) = res(s)
           /\ Position(r) < Position(s)
  <2>1. (\E n \in 1..4 : k[n] < l[n] /\ \A i \in 1..(n - 1) : k[i] = l[i])
             <=> \/ k[1] < l[1]
                 \/ k[1] = l[1] /\ k[2] < l[2]
                 \/ k[1] = l[1] /\ k[2] = l[2] /\ k[3] < l[3]
                 \/ k[1] = l[1] /\ k[2] = l[2] /\ k[3] = l[3] /\ k[4] < l[4]
    BY <1>6, Lexicographic
  <2> QED BY <1>5, <1>7, <2>1
<1> QED BY <1>8 DEF res, hun

LEMMA BeforeIsAnOrder ==
    ASSUME order \in Seq(Requests), NEW m,
           NEW r \in Members(order), NEW s \in Members(order), NEW t \in Members(order)
    PROVE  /\ ~Before(m, r, r)
           /\ Before(m, r, s) /\ Before(m, s, t) => Before(m, r, t)
           /\ r # s => Before(m, r, s) \/ Before(m, s, r)
<1> DEFINE res(x) == IF Resident(m, x) THEN 0 ELSE 1
           hun(x) == IF Starved(x) THEN 0 ELSE 1
<1>1. \A x, y \in Members(order) :
        Before(m, x, y) <=>
          \/ Level(x) < Level(y)
          \/ Level(x) = Level(y) /\ hun(x) < hun(y)
          \/ Level(x) = Level(y) /\ hun(x) = hun(y) /\ res(x) < res(y)
          \/ /\ Level(x) = Level(y) /\ hun(x) = hun(y) /\ res(x) = res(y)
             /\ Position(x) < Position(y)
  BY BeforeIsLexicographic
<1>2. \A x \in Members(order) : /\ res(x) \in Int /\ hun(x) \in Int
                                /\ Position(x) \in Int /\ order[Position(x)] = x
                                /\ x \in Requests
  BY Positions
<1>3. \A x \in Members(order) : Level(x) \in Int
  BY <1>2, LevelType
<1> HIDE DEF res, hun
<1>4. r # s => Position(r) # Position(s)
  BY <1>2
<1> QED BY <1>1, <1>2, <1>3, <1>4

(* Sorted lists every request of the set once, each after those before it. *)
LEMMA SortedFacts ==
    ASSUME order \in Seq(Requests), NEW m, NEW S \in SUBSET Members(order), IsFiniteSet(S),
           NEW q, q = Sorted(m, S)
    PROVE  /\ q \in Seq(S) /\ Distinct(q) /\ Members(q) = S
           /\ \A i, j \in 1..Len(q) : Before(m, q[i], q[j]) => i < j
<1> DEFINE n == Cardinality(S)
           under(r) == {s \in S : Before(m, s, r)}
           rank == [r \in S |-> Cardinality(under(r))]
           T == 0..(n - 1)
<1>1. n \in Nat /\ IsFiniteSet(T) /\ Cardinality(T) = n
  <2>1. n \in Nat
    BY FS_CardinalityType
  <2> HIDE DEF n
  <2>2. 0 \in Int /\ n - 1 \in Int
    BY <2>1
  <2>3. /\ IsFiniteSet(0..(n - 1))
        /\ Cardinality(0..(n - 1)) = IF 0 > n - 1 THEN 0 ELSE (n - 1) - 0 + 1
    BY <2>2, FS_Interval
  <2> QED BY <2>1, <2>3
<1>2. \A r \in S : under(r) \in SUBSET S /\ r \notin under(r)
  BY BeforeIsAnOrder
<1>3. \A r, s \in S : Before(m, r, s) => under(r) \in SUBSET under(s) /\ r \in under(s)
  BY BeforeIsAnOrder
<1>4. \A r, s \in S : r # s => Before(m, r, s) \/ Before(m, s, r)
  BY BeforeIsAnOrder
<1>5. \A r \in S : rank[r] = Cardinality(under(r))
  OBVIOUS
<1>6. q = [i \in 1..n |-> CHOOSE r \in S : Cardinality(under(r)) = i - 1]
  BY DEF Sorted
<1> HIDE DEF n, under
<1>7. \A r \in S : IsFiniteSet(under(r)) /\ rank[r] \in Nat /\ rank[r] < n
  <2> SUFFICES ASSUME NEW r \in S
               PROVE  IsFiniteSet(under(r)) /\ rank[r] \in Nat /\ rank[r] < n
    OBVIOUS
  <2>1. /\ IsFiniteSet(under(r)) /\ Cardinality(under(r)) <= Cardinality(S)
        /\ Cardinality(S) # Cardinality(under(r))
    BY <1>2, FS_Subset
  <2>2. Cardinality(under(r)) \in Nat
    BY <2>1, FS_CardinalityType
  <2> QED BY <1>1, <1>5, <2>1, <2>2 DEF n
<1>8. \A r, s \in S : Before(m, r, s) => rank[r] < rank[s]
  <2> SUFFICES ASSUME NEW r \in S, NEW s \in S, Before(m, r, s) PROVE rank[r] < rank[s]
    OBVIOUS
  <2>1. under(r) \in SUBSET under(s) /\ under(r) # under(s)
    BY <1>2, <1>3
  <2>2. /\ Cardinality(under(r)) <= Cardinality(under(s))
        /\ Cardinality(under(s)) # Cardinality(under(r))
    BY <1>7, <2>1, FS_Subset
  <2> QED BY <1>5, <1>7, <2>2
<1>9. \A r, s \in S : rank[r] = rank[s] => r = s
  BY <1>4, <1>7, <1>8
<1>10. \A i \in 1..n : \E r \in S : Cardinality(under(r)) = i - 1
  <2>1. rank \in [S -> T]
    <3>1. \A r \in S : rank[r] \in T
      BY <1>1, <1>7
    <3> QED BY <3>1
  <2> HIDE DEF rank, T
  <2>2. rank \in Injection(S, T)
    BY <1>9, <2>1 DEF Injection, IsInjective
  <2>3. rank \in Surjection(S, T)
    BY <1>1, <2>2, FS_Injection DEF n
  <2>4. \A y \in T : \E r \in S : rank[r] = y
    BY <2>3 DEF Surjection
  <2>5. \A i \in 1..n : i - 1 \in T
    BY <1>1 DEF T
  <2> QED BY <1>5, <2>4, <2>5
<1> HIDE DEF rank, T
<1>11. \A i \in 1..n : q[i] \in S /\ rank[q[i]] = i - 1
  <2> SUFFICES ASSUME NEW i \in 1..n PROVE q[i] \in S /\ rank[q[i]] = i - 1
    OBVIOUS
  <2>1. q[i] = CHOOSE r \in S : Cardinality(under(r)) = i - 1
    BY <1>6
  <2>2. q[i] \in S /\ Cardinality(under(q[i])) = i - 1
    BY <1>10, <2>1, Zenon
  <2> HIDE DEF under
  <2> QED BY <1>5, <2>2, Zenon
<1>12. q \in Seq(S) /\ Len(q) = n
  <2>1. DOMAIN q = 1..n /\ q = [i \in 1..n |-> q[i]]
    BY <1>6
  <2>2. q \in [1..n -> S]
    BY <1>11, <2>1
  <2>3. q \in Seq(S)
    BY <1>1, <2>2
  <2> QED BY <1>1, <2>1, <2>3
<1>13. Distinct(q)
  <2> SUFFICES ASSUME NEW i \in 1..n, NEW j \in 1..n, q[i] = q[j] PROVE i = j
    BY <1>12 DEF Distinct
  <2>1. i - 1 = j - 1
    BY <1>11
  <2> QED BY <2>1
<1>14. Members(q) = S
  <2>1. ASSUME NEW r \in S PROVE r \in Members(q)
    <3>1. rank[r] + 1 \in 1..n /\ (rank[r] + 1) - 1 = rank[r]
      BY <1>1, <1>7
    <3>2. q[rank[r] + 1] \in S /\ rank[q[rank[r] + 1]] = rank[r]
      BY <1>11, <3>1
    <3>3. q[rank[r] + 1] = r
      BY <1>9, <3>2
    <3> QED BY <1>12, <3>1, <3>3 DEF Members
  <2>2. Members(q) \subseteq S
    BY <1>11, <1>12 DEF Members
  <2> QED BY <2>1, <2>2
<1>15. ASSUME NEW i \in 1..Len(q), NEW j \in 1..Len(q), Before(m, q[i], q[j]) PROVE i < j
  <2>1. q[i] \in S /\ q[j] \in S /\ rank[q[i]] = i - 1 /\ rank[q[j]] = j - 1
    BY <1>11, <1>12
  <2>2. rank[q[i]] < rank[q[j]]
    BY <1>8, <1>15, <2>1
  <2>3. i - 1 < j - 1
    BY <2>1, <2>2
  <2> QED BY <2>3
<1> QED BY <1>12, <1>13, <1>14, <1>15

-----------------------------------------------------------------------------
(* Blocks on a device *)
Mem == [blocks: [Requests -> Nat], loc: [Requests -> Places]]

LEMMA RequestSets ==
    ASSUME NEW S \in SUBSET Requests, NEW f \in [Requests -> Nat]
    PROVE  IsFiniteSet(S) /\ SumOver(f, S) \in Nat
<1>1. IsFiniteSet(S)
  BY DecodeKASAssumption, FS_Subset
<1> QED BY <1>1, SumFinite

LEMMA HeldType ==
    ASSUME NEW m \in Mem, NEW p
    PROVE  HeldOn(m, p) \in Nat
<1>1. m.blocks \in [Requests -> Nat]
  BY DEF Mem
<1> QED BY <1>1, RequestSets DEF HeldOn

(* Fewer requests hold no more blocks. *)
LEMMA FewerHeld ==
    ASSUME NEW m \in Mem, NEW w \in Mem, NEW p,
           \A r \in Requests : w.loc[r] = p => m.loc[r] = p /\ w.blocks[r] <= m.blocks[r]
    PROVE  HeldOn(w, p) <= HeldOn(m, p)
<1> DEFINE S == {r \in Requests : m.loc[r] = p}
           T == {r \in Requests : w.loc[r] = p}
<1>1. m.blocks \in [Requests -> Nat] /\ w.blocks \in [Requests -> Nat]
  BY DEF Mem
<1>2. T \in SUBSET S /\ S \in SUBSET Requests /\ T \in SUBSET Requests
      /\ \A r \in T : w.blocks[r] <= m.blocks[r]
  OBVIOUS
<1>3. HeldOn(w, p) = SumOver(w.blocks, T) /\ HeldOn(m, p) = SumOver(m.blocks, S)
  BY DEF HeldOn
<1> HIDE DEF S, T
<1>4. /\ IsFiniteSet(S) /\ IsFiniteSet(T) /\ SumOver(w.blocks, T) \in Nat
      /\ SumOver(m.blocks, T) \in Nat /\ SumOver(m.blocks, S) \in Nat
  BY <1>1, <1>2, RequestSets
<1>5. SumOver(w.blocks, T) <= SumOver(m.blocks, T)
  <2>1. \A r \in T : /\ w.blocks[r] \in Nat /\ m.blocks[r] \in Nat
                     /\ w.blocks[r] <= m.blocks[r]
    BY <1>1, <1>2
  <2> QED BY <1>4, <2>1, SumMonotone
<1>6. SumOver(m.blocks, T) <= SumOver(m.blocks, S)
  <2>1. \A r \in S : m.blocks[r] \in Nat
    BY <1>1, <1>2
  <2> QED BY <1>2, <1>4, <2>1, SumSubset
<1> QED BY <1>3, <1>4, <1>5, <1>6

(* A swap moves one request and takes its blocks to the other device.      *)
LEMMA MovedFacts ==
    ASSUME NEW m \in Mem, NEW s \in Requests, NEW p \in Places,
           NEW w, w = Moved(m, s, p)
    PROVE  /\ w \in Mem /\ w.blocks = m.blocks
           /\ \A r \in Requests : w.loc[r] = IF r = s THEN p ELSE m.loc[r]
           /\ HeldOn(w, p) <= HeldOn(m, p) + m.blocks[s]
           /\ m.loc[s] = p => HeldOn(w, p) <= HeldOn(m, p)
<1> DEFINE S == {r \in Requests : m.loc[r] = p}
           T == {r \in Requests : w.loc[r] = p}
<1>1. /\ m.blocks \in [Requests -> Nat] /\ m.loc \in [Requests -> Places]
      /\ m.blocks[s] \in Nat
  BY DEF Mem
<1>2. /\ w.blocks = m.blocks /\ w.loc = [m.loc EXCEPT ![s] = p]
      /\ w = [blocks |-> w.blocks, loc |-> w.loc]
  BY DEF Moved
<1>3. \A r \in Requests : w.loc[r] = IF r = s THEN p ELSE m.loc[r]
  BY <1>1, <1>2
<1>4. w \in Mem
  <2>1. w.loc \in [Requests -> Places]
    BY <1>1, <1>2
  <2> QED BY <1>1, <1>2, <2>1 DEF Mem
<1>5. T = S \cup {s} /\ S \in SUBSET Requests /\ T \in SUBSET Requests
  BY <1>3
<1>6. HeldOn(w, p) = SumOver(m.blocks, T) /\ HeldOn(m, p) = SumOver(m.blocks, S)
  BY <1>2 DEF HeldOn
<1>7. m.loc[s] = p => s \in S
  OBVIOUS
<1> HIDE DEF S, T
<1>8. /\ IsFiniteSet(S) /\ IsFiniteSet({s}) /\ SumOver(m.blocks, S) \in Nat
      /\ SumOver(m.blocks, T) \in Nat
  BY <1>1, <1>5, RequestSets, FS_Singleton
<1>9. CASE s \in S
  <2>1. T = S
    BY <1>5, <1>9
  <2> QED BY <1>1, <1>2, <1>3, <1>4, <1>6, <1>8, <2>1
<1>10. CASE s \notin S
  <2>1. S \cap {s} = {} /\ \A r \in S \cup {s} : m.blocks[r] \in Nat
    BY <1>1, <1>5, <1>10
  <2>2. SumOver(m.blocks, S \cup {s}) = SumOver(m.blocks, S) + SumOver(m.blocks, {s})
    BY <1>8, <2>1, SumUnion
  <2>3. SumOver(m.blocks, {s}) = m.blocks[s]
    BY <1>1, SumSingleton
  <2> QED BY <1>1, <1>2, <1>3, <1>4, <1>5, <1>6, <1>7, <1>8, <1>10, <2>2, <2>3
<1> QED BY <1>9, <1>10

-----------------------------------------------------------------------------
(* The evictions for one request *)
LEMMA TheOne == ASSUME NEW x PROVE The({x}) = x
BY DEF The

(* The states of the memory that evictions of requests of C lead to *)
Evicted(m, C) ==
    {w \in Mem : /\ w.blocks = m.blocks
                 /\ \A r \in Requests : \/ w.loc[r] = m.loc[r]
                                        \/ r \in C /\ w.loc[r] = "cpu"
                 /\ HeldOn(w, "cpu") <= MaxCpuBlocks}

(* The loop of Evict, as the recursive function it stands for *)
EvictOne(minFree, m, s) ==
    IF AvailGpu(m) >= minFree \/ m.blocks[s] > AvailCpu(m)
    THEN m ELSE Moved(m, s, "cpu")
EvictAt(m, minFree, q, h, i) ==
    IF i = 0 THEN m ELSE The({EvictOne(minFree, y, q[i]) : y \in {h[i - 1]}})
EvictAll(m, minFree, q) ==
    (CHOOSE h : h = [i \in 0..Len(q) |-> EvictAt(m, minFree, q, h, i)])[Len(q)]

LEMMA EvictionLoop ==
    ASSUME NEW m \in Mem, HeldOn(m, "cpu") <= MaxCpuBlocks, NEW minFree,
           NEW C \in SUBSET Requests, NEW q \in Seq(C)
    PROVE  \E run : /\ run[0] = m /\ run[Len(q)] = EvictAll(m, minFree, q)
                    /\ \A i \in 1..Len(q) : run[i] = EvictOne(minFree, run[i - 1], q[i])
                    /\ \A i \in 0..Len(q) : run[i] \in Evicted(m, C)
<1> DEFINE swapOut(w, s) == EvictOne(minFree, w, s)
           X == Evicted(m, C)
           n == Len(q)
           F == [p \in X \X (1..n) |-> swapOut(p[1], q[p[2]])]
           At(h, i) == EvictAt(m, minFree, q, h, i)
           run == CHOOSE h : h = [i \in 0..n |-> At(h, i)]
<1>1. EvictAll(m, minFree, q) = run[n]
  BY Zenon DEF EvictAll
<1>2. n \in Nat /\ \A i \in 1..n : q[i] \in C
  BY ElementOfSeq
<1>3. m \in X
  BY DEF Evicted
<1>4. \A w \in X, s \in C : swapOut(w, s) \in X
  <2> SUFFICES ASSUME NEW w \in X, NEW s \in C, ~(w.blocks[s] > AvailCpu(w))
               PROVE  Moved(w, s, "cpu") \in X
    BY DEF EvictOne
  <2> DEFINE v == Moved(w, s, "cpu")
  <2>1. /\ w \in Mem /\ w.blocks = m.blocks /\ s \in Requests /\ "cpu" \in Places
        /\ \A r \in Requests : w.loc[r] = m.loc[r] \/ (r \in C /\ w.loc[r] = "cpu")
    BY DEF Evicted, Places
  <2>2. /\ v \in Mem /\ v.blocks = w.blocks
        /\ \A r \in Requests : v.loc[r] = IF r = s THEN "cpu" ELSE w.loc[r]
        /\ HeldOn(v, "cpu") <= HeldOn(w, "cpu") + w.blocks[s]
    BY <2>1, MovedFacts
  <2>3. /\ HeldOn(w, "cpu") \in Nat /\ HeldOn(v, "cpu") \in Nat /\ w.blocks[s] \in Nat
    BY <2>1, <2>2, HeldType DEF Mem
  <2> HIDE DEF v
  <2>4. HeldOn(v, "cpu") <= MaxCpuBlocks
    BY <2>2, <2>3, KVCountsAssumption DEF AvailCpu
  <2>5. v \in X
    BY <2>1, <2>2, <2>4 DEF Evicted
  <2> QED BY <2>5 DEF v
<1>6. \A h : At(h, 0) = m
  BY DEF EvictAt
<1> HIDE DEF X, n, swapOut
<1>5. \A h : \A i \in 1..n : At(h, i) = swapOut(h[i - 1], q[i])
  <2> SUFFICES ASSUME NEW h, NEW i \in 1..n PROVE At(h, i) = swapOut(h[i - 1], q[i])
    OBVIOUS
  <2>1. i # 0
    BY <1>2
  <2>2. {swapOut(y, q[i]) : y \in {h[i - 1]}} = {swapOut(h[i - 1], q[i])}
    OBVIOUS
  <2>3. The({swapOut(h[i - 1], q[i])}) = swapOut(h[i - 1], q[i])
    BY TheOne, Zenon
  <2> QED BY <2>1, <2>2, <2>3, Zenon DEF EvictAt, swapOut
<1> HIDE DEF At
<1>7. F \in [X \X (1..n) -> X]
  BY <1>2, <1>4
<1>8. PICK f \in [0..n -> X] : IsLoop(f, m, F, n)
  <2> HIDE DEF F
  <2> QED BY <1>2, <1>3, <1>7, LoopExists
<1>9. \A i \in 1..n : F[<<f[i - 1], i>>] = swapOut(f[i - 1], q[i])
  <2> SUFFICES ASSUME NEW i \in 1..n PROVE F[<<f[i - 1], i>>] = swapOut(f[i - 1], q[i])
    OBVIOUS
  <2>1. f[i - 1] \in X
    BY <1>2
  <2> QED BY <2>1
<1> HIDE DEF F
<1>10. f = [i \in 0..n |-> At(f, i)]
  <2>1. \A i \in 0..n : LoopAt(f, m, F, i) = At(f, i)
    <3> SUFFICES ASSUME NEW i \in 0..n PROVE LoopAt(f, m, F, i) = At(f, i)
      OBVIOUS
    <3>1. CASE i = 0
      BY <1>6, <3>1 DEF LoopAt
    <3>2. CASE i # 0
      <4>1. i \in 1..n
        BY <3>2
      <4> QED BY <1>5, <1>9, <3>2, <4>1 DEF LoopAt
    <3> QED BY <3>1, <3>2
  <2> QED BY <1>8, <2>1 DEF IsLoop
<1>11. run = [i \in 0..n |-> At(run, i)]
  BY <1>10, Zenon
<1> HIDE DEF run
<1>12. /\ run[0] = m
       /\ \A i \in 1..n : run[i] = swapOut(run[i - 1], q[i])
  <2>1. \A i \in 0..n : run[i] = At(run, i)
    BY <1>11, Zenon
  <2>2. 0 \in 0..n /\ \A i \in 1..n : i \in 0..n
    BY <1>2
  <2>3. \A i \in 1..n : run[i] = swapOut(run[i - 1], q[i])
    BY <1>5, <2>1, <2>2, Zenon
  <2> QED BY <1>6, <2>1, <2>2, <2>3, Zenon
<1>13. \A i \in 0..n : run[i] \in X
  <2> DEFINE Xs == [i \in 0..n |-> X]
  <2>1. run[0] \in Xs[0]
    BY <1>2, <1>3, <1>12
  <2>2. \A i \in 1..n : run[i - 1] \in Xs[i - 1] => run[i] \in Xs[i]
    BY <1>2, <1>4, <1>12
  <2>3. \A i \in 0..n : Xs[i] = X
    OBVIOUS
  <2> HIDE DEF Xs
  <2>4. \A i \in 0..n : run[i] \in Xs[i]
    BY <1>2, <2>1, <2>2, LoopInvariant
  <2> QED BY <2>3, <2>4
<1> QED BY <1>1, <1>12, <1>13 DEF X, n, swapOut

-----------------------------------------------------------------------------
(* The invariant.  That a request which is not on a device has no blocks   *)
(* is what makes the count of should_accept cover its migration.           *)
QueuesInv ==
    /\ Members(unaccepted) \cap (migrating \cup Ready \cup done) = {}
    /\ migrating \cap (Ready \cup done) = {}
    /\ waiting \cap (swapped \cup batch \cup done) = {}
    /\ swapped \cap (batch \cup done) = {} /\ batch \cap done = {}
    /\ issued = Members(unaccepted) \cup migrating \cup Ready \cup done
    /\ Members(order) = Ready
    /\ Distinct(unaccepted) /\ Distinct(order)
    /\ IF pc = "migrate" THEN \E r \in Requests : migrating = {r} ELSE migrating = {}

LocationInv == \A r \in Requests :
    mem.loc[r] = IF r \in swapped THEN "cpu"
                 ELSE IF r \in migrating \cup waiting \cup batch THEN "gpu"
                 ELSE "none"

MemoryInv ==
    /\ \A r \in Requests : mem.loc[r] = "none" => mem.blocks[r] = 0
    /\ HeldOn(mem, "gpu") <= MaxGpuBlocks
    /\ HeldOn(mem, "cpu") <= MaxCpuBlocks

Unfinished == \A r \in Requests \ done : out[r] < MaxOutput[r]

Inv == /\ TypeOK /\ out \in [Requests -> Nat]
       /\ QueuesInv /\ LocationInv /\ MemoryInv /\ Unfinished /\ SelectionCanRun

-----------------------------------------------------------------------------
(* A turn of the round.  A scan is what the loop of get_next_batch has     *)
(* done so far: what it will have to allocate is free.                     *)
Scans(budget) ==
    {st \in [mem: Mem, batch: SUBSET Ready, swapIns: Nat, infeasible: SUBSET Ready] :
        /\ st.mem.blocks = mem.blocks
        /\ \A r \in Requests : IF r \in Ready THEN st.mem.loc[r] \in {"gpu", "cpu"}
                               ELSE st.mem.loc[r] = mem.loc[r]
        /\ \A r \in st.batch : st.mem.loc[r] = "gpu"
        /\ Reserved(st.mem, st.batch) <= AvailGpu(st.mem)
        /\ HeldOn(st.mem, "cpu") <= MaxCpuBlocks
        /\ Cardinality(st.batch) <= MaxBatchSize
        /\ Cardinality(st.batch) <= MaxTokensPerBatch
        /\ Cardinality({r \in swapped : st.mem.loc[r] = "gpu"}) <= st.swapIns
        /\ st.swapIns <= budget}

LEMMA NeedTypes ==
    ASSUME out \in [Requests -> Nat], NEW m \in Mem
    PROVE  /\ AppendNeed(m) \in [Requests -> Nat]
           /\ \A w : w.blocks = m.blocks => AppendNeed(w) = AppendNeed(m)
           /\ \A r \in Requests : /\ Need[r] \in Nat /\ PromptNeed[r] \in Nat
                                  /\ Need[r] <= m.blocks[r] + AppendNeed(m)[r]
<1>1. /\ \A r \in Requests : PromptLen[r] \in Nat /\ out[r] \in Nat /\ m.blocks[r] \in Nat
      /\ AppendMargin \in Nat /\ BlockSize \in Nat \ {0}
  BY DecodeKASAssumption, KVCountsAssumption DEF Mem
<1>2. \A r \in Requests :
        /\ BlocksFor(PromptLen[r]) \in Nat
        /\ BlocksFor(PromptLen[r] + out[r]) \in Nat
        /\ BlocksFor(PromptLen[r] + out[r] + 1) \in Nat
        /\ BlocksFor(PromptLen[r] + out[r]) <= BlocksFor(PromptLen[r] + out[r] + 1)
  <2> SUFFICES ASSUME NEW r \in Requests
               PROVE  /\ BlocksFor(PromptLen[r]) \in Nat
                      /\ BlocksFor(PromptLen[r] + out[r]) \in Nat
                      /\ BlocksFor(PromptLen[r] + out[r] + 1) \in Nat
                      /\ BlocksFor(PromptLen[r] + out[r]) <= BlocksFor(PromptLen[r] + out[r] + 1)
    OBVIOUS
  <2> DEFINE l == PromptLen[r]
             n == PromptLen[r] + out[r]
  <2>1. l \in Nat /\ n \in Nat /\ n + 1 \in Nat /\ l <= n /\ n <= n + 1
    BY <1>1
  <2> HIDE DEF l, n
  <2> QED BY <1>1, <2>1, CeilMonotone DEF BlocksFor, l, n
<1>3. \A r \in Requests :
        /\ AppendNeed(m)[r] \in Nat
        /\ BlocksFor(PromptLen[r] + out[r] + 1) <= m.blocks[r] + AppendNeed(m)[r]
  BY <1>1, <1>2 DEF AppendNeed
<1>4. AppendNeed(m) \in [Requests -> Nat]
  BY <1>3 DEF AppendNeed
<1>5. ASSUME NEW w, w.blocks = m.blocks PROVE AppendNeed(w) = AppendNeed(m)
  BY <1>5 DEF AppendNeed
<1>6. \A r \in Requests : /\ Need[r] \in Nat /\ PromptNeed[r] \in Nat
                          /\ Need[r] <= m.blocks[r] + AppendNeed(m)[r]
  BY <1>1, <1>2, <1>3 DEF Need, PromptNeed
<1> QED BY <1>4, <1>5, <1>6

LEMMA ReadyFacts ==
    ASSUME Inv
    PROVE  /\ order \in Seq(Requests) /\ Members(order) = Ready /\ Distinct(order)
           /\ Ready \in SUBSET Requests /\ IsFiniteSet(Ready) /\ mem \in Mem
           /\ out \in [Requests -> Nat] /\ swapped \in SUBSET Ready
<1>1. Ready \in SUBSET Requests
  BY DEF Inv, TypeOK, Ready
<1>2. IsFiniteSet(Ready)
  BY <1>1, DecodeKASAssumption, FS_Subset
<1> QED BY <1>1, <1>2 DEF Inv, TypeOK, QueuesInv, Mem, Ready

(* Evict, as the recursive function it stands for, over the candidates *)
Candidates(st, r) == {s \in Ready \ (st.batch \cup {r}) : Resident(st.mem, s)}
MinFree(st, r) == AppendNeed(st.mem)[r] + Reserved(st.mem, st.batch)

LEMMA EvictIsALoop ==
    ASSUME Inv, NEW st, NEW r, NEW back, back = Reversed(Sorted(st.mem, Candidates(st, r)))
    PROVE  /\ Evict(st, r) = [st EXCEPT !.mem = EvictAll(st.mem, MinFree(st, r), back)]
           /\ Candidates(st, r) \in SUBSET Ready
           /\ back \in Seq(Candidates(st, r)) /\ Members(back) = Candidates(st, r)
<1> DEFINE minFree == AppendNeed(st.mem)[r] + Reserved(st.mem, st.batch)
           C == {s \in Ready \ (st.batch \cup {r}) : Resident(st.mem, s)}
           swapOut(m, s) ==
               IF AvailGpu(m) >= minFree \/ m.blocks[s] > AvailCpu(m)
               THEN m ELSE Moved(m, s, "cpu")
           q == Sorted(st.mem, C)
           rev == Reversed(q)
           w == Iterate(swapOut, st.mem, rev)
<1>1. /\ order \in Seq(Requests) /\ Members(order) = Ready
      /\ Ready \in SUBSET Requests /\ IsFiniteSet(Ready)
  BY ReadyFacts
<1>2. Evict(st, r) = [st EXCEPT !.mem = w]
  <2>1. Evict(st, r) = [st EXCEPT !.mem = The({Iterate(swapOut, st.mem, Reversed(x)) : x \in {q}})]
    BY Zenon DEF Evict
  <2> HIDE DEF q, swapOut
  <2>2. {Iterate(swapOut, st.mem, Reversed(x)) : x \in {q}} = {w}
    BY Zenon DEF rev, w
  <2> HIDE DEF w
  <2> QED BY <2>1, <2>2, TheOne, Zenon
<1>3. C = Candidates(st, r) /\ minFree = MinFree(st, r)
  BY DEF Candidates, MinFree
<1>4. C \in SUBSET Ready /\ IsFiniteSet(C)
  BY <1>1, FS_Subset
<1>5. back = rev
  BY <1>3, Zenon
<1>6. back \in Seq(C) /\ Members(back) = C
  <2> HIDE DEF C
  <2>1. q \in Seq(C) /\ Members(q) = C
    BY <1>1, <1>4, SortedFacts
  <2> HIDE DEF q
  <2>2. Len(q) \in Nat /\ \A i \in 1..Len(q) : Len(q) + 1 - i \in 1..Len(q)
    BY <2>1
  <2>3. \A i \in 1..Len(q) : q[Len(q) + 1 - i] \in C
    BY <2>1, <2>2, ElementOfSeq
  <2>4. back = [i \in 1..Len(q) |-> q[Len(q) + 1 - i]]
    BY <1>5 DEF rev, Reversed
  <2>5. back \in Seq(C) /\ Len(back) = Len(q)
    BY <2>2, <2>3, <2>4
  <2>6. Members(back) = Members(q)
    <3>1. \A i \in 1..Len(q) : back[i] = q[Len(q) + 1 - i]
      BY <2>4
    <3>2. \A i \in 1..Len(q) : Len(q) + 1 - (Len(q) + 1 - i) = i
      BY <2>2
    <3>3. \A i \in 1..Len(q) : q[i] = back[Len(q) + 1 - i]
      BY <2>2, <3>1, <3>2
    <3>4. Members(back) \subseteq Members(q)
      BY <2>2, <2>5, <3>1 DEF Members
    <3>5. Members(q) \subseteq Members(back)
      BY <2>2, <2>5, <3>3 DEF Members
    <3> QED BY <3>4, <3>5
  <2> QED BY <2>1, <2>5, <2>6
<1> HIDE DEF C, rev, minFree
<1>7. w = EvictAll(st.mem, minFree, rev)
  BY Zenon DEF Iterate, EvictAll, EvictAt, EvictOne, w, swapOut
<1> QED BY <1>2, <1>3, <1>4, <1>5, <1>6, <1>7

(* Evictions leave what is selected where it is. *)
LEMMA EvictFacts ==
    ASSUME Inv, NEW budget, NEW st \in Scans(budget), NEW r \in Ready,
           NEW v, v = Evict(st, r)
    PROVE  v \in Scans(budget) /\ v.batch = st.batch /\ v.infeasible = st.infeasible
<1> DEFINE minFree == MinFree(st, r)
           C == Candidates(st, r)
           back == Reversed(Sorted(st.mem, C))
           w == EvictAll(st.mem, minFree, back)
<1>1. Ready \in SUBSET Requests
  BY ReadyFacts
<1>2. v = [st EXCEPT !.mem = w] /\ C \in SUBSET Ready /\ back \in Seq(C)
  BY EvictIsALoop
<1>3. C \in SUBSET Ready /\ C \in SUBSET Requests /\ C \cap st.batch = {}
  BY <1>1, <1>2 DEF Candidates
<1>4. st \in [mem: Mem, batch: SUBSET Ready, swapIns: Nat, infeasible: SUBSET Ready]
      /\ HeldOn(st.mem, "cpu") <= MaxCpuBlocks
  BY DEF Scans
<1>5. st.mem \in Mem
  BY <1>4
<1> HIDE DEF minFree, C, back
<1>6. w \in Evicted(st.mem, C)
  <2>1. Len(back) \in 0..Len(back)
    BY <1>2
  <2> QED BY <1>2, <1>3, <1>4, <1>5, <2>1, EvictionLoop
<1> HIDE DEF w
<1>7. /\ w \in Mem /\ w.blocks = st.mem.blocks
      /\ \A x \in Requests : w.loc[x] = st.mem.loc[x] \/ (x \in C /\ w.loc[x] = "cpu")
      /\ HeldOn(w, "cpu") <= MaxCpuBlocks
  BY <1>6, Zenon DEF Evicted
<1>8. /\ v.mem = w /\ v.batch = st.batch /\ v.infeasible = st.infeasible
      /\ v.swapIns = st.swapIns
      /\ v \in [mem: Mem, batch: SUBSET Ready, swapIns: Nat, infeasible: SUBSET Ready]
  BY <1>2, <1>4, <1>7
<1>9. Reserved(w, st.batch) <= AvailGpu(w)
  <2>1. HeldOn(w, "gpu") <= HeldOn(st.mem, "gpu")
    <3>1. \A x \in Requests :
            w.loc[x] = "gpu" => st.mem.loc[x] = "gpu" /\ w.blocks[x] <= st.mem.blocks[x]
      <4>1. \A x \in Requests : st.mem.blocks[x] \in Nat
        BY <1>4 DEF Mem
      <4> QED BY <1>7, <4>1
    <3>2. st.mem \in Mem
      BY <1>4
    <3> QED BY <1>7, <3>1, <3>2, FewerHeld
  <2>2. Reserved(w, st.batch) = Reserved(st.mem, st.batch)
    <3>1. AppendNeed(w) = AppendNeed(st.mem)
      BY <1>7 DEF AppendNeed
    <3> QED BY <3>1 DEF Reserved
  <2>3. Reserved(st.mem, st.batch) <= MaxGpuBlocks - HeldOn(st.mem, "gpu")
    BY DEF Scans, AvailGpu
  <2>4. Reserved(st.mem, st.batch) \in Nat
    <3>1. st.mem \in Mem /\ st.batch \in SUBSET Requests
      BY <1>1, <1>4
    <3>2. AppendNeed(st.mem) \in [Requests -> Nat]
      BY <3>1, ReadyFacts, NeedTypes
    <3> QED BY <3>1, <3>2, RequestSets DEF Reserved
  <2>5. HeldOn(w, "gpu") \in Nat /\ HeldOn(st.mem, "gpu") \in Nat
    BY <1>4, <1>7, HeldType
  <2> QED BY <2>1, <2>2, <2>3, <2>4, <2>5, KVCountsAssumption DEF AvailGpu
<1>10. \A x \in Requests : IF x \in Ready THEN w.loc[x] \in {"gpu", "cpu"}
                           ELSE w.loc[x] = mem.loc[x]
  BY <1>3, <1>7 DEF Scans
<1>11. \A x \in st.batch : w.loc[x] = "gpu"
  BY <1>1, <1>3, <1>4, <1>7 DEF Scans
<1>12. Cardinality({x \in swapped : w.loc[x] = "gpu"}) <= st.swapIns
  <2> DEFINE S == {x \in swapped : st.mem.loc[x] = "gpu"}
             T == {x \in swapped : w.loc[x] = "gpu"}
  <2>1. swapped \in SUBSET Requests /\ S \in SUBSET Requests
    BY <1>1, ReadyFacts
  <2>2. T \in SUBSET S
    BY <1>7, <2>1
  <2>3. Cardinality(S) <= st.swapIns
    BY DEF Scans
  <2> HIDE DEF S, T
  <2>4. IsFiniteSet(S)
    BY <2>1, DecodeKASAssumption, FS_Subset
  <2>5. IsFiniteSet(T) /\ Cardinality(T) <= Cardinality(S)
    BY <2>2, <2>4, FS_Subset
  <2>6. Cardinality(T) \in Nat /\ Cardinality(S) \in Nat /\ st.swapIns \in Nat
    BY <1>4, <2>4, <2>5, FS_CardinalityType
  <2> QED BY <2>3, <2>5, <2>6 DEF T
<1>13. v \in Scans(budget)
  <2>1. /\ w.blocks = mem.blocks
        /\ Cardinality(st.batch) <= MaxBatchSize
        /\ Cardinality(st.batch) <= MaxTokensPerBatch
        /\ st.swapIns <= budget
    BY <1>7 DEF Scans
  <2> QED BY <1>7, <1>8, <1>9, <1>10, <1>11, <1>12, <2>1 DEF Scans
<1> QED BY <1>8, <1>13

(* A set with one more element *)
LEMMA OneMore ==
    ASSUME NEW S \in SUBSET Requests, NEW x \in Requests, NEW T \in SUBSET (S \cup {x})
    PROVE  /\ Cardinality(S) \in Nat /\ Cardinality(T) \in Nat
           /\ Cardinality(T) <= Cardinality(S) + 1
<1>1. IsFiniteSet(S)
  BY DecodeKASAssumption, FS_Subset
<1>2. /\ IsFiniteSet(S \cup {x})
      /\ Cardinality(S \cup {x}) = IF x \in S THEN Cardinality(S) ELSE Cardinality(S) + 1
  BY <1>1, FS_AddElement
<1>3. IsFiniteSet(T) /\ Cardinality(T) <= Cardinality(S \cup {x})
  BY <1>2, FS_Subset
<1>4. Cardinality(S) \in Nat /\ Cardinality(T) \in Nat
  BY <1>1, <1>3, FS_CardinalityType
<1> QED BY <1>2, <1>3, <1>4

LEMMA SelectFacts ==
    ASSUME Inv, NEW budget \in Nat, NEW st \in Scans(budget), NEW r \in Ready,
           CanAdd(st, r, budget), NEW v, v = Select(st, r)
    PROVE  /\ v \in Scans(budget) /\ v.batch = st.batch \cup {r}
           /\ v.infeasible = st.infeasible
<1> DEFINE m == st.mem
           w == Moved(st.mem, r, "gpu")
           b == st.batch \cup {r}
           need == AppendNeed(st.mem)
           coming == IF m.loc[r] = "gpu" THEN 0 ELSE m.blocks[r]
           ins == IF m.loc[r] = "gpu" THEN st.swapIns ELSE st.swapIns + 1
<1>1. /\ m \in Mem /\ st.batch \in SUBSET Ready /\ st.swapIns \in Nat
      /\ st.infeasible \in SUBSET Ready
      /\ st \in [mem: Mem, batch: SUBSET Ready, swapIns: Nat, infeasible: SUBSET Ready]
  BY DEF Scans
<1>2. /\ Ready \in SUBSET Requests /\ r \in Requests /\ swapped \in SUBSET Ready
      /\ st.batch \in SUBSET Requests
  BY <1>1, ReadyFacts
<1>3. /\ Cardinality(st.batch) < MaxBatchSize
      /\ Cardinality(st.batch) + 1 <= MaxTokensPerBatch
      /\ m.loc[r] # "gpu" => st.swapIns < budget
      /\ need[r] + Reserved(m, st.batch) + coming <= AvailGpu(m)
  BY DEF CanAdd, Resident
<1>4. /\ w \in Mem /\ w.blocks = m.blocks
      /\ \A x \in Requests : w.loc[x] = IF x = r THEN "gpu" ELSE m.loc[x]
      /\ HeldOn(w, "gpu") <= HeldOn(m, "gpu") + m.blocks[r]
      /\ m.loc[r] = "gpu" => HeldOn(w, "gpu") <= HeldOn(m, "gpu")
  <2>1. "gpu" \in Places
    BY DEF Places
  <2> QED BY <1>1, <1>2, <2>1, MovedFacts
<1>5. /\ v = [st EXCEPT !.mem = w, !.batch = b, !.swapIns = ins]
  BY Zenon DEF Select, Resident
<1>6. need \in [Requests -> Nat] /\ AppendNeed(w) = need
  BY <1>1, <1>4, ReadyFacts, NeedTypes
<1>7. ins \in Nat /\ ins <= budget
  <2>1. st.swapIns <= budget
    BY DEF Scans
  <2> QED BY <1>1, <1>3, <2>1
<1>8. coming \in Nat /\ m.blocks[r] \in Nat
  BY <1>1, <1>2 DEF Mem
<1>9. HeldOn(w, "gpu") <= HeldOn(m, "gpu") + coming
  <2>1. HeldOn(m, "gpu") \in Nat
    BY <1>1, HeldType
  <2> HIDE DEF w
  <2> QED BY <1>4, <1>8, <2>1
<1> HIDE DEF w, b, ins
<1>10. /\ v.mem = w /\ v.batch = b /\ v.infeasible = st.infeasible /\ v.swapIns = ins
       /\ v \in [mem: Mem, batch: SUBSET Ready, swapIns: Nat, infeasible: SUBSET Ready]
  <2>1. b \in SUBSET Ready
    BY <1>1 DEF b
  <2> QED BY <1>1, <1>4, <1>5, <1>7, <2>1
<1> HIDE DEF need, coming, m
<1>11. Reserved(w, b) <= AvailGpu(w)
  <2>1. SumOver(need, b) <= SumOver(need, st.batch) + need[r]
        /\ SumOver(need, b) \in Nat /\ SumOver(need, st.batch) \in Nat /\ need[r] \in Nat
    <3>1. b \in SUBSET Requests /\ need[r] \in Nat
      BY <1>2, <1>6 DEF b
    <3>2. /\ SumOver(need, b) \in Nat /\ SumOver(need, st.batch) \in Nat
          /\ IsFiniteSet(st.batch) /\ IsFiniteSet({r})
      BY <1>2, <1>6, <3>1, RequestSets, FS_Singleton
    <3>3. CASE r \in st.batch
      <4>1. b = st.batch
        BY <3>3 DEF b
      <4> QED BY <3>1, <3>2, <4>1
    <3>4. CASE r \notin st.batch
      <4>1. st.batch \cap {r} = {} /\ \A x \in st.batch \cup {r} : need[x] \in Nat
        BY <1>2, <1>6, <3>4
      <4>2. SumOver(need, st.batch \cup {r}) = SumOver(need, st.batch) + SumOver(need, {r})
        BY <3>2, <4>1, SumUnion
      <4>3. SumOver(need, {r}) = need[r]
        BY <3>1, SumSingleton
      <4> QED BY <3>1, <3>2, <4>2, <4>3 DEF b
    <3> QED BY <3>3, <3>4
  <2>2. HeldOn(w, "gpu") \in Nat /\ HeldOn(m, "gpu") \in Nat
    BY <1>1, <1>4, HeldType
  <2>3. Reserved(w, b) = SumOver(need, b) /\ Reserved(m, st.batch) = SumOver(need, st.batch)
    BY <1>6 DEF Reserved, need, m
  <2> QED BY <1>3, <1>8, <1>9, <2>1, <2>2, <2>3, KVCountsAssumption DEF AvailGpu
<1>12. HeldOn(w, "cpu") <= MaxCpuBlocks
  <2>1. HeldOn(w, "cpu") <= HeldOn(m, "cpu")
    <3>1. \A x \in Requests :
            w.loc[x] = "cpu" => m.loc[x] = "cpu" /\ w.blocks[x] <= m.blocks[x]
      <4>1. \A x \in Requests : m.blocks[x] \in Nat
        BY <1>1 DEF Mem
      <4> QED BY <1>4, <4>1
    <3> QED BY <1>1, <1>4, <3>1, FewerHeld
  <2>2. HeldOn(w, "cpu") \in Nat /\ HeldOn(m, "cpu") \in Nat
    BY <1>1, <1>4, HeldType
  <2>3. HeldOn(m, "cpu") <= MaxCpuBlocks
    BY DEF Scans, m
  <2> QED BY <2>1, <2>2, <2>3, KVCountsAssumption
<1>13. /\ w.blocks = mem.blocks
       /\ \A x \in Requests : IF x \in Ready THEN w.loc[x] \in {"gpu", "cpu"}
                              ELSE w.loc[x] = mem.loc[x]
       /\ \A x \in b : w.loc[x] = "gpu"
  BY <1>1, <1>2, <1>4 DEF Scans, b, m
<1>14. Cardinality(b) <= MaxBatchSize /\ Cardinality(b) <= MaxTokensPerBatch
  <2>1. Cardinality(st.batch) \in Nat /\ Cardinality(b) \in Nat
        /\ Cardinality(b) <= Cardinality(st.batch) + 1
    BY <1>2, OneMore DEF b
  <2> QED BY <1>3, <2>1, DecodeKASAssumption
<1>15. Cardinality({x \in swapped : w.loc[x] = "gpu"}) <= ins
  <2> DEFINE S == {x \in swapped : m.loc[x] = "gpu"}
             T == {x \in swapped : w.loc[x] = "gpu"}
  <2>1. S \in SUBSET Requests /\ T \in SUBSET (S \cup {r})
        /\ (m.loc[r] = "gpu" => T = S)
    BY <1>2, <1>4
  <2>2. Cardinality(S) <= st.swapIns
    BY DEF Scans, m
  <2> HIDE DEF S, T
  <2>3. /\ Cardinality(S) \in Nat /\ Cardinality(T) \in Nat
        /\ Cardinality(T) <= Cardinality(S) + 1
    BY <1>2, <2>1, OneMore
  <2>4. Cardinality(T) <= ins
    BY <1>1, <2>1, <2>2, <2>3 DEF ins
  <2> QED BY <2>4 DEF T
<1>16. v \in Scans(budget)
  BY <1>7, <1>10, <1>11, <1>12, <1>13, <1>14, <1>15 DEF Scans
<1> QED BY <1>10, <1>16 DEF b

Full(st) == st.batch # {} /\ Cardinality(st.batch) >= MaxBatchSize

(* A turn selects the request or finds it infeasible, or the loop is left. *)
Turned(st, v, r) ==
    \/ Full(st) /\ v = st
    \/ /\ ~Full(st)
       /\ \/ v.batch = st.batch \cup {r} /\ v.infeasible = st.infeasible
          \/ v.batch = st.batch /\ v.infeasible = st.infeasible \cup {r}

LEMMA ConsiderFacts ==
    ASSUME Inv, NEW budget \in Nat, NEW st \in Scans(budget), NEW r \in Ready,
           NEW v, v = Consider(st, r, budget)
    PROVE  v \in Scans(budget) /\ Turned(st, v, r)
<1> DEFINE room == IF CanAdd(st, r, budget) \/ ~Resident(st.mem, r) THEN st ELSE Evict(st, r)
           pick(x) == IF CanAdd(x, r, budget) THEN Select(x, r) ELSE Reject(x, r)
<1>1. CASE Full(st)
  <2>1. v = st
    BY <1>1, Zenon DEF Consider, Full
  <2> QED BY <1>1, <2>1 DEF Turned
<1>2. CASE ~Full(st)
  <2>1. v = pick(room)
    <3>1. v = The({pick(x) : x \in {room}})
      BY <1>2, Zenon DEF Consider, Full
    <3> HIDE DEF pick, room
    <3>2. {pick(x) : x \in {room}} = {pick(room)}
      OBVIOUS
    <3> QED BY <3>1, <3>2, TheOne, Zenon
  <2>2. room \in Scans(budget) /\ room.batch = st.batch /\ room.infeasible = st.infeasible
    <3>1. CASE CanAdd(st, r, budget) \/ ~Resident(st.mem, r)
      <4>1. room = st
        BY <3>1, Zenon
      <4> QED BY <4>1
    <3>2. CASE ~(CanAdd(st, r, budget) \/ ~Resident(st.mem, r))
      <4>1. room = Evict(st, r)
        BY <3>2, Zenon
      <4> HIDE DEF room
      <4> QED BY <4>1, EvictFacts
    <3> QED BY <3>1, <3>2
  <2> HIDE DEF room
  <2>3. CASE CanAdd(room, r, budget)
    <3>1. v = Select(room, r)
      BY <2>1, <2>3, Zenon
    <3>2. v \in Scans(budget) /\ v.batch = room.batch \cup {r} /\ v.infeasible = room.infeasible
      BY <2>2, <2>3, <3>1, SelectFacts
    <3> QED BY <1>2, <2>2, <3>2 DEF Turned
  <2>4. CASE ~CanAdd(room, r, budget)
    <3>1. v = [room EXCEPT !.infeasible = room.infeasible \cup {r}]
      BY <2>1, <2>4, Zenon DEF Reject
    <3>2. room \in [mem: Mem, batch: SUBSET Ready, swapIns: Nat, infeasible: SUBSET Ready]
      BY <2>2 DEF Scans
    <3>3. /\ v \in [mem: Mem, batch: SUBSET Ready, swapIns: Nat, infeasible: SUBSET Ready]
          /\ v.mem = room.mem /\ v.batch = room.batch /\ v.swapIns = room.swapIns
          /\ v.infeasible = room.infeasible \cup {r}
      BY <3>1, <3>2
    <3>4. v \in Scans(budget)
      BY <2>2, <3>3 DEF Scans
    <3> QED BY <1>2, <2>2, <3>3, <3>4 DEF Turned
  <2> QED BY <2>3, <2>4
<1> QED BY <1>1, <1>2

-----------------------------------------------------------------------------
(* The round: the scan starts from what the invariant says and keeps, for  *)
(* every turn, that whoever was considered before a selected request is    *)
(* selected too or infeasible.                                             *)
NoScan == [mem |-> mem, batch |-> {}, swapIns |-> 0, infeasible |-> {}]

LEMMA NoScanFacts ==
    ASSUME Inv, NEW budget \in Nat
    PROVE  NoScan \in Scans(budget)
<1>1. /\ mem \in Mem /\ Ready \in SUBSET Requests /\ swapped \in SUBSET Ready
      /\ LocationInv /\ MemoryInv /\ migrating \cap Ready = {}
      /\ MaxBatchSize \in Nat /\ MaxTokensPerBatch \in Nat
  BY ReadyFacts, DecodeKASAssumption DEF Inv, QueuesInv
<1>2. \A x \in Requests : IF x \in Ready THEN mem.loc[x] \in {"gpu", "cpu"}
                          ELSE mem.loc[x] = mem.loc[x]
  BY <1>1 DEF LocationInv, Ready
<1>3. Reserved(mem, {}) <= AvailGpu(mem)
  <2>1. Reserved(mem, {}) = 0
    BY SumEmpty DEF Reserved
  <2>2. HeldOn(mem, "gpu") \in Nat
    BY <1>1, HeldType
  <2> QED BY <1>1, <2>1, <2>2, KVCountsAssumption DEF MemoryInv, AvailGpu
<1>4. {x \in swapped : mem.loc[x] = "gpu"} = {}
  BY <1>1 DEF LocationInv
<1>5. Cardinality({}) = 0
  BY FS_EmptySet
<1>6. /\ NoScan \in [mem: Mem, batch: SUBSET Ready, swapIns: Nat, infeasible: SUBSET Ready]
      /\ NoScan.mem = mem /\ NoScan.batch = {} /\ NoScan.swapIns = 0
  BY <1>1 DEF NoScan
<1>7. HeldOn(mem, "cpu") <= MaxCpuBlocks
  BY <1>1 DEF MemoryInv
<1> QED BY <1>1, <1>2, <1>3, <1>4, <1>5, <1>6, <1>7 DEF Scans

(* Scan, as the recursive function it stands for *)
ScanAt(budget, q, h, i) ==
    IF i = 0 THEN NoScan ELSE The({Consider(y, q[i], budget) : y \in {h[i - 1]}})
ScanAll(budget, q) ==
    (CHOOSE h : h = [i \in 0..Len(q) |-> ScanAt(budget, q, h, i)])[Len(q)]

LEMMA ScanIsALoop ==
    ASSUME NEW limit, NEW budget
    PROVE  Scan(limit, budget) = ScanAll(budget, FirstOf(Sorted(mem, Ready), limit))
<1> DEFINE turn(st, r) == Consider(st, r, budget)
           s == Sorted(mem, Ready)
           q == FirstOf(s, limit)
<1>1. Scan(limit, budget) = The({Iterate(turn, NoScan, FirstOf(x, limit)) : x \in {s}})
  BY Zenon DEF Scan, NoScan
<1>2. {Iterate(turn, NoScan, FirstOf(x, limit)) : x \in {s}} = {Iterate(turn, NoScan, q)}
  <2> HIDE DEF s, turn
  <2> QED BY Zenon DEF q
<1>3. Scan(limit, budget) = Iterate(turn, NoScan, q)
  BY <1>1, <1>2, TheOne, Zenon
<1> HIDE DEF q
<1>4. Iterate(turn, NoScan, q) = ScanAll(budget, q)
  BY Zenon DEF Iterate, ScanAll, ScanAt, turn
<1> QED BY <1>3, <1>4, Zenon DEF q, s

Passed(st, q, n) ==
    /\ \A x \in st.batch : \E j \in 1..n : q[j] = x
    /\ Full(st) \/ \A j \in 1..n : q[j] \in st.batch \cup st.infeasible
    /\ \A k \in 1..n : q[k] \in st.batch =>
         \A j \in 1..k : q[j] \in st.batch \cup st.infeasible

LEMMA TurnPasses ==
    ASSUME NEW q, Distinct(q), NEW n \in 1..Len(q), Len(q) \in Nat,
           NEW st, Passed(st, q, n - 1), NEW v, Turned(st, v, q[n])
    PROVE  Passed(v, q, n)
<1>1. \A j \in 1..n : j \in 1..(n - 1) \/ j = n
  OBVIOUS
<1>2. \A j \in 1..(n - 1) : j \in 1..n /\ j \in 1..Len(q) /\ q[j] # q[n]
  BY DEF Distinct
<1>3. n \in 1..n
  OBVIOUS
<1>4. CASE Full(st)
  <2>1. v = st
    BY <1>4 DEF Turned
  <2>2. q[n] \notin st.batch
    BY <1>2 DEF Passed
  <2>3. \A x \in v.batch : \E j \in 1..n : q[j] = x
    BY <1>2, <2>1 DEF Passed
  <2>4. \A k \in 1..n : q[k] \in v.batch =>
          \A j \in 1..k : q[j] \in v.batch \cup v.infeasible
    BY <1>1, <2>1, <2>2 DEF Passed
  <2> QED BY <1>4, <2>1, <2>3, <2>4 DEF Passed
<1>5. CASE ~Full(st)
  <2>1. \A j \in 1..n : q[j] \in v.batch \cup v.infeasible
    BY <1>1, <1>5 DEF Passed, Turned
  <2>2. \A x \in v.batch : \E j \in 1..n : q[j] = x
    BY <1>2, <1>3, <1>5 DEF Passed, Turned
  <2>3. \A k \in 1..n : \A j \in 1..k : j \in 1..n
    OBVIOUS
  <2> QED BY <2>1, <2>2, <2>3 DEF Passed
<1> QED BY <1>4, <1>5

LEMMA ScanTurns ==
    ASSUME Inv, NEW budget \in Nat, NEW q \in Seq(Ready)
    PROVE  \E run : /\ run[0] = NoScan /\ run[Len(q)] = ScanAll(budget, q)
                    /\ \A i \in 1..Len(q) : run[i] = Consider(run[i - 1], q[i], budget)
                    /\ \A i \in 0..Len(q) : run[i] \in Scans(budget)
<1> DEFINE X == Scans(budget)
           n == Len(q)
           turn(st, r) == Consider(st, r, budget)
           F == [p \in X \X (1..n) |-> turn(p[1], q[p[2]])]
           At(h, i) == ScanAt(budget, q, h, i)
           run == CHOOSE h : h = [i \in 0..n |-> At(h, i)]
<1>1. ScanAll(budget, q) = run[n]
  BY Zenon DEF ScanAll
<1>2. n \in Nat /\ \A i \in 1..n : q[i] \in Ready
  BY ElementOfSeq
<1>3. NoScan \in X
  BY NoScanFacts
<1>4. \A st \in X, r \in Ready : turn(st, r) \in X
  BY ConsiderFacts
<1>5. \A h : At(h, 0) = NoScan
  BY DEF ScanAt
<1> HIDE DEF X, n, turn
<1>6. \A h : \A i \in 1..n : At(h, i) = turn(h[i - 1], q[i])
  <2> SUFFICES ASSUME NEW h, NEW i \in 1..n PROVE At(h, i) = turn(h[i - 1], q[i])
    OBVIOUS
  <2>1. i # 0
    BY <1>2
  <2>2. {turn(y, q[i]) : y \in {h[i - 1]}} = {turn(h[i - 1], q[i])}
    OBVIOUS
  <2>3. The({turn(h[i - 1], q[i])}) = turn(h[i - 1], q[i])
    BY TheOne, Zenon
  <2> QED BY <2>1, <2>2, <2>3, Zenon DEF ScanAt, turn
<1> HIDE DEF At
<1>7. F \in [X \X (1..n) -> X]
  BY <1>2, <1>4
<1>8. PICK f \in [0..n -> X] : IsLoop(f, NoScan, F, n)
  <2> HIDE DEF F
  <2> QED BY <1>2, <1>3, <1>7, LoopExists
<1>9. \A i \in 1..n : F[<<f[i - 1], i>>] = turn(f[i - 1], q[i])
  <2> SUFFICES ASSUME NEW i \in 1..n PROVE F[<<f[i - 1], i>>] = turn(f[i - 1], q[i])
    OBVIOUS
  <2>1. f[i - 1] \in X
    BY <1>2
  <2> QED BY <2>1
<1> HIDE DEF F
<1>10. f = [i \in 0..n |-> At(f, i)]
  <2>1. \A i \in 0..n : LoopAt(f, NoScan, F, i) = At(f, i)
    <3> SUFFICES ASSUME NEW i \in 0..n PROVE LoopAt(f, NoScan, F, i) = At(f, i)
      OBVIOUS
    <3>1. CASE i = 0
      BY <1>5, <3>1 DEF LoopAt
    <3>2. CASE i # 0
      <4>1. i \in 1..n
        BY <3>2
      <4> QED BY <1>6, <1>9, <3>2, <4>1 DEF LoopAt
    <3> QED BY <3>1, <3>2
  <2> QED BY <1>8, <2>1 DEF IsLoop
<1>11. run = [i \in 0..n |-> At(run, i)]
  BY <1>10, Zenon
<1> HIDE DEF run
<1>12. /\ run[0] = NoScan
       /\ \A i \in 1..n : run[i] = turn(run[i - 1], q[i])
  <2>1. \A i \in 0..n : run[i] = At(run, i)
    BY <1>11, Zenon
  <2>2. 0 \in 0..n /\ \A i \in 1..n : i \in 0..n
    BY <1>2
  <2>3. \A i \in 1..n : run[i] = turn(run[i - 1], q[i])
    BY <1>6, <2>1, <2>2, Zenon
  <2> QED BY <1>5, <2>1, <2>2, <2>3, Zenon
<1>13. \A i \in 0..n : run[i] \in X
  <2> DEFINE Xs == [i \in 0..n |-> X]
  <2>1. run[0] \in Xs[0]
    BY <1>2, <1>3, <1>12
  <2>2. \A i \in 1..n : run[i - 1] \in Xs[i - 1] => run[i] \in Xs[i]
    BY <1>2, <1>4, <1>12
  <2>3. \A i \in 0..n : Xs[i] = X
    OBVIOUS
  <2> HIDE DEF Xs
  <2>4. \A i \in 0..n : run[i] \in Xs[i]
    BY <1>2, <2>1, <2>2, LoopInvariant
  <2> QED BY <2>3, <2>4
<1> QED BY <1>1, <1>12, <1>13 DEF X, n, turn

LEMMA ScanLoop ==
    ASSUME Inv, NEW budget \in Nat, NEW q \in Seq(Ready), Distinct(q)
    PROVE  /\ ScanAll(budget, q) \in Scans(budget)
           /\ Passed(ScanAll(budget, q), q, Len(q))
<1> DEFINE n == Len(q)
<1>1. PICK run : /\ run[0] = NoScan /\ run[n] = ScanAll(budget, q)
                 /\ \A i \in 1..n : run[i] = Consider(run[i - 1], q[i], budget)
                 /\ \A i \in 0..n : run[i] \in Scans(budget)
  BY ScanTurns
<1>2. n \in Nat /\ \A i \in 1..n : q[i] \in Ready
  BY ElementOfSeq
<1> DEFINE Xs == [i \in 0..n |-> {st \in Scans(budget) : Passed(st, q, i)}]
<1> HIDE DEF n
<1>3. \A i \in 0..n : Xs[i] = {st \in Scans(budget) : Passed(st, q, i)}
  OBVIOUS
<1> HIDE DEF Xs
<1>4. run[0] \in Xs[0]
  <2>1. NoScan.batch = {}
    BY DEF NoScan
  <2>2. Passed(NoScan, q, 0)
    BY <2>1 DEF Passed
  <2> QED BY <1>1, <1>2, <1>3, <2>2
<1>5. \A i \in 1..n : run[i - 1] \in Xs[i - 1] => run[i] \in Xs[i]
  <2> SUFFICES ASSUME NEW i \in 1..n, run[i - 1] \in Xs[i - 1] PROVE run[i] \in Xs[i]
    OBVIOUS
  <2> DEFINE st == run[i - 1]
             v == run[i]
  <2>1. i \in 0..n /\ i - 1 \in 0..n
    BY <1>2
  <2>2. st \in Scans(budget) /\ Passed(st, q, i - 1) /\ q[i] \in Ready
        /\ v = Consider(st, q[i], budget)
    BY <1>1, <1>2, <1>3, <2>1
  <2> HIDE DEF st, v
  <2>3. v \in Scans(budget) /\ Turned(st, v, q[i])
    BY <2>2, ConsiderFacts
  <2>4. Passed(v, q, i)
    BY <1>2, <2>2, <2>3, TurnPasses DEF n
  <2> QED BY <1>3, <2>1, <2>3, <2>4 DEF v
<1>6. \A i \in 0..n : run[i] \in Xs[i]
  BY <1>2, <1>4, <1>5, LoopInvariant
<1>7. run[n] \in Xs[n]
  BY <1>2, <1>6
<1> QED BY <1>1, <1>2, <1>3, <1>7 DEF n

LEMMA ScanFacts ==
    ASSUME Inv, NEW limit \in Nat \ {0}, NEW budget \in Nat,
           NEW st, st = Scan(limit, budget)
    PROVE  /\ st \in Scans(budget)
           /\ \A r, s \in Ready :
                Before(mem, r, s) /\ s \in st.batch => r \in st.batch \cup st.infeasible
<1> DEFINE all == Sorted(mem, Ready)
           n == IF limit < Len(all) THEN limit ELSE Len(all)
           q == FirstOf(all, limit)
<1>1. /\ all \in Seq(Ready) /\ Distinct(all) /\ Members(all) = Ready
      /\ \A i, j \in 1..Len(all) : Before(mem, all[i], all[j]) => i < j
  <2>1. order \in Seq(Requests) /\ Ready \in SUBSET Members(order) /\ IsFiniteSet(Ready)
    BY ReadyFacts
  <2> QED BY <2>1, SortedFacts
<1>2. st = ScanAll(budget, q)
  BY ScanIsALoop
<1> HIDE DEF all
<1>3. Len(all) \in Nat /\ n \in 0..Len(all) /\ 1 \in 1..(Len(all) + 1)
  BY <1>1
<1>4. q = SubSeq(all, 1, n)
  BY DEF FirstOf
<1> HIDE DEF n, q
<1>5. /\ q \in Seq(Ready) /\ Distinct(q) /\ Len(q) = n
      /\ \A i \in 1..n : q[i] = all[i]
  <2>1. /\ SubSeq(all, 1, n) \in Seq(Ready) /\ Distinct(SubSeq(all, 1, n))
    BY <1>1, <1>3, MembersOfSlice
  <2>2. /\ Len(SubSeq(all, 1, n)) = n
        /\ \A i \in 1..n : SubSeq(all, 1, n)[i] = all[i]
    BY <1>1, <1>3
  <2> QED BY <1>4, <2>1, <2>2
<1>6. st \in Scans(budget) /\ Passed(st, q, n)
  BY <1>2, <1>5, ScanLoop
<1>7. ASSUME NEW r \in Ready, NEW s \in Ready, Before(mem, r, s), s \in st.batch
      PROVE  r \in st.batch \cup st.infeasible
  <2>1. PICK k \in 1..n : q[k] = s
    BY <1>6, <1>7 DEF Passed
  <2>2. PICK j \in 1..Len(all) : all[j] = r
    BY <1>1 DEF Members
  <2>3. k \in 1..Len(all) /\ all[k] = s
    BY <1>3, <1>5, <2>1
  <2>4. j < k
    BY <1>1, <1>7, <2>2, <2>3
  <2>5. j \in 1..k /\ j \in 1..n
    BY <1>3, <2>4
  <2>6. q[j] \in st.batch \cup st.infeasible
    BY <1>6, <1>7, <2>1, <2>5 DEF Passed
  <2> QED BY <1>5, <2>2, <2>5, <2>6
<1> QED BY <1>6, <1>7

(* The allocation after the round finds what the round has reserved.       *)
AllocatedAfter(st) ==
    [st.mem EXCEPT !.blocks = [r \in Requests |->
        IF r \in st.batch /\ Need[r] > @[r] THEN Need[r] ELSE @[r]]]

LEMMA AllocationFits ==
    ASSUME Inv, NEW budget, NEW st \in Scans(budget), NEW m, m = AllocatedAfter(st)
    PROVE  /\ m \in Mem /\ m.loc = st.mem.loc
           /\ \A r \in Requests : r \notin st.batch => m.blocks[r] = mem.blocks[r]
           /\ \A r \in st.batch : m.blocks[r] >= Need[r]
           /\ HeldOn(m, "gpu") <= MaxGpuBlocks /\ HeldOn(m, "cpu") <= MaxCpuBlocks
<1> DEFINE S == {r \in Requests : st.mem.loc[r] = "gpu"}
           rest == S \ st.batch
           need == AppendNeed(st.mem)
<1>0. m = [st.mem EXCEPT !.blocks = [r \in Requests |->
        IF r \in st.batch /\ Need[r] > @[r] THEN Need[r] ELSE @[r]]]
  BY DEF AllocatedAfter
<1>1. /\ st.mem \in Mem /\ st.mem.blocks = mem.blocks
      /\ st.batch \in SUBSET Ready /\ Ready \in SUBSET Requests
      /\ out \in [Requests -> Nat]
      /\ \A r \in st.batch : st.mem.loc[r] = "gpu"
      /\ Reserved(st.mem, st.batch) <= AvailGpu(st.mem)
      /\ HeldOn(st.mem, "cpu") <= MaxCpuBlocks
  BY ReadyFacts DEF Scans
<1>2. /\ need \in [Requests -> Nat]
      /\ \A r \in Requests : /\ Need[r] \in Nat
                             /\ Need[r] <= st.mem.blocks[r] + need[r]
  BY <1>1, NeedTypes
<1>3. /\ m.loc = st.mem.loc /\ DOMAIN m.blocks = Requests
      /\ \A r \in Requests : m.blocks[r] = IF r \in st.batch /\ Need[r] > mem.blocks[r]
                                           THEN Need[r] ELSE mem.blocks[r]
  BY <1>0, <1>1 DEF Mem
<1>4. m \in Mem
  <2>1. mem.blocks \in [Requests -> Nat] /\ st.mem.loc \in [Requests -> Places]
    BY <1>1 DEF Mem
  <2>2. m = [blocks |-> m.blocks, loc |-> m.loc]
    BY <1>0, <1>1 DEF Mem
  <2>3. m.blocks = [r \in Requests |-> IF r \in st.batch /\ Need[r] > mem.blocks[r]
                                       THEN Need[r] ELSE mem.blocks[r]]
    BY <1>0, <1>1 DEF Mem
  <2>4. m.blocks \in [Requests -> Nat]
    BY <1>2, <2>1, <2>3
  <2> QED BY <1>3, <2>1, <2>2, <2>4 DEF Mem
<1>5. \A r \in Requests : /\ mem.blocks[r] \in Nat /\ m.blocks[r] \in Nat
                          /\ st.mem.blocks[r] = mem.blocks[r]
  BY <1>1, <1>4 DEF Mem
<1>6. HeldOn(m, "gpu") = SumOver(m.blocks, S)
      /\ HeldOn(st.mem, "gpu") = SumOver(mem.blocks, S)
  BY <1>1, <1>3 DEF HeldOn
<1>7. /\ S \in SUBSET Requests /\ rest \in SUBSET Requests /\ st.batch \in SUBSET S
      /\ S = rest \cup st.batch /\ rest \cap st.batch = {}
      /\ m.blocks \in [Requests -> Nat] /\ mem.blocks \in [Requests -> Nat]
  BY <1>1, <1>4 DEF Mem
<1> HIDE DEF S, rest, need
<1>8. HeldOn(m, "gpu") <= MaxGpuBlocks
  <2>1. /\ IsFiniteSet(rest) /\ IsFiniteSet(st.batch)
        /\ SumOver(m.blocks, rest) \in Nat /\ SumOver(m.blocks, st.batch) \in Nat
        /\ SumOver(mem.blocks, rest) \in Nat /\ SumOver(mem.blocks, st.batch) \in Nat
        /\ SumOver(need, st.batch) \in Nat
    BY <1>2, <1>7, RequestSets
  <2>2. SumOver(m.blocks, S) = SumOver(m.blocks, rest) + SumOver(m.blocks, st.batch)
    <3>1. \A r \in rest \cup st.batch : m.blocks[r] \in Nat
      BY <1>5, <1>7
    <3>2. SumOver(m.blocks, rest \cup st.batch)
            = SumOver(m.blocks, rest) + SumOver(m.blocks, st.batch)
      BY <1>7, <2>1, <3>1, SumUnion
    <3> QED BY <1>7, <3>2, Zenon
  <2>3. SumOver(mem.blocks, S) = SumOver(mem.blocks, rest) + SumOver(mem.blocks, st.batch)
    <3>1. \A r \in rest \cup st.batch : mem.blocks[r] \in Nat
      BY <1>5, <1>7
    <3>2. SumOver(mem.blocks, rest \cup st.batch)
            = SumOver(mem.blocks, rest) + SumOver(mem.blocks, st.batch)
      BY <1>7, <2>1, <3>1, SumUnion
    <3> QED BY <1>7, <3>2, Zenon
  <2>4. SumOver(m.blocks, rest) <= SumOver(mem.blocks, rest)
    <3>1. \A r \in rest : /\ m.blocks[r] \in Nat /\ mem.blocks[r] \in Nat
                          /\ m.blocks[r] <= mem.blocks[r]
      BY <1>3, <1>5, <1>7
    <3> QED BY <2>1, <3>1, SumMonotone
  <2>5. SumOver(m.blocks, st.batch) <= SumOver(mem.blocks, st.batch) + SumOver(need, st.batch)
    <3>1. \A r \in st.batch : /\ mem.blocks[r] \in Nat /\ need[r] \in Nat
                              /\ m.blocks[r] \in Nat
                              /\ m.blocks[r] <= mem.blocks[r] + need[r]
      BY <1>2, <1>3, <1>5, <1>7
    <3> QED BY <2>1, <3>1, SumOfTwo
  <2>6. SumOver(need, st.batch) <= MaxGpuBlocks - SumOver(mem.blocks, S)
    BY <1>1, <1>6 DEF Reserved, AvailGpu, need
  <2> QED BY <1>6, <2>1, <2>2, <2>3, <2>4, <2>5, <2>6, KVCountsAssumption
<1>9. HeldOn(m, "cpu") <= MaxCpuBlocks
  <2>1. \A r \in Requests :
          m.loc[r] = "cpu" => st.mem.loc[r] = "cpu" /\ m.blocks[r] <= st.mem.blocks[r]
    <3> SUFFICES ASSUME NEW r \in Requests, m.loc[r] = "cpu"
                 PROVE  st.mem.loc[r] = "cpu" /\ m.blocks[r] <= st.mem.blocks[r]
      OBVIOUS
    <3>1. st.mem.loc[r] = "cpu" /\ r \notin st.batch
      BY <1>1, <1>3
    <3> QED BY <1>3, <1>5, <3>1
  <2>2. HeldOn(m, "cpu") <= HeldOn(st.mem, "cpu")
    BY <1>1, <1>4, <2>1, FewerHeld
  <2>3. HeldOn(m, "cpu") \in Nat /\ HeldOn(st.mem, "cpu") \in Nat
    BY <1>1, <1>4, HeldType
  <2> QED BY <1>1, <2>2, <2>3, KVCountsAssumption
<1>10. \A r \in st.batch : m.blocks[r] >= Need[r]
  BY <1>1, <1>2, <1>3, <1>5
<1> QED BY <1>3, <1>4, <1>8, <1>9, <1>10

-----------------------------------------------------------------------------
(* The steps of the engine *)
LEMMA InitInv == Init => Inv
<1> SUFFICES ASSUME Init PROVE Inv
  OBVIOUS
<1>1. /\ mem = NoBlocks /\ issued = {} /\ done = {} /\ migrating = {}
      /\ out = [r \in Requests |-> 1]
      /\ unaccepted = <<>> /\ order = <<>>
      /\ waiting = {} /\ swapped = {} /\ batch = {}
      /\ skips = [r \in Requests |-> 0] /\ rejected = {}
      /\ rounds = [r \in Requests |-> 0]
      /\ pc = "step" /\ failed = FALSE
  BY DEF Init
<1>2. /\ mem \in Mem /\ mem.blocks = [r \in Requests |-> 0]
      /\ mem.loc = [r \in Requests |-> "none"]
  BY <1>1 DEF NoBlocks, Mem, Places
<1>3. /\ out \in [Requests -> Nat] /\ \A r \in Requests : out[r] = 1
      /\ \A r \in Requests : MaxOutput[r] \in Nat \ {0, 1}
  BY <1>1, DecodeKASAssumption
<1>4. TypeOK
  <2>1. skips \in [Requests -> 0..SkipsBound] /\ rounds \in [Requests -> 0..RoundsBound]
    BY <1>1, DecodeKASAssumption
  <2>2. unaccepted \in Seq(Requests) /\ order \in Seq(Requests)
    BY <1>1
  <2>3. \A r \in Requests : out[r] \in 1..MaxOutput[r]
    BY <1>3
  <2> QED BY <1>1, <1>2, <2>1, <2>2, <2>3 DEF TypeOK, Mem
<1>5. QueuesInv
  <2>1. Members(unaccepted) = {} /\ Members(order) = {} /\ Ready = {}
    BY <1>1 DEF Members, Ready
  <2>2. Distinct(unaccepted) /\ Distinct(order)
    BY <1>1 DEF Distinct
  <2> QED BY <1>1, <2>1, <2>2 DEF QueuesInv
<1>6. LocationInv /\ Unfinished /\ SelectionCanRun
  BY <1>1, <1>2, <1>3 DEF LocationInv, Unfinished, SelectionCanRun
<1>7. MemoryInv
  <2>1. \A p \in {"gpu", "cpu"} : HeldOn(mem, p) = 0
    <3>1. \A p \in {"gpu", "cpu"} : {r \in Requests : mem.loc[r] = p} = {}
      BY <1>2
    <3> QED BY <3>1, SumEmpty DEF HeldOn
  <2> QED BY <1>2, <2>1, KVCountsAssumption DEF MemoryInv
<1> QED BY <1>3, <1>4, <1>5, <1>6, <1>7 DEF Inv

(* What a round does, in terms of the scan it ends with *)
LEMMA StepRound ==
    ASSUME Inv, Step
    PROVE  /\ pc = "step"
           /\ UNCHANGED <<issued, unaccepted, migrating, order, out, done>>
           /\ \E budget \in SwapBudgets : \E st \in Scans(budget) :
                /\ \E limit \in ScanLimits : st = Scan(limit, budget)
                /\ Requeue(st) /\ batch' = st.batch
                /\ mem' \in Mem /\ mem'.loc = st.mem.loc
                /\ \A r \in Requests : r \notin st.batch => mem'.blocks[r] = mem.blocks[r]
                /\ \A r \in st.batch : mem'.blocks[r] >= Need[r]
                /\ HeldOn(mem', "gpu") <= MaxGpuBlocks /\ HeldOn(mem', "cpu") <= MaxCpuBlocks
                /\ \A r, s \in Ready :
                     Before(mem, r, s) /\ s \in st.batch => r \in st.batch \cup st.infeasible
                /\ pc' \in {"post", "await"} /\ ~failed'
<1>. DEFINE Ends(limit, budget) ==
        \E st \in {Scan(limit, budget)} :
          \E m \in {AllocatedAfter(st)} :
            /\ Requeue(st) /\ batch' = st.batch /\ mem' = m
            /\ failed' = \/ AvailGpu(m) < 0 \/ AvailCpu(m) < 0
                         \/ \E r \in st.batch : ~Resident(m, r)
            /\ pc' = IF st.batch = {} THEN "post" ELSE "await"
<1>0. PICK b \in Budgets : Ends(b.decode_scan_limit, b.decode_swap_budget_per_iter)
  BY Zenon DEF Step, AllocatedAfter
<1>1. PICK limit \in ScanLimits, budget \in SwapBudgets : Ends(limit, budget)
  <2>1. b.decode_scan_limit \in ScanLimits /\ b.decode_swap_budget_per_iter \in SwapBudgets
    BY DEF Budgets
  <2>. HIDE DEF Ends
  <2> QED BY <1>0, <2>1
<1>2. PICK st : /\ st = Scan(limit, budget)
                /\ \E m : /\ m = AllocatedAfter(st)
                          /\ Requeue(st) /\ batch' = st.batch /\ mem' = m
                          /\ failed' = \/ AvailGpu(m) < 0 \/ AvailCpu(m) < 0
                                       \/ \E r \in st.batch : ~Resident(m, r)
                          /\ pc' = IF st.batch = {} THEN "post" ELSE "await"
  BY <1>1, Zenon
<1>3. PICK m : /\ m = AllocatedAfter(st)
               /\ Requeue(st) /\ batch' = st.batch /\ mem' = m
               /\ failed' = \/ AvailGpu(m) < 0 \/ AvailCpu(m) < 0
                            \/ \E r \in st.batch : ~Resident(m, r)
               /\ pc' = IF st.batch = {} THEN "post" ELSE "await"
  BY <1>2, Zenon
<1>4. limit \in Nat \ {0} /\ budget \in Nat
  BY DecodeKASAssumption
<1>5. /\ st \in Scans(budget)
      /\ \A r, s \in Ready :
           Before(mem, r, s) /\ s \in st.batch => r \in st.batch \cup st.infeasible
  BY <1>2, <1>4, ScanFacts
<1>6. /\ m \in Mem /\ m.loc = st.mem.loc
      /\ \A r \in Requests : r \notin st.batch => m.blocks[r] = mem.blocks[r]
      /\ \A r \in st.batch : m.blocks[r] >= Need[r]
      /\ HeldOn(m, "gpu") <= MaxGpuBlocks /\ HeldOn(m, "cpu") <= MaxCpuBlocks
  BY <1>3, <1>5, AllocationFits
<1>7. ~failed'
  <2>1. HeldOn(m, "gpu") \in Nat /\ HeldOn(m, "cpu") \in Nat
    BY <1>6, HeldType
  <2>2. ~(AvailGpu(m) < 0) /\ ~(AvailCpu(m) < 0)
    BY <1>6, <2>1, KVCountsAssumption DEF AvailGpu, AvailCpu
  <2>3. \A r \in st.batch : Resident(m, r)
    BY <1>5, <1>6 DEF Scans, Resident
  <2> QED BY <1>3, <2>2, <2>3, Zenon
<1>8. pc' \in {"post", "await"} /\ mem' = m /\ Requeue(st) /\ batch' = st.batch
  BY <1>3
<1>9. pc = "step" /\ UNCHANGED <<issued, unaccepted, migrating, order, out, done>>
  BY DEF Step, queues
<1>10. /\ mem' \in Mem /\ mem'.loc = st.mem.loc
       /\ \A r \in Requests : r \notin st.batch => mem'.blocks[r] = mem.blocks[r]
       /\ \A r \in st.batch : mem'.blocks[r] >= Need[r]
       /\ HeldOn(mem', "gpu") <= MaxGpuBlocks /\ HeldOn(mem', "cpu") <= MaxCpuBlocks
  BY <1>6, <1>8, Zenon
<1> QED BY <1>2, <1>5, <1>7, <1>8, <1>9, <1>10, Zenon

LEMMA StepKeepsInv == Inv /\ Step => Inv'
<1> SUFFICES ASSUME Inv, Step PROVE Inv'
  OBVIOUS
<1>1. /\ TypeOK /\ QueuesInv /\ LocationInv /\ MemoryInv /\ Unfinished
      /\ out \in [Requests -> Nat]
  BY DEF Inv
<1>2. /\ pc = "step" /\ UNCHANGED <<issued, unaccepted, migrating, order, out, done>>
  BY StepRound
<1>3. PICK budget \in SwapBudgets : \E st \in Scans(budget) :
        /\ Requeue(st) /\ batch' = st.batch
        /\ mem' \in Mem /\ mem'.loc = st.mem.loc
        /\ \A r \in Requests : r \notin st.batch => mem'.blocks[r] = mem.blocks[r]
        /\ HeldOn(mem', "gpu") <= MaxGpuBlocks /\ HeldOn(mem', "cpu") <= MaxCpuBlocks
        /\ pc' \in {"post", "await"} /\ ~failed'
  BY StepRound
<1>4. PICK st \in Scans(budget) :
        /\ Requeue(st) /\ batch' = st.batch
        /\ mem' \in Mem /\ mem'.loc = st.mem.loc
        /\ \A r \in Requests : r \notin st.batch => mem'.blocks[r] = mem.blocks[r]
        /\ HeldOn(mem', "gpu") <= MaxGpuBlocks /\ HeldOn(mem', "cpu") <= MaxCpuBlocks
        /\ pc' \in {"post", "await"} /\ ~failed'
  BY <1>3
<1>5. /\ st.batch \in SUBSET Ready /\ st.infeasible \in SUBSET Ready
      /\ \A r \in Requests : IF r \in Ready THEN st.mem.loc[r] \in {"gpu", "cpu"}
                             ELSE st.mem.loc[r] = mem.loc[r]
      /\ \A r \in st.batch : st.mem.loc[r] = "gpu"
      /\ Ready \in SUBSET Requests
  BY ReadyFacts DEF Scans
<1> DEFINE left == Ready \ st.batch
<1>6. /\ waiting' = {r \in left : ~(st.mem.loc[r] = "cpu")}
      /\ swapped' = {r \in left : st.mem.loc[r] = "cpu"}
      /\ rejected' = st.infeasible
  BY <1>4 DEF Requeue
<1>7. Ready' = Ready
  BY <1>4, <1>5, <1>6 DEF Ready
<1>8. TypeOK'
  <2>1. skips' \in [Requests -> 0..SkipsBound]
    <3>1. skips' = [r \in Requests |->
            IF r \in st.batch THEN 0
            ELSE IF r \in left \ st.infeasible /\ skips[r] < SkipsBound
            THEN skips[r] + 1 ELSE skips[r]]
      BY <1>4, Zenon DEF Requeue
    <3>2. skips \in [Requests -> 0..SkipsBound]
      BY <1>1 DEF TypeOK
    <3> HIDE DEF left
    <3> QED BY <3>1, <3>2, DecodeKASAssumption
  <2>2. rounds' \in [Requests -> 0..RoundsBound]
    <3>1. rounds' = [r \in Requests |->
            IF r \in st.infeasible /\ rounds[r] < RoundsBound
            THEN rounds[r] + 1 ELSE rounds[r]]
      BY <1>4, Zenon DEF Requeue
    <3>2. rounds \in [Requests -> 0..RoundsBound]
      BY <1>1 DEF TypeOK
    <3> QED BY <3>1, <3>2, DecodeKASAssumption
  <2>3. failed' \in BOOLEAN
    BY DEF Step
  <2>4. /\ waiting' \subseteq Requests /\ swapped' \subseteq Requests
        /\ batch' \subseteq Requests /\ rejected' \subseteq Requests
    BY <1>4, <1>5, <1>6
  <2>5. pc' \in {"step", "await", "post", "migrate"}
    BY <1>4
  <2>6. mem' \in [blocks: [Requests -> Nat], loc: [Requests -> Places]]
    BY <1>4 DEF Mem
  <2> QED BY <1>1, <1>2, <2>1, <2>2, <2>3, <2>4, <2>5, <2>6 DEF TypeOK
<1>9. /\ batch' \cap (waiting' \cup swapped') = {} /\ waiting' \cap swapped' = {}
  BY <1>4, <1>6
<1>10. QueuesInv'
  <2>1. migrating = {} /\ pc' # "migrate"
    BY <1>1, <1>2, <1>4 DEF QueuesInv
  <2>2. /\ waiting' \subseteq Ready /\ swapped' \subseteq Ready /\ batch' \subseteq Ready
    BY <1>4, <1>5, <1>6
  <2>3. Members(unaccepted)' = Members(unaccepted) /\ Members(order)' = Members(order)
    BY <1>2
  <2>4. Ready \cap done = {}
    BY <1>1 DEF QueuesInv, Ready
  <2>5. Distinct(unaccepted)' /\ Distinct(order)'
    BY <1>1, <1>2 DEF QueuesInv
  <2> QED BY <1>1, <1>2, <1>7, <1>9, <2>1, <2>2, <2>3, <2>4, <2>5 DEF QueuesInv
<1>11. LocationInv'
  <2> SUFFICES ASSUME NEW r \in Requests
               PROVE  mem'.loc[r] = IF r \in swapped' THEN "cpu"
                                    ELSE IF r \in migrating' \cup waiting' \cup batch' THEN "gpu"
                                    ELSE "none"
    BY DEF LocationInv
  <2>1. migrating' = {}
    BY <1>1, <1>2 DEF QueuesInv
  <2>2. mem'.loc[r] = st.mem.loc[r]
    BY <1>4
  <2>3. CASE r \in Ready
    BY <1>4, <1>5, <1>6, <2>1, <2>2, <2>3
  <2>4. CASE r \notin Ready
    <3>1. mem.loc[r] = "none"
      BY <1>1, <1>2, <2>4 DEF LocationInv, QueuesInv, Ready
    <3>2. r \notin swapped' \cup waiting' \cup batch'
      BY <1>4, <1>5, <1>6, <2>4
    <3> QED BY <1>5, <2>1, <2>2, <2>4, <3>1, <3>2
  <2> QED BY <2>3, <2>4
<1>12. MemoryInv'
  <2>1. ASSUME NEW r \in Requests, mem'.loc[r] = "none" PROVE mem'.blocks[r] = 0
    <3>1. st.mem.loc[r] = "none" /\ r \notin st.batch /\ r \notin Ready
      BY <1>4, <1>5, <2>1
    <3>2. mem.loc[r] = "none" /\ mem'.blocks[r] = mem.blocks[r]
      BY <1>4, <1>5, <3>1
    <3> QED BY <1>1, <3>2 DEF MemoryInv
  <2> QED BY <1>4, <2>1 DEF MemoryInv
<1>13. Unfinished' /\ SelectionCanRun' /\ out' \in [Requests -> Nat]
  BY <1>1, <1>2, <1>4 DEF Unfinished, SelectionCanRun
<1> QED BY <1>8, <1>10, <1>11, <1>12, <1>13 DEF Inv

LEMMA AddRequestKeepsInv ==
    ASSUME NEW r \in Requests PROVE Inv /\ AddRequest(r) => Inv'
<1> SUFFICES ASSUME Inv, AddRequest(r) PROVE Inv'
  OBVIOUS
<1>1. /\ TypeOK /\ QueuesInv /\ LocationInv /\ MemoryInv /\ Unfinished
      /\ SelectionCanRun /\ out \in [Requests -> Nat]
  BY DEF Inv
<1>2. /\ r \notin issued /\ issued' = issued \cup {r}
      /\ unaccepted' = Append(unaccepted, r)
      /\ UNCHANGED <<mem, out, migrating, order, waiting, swapped, batch, skips,
                     rejected, rounds, pc, done, failed>>
  BY DEF AddRequest
<1>3. r \notin Members(unaccepted) \cup migrating \cup Ready \cup done
  BY <1>1, <1>2 DEF QueuesInv
<1>4. /\ Append(unaccepted, r) \in Seq(Requests)
      /\ Members(Append(unaccepted, r)) = Members(unaccepted) \cup {r}
      /\ Distinct(Append(unaccepted, r))
  BY <1>1, <1>3, MembersOfAppend DEF TypeOK, QueuesInv
<1>5. Ready' = Ready /\ Members(order)' = Members(order) /\ Distinct(order)'
      /\ Members(unaccepted)' = Members(Append(unaccepted, r)) /\ Distinct(unaccepted)'
  BY <1>1, <1>2, <1>4 DEF Ready, QueuesInv
<1>6. TypeOK'
  BY <1>1, <1>2, <1>4 DEF TypeOK
<1>7. QueuesInv'
  <2>1. waiting \subseteq Ready /\ swapped \subseteq Ready /\ batch \subseteq Ready
    BY DEF Ready
  <2> QED BY <1>1, <1>2, <1>3, <1>4, <1>5, <2>1 DEF QueuesInv
<1>8. LocationInv' /\ MemoryInv' /\ Unfinished' /\ SelectionCanRun' /\ out' \in [Requests -> Nat]
  BY <1>1, <1>2 DEF LocationInv, MemoryInv, Unfinished, SelectionCanRun
<1> QED BY <1>6, <1>7, <1>8 DEF Inv

LEMMA ReturnKeepsInv == Inv /\ Return => Inv'
<1> SUFFICES ASSUME Inv, Return PROVE Inv'
  OBVIOUS
<1>1. /\ TypeOK /\ QueuesInv /\ LocationInv /\ MemoryInv /\ Unfinished
      /\ SelectionCanRun /\ out \in [Requests -> Nat]
  BY DEF Inv
<1>2. /\ pc = "await" /\ pc' = "post"
      /\ UNCHANGED <<issued, unaccepted, migrating, waiting, swapped, rejected,
                     rounds, failed>>
  BY DEF Return
<1>3. PICK F \in SUBSET batch :
        /\ \A r \in batch : ReachesLimit(r) => r \in F
        /\ out' = [r \in Requests |-> IF r \in batch THEN out[r] + 1 ELSE out[r]]
        /\ batch' = batch \ F
        /\ order' = Remaining(order, F)
        /\ skips' = [r \in Requests |-> IF r \in F THEN 0 ELSE skips[r]]
        /\ mem' = [blocks |-> [r \in Requests |-> IF r \in F THEN 0 ELSE mem.blocks[r]],
                   loc    |-> [r \in Requests |-> IF r \in F THEN "none" ELSE mem.loc[r]]]
        /\ done' = done \cup F
  BY DEF Return
<1>4. /\ batch \subseteq Ready /\ Ready \subseteq Requests /\ F \subseteq Requests
      /\ migrating = {}
  BY <1>1, <1>2 DEF TypeOK, QueuesInv, Ready
<1>5. /\ order' \in Seq(Requests) /\ Members(order)' = Ready \ F /\ Distinct(order)'
  <2>1. order \in Seq(Requests) /\ Members(order) = Ready /\ Distinct(order)
    BY <1>1 DEF TypeOK, QueuesInv
  <2>2. /\ Remaining(order, F) \in Seq(Requests)
        /\ Members(Remaining(order, F)) = Members(order) \ F
        /\ Distinct(Remaining(order, F))
    BY <2>1, RemainingMembers
  <2>3. Members(order') = Members(order) \ F /\ Distinct(order') /\ order' \in Seq(Requests)
    BY <1>3, <2>2, Zenon
  <2> QED BY <2>1, <2>3
<1>6. Ready' = Ready \ F /\ F \cap (waiting \cup swapped) = {}
  BY <1>1, <1>2, <1>3 DEF Ready, QueuesInv
<1>7. /\ mem \in Mem /\ mem' \in Mem
      /\ \A r \in Requests :
           /\ mem'.blocks[r] = IF r \in F THEN 0 ELSE mem.blocks[r]
           /\ mem'.loc[r] = IF r \in F THEN "none" ELSE mem.loc[r]
  <2>1. mem \in Mem /\ mem.blocks \in [Requests -> Nat] /\ mem.loc \in [Requests -> Places]
    BY <1>1 DEF TypeOK, Mem
  <2>2. /\ mem'.blocks = [r \in Requests |-> IF r \in F THEN 0 ELSE mem.blocks[r]]
        /\ mem'.loc = [r \in Requests |-> IF r \in F THEN "none" ELSE mem.loc[r]]
        /\ mem' = [blocks |-> mem'.blocks, loc |-> mem'.loc]
    BY <1>3
  <2>3. mem'.blocks \in [Requests -> Nat] /\ mem'.loc \in [Requests -> Places]
    BY <2>1, <2>2 DEF Places
  <2> QED BY <2>1, <2>2, <2>3 DEF Mem
<1>8. /\ out' \in [Requests -> Nat]
      /\ \A r \in Requests : out'[r] = IF r \in batch THEN out[r] + 1 ELSE out[r]
  BY <1>1, <1>3
<1>9. \A r \in batch : out[r] < MaxOutput[r]
  BY <1>1, <1>4 DEF Unfinished, QueuesInv
<1>10. \A r \in Requests : out[r] \in 1..MaxOutput[r] /\ MaxOutput[r] \in Nat
  BY <1>1, DecodeKASAssumption DEF TypeOK
<1>11. TypeOK'
  <2>1. \A r \in Requests : out'[r] \in 1..MaxOutput[r]
    BY <1>8, <1>9, <1>10
  <2>2. skips' \in [Requests -> 0..SkipsBound]
    BY <1>1, <1>3, DecodeKASAssumption DEF TypeOK
  <2>3. done' \subseteq Requests /\ batch' \subseteq Requests
    BY <1>1, <1>3, <1>4 DEF TypeOK
  <2> QED BY <1>1, <1>2, <1>5, <1>7, <2>1, <2>2, <2>3 DEF TypeOK, Mem
<1>12. QueuesInv'
  <2>1. Members(unaccepted)' = Members(unaccepted) /\ Distinct(unaccepted)'
    BY <1>1, <1>2 DEF QueuesInv
  <2> QED BY <1>1, <1>2, <1>3, <1>4, <1>5, <1>6, <2>1 DEF QueuesInv
<1>13. LocationInv'
  <2> SUFFICES ASSUME NEW r \in Requests
               PROVE  mem'.loc[r] = IF r \in swapped' THEN "cpu"
                                    ELSE IF r \in migrating' \cup waiting' \cup batch' THEN "gpu"
                                    ELSE "none"
    BY DEF LocationInv
  <2>1. CASE r \in F
    BY <1>2, <1>3, <1>4, <1>6, <1>7, <2>1
  <2>2. CASE r \notin F
    <3>1. mem'.loc[r] = mem.loc[r] /\ (r \in batch' <=> r \in batch)
      BY <1>3, <1>7, <2>2
    <3> QED BY <1>1, <1>2, <3>1 DEF LocationInv
  <2> QED BY <2>1, <2>2
<1>14. MemoryInv'
  <2>1. \A r \in Requests : mem'.loc[r] = "none" => mem'.blocks[r] = 0
    BY <1>1, <1>7 DEF MemoryInv
  <2>2. \A p \in {"gpu", "cpu"} : HeldOn(mem', p) <= HeldOn(mem, p)
    <3> SUFFICES ASSUME NEW p \in {"gpu", "cpu"} PROVE HeldOn(mem', p) <= HeldOn(mem, p)
      OBVIOUS
    <3>1. \A r \in Requests :
            mem'.loc[r] = p => mem.loc[r] = p /\ mem'.blocks[r] <= mem.blocks[r]
      <4>1. \A r \in Requests : mem.blocks[r] \in Nat
        BY <1>7 DEF Mem
      <4> QED BY <1>7, <4>1
    <3> QED BY <1>7, <3>1, FewerHeld
  <2>3. \A p \in {"gpu", "cpu"} : HeldOn(mem', p) \in Nat /\ HeldOn(mem, p) \in Nat
    BY <1>7, HeldType
  <2>4. HeldOn(mem', "gpu") <= MaxGpuBlocks /\ HeldOn(mem', "cpu") <= MaxCpuBlocks
    BY <1>1, <2>2, <2>3, KVCountsAssumption DEF MemoryInv
  <2> QED BY <2>1, <2>4 DEF MemoryInv
<1>15. Unfinished'
  <2> SUFFICES ASSUME NEW r \in Requests, r \notin done' PROVE out'[r] < MaxOutput[r]
    BY DEF Unfinished
  <2>1. r \notin done /\ r \notin F
    BY <1>3
  <2>2. CASE r \in batch
    <3>1. ~(out[r] + 1 >= MaxOutput[r])
      BY <1>3, <2>1, <2>2 DEF ReachesLimit
    <3> QED BY <1>8, <1>10, <2>2, <3>1
  <2>3. CASE r \notin batch
    BY <1>1, <1>8, <2>1, <2>3 DEF Unfinished
  <2> QED BY <2>2, <2>3
<1>16. SelectionCanRun'
  BY <1>1, <1>2 DEF SelectionCanRun
<1> QED BY <1>8, <1>11, <1>12, <1>13, <1>14, <1>15, <1>16 DEF Inv

LEMMA BeginMigrationKeepsInv == Inv /\ BeginMigration => Inv'
<1> SUFFICES ASSUME Inv, BeginMigration PROVE Inv'
  OBVIOUS
<1>1. /\ TypeOK /\ QueuesInv /\ LocationInv /\ MemoryInv /\ Unfinished
      /\ SelectionCanRun /\ out \in [Requests -> Nat]
  BY DEF Inv
<1> DEFINE r == Head(unaccepted)
           n == PromptNeed[r]
<1>2. /\ pc = "post" /\ unaccepted # <<>> /\ ShouldAccept(r)
      /\ unaccepted' = Tail(unaccepted) /\ migrating' = {r}
      /\ mem' = Allocated(mem, r, n) /\ pc' = "migrate"
      /\ UNCHANGED <<issued, out, order, waiting, swapped, batch, skips,
                     rejected, rounds, done, failed>>
  BY DEF BeginMigration
<1>3. /\ r \in Members(unaccepted) /\ Tail(unaccepted) \in Seq(Requests)
      /\ Members(unaccepted) = Members(Tail(unaccepted)) \cup {r}
      /\ r \notin Members(Tail(unaccepted)) /\ Distinct(Tail(unaccepted))
  BY <1>1, <1>2, MembersOfTail DEF TypeOK, QueuesInv
<1>4. Members(unaccepted) \subseteq Requests
  BY <1>1, ElementOfSeq DEF TypeOK, Members
<1> HIDE DEF r
<1>5. r \in Requests /\ r \notin migrating \cup Ready \cup done /\ migrating = {}
  BY <1>1, <1>2, <1>3, <1>4 DEF QueuesInv
<1>6. mem \in Mem /\ n \in Nat
  <2>1. mem \in Mem
    BY <1>1 DEF TypeOK, Mem
  <2> QED BY <1>1, <1>5, <2>1, NeedTypes
<1> HIDE DEF n
<1>7. mem.loc[r] = "none" /\ mem.blocks[r] = 0
  BY <1>1, <1>5 DEF LocationInv, MemoryInv, Ready
<1>8. /\ mem' \in Mem
      /\ \A x \in Requests : /\ mem'.blocks[x] = IF x = r THEN n ELSE mem.blocks[x]
                             /\ mem'.loc[x] = IF x = r THEN "gpu" ELSE mem.loc[x]
  BY <1>2, <1>5, <1>6, <1>7 DEF Allocated, Mem, Places
<1>9. Ready' = Ready /\ Members(order)' = Members(order) /\ Distinct(order)'
      /\ Members(unaccepted)' = Members(Tail(unaccepted)) /\ Distinct(unaccepted)'
  BY <1>1, <1>2, <1>3 DEF Ready, QueuesInv
<1>10. TypeOK'
  <2>1. migrating' \subseteq Requests /\ unaccepted' \in Seq(Requests)
    BY <1>2, <1>3, <1>5
  <2>2. mem' \in [blocks: [Requests -> Nat], loc: [Requests -> Places]]
    BY <1>8 DEF Mem
  <2>3. pc' \in {"step", "await", "post", "migrate"}
    BY <1>2
  <2>4. UNCHANGED <<issued, out, order, waiting, swapped, batch, skips,
                    rejected, rounds, done, failed>>
    BY <1>2
  <2> QED BY <1>1, <2>1, <2>2, <2>3, <2>4, Zenon DEF TypeOK
<1>11. QueuesInv'
  BY <1>1, <1>2, <1>3, <1>5, <1>9 DEF QueuesInv
<1>12. LocationInv'
  <2>1. r \notin swapped
    BY <1>5 DEF Ready
  <2> QED BY <1>1, <1>2, <1>5, <1>8, <2>1 DEF LocationInv
<1>13. HeldOn(mem', "gpu") <= MaxGpuBlocks
  <2> DEFINE G == {x \in Requests : mem.loc[x] = "gpu"}
  <2>1. {x \in Requests : mem'.loc[x] = "gpu"} = G \cup {r}
    BY <1>5, <1>8
  <2>2. r \notin G /\ G \in SUBSET Requests
    BY <1>7
  <2>3. HeldOn(mem, "gpu") = SumOver(mem.blocks, G)
    BY DEF HeldOn
  <2> HIDE DEF G
  <2>4. mem.blocks \in [Requests -> Nat] /\ mem'.blocks \in [Requests -> Nat]
    BY <1>6, <1>8 DEF Mem
  <2>5. /\ IsFiniteSet(G) /\ IsFiniteSet({r})
        /\ SumOver(mem.blocks, G) \in Nat /\ SumOver(mem'.blocks, G) \in Nat
    BY <2>2, <2>4, RequestSets, FS_Singleton
  <2>6. SumOver(mem'.blocks, G) <= SumOver(mem.blocks, G)
    <3>1. \A x \in G : /\ mem'.blocks[x] \in Nat /\ mem.blocks[x] \in Nat
                       /\ mem'.blocks[x] <= mem.blocks[x]
      BY <1>8, <2>2, <2>4
    <3> QED BY <2>5, <3>1, SumMonotone
  <2>7. SumOver(mem'.blocks, {r}) = n
    BY <1>5, <1>6, <1>8, SumSingleton
  <2>8. SumOver(mem'.blocks, G \cup {r}) = SumOver(mem'.blocks, G) + SumOver(mem'.blocks, {r})
    <3>1. G \cap {r} = {} /\ \A x \in G \cup {r} : mem'.blocks[x] \in Nat
      BY <1>5, <2>2, <2>4
    <3> QED BY <2>5, <3>1, SumUnion
  <2>9. HeldOn(mem', "gpu") = SumOver(mem'.blocks, G) + n
    BY <2>1, <2>7, <2>8 DEF HeldOn
  <2>10. n <= MaxGpuBlocks - HeldOn(mem, "gpu")
    BY <1>2 DEF ShouldAccept, AvailGpu, n
  <2> QED BY <1>6, <2>3, <2>5, <2>6, <2>9, <2>10, KVCountsAssumption
<1>14. HeldOn(mem', "cpu") <= MaxCpuBlocks
  <2>1. \A x \in Requests :
          mem'.loc[x] = "cpu" => mem.loc[x] = "cpu" /\ mem'.blocks[x] <= mem.blocks[x]
    <3>1. \A x \in Requests : mem.blocks[x] \in Nat
      BY <1>6 DEF Mem
    <3> QED BY <1>8, <3>1
  <2>2. HeldOn(mem', "cpu") <= HeldOn(mem, "cpu")
    BY <1>6, <1>8, <2>1, FewerHeld
  <2>3. HeldOn(mem', "cpu") \in Nat /\ HeldOn(mem, "cpu") \in Nat
    BY <1>6, <1>8, HeldType
  <2> QED BY <1>1, <2>2, <2>3, KVCountsAssumption DEF MemoryInv
<1>15. MemoryInv'
  <2>1. \A x \in Requests : mem'.loc[x] = "none" => mem'.blocks[x] = 0
    BY <1>1, <1>8 DEF MemoryInv
  <2> QED BY <1>13, <1>14, <2>1 DEF MemoryInv
<1>16. Unfinished' /\ SelectionCanRun' /\ out' \in [Requests -> Nat]
  BY <1>1, <1>2 DEF Unfinished, SelectionCanRun
<1> QED BY <1>10, <1>11, <1>12, <1>15, <1>16 DEF Inv

LEMMA EndMigrationKeepsInv == Inv /\ EndMigration => Inv'
<1> SUFFICES ASSUME Inv, EndMigration PROVE Inv'
  OBVIOUS
<1>1. /\ TypeOK /\ QueuesInv /\ LocationInv /\ MemoryInv /\ Unfinished
      /\ SelectionCanRun /\ out \in [Requests -> Nat]
  BY DEF Inv
<1>2. PICK r \in migrating : order' = Append(order, r)
  BY DEF EndMigration
<1>3. /\ pc = "migrate" /\ waiting' = waiting \cup migrating
      /\ migrating' = {} /\ pc' = "post"
      /\ UNCHANGED <<mem, issued, out, unaccepted, swapped, batch, skips,
                     rejected, rounds, done, failed>>
  BY DEF EndMigration
<1>4. migrating = {r} /\ r \in Requests
  BY <1>1, <1>3 DEF QueuesInv
<1>5. r \notin Ready \cup done \cup Members(unaccepted)
  BY <1>1, <1>4 DEF QueuesInv
<1>6. Ready' = Ready \cup {r}
  BY <1>3, <1>4 DEF Ready
<1>7. /\ order' \in Seq(Requests) /\ Members(order)' = Ready \cup {r} /\ Distinct(order)'
  <2>1. order \in Seq(Requests) /\ Members(order) = Ready /\ Distinct(order)
    BY <1>1 DEF TypeOK, QueuesInv
  <2>2. /\ Append(order, r) \in Seq(Requests)
        /\ Members(Append(order, r)) = Members(order) \cup {r}
        /\ Distinct(Append(order, r))
    BY <1>4, <1>5, <2>1, MembersOfAppend
  <2>3. /\ order' \in Seq(Requests) /\ Members(order') = Members(order) \cup {r}
        /\ Distinct(order')
    BY <1>2, <2>2, Zenon
  <2> QED BY <2>1, <2>3
<1>8. Members(unaccepted)' = Members(unaccepted) /\ Distinct(unaccepted)'
  BY <1>1, <1>3 DEF QueuesInv
<1>9. TypeOK'
  BY <1>1, <1>3, <1>4, <1>7 DEF TypeOK
<1>10. QueuesInv'
  <2>1. r \notin swapped \cup batch
    BY <1>5 DEF Ready
  <2> QED BY <1>1, <1>3, <1>4, <1>5, <1>6, <1>7, <1>8, <2>1 DEF QueuesInv
<1>11. LocationInv'
  BY <1>1, <1>3 DEF LocationInv
<1>12. MemoryInv' /\ Unfinished' /\ SelectionCanRun' /\ out' \in [Requests -> Nat]
  BY <1>1, <1>3 DEF MemoryInv, Unfinished, SelectionCanRun
<1> QED BY <1>9, <1>10, <1>11, <1>12 DEF Inv

LEMMA RestKeepsInv == Inv /\ (EndPostProcess \/ UNCHANGED vars) => Inv'
<1> SUFFICES ASSUME Inv, EndPostProcess \/ UNCHANGED vars PROVE Inv'
  OBVIOUS
<1>1. /\ TypeOK /\ QueuesInv /\ LocationInv /\ MemoryInv /\ Unfinished
      /\ SelectionCanRun /\ out \in [Requests -> Nat]
  BY DEF Inv
<1>2. /\ UNCHANGED <<mem, issued, out, unaccepted, migrating, order, waiting, swapped,
                     batch, skips, rounds, done, failed>>
      /\ \/ pc = "post" /\ pc' = "step" /\ rejected' = {}
         \/ pc' = pc /\ rejected' = rejected
  BY DEF EndPostProcess, vars, queues
<1>3. Ready' = Ready /\ Members(order)' = Members(order) /\ Distinct(order)'
      /\ Members(unaccepted)' = Members(unaccepted) /\ Distinct(unaccepted)'
  BY <1>1, <1>2 DEF Ready, QueuesInv
<1>4. TypeOK'
  BY <1>1, <1>2 DEF TypeOK
<1>5. QueuesInv'
  BY <1>1, <1>2, <1>3 DEF QueuesInv
<1>6. /\ LocationInv' /\ MemoryInv' /\ Unfinished' /\ SelectionCanRun'
      /\ out' \in [Requests -> Nat]
  BY <1>1, <1>2 DEF LocationInv, MemoryInv, Unfinished, SelectionCanRun
<1> QED BY <1>4, <1>5, <1>6 DEF Inv

LEMMA NextKeepsInv == Inv /\ [Next]_vars => Inv'
BY StepKeepsInv, ReturnKeepsInv, BeginMigrationKeepsInv, EndMigrationKeepsInv,
   RestKeepsInv, AddRequestKeepsInv DEF Next

LEMMA Invariant == Spec => []Inv
BY InitInv, NextKeepsInv, PTL DEF Spec

-----------------------------------------------------------------------------
(* Every variable keeps its type; no request generates more tokens than it *)
(* asked for.                                                              *)
THEOREM KASTypeCorrect == Spec => []TypeOK
<1>1. Inv => TypeOK
  BY DEF Inv
<1> QED BY <1>1, Invariant, PTL

(* No round, whatever it evicts and swaps in, loses a request or has it    *)
(* twice, and the queue of a request tells where its K/V is.               *)
THEOREM KASConserves == Spec => []RequestConserved
<1>1. Inv => RequestConserved
  <2> SUFFICES ASSUME Inv PROVE RequestConserved
    OBVIOUS
  <2> DEFINE places == <<Members(unaccepted), migrating, waiting, swapped, batch, done>>
  <2>1. QueuesInv /\ LocationInv /\ order \in Seq(Requests)
    BY DEF Inv, TypeOK
  <2>2. /\ places[1] = Members(unaccepted) /\ places[2] = migrating
        /\ places[3] = waiting /\ places[4] = swapped
        /\ places[5] = batch /\ places[6] = done
    OBVIOUS
  <2> HIDE DEF places
  <2>3. \A i \in 1..6 : i = 1 \/ i = 2 \/ i = 3 \/ i = 4 \/ i = 5 \/ i = 6
    OBVIOUS
  <2>4. 1 \in 1..6 /\ 2 \in 1..6 /\ 3 \in 1..6 /\ 4 \in 1..6 /\ 5 \in 1..6 /\ 6 \in 1..6
    OBVIOUS
  <2>5. \A i, j \in 1..6 : i # j => places[i] \cap places[j] = {}
    <3>1. \A i, j \in 1..6 : i < j => places[i] \cap places[j] = {}
      BY <2>1, <2>2, <2>3 DEF QueuesInv, Ready
    <3>2. \A i, j \in 1..6 : i # j => i < j \/ j < i
      OBVIOUS
    <3> QED BY <3>1, <3>2
  <2>6. UNION {places[i] : i \in 1..6}
          = Members(unaccepted) \cup migrating \cup waiting \cup swapped \cup batch \cup done
    BY <2>2, <2>3, <2>4
  <2>7. issued = UNION {places[i] : i \in 1..6}
    BY <2>1, <2>6 DEF QueuesInv, Ready
  <2>8. Len(order) = Cardinality(Ready) /\ Members(order) = Ready
    BY <2>1, DistinctCardinality DEF QueuesInv
  <2> QED BY <2>1, <2>5, <2>7, <2>8, Zenon DEF RequestConserved, LocationInv, places
<1> QED BY <1>1, Invariant, PTL

(* What a round selects can be run: no allocation fails, nothing selected  *)
(* is off the GPU and no eviction overfills the CPU.                       *)
THEOREM KASSelectionRuns == Spec => []SelectionCanRun
<1>1. Inv => SelectionCanRun
  BY DEF Inv
<1> QED BY <1>1, Invariant, PTL

LEMMA OnlyStepRounds == Next /\ Round => Step
BY DEF Next, Round, Return, BeginMigration, EndMigration, EndPostProcess, AddRequest

(* The batch of an iteration respects the batch size, the token budget and *)
(* the swap budget, and each selected request has blocks for its tokens.   *)
THEOREM KASRoundsFeasible == Spec => IterationFeasible
<1>1. Inv /\ [Next]_vars => [FeasibleRound]_vars
  <2> SUFFICES ASSUME Inv, Step PROVE FeasibleRound
    BY OnlyStepRounds DEF FeasibleRound
  <2>1. PICK budget \in SwapBudgets : \E st \in Scans(budget) :
          /\ batch' = st.batch /\ mem'.loc = st.mem.loc
          /\ \A r \in st.batch : mem'.blocks[r] >= Need[r]
    BY StepRound
  <2>2. PICK st \in Scans(budget) :
          /\ batch' = st.batch /\ mem'.loc = st.mem.loc
          /\ \A r \in st.batch : mem'.blocks[r] >= Need[r]
    BY <2>1
  <2> DEFINE S == {r \in swapped : mem'.loc[r] = "gpu"}
  <2>3. /\ Cardinality(st.batch) <= MaxBatchSize
        /\ Cardinality(st.batch) <= MaxTokensPerBatch
        /\ Cardinality({r \in swapped : st.mem.loc[r] = "gpu"}) <= st.swapIns
        /\ st.swapIns \in Nat /\ st.swapIns <= budget
    BY DEF Scans
  <2>4. Cardinality(S) <= budget
    <3>1. S = {r \in swapped : st.mem.loc[r] = "gpu"}
      BY <2>2
    <3>2. S \in SUBSET Requests
      BY ReadyFacts
    <3> HIDE DEF S
    <3>3. Cardinality(S) \in Nat /\ budget \in Nat
      BY <3>2, DecodeKASAssumption, FS_Subset, FS_CardinalityType
    <3> QED BY <2>3, <3>1, <3>3
  <2> QED BY <2>2, <2>3, <2>4 DEF FeasibleRound
<1> QED BY <1>1, Invariant, PTL DEF Spec, IterationFeasible

(* A request that has been skipped up to the threshold is not passed over  *)
(* for one of its own level that has not, unless the round found it        *)
(* infeasible.                                                             *)
THEOREM KASStarvedNotBypassed == Spec => StarvedNotBypassed
<1>1. Inv /\ [Next]_vars => [StarvedFirst]_vars
  <2> SUFFICES ASSUME Inv, Step PROVE StarvedFirst
    BY OnlyStepRounds DEF StarvedFirst
  <2>1. PICK budget \in SwapBudgets : \E st \in Scans(budget) :
          /\ Requeue(st) /\ batch' = st.batch
          /\ \A r, s \in Ready :
               Before(mem, r, s) /\ s \in st.batch => r \in st.batch \cup st.infeasible
    BY StepRound
  <2>2. PICK st \in Scans(budget) :
          /\ Requeue(st) /\ batch' = st.batch
          /\ \A r, s \in Ready :
               Before(mem, r, s) /\ s \in st.batch => r \in st.batch \cup st.infeasible
    BY <2>1
  <2>3. rejected' = st.infeasible
    BY <2>2 DEF Requeue
  <2>4. ASSUME NEW r \in Ready, NEW s \in Ready,
               Starved(r), ~Starved(s), Level(r) = Level(s)
        PROVE  Before(mem, r, s)
    <3>1. order \in Seq(Requests) /\ r \in Members(order) /\ s \in Members(order)
      BY ReadyFacts
    <3> DEFINE res(x) == IF Resident(mem, x) THEN 0 ELSE 1
               hun(x) == IF Starved(x) THEN 0 ELSE 1
    <3>2. Before(mem, r, s) <=>
            \/ Level(r) < Level(s)
            \/ Level(r) = Level(s) /\ hun(r) < hun(s)
            \/ Level(r) = Level(s) /\ hun(r) = hun(s) /\ res(r) < res(s)
            \/ /\ Level(r) = Level(s) /\ hun(r) = hun(s) /\ res(r) = res(s)
               /\ Position(r) < Position(s)
      BY <3>1, BeforeIsLexicographic
    <3>3. hun(r) = 0 /\ hun(s) = 1
      BY <2>4, Zenon
    <3> HIDE DEF res, hun
    <3> QED BY <2>4, <3>2, <3>3
  <2> QED BY <2>2, <2>3, <2>4 DEF StarvedFirst
<1> QED BY <1>1, Invariant, PTL DEF Spec, StarvedNotBypassed

-----------------------------------------------------------------------------
(* Progress.  A round that finds requests dispatches one of them, provided *)
(* that there is somewhere to evict to, that each request fits the GPU by  *)
(* itself with its next token, and that the scan reaches beyond those that *)
(* are swapped out.                                                        *)
RoomToRun ==
    /\ MaxBatchSize > 0 /\ MaxTokensPerBatch > 0
    /\ \A n \in SwapBudgets : n > 0
    /\ \A n \in ScanLimits : n > Cardinality(swapped)
    /\ SumOver(mem.blocks, Ready) <= MaxCpuBlocks
    /\ \A r \in Ready : mem.blocks[r] + AppendNeed(mem)[r] <= MaxGpuBlocks
RoundDispatches == Round /\ Ready # {} /\ RoomToRun => batch' # {}

(* If the CPU has room for all candidates, it has room for the next one.   *)
LEMMA RoomForNext ==
    ASSUME NEW m \in Mem, NEW C \in SUBSET Requests, \A r \in C : m.loc[r] = "gpu",
           HeldOn(m, "cpu") + SumOver(m.blocks, C) <= MaxCpuBlocks,
           NEW w \in Evicted(m, C), NEW s \in C, w.loc[s] # "cpu"
    PROVE  w.blocks[s] <= AvailCpu(w)
<1> DEFINE f == m.blocks
           A == {r \in Requests : m.loc[r] = "cpu"}
           T == {r \in Requests : w.loc[r] = "cpu"}
           D == C \ {s}
<1>1. /\ f \in [Requests -> Nat] /\ s \in Requests /\ w.blocks = f /\ w \in Mem
      /\ \A r \in Requests : w.loc[r] = m.loc[r] \/ (r \in C /\ w.loc[r] = "cpu")
  BY DEF Mem, Evicted
<1>2. HeldOn(m, "cpu") = SumOver(f, A) /\ HeldOn(w, "cpu") = SumOver(f, T)
  BY <1>1 DEF HeldOn
<1>3. /\ A \in SUBSET Requests /\ D \in SUBSET Requests /\ T \in SUBSET (A \cup D)
      /\ A \cap D = {} /\ D \cup {s} = C /\ D \cap {s} = {}
  BY <1>1
<1> HIDE DEF f, A, T, D
<1>4. /\ IsFiniteSet(A) /\ IsFiniteSet(D) /\ IsFiniteSet({s}) /\ IsFiniteSet(A \cup D)
      /\ SumOver(f, A) \in Nat /\ SumOver(f, D) \in Nat /\ SumOver(f, T) \in Nat
      /\ SumOver(f, C) \in Nat
  <2>1. A \cup D \in SUBSET Requests /\ T \in SUBSET Requests /\ {s} \in SUBSET Requests
    BY <1>1, <1>3
  <2> QED BY <1>1, <1>3, <2>1, RequestSets
<1>5. \A r \in Requests : f[r] \in Nat
  BY <1>1
<1>6. SumOver(f, T) <= SumOver(f, A \cup D)
  BY <1>3, <1>4, <1>5, SumSubset
<1>7. SumOver(f, A \cup D) = SumOver(f, A) + SumOver(f, D)
  BY <1>3, <1>4, <1>5, SumUnion
<1>8. SumOver(f, C) = SumOver(f, D) + f[s]
  <2>1. SumOver(f, D \cup {s}) = SumOver(f, D) + SumOver(f, {s})
    BY <1>1, <1>3, <1>4, <1>5, SumUnion
  <2>2. SumOver(f, {s}) = f[s]
    BY <1>1, <1>5, SumSingleton
  <2> QED BY <1>3, <2>1, <2>2
<1>9. SumOver(f, A) + SumOver(f, C) <= MaxCpuBlocks /\ f[s] \in Nat
  BY <1>1, <1>2 DEF f
<1>10. f[s] <= MaxCpuBlocks - SumOver(f, T)
  BY <1>4, <1>6, <1>7, <1>8, <1>9, KVCountsAssumption
<1> QED BY <1>1, <1>2, <1>10 DEF AvailCpu

(* Then the evictions go on until there are enough blocks or no candidate  *)
(* is left on the GPU.                                                     *)
LEMMA EvictionsSuffice ==
    ASSUME NEW m \in Mem, NEW C \in SUBSET Requests, \A r \in C : m.loc[r] = "gpu",
           HeldOn(m, "cpu") + SumOver(m.blocks, C) <= MaxCpuBlocks,
           HeldOn(m, "cpu") <= MaxCpuBlocks,
           NEW minFree, NEW q \in Seq(C), Members(q) = C,
           NEW w, w = EvictAll(m, minFree, q)
    PROVE  /\ w \in Evicted(m, C)
           /\ AvailGpu(w) >= minFree \/ \A s \in C : w.loc[s] = "cpu"
<1> DEFINE n == Len(q)
           X == Evicted(m, C)
           Gone(v, i) == AvailGpu(v) >= minFree \/ \A j \in 1..i : v.loc[q[j]] = "cpu"
<1>1. PICK run : /\ run[0] = m /\ run[n] = w
                 /\ \A i \in 1..n : run[i] = EvictOne(minFree, run[i - 1], q[i])
                 /\ \A i \in 0..n : run[i] \in X
  BY EvictionLoop
<1>2. n \in Nat /\ \A i \in 1..n : q[i] \in C
  BY ElementOfSeq
<1>3. ASSUME NEW i \in 1..n, Gone(run[i - 1], i - 1) PROVE Gone(run[i], i)
  <2> DEFINE v == run[i - 1]
             u == run[i]
  <2>1. /\ v \in X /\ u = EvictOne(minFree, v, q[i]) /\ q[i] \in C
        /\ \A j \in 1..i : j \in 1..(i - 1) \/ j = i
        /\ \A j \in 1..i : q[j] \in Requests
    <3>1. i - 1 \in 0..n /\ \A j \in 1..i : j \in 1..n
      BY <1>2
    <3> QED BY <1>1, <1>2, <3>1
  <2> HIDE DEF v, u
  <2>2. CASE AvailGpu(v) >= minFree
    <3>1. u = v
      BY <2>1, <2>2 DEF EvictOne
    <3> QED BY <2>2, <3>1 DEF u
  <2>3. CASE ~(AvailGpu(v) >= minFree)
    <3>1. \A j \in 1..(i - 1) : v.loc[q[j]] = "cpu"
      BY <1>3, <2>3 DEF v
    <3>2. CASE v.blocks[q[i]] > AvailCpu(v)
      <4>1. u = v
        BY <2>1, <3>2 DEF EvictOne
      <4>2. v.blocks[q[i]] \in Int /\ AvailCpu(v) \in Int
        <5>1. v \in Mem /\ q[i] \in Requests
          BY <2>1 DEF X, Evicted
        <5>2. HeldOn(v, "cpu") \in Nat
          BY <5>1, HeldType
        <5> QED BY <5>1, <5>2, KVCountsAssumption DEF Mem, AvailCpu
      <4>3. v.loc[q[i]] = "cpu"
        <5> SUFFICES ASSUME v.loc[q[i]] # "cpu" PROVE FALSE
          OBVIOUS
        <5>1. v.blocks[q[i]] <= AvailCpu(v)
          BY <2>1, RoomForNext DEF X
        <5> QED BY <3>2, <4>2, <5>1
      <4> QED BY <2>1, <3>1, <4>1, <4>3 DEF u
    <3>3. CASE ~(v.blocks[q[i]] > AvailCpu(v))
      <4>1. u = Moved(v, q[i], "cpu")
        BY <2>1, <2>3, <3>3 DEF EvictOne
      <4>2. v \in Mem /\ q[i] \in Requests /\ "cpu" \in Places
        BY <2>1 DEF X, Evicted, Places
      <4>3. \A r \in Requests : u.loc[r] = IF r = q[i] THEN "cpu" ELSE v.loc[r]
        BY <4>1, <4>2, MovedFacts
      <4>4. \A j \in 1..i : u.loc[q[j]] = "cpu"
        BY <2>1, <3>1, <4>3
      <4> QED BY <4>4 DEF u
    <3> QED BY <3>2, <3>3
  <2> QED BY <2>2, <2>3
<1> DEFINE Xs == [i \in 0..n |-> {v \in X : Gone(v, i)}]
<1>4. \A i \in 0..n : Xs[i] = {v \in X : Gone(v, i)}
  OBVIOUS
<1> HIDE DEF Xs, X, n
<1>5. run[0] \in Xs[0]
  BY <1>1, <1>2, <1>4
<1>6. \A i \in 1..n : run[i - 1] \in Xs[i - 1] => run[i] \in Xs[i]
  <2> SUFFICES ASSUME NEW i \in 1..n, run[i - 1] \in Xs[i - 1] PROVE run[i] \in Xs[i]
    OBVIOUS
  <2>1. i \in 0..n /\ i - 1 \in 0..n
    BY <1>2
  <2> HIDE DEF Gone
  <2>2. Gone(run[i - 1], i - 1)
    BY <1>4, <2>1
  <2> QED BY <1>1, <1>3, <1>4, <2>1, <2>2
<1>7. \A i \in 0..n : run[i] \in Xs[i]
  BY <1>2, <1>5, <1>6, LoopInvariant
<1>8. w \in X /\ Gone(w, n)
  BY <1>1, <1>2, <1>4, <1>7
<1>9. \A s \in C : \E j \in 1..n : q[j] = s
  BY DEF Members, n
<1> QED BY <1>8, <1>9 DEF X

(* A turn while nothing is selected yet *)
LEMMA FirstTurns ==
    ASSUME NEW st, st.batch = {}, NEW r, NEW budget,
           NEW room, room = IF CanAdd(st, r, budget) \/ ~Resident(st.mem, r)
                            THEN st ELSE Evict(st, r)
    PROVE  Consider(st, r, budget)
             = IF CanAdd(room, r, budget) THEN Select(room, r) ELSE Reject(room, r)
<1> DEFINE pick(x) == IF CanAdd(x, r, budget) THEN Select(x, r) ELSE Reject(x, r)
<1>1. ~(st.batch # {} /\ Cardinality(st.batch) >= MaxBatchSize)
  OBVIOUS
<1>2. Consider(st, r, budget) = The({pick(x) : x \in {room}})
  BY <1>1, Zenon DEF Consider
<1> HIDE DEF pick
<1>3. {pick(x) : x \in {room}} = {pick(room)}
  OBVIOUS
<1>4. Consider(st, r, budget) = pick(room)
  BY <1>2, <1>3, TheOne, Zenon
<1> QED BY <1>4, Zenon DEF pick

(* Before a round, the GPU holds the ready requests that are not swapped.  *)
LEMMA BeforeRound ==
    ASSUME Inv, pc = "step"
    PROVE  /\ Ready \in SUBSET Requests /\ swapped \in SUBSET Ready /\ IsFiniteSet(Ready)
           /\ mem \in Mem /\ HeldOn(mem, "cpu") <= MaxCpuBlocks
           /\ \A r \in Requests : /\ mem.loc[r] = "gpu" <=> r \in Ready \ swapped
                                  /\ mem.loc[r] = "cpu" <=> r \in swapped
<1>1. migrating = {} /\ LocationInv /\ MemoryInv
      /\ waiting \cap swapped = {} /\ batch \cap swapped = {}
  BY DEF Inv, QueuesInv
<1>2. \A r \in Requests : /\ mem.loc[r] = "gpu" <=> r \in Ready \ swapped
                          /\ mem.loc[r] = "cpu" <=> r \in swapped
  BY <1>1 DEF LocationInv, Ready
<1> QED BY <1>1, <1>2, ReadyFacts DEF MemoryInv

(* As long as nothing is selected, a request on the GPU always is: if need *)
(* be, everybody else is evicted for it.                                   *)
LEMMA ResidentRuns ==
    ASSUME Inv, pc = "step", RoomToRun, NEW budget \in Nat,
           NEW st \in Scans(budget), st.mem = mem, st.batch = {},
           NEW r \in Ready \ swapped
    PROVE  Consider(st, r, budget).batch # {}
<1> DEFINE room == IF CanAdd(st, r, budget) \/ ~Resident(st.mem, r) THEN st ELSE Evict(st, r)
           v == Consider(st, r, budget)
<1>1. v = IF CanAdd(room, r, budget) THEN Select(room, r) ELSE Reject(room, r)
  BY FirstTurns, Zenon
<1>2. SUFFICES CanAdd(room, r, budget)
  <2>1. v = [room EXCEPT !.mem = Moved(@, r, "gpu"),
                         !.batch = @ \cup {r},
                         !.swapIns = IF Resident(room.mem, r) THEN @ ELSE @ + 1]
    BY <1>1, <1>2, Zenon DEF Select
  <2>2. room \in Scans(budget)
    <3>1. CASE CanAdd(st, r, budget) \/ ~Resident(st.mem, r)
      <4>1. room = st
        BY <3>1, Zenon
      <4> QED BY <4>1
    <3>2. CASE ~(CanAdd(st, r, budget) \/ ~Resident(st.mem, r))
      <4>1. room = Evict(st, r)
        BY <3>2, Zenon
      <4> HIDE DEF room
      <4> QED BY <4>1, EvictFacts
    <3> QED BY <3>1, <3>2
  <2>3. room \in [mem: Mem, batch: SUBSET Ready, swapIns: Nat, infeasible: SUBSET Ready]
    BY <2>2 DEF Scans
  <2> HIDE DEF room, v
  <2>4. v.batch = room.batch \cup {r}
    BY <2>1, <2>3
  <2> QED BY <2>4 DEF v
<1>3. /\ Ready \in SUBSET Requests /\ r \in Requests /\ mem \in Mem
      /\ HeldOn(mem, "cpu") <= MaxCpuBlocks /\ swapped \in SUBSET Ready
      /\ \A x \in Requests : /\ mem.loc[x] = "gpu" <=> x \in Ready \ swapped
                             /\ mem.loc[x] = "cpu" <=> x \in swapped
  BY BeforeRound
<1>4. Resident(mem, r)
  BY <1>3 DEF Resident
<1>5. CASE CanAdd(st, r, budget)
  <2>1. room = st
    BY <1>5, Zenon
  <2> QED BY <1>5, <2>1
<1>6. CASE ~CanAdd(st, r, budget)
  <2> DEFINE C == Candidates(st, r)
             q == Reversed(Sorted(st.mem, C))
             w == EvictAll(st.mem, MinFree(st, r), q)
             f == mem.blocks
  <2>1. room = Evict(st, r)
    BY <1>4, <1>6, Zenon
  <2>2. /\ room = [st EXCEPT !.mem = w] /\ C \in SUBSET Ready
        /\ q \in Seq(C) /\ Members(q) = C
    BY <2>1, EvictIsALoop
  <2>3. C = {x \in Ready \ {r} : x \notin swapped}
    BY <1>3 DEF Candidates, Resident
  <2>4. /\ st \in [mem: Mem, batch: SUBSET Ready, swapIns: Nat, infeasible: SUBSET Ready]
        /\ f \in [Requests -> Nat]
    BY <1>3 DEF Scans, Mem
  <2>5. C \in SUBSET Requests /\ \A x \in C : mem.loc[x] = "gpu"
    BY <1>3, <2>3
  <2>6. HeldOn(mem, "cpu") + SumOver(f, C) <= MaxCpuBlocks
    <3>1. HeldOn(mem, "cpu") = SumOver(f, swapped)
      <4>1. {x \in Requests : mem.loc[x] = "cpu"} = swapped
        BY <1>3
      <4> QED BY <4>1 DEF HeldOn
    <3>2. swapped \cap C = {} /\ swapped \cup C \in SUBSET Ready
      BY <1>3, <2>3
    <3> HIDE DEF C, f
    <3>3. /\ IsFiniteSet(swapped) /\ IsFiniteSet(C) /\ IsFiniteSet(Ready)
          /\ SumOver(f, swapped) \in Nat /\ SumOver(f, C) \in Nat /\ SumOver(f, Ready) \in Nat
      BY <1>3, <2>4, <2>5, RequestSets
    <3>4. SumOver(f, swapped \cup C) = SumOver(f, swapped) + SumOver(f, C)
      <4>1. \A x \in swapped \cup C : f[x] \in Nat
        BY <1>3, <2>4, <2>5
      <4> QED BY <3>2, <3>3, <4>1, SumUnion
    <3>5. SumOver(f, swapped \cup C) <= SumOver(f, Ready)
      <4>1. \A x \in Ready : f[x] \in Nat
        BY <1>3, <2>4
      <4> QED BY <3>2, <3>3, <4>1, SumSubset
    <3>6. SumOver(f, Ready) <= MaxCpuBlocks
      BY DEF RoomToRun, f
    <3> QED BY <3>1, <3>3, <3>4, <3>5, <3>6, KVCountsAssumption
  <2> HIDE DEF C, q, room
  <2>7. /\ w \in Evicted(mem, C)
        /\ AvailGpu(w) >= MinFree(st, r) \/ \A s \in C : w.loc[s] = "cpu"
    BY <1>3, <2>2, <2>5, <2>6, EvictionsSuffice
  <2> HIDE DEF w
  <2>8. /\ w \in Mem /\ w.blocks = f
        /\ \A x \in Requests : w.loc[x] = mem.loc[x] \/ (x \in C /\ w.loc[x] = "cpu")
    BY <2>7 DEF Evicted
  <2>9. room.mem = w /\ room.batch = {} /\ Resident(w, r)
    <3>1. r \notin C
      BY DEF C, Candidates
    <3> QED BY <1>3, <1>4, <2>2, <2>4, <2>8, <3>1 DEF Resident
  <2>10. /\ AppendNeed(w) = AppendNeed(mem) /\ AppendNeed(mem)[r] \in Nat
         /\ Reserved(w, {}) = 0 /\ MinFree(st, r) = AppendNeed(mem)[r]
    <3>1. /\ AppendNeed(w) = AppendNeed(mem) /\ AppendNeed(mem)[r] \in Nat
      BY <1>3, <2>8, ReadyFacts, NeedTypes
    <3>2. Reserved(w, {}) = 0 /\ Reserved(mem, {}) = 0
      BY SumEmpty DEF Reserved
    <3> QED BY <3>1, <3>2 DEF MinFree
  <2>11. AppendNeed(mem)[r] <= AvailGpu(w)
    <3>0. HeldOn(w, "gpu") \in Nat
      BY <2>8, HeldType
    <3>1. CASE AvailGpu(w) >= MinFree(st, r)
      BY <2>10, <3>0, <3>1, KVCountsAssumption DEF AvailGpu
    <3>2. CASE \A s \in C : w.loc[s] = "cpu"
      <4>1. {x \in Requests : w.loc[x] = "gpu"} = {r}
        <5>1. \A x \in Requests : w.loc[x] = "gpu" => x = r
          BY <1>3, <2>3, <2>8, <3>2
        <5> QED BY <1>3, <2>9, <5>1 DEF Resident
      <4>2. HeldOn(w, "gpu") = f[r]
        BY <1>3, <2>4, <2>8, <4>1, SumSingleton DEF HeldOn
      <4>3. f[r] + AppendNeed(mem)[r] <= MaxGpuBlocks /\ f[r] \in Nat
        BY <1>3, <2>4 DEF RoomToRun
      <4> QED BY <2>10, <4>2, <4>3, KVCountsAssumption DEF AvailGpu
    <3> QED BY <2>7, <3>1, <3>2
  <2>12. Cardinality({}) < MaxBatchSize /\ Cardinality({}) + 1 <= MaxTokensPerBatch
    BY FS_EmptySet, DecodeKASAssumption DEF RoomToRun
  <2>13. AppendNeed(w)[r] + Reserved(w, {}) + 0 <= AvailGpu(w)
    BY <2>10, <2>11
  <2> QED BY <2>9, <2>12, <2>13, Zenon DEF CanAdd
<1> QED BY <1>5, <1>6

(* One that is swapped out is selected, or the scan goes on as it began.   *)
(* If all are swapped out the GPU is empty, and it is selected.            *)
LEMMA SwappedTurn ==
    ASSUME Inv, pc = "step", RoomToRun, NEW budget \in Nat \ {0},
           NEW st \in Scans(budget), st.mem = mem, st.batch = {}, st.swapIns = 0,
           NEW r \in swapped, NEW v, v = Consider(st, r, budget)
    PROVE  /\ v.batch # {} \/ (v.mem = mem /\ v.batch = {} /\ v.swapIns = 0)
           /\ swapped = Ready => v.batch # {}
<1>1. /\ Ready \in SUBSET Requests /\ r \in Ready /\ r \in Requests /\ mem \in Mem
      /\ \A x \in Requests : /\ mem.loc[x] = "gpu" <=> x \in Ready \ swapped
                             /\ mem.loc[x] = "cpu" <=> x \in swapped
  BY BeforeRound
<1>2. ~Resident(st.mem, r)
  BY <1>1 DEF Resident
<1>3. v = IF CanAdd(st, r, budget) THEN Select(st, r) ELSE Reject(st, r)
  BY <1>2, FirstTurns, Zenon
<1>4. st \in [mem: Mem, batch: SUBSET Ready, swapIns: Nat, infeasible: SUBSET Ready]
  BY DEF Scans
<1>5. CanAdd(st, r, budget) => v.batch # {}
  <2> SUFFICES ASSUME CanAdd(st, r, budget) PROVE v.batch # {}
    OBVIOUS
  <2>1. v = Select(st, r)
    BY <1>3, Zenon
  <2>2. v.batch = st.batch \cup {r}
    BY <1>1, <2>1, SelectFacts
  <2> QED BY <2>2
<1>6. ~CanAdd(st, r, budget) => v.mem = mem /\ v.batch = {} /\ v.swapIns = 0
  <2> SUFFICES ASSUME ~CanAdd(st, r, budget) PROVE v.mem = mem /\ v.batch = {} /\ v.swapIns = 0
    OBVIOUS
  <2>1. v = [st EXCEPT !.infeasible = st.infeasible \cup {r}]
    BY <1>3, Zenon DEF Reject
  <2> QED BY <1>4, <2>1
<1>7. ASSUME swapped = Ready PROVE CanAdd(st, r, budget)
  <2>1. HeldOn(mem, "gpu") = 0
    <3>1. {x \in Requests : mem.loc[x] = "gpu"} = {}
      BY <1>1, <1>7
    <3> QED BY <3>1, SumEmpty DEF HeldOn
  <2>2. AppendNeed(mem)[r] \in Nat /\ mem.blocks[r] \in Nat
    BY <1>1, ReadyFacts, NeedTypes DEF Mem
  <2>3. mem.blocks[r] + AppendNeed(mem)[r] <= MaxGpuBlocks
    BY <1>1 DEF RoomToRun
  <2>4. Reserved(mem, {}) = 0
    BY SumEmpty DEF Reserved
  <2>5. AppendNeed(mem)[r] + Reserved(mem, {}) + mem.blocks[r] <= AvailGpu(mem)
    BY <2>1, <2>2, <2>3, <2>4, KVCountsAssumption DEF AvailGpu
  <2>6. Cardinality({}) < MaxBatchSize /\ Cardinality({}) + 1 <= MaxTokensPerBatch
    BY FS_EmptySet, DecodeKASAssumption DEF RoomToRun
  <2>7. 0 < budget
    OBVIOUS
  <2> QED BY <1>2, <2>5, <2>6, <2>7, Zenon DEF CanAdd
<1> QED BY <1>5, <1>6, <1>7

(* The scan reaches a request that it selects. *)
LEMMA ScanDispatches ==
    ASSUME Inv, pc = "step", RoomToRun, Ready # {}, NEW budget \in Nat \ {0},
           NEW limit \in Nat, limit > Cardinality(swapped)
    PROVE  Scan(limit, budget).batch # {}
<1> DEFINE all == Sorted(mem, Ready)
           n == IF limit < Len(all) THEN limit ELSE Len(all)
           q == FirstOf(all, limit)
<1>1. /\ all \in Seq(Ready) /\ Distinct(all) /\ Members(all) = Ready
  <2>1. order \in Seq(Requests) /\ Ready \in SUBSET Members(order) /\ IsFiniteSet(Ready)
    BY ReadyFacts
  <2> QED BY <2>1, SortedFacts
<1>2. Scan(limit, budget) = ScanAll(budget, q)
  BY ScanIsALoop
<1>3. IsFiniteSet(swapped) /\ Cardinality(swapped) \in Nat
  BY BeforeRound, FS_Subset, FS_CardinalityType
<1> HIDE DEF all
<1>4. /\ Len(all) \in Nat \ {0} /\ n \in 1..Len(all) /\ 1 \in 1..(Len(all) + 1)
      /\ n \in 0..Len(all)
  <2>1. Len(all) # 0
    BY <1>1 DEF Members
  <2> QED BY <1>1, <1>3, <2>1
<1>5. q = SubSeq(all, 1, n)
  BY DEF FirstOf
<1>6. q \in Seq(Ready) /\ Distinct(q) /\ Len(q) = n /\ Members(q) = {all[i] : i \in 1..n}
  <2> HIDE DEF n, q
  <2>1. /\ SubSeq(all, 1, n) \in Seq(Ready) /\ Distinct(SubSeq(all, 1, n))
        /\ Members(SubSeq(all, 1, n)) = {all[i] : i \in 1..n}
    BY <1>1, <1>4, MembersOfSlice
  <2>2. Len(SubSeq(all, 1, n)) = n
    BY <1>1, <1>4
  <2> QED BY <1>5, <2>1, <2>2
<1>7. ~(Members(q) \subseteq swapped /\ swapped # Ready)
  <2> SUFFICES ASSUME Members(q) \subseteq swapped, swapped # Ready PROVE FALSE
    OBVIOUS
  <2>1. swapped \in SUBSET Ready
    BY BeforeRound
  <2>2. CASE n = Len(all)
    <3>1. Members(q) = Ready
      BY <1>1, <1>6, <2>2 DEF Members
    <3> QED BY <2>1, <3>1
  <2>3. CASE n = limit
    <3> HIDE DEF q, n
    <3>1. Cardinality(Members(q)) = n
      BY <1>6, DistinctCardinality
    <3>2. Cardinality(Members(q)) <= Cardinality(swapped)
      BY <1>3, FS_Subset
    <3> QED BY <1>3, <2>3, <3>1, <3>2
  <2> QED BY <2>2, <2>3
<1> HIDE DEF q, n
<1>8. PICK run : /\ run[0] = NoScan /\ run[n] = ScanAll(budget, q)
                 /\ \A i \in 1..n : run[i] = Consider(run[i - 1], q[i], budget)
                 /\ \A i \in 0..n : run[i] \in Scans(budget)
  BY <1>6, ScanTurns
<1> DEFINE Going(st, i) ==
             \/ st.batch # {}
             \/ /\ st.mem = mem /\ st.batch = {} /\ st.swapIns = 0
                /\ \A j \in 1..i : q[j] \in swapped /\ swapped # Ready
           Xs == [i \in 0..n |-> {st \in Scans(budget) : Going(st, i)}]
<1>9. \A i \in 0..n : Xs[i] = {st \in Scans(budget) : Going(st, i)}
  OBVIOUS
<1> HIDE DEF Xs
<1>10. run[0] \in Xs[0]
  <2>1. Going(NoScan, 0)
    BY DEF NoScan
  <2>2. 0 \in 0..n
    BY <1>4
  <2> QED BY <1>8, <1>9, <2>1, <2>2
<1>11. \A i \in 1..n : run[i - 1] \in Xs[i - 1] => run[i] \in Xs[i]
  <2> SUFFICES ASSUME NEW i \in 1..n, run[i - 1] \in Xs[i - 1] PROVE run[i] \in Xs[i]
    OBVIOUS
  <2> DEFINE st == run[i - 1]
             v == run[i]
  <2>1. i \in 0..n /\ i - 1 \in 0..n /\ \A j \in 1..i : j \in 1..(i - 1) \/ j = i
    BY <1>4
  <2>2. q[i] \in Ready
    BY <1>6, ElementOfSeq
  <2>3. /\ st \in Scans(budget) /\ Going(st, i - 1) /\ v \in Scans(budget)
        /\ v = Consider(st, q[i], budget)
    BY <1>8, <1>9, <2>1
  <2> HIDE DEF st, v
  <2>4. CASE st.batch # {}
    <3>1. Turned(st, v, q[i])
      BY <2>2, <2>3, ConsiderFacts
    <3>2. v.batch # {}
      BY <2>4, <3>1 DEF Turned
    <3> QED BY <1>9, <2>1, <2>3, <3>2 DEF v
  <2>5. CASE st.batch = {}
    <3>1. /\ st.mem = mem /\ st.swapIns = 0
          /\ \A j \in 1..(i - 1) : q[j] \in swapped /\ swapped # Ready
      BY <2>3, <2>5
    <3>2. CASE q[i] \notin swapped
      <4>1. v.batch # {}
        BY <2>2, <2>3, <2>5, <3>1, <3>2, ResidentRuns
      <4> QED BY <1>9, <2>1, <2>3, <4>1 DEF v
    <3>3. CASE q[i] \in swapped
      <4>1. /\ v.batch # {} \/ (v.mem = mem /\ v.batch = {} /\ v.swapIns = 0)
            /\ swapped = Ready => v.batch # {}
        BY <2>3, <2>5, <3>1, <3>3, SwappedTurn
      <4>2. Going(v, i)
        BY <2>1, <3>1, <3>3, <4>1
      <4> QED BY <1>9, <2>1, <2>3, <4>2 DEF v
    <3> QED BY <3>2, <3>3
  <2> QED BY <2>4, <2>5
<1>12. \A i \in 0..n : run[i] \in Xs[i]
  <2>1. n \in Nat
    BY <1>4
  <2> QED BY <2>1, <1>10, <1>11, LoopInvariant
<1>13. Going(run[n], n)
  BY <1>4, <1>9, <1>12
<1>14. run[n].batch # {}
  <2> SUFFICES ASSUME run[n].batch = {} PROVE FALSE
    OBVIOUS
  <2>1. \A j \in 1..n : q[j] \in swapped /\ swapped # Ready
    BY <1>13
  <2>2. Members(q) \subseteq swapped
    BY <1>6, <2>1 DEF Members
  <2>3. 1 \in 1..n
    BY <1>4
  <2> QED BY <1>7, <2>1, <2>2, <2>3
<1> QED BY <1>2, <1>8, <1>14

(* With requests ready, a round never ends with an empty batch: what holds *)
(* a stage up is the CPU, requests too large for the GPU, or a scan that   *)
(* ends among those that are swapped out.                                  *)
THEOREM KASRoundDispatches == Spec => [][RoundDispatches]_vars
<1>1. Inv /\ [Next]_vars => [RoundDispatches]_vars
  <2> SUFFICES ASSUME Inv, Step, Ready # {}, RoomToRun PROVE batch' # {}
    BY OnlyStepRounds DEF RoundDispatches
  <2>1. PICK budget \in SwapBudgets, limit \in ScanLimits : batch' = Scan(limit, budget).batch
    BY StepRound
  <2>2. /\ budget \in Nat \ {0} /\ limit \in Nat /\ limit > Cardinality(swapped)
        /\ pc = "step"
    BY DecodeKASAssumption, StepRound DEF RoomToRun
  <2> QED BY <2>1, <2>2, ScanDispatches
<1> QED BY <1>1, Invariant, PTL DEF Spec

=============================================================================
