---------------------------- MODULE CommonLemmas ----------------------------
(***************************************************************************)
(* The lemmas that the proofs of several components cite: least elements,  *)
(* division, sums over sets of requests, and the queues of requests.       *)
(*                                                                         *)
(* The induction theorems of the library take the predicate as an operator *)
(* parameter, which the installed provers cannot instantiate.  What needs  *)
(* an induction here takes a least counterexample instead (LeastNatural).  *)
(***************************************************************************)
EXTENDS RequestSums, RequestQueues, FiniteSetTheorems, FunctionTheorems,
        SequenceTheorems, WellFoundedInduction, TLAPS

(* A set of naturals that is not empty has a least element. *)
LEMMA LeastNatural ==
    ASSUME NEW T, T \subseteq Nat, T # {}
    PROVE  \E x \in T : \A y \in T : x <= y
<1>1. PICK x \in T : \A y \in T : ~(<<y, x>> \in OpToRel(<, Nat))
  BY NatLessThanWellFounded, WFMin
<1>2. \A y \in T : ~(y < x)
  BY <1>1 DEF OpToRel
<1> QED BY <1>2

(* Among finitely many things one has the greatest value. *)
LEMMA Greatest ==
    ASSUME NEW C, IsFiniteSet(C), C # {}, NEW f, \A c \in C : f[c] \in Int
    PROVE  \E c \in C : \A d \in C : f[d] <= f[c]
<1> DEFINE above == [c \in C |-> {d \in C : f[d] > f[c]}]
           T == {Cardinality(above[c]) : c \in C}
<1>1. \A c \in C : IsFiniteSet(above[c]) /\ Cardinality(above[c]) \in Nat
  BY FS_Subset, FS_CardinalityType
<1>2. PICK c \in C : \A d \in C : Cardinality(above[c]) <= Cardinality(above[d])
  <2>1. T \subseteq Nat /\ T # {}
    BY <1>1
  <2>2. PICK x \in T : \A y \in T : x <= y
    <3> HIDE DEF T
    <3> QED BY <2>1, LeastNatural
  <2> HIDE DEF above
  <2> QED BY <2>2
<1> SUFFICES ASSUME NEW d \in C, ~(f[d] <= f[c]) PROVE FALSE
  BY <1>2
<1>3. d \in above[c] /\ above[d] \in SUBSET (above[c] \ {d})
  OBVIOUS
<1> HIDE DEF above
<1>4. /\ IsFiniteSet(above[c] \ {d})
      /\ Cardinality(above[c] \ {d}) = Cardinality(above[c]) - 1
  BY <1>1, <1>3, FS_RemoveElement
<1>5. Cardinality(above[d]) <= Cardinality(above[c] \ {d})
  BY <1>3, <1>4, FS_Subset
<1> QED BY <1>1, <1>2, <1>4, <1>5

-----------------------------------------------------------------------------
(* Division with remainder *)
LEMMA DivMod ==
    ASSUME NEW n \in Nat, NEW d \in Nat \ {0}
    PROVE  /\ n \div d \in Nat
           /\ n % d \in 0..(d - 1)
           /\ n = d * (n \div d) + (n % d)
OBVIOUS

LEMMA DivBounds ==
    ASSUME NEW n \in Nat, NEW d \in Nat \ {0}
    PROVE  /\ n \div d \in Nat
           /\ d * (n \div d) <= n
           /\ n < d * (n \div d) + d
OBVIOUS

LEMMA TimesMonotone ==
    ASSUME NEW a \in Nat, NEW x \in Int, NEW y \in Int, x <= y
    PROVE  a * x <= a * y
OBVIOUS

LEMMA TimesStep ==
    ASSUME NEW d \in Nat \ {0}, NEW p \in Int, NEW q \in Int, p + 1 <= q
    PROVE  d * p + d <= d * q
OBVIOUS

(* The number of blocks for more tokens is not smaller. *)
LEMMA CeilMonotone ==
    ASSUME NEW m \in Nat, NEW n \in Nat, m <= n, NEW b \in Nat \ {0}
    PROVE  /\ (m + b - 1) \div b \in Nat /\ (n + b - 1) \div b \in Nat
           /\ (m + b - 1) \div b <= (n + b - 1) \div b
<1> DEFINE x == (m + b - 1) \div b
           y == (n + b - 1) \div b
<1>1. m + b - 1 \in Nat /\ n + b - 1 \in Nat
  OBVIOUS
<1>2. x \in Nat /\ b * x <= m + b - 1 /\ m + b - 1 < b * x + b
  BY <1>1, DivBounds
<1>3. y \in Nat /\ b * y <= n + b - 1 /\ n + b - 1 < b * y + b
  BY <1>1, DivBounds
<1> HIDE DEF x, y
<1>4. x <= y
  <2> SUFFICES ASSUME y + 1 <= x PROVE FALSE
    BY <1>2, <1>3
  <2>1. b * y + b <= b * x
    BY <1>2, <1>3, TimesStep
  <2>2. b * x \in Nat /\ b * y \in Nat
    BY <1>2, <1>3
  <2> QED BY <1>1, <1>2, <1>3, <2>1, <2>2
<1> QED BY <1>2, <1>3, <1>4 DEF x, y

-----------------------------------------------------------------------------
(* Sums over sets of requests *)
LEMMA SlotElements ==
    ASSUME NEW f, NEW S, NEW r, NEW i
    PROVE  <<r, i>> \in Slots(f, S) <=> r \in S /\ i \in 1..f[r]
BY DEF Slots

LEMMA SlotsArePairs ==
    ASSUME NEW f, NEW S, NEW p \in Slots(f, S)
    PROVE  \E r \in S : \E i \in 1..f[r] : p = <<r, i>>
BY DEF Slots

(* One request contributes f[r]. *)
LEMMA SumSingleton ==
    ASSUME NEW f, NEW r, f[r] \in Nat
    PROVE  /\ IsFiniteSet(Slots(f, {r}))
           /\ SumOver(f, {r}) = f[r]
<1> DEFINE g == [i \in 1..f[r] |-> <<r, i>>]
<1>1. Slots(f, {r}) = {r} \X (1..f[r])
  BY DEF Slots
<1>2. g \in Bijection(1..f[r], {r} \X (1..f[r]))
  BY DEF Bijection, Injection, Surjection, IsInjective
<1>3. ExistsBijection(1..f[r], Slots(f, {r}))
  BY <1>1, <1>2 DEF ExistsBijection
<1>4. IsFiniteSet(Slots(f, {r}))
  BY <1>3, FS_NatBijection
<1> QED BY <1>3, <1>4, FS_CountingElements DEF SumOver

LEMMA SumFinite ==
    ASSUME NEW S, IsFiniteSet(S), NEW f, \A r \in S : f[r] \in Nat
    PROVE  /\ IsFiniteSet(Slots(f, S))
           /\ SumOver(f, S) \in Nat
<1> DEFINE T == {{r} \X (1..f[r]) : r \in S}
           h == [r \in S |-> {r} \X (1..f[r])]
<1>1. h \in Surjection(S, T)
  BY DEF Surjection
<1>2. IsFiniteSet(T)
  BY <1>1, FS_Surjection
<1>3. \A x \in T : IsFiniteSet(x)
  <2> SUFFICES ASSUME NEW r \in S PROVE IsFiniteSet({r} \X (1..f[r]))
    OBVIOUS
  <2>1. Slots(f, {r}) = {r} \X (1..f[r])
    BY DEF Slots
  <2> QED BY <2>1, SumSingleton
<1>4. IsFiniteSet(UNION T)
  BY <1>2, <1>3, FS_UNION
<1>5. Slots(f, S) = UNION T
  BY DEF Slots
<1> QED BY <1>4, <1>5, FS_CardinalityType DEF SumOver

LEMMA SumEmpty ==
    ASSUME NEW f
    PROVE  SumOver(f, {}) = 0
<1>1. Slots(f, {}) = {}
  BY DEF Slots
<1> QED BY <1>1, FS_EmptySet DEF SumOver

(* Disjoint sets of requests add up. *)
LEMMA SumUnion ==
    ASSUME NEW S, NEW T, IsFiniteSet(S), IsFiniteSet(T), S \cap T = {},
           NEW f, \A r \in S \cup T : f[r] \in Nat
    PROVE  SumOver(f, S \cup T) = SumOver(f, S) + SumOver(f, T)
<1>1. Slots(f, S \cup T) = Slots(f, S) \cup Slots(f, T)
  BY DEF Slots
<1>2. Slots(f, S) \cap Slots(f, T) = {}
  <2> SUFFICES ASSUME NEW p \in Slots(f, S), p \in Slots(f, T) PROVE FALSE
    OBVIOUS
  <2>1. PICK r \in S : \E i \in 1..f[r] : p = <<r, i>>
    BY SlotsArePairs
  <2> QED BY <2>1, SlotElements
<1>3. /\ IsFiniteSet(Slots(f, S)) /\ Cardinality(Slots(f, S)) \in Nat
      /\ IsFiniteSet(Slots(f, T)) /\ Cardinality(Slots(f, T)) \in Nat
  BY SumFinite, FS_CardinalityType
<1>4. Cardinality(Slots(f, S) \cap Slots(f, T)) = 0
  BY <1>2, FS_EmptySet
<1>5. Cardinality(Slots(f, S) \cup Slots(f, T))
        = Cardinality(Slots(f, S)) + Cardinality(Slots(f, T))
  <2>1. Cardinality(Slots(f, S) \cup Slots(f, T))
          = Cardinality(Slots(f, S)) + Cardinality(Slots(f, T))
              - Cardinality(Slots(f, S) \cap Slots(f, T))
    BY <1>3, FS_Union
  <2> QED BY <2>1, <1>3, <1>4
<1> QED BY <1>1, <1>5 DEF SumOver

(* Taking requests away takes their part of the sum away. *)
LEMMA SumDifference ==
    ASSUME NEW S, IsFiniteSet(S), NEW T \in SUBSET S,
           NEW f, \A r \in S : f[r] \in Nat
    PROVE  /\ SumOver(f, S \ T) = SumOver(f, S) - SumOver(f, T)
           /\ SumOver(f, T) <= SumOver(f, S)
<1>1. IsFiniteSet(T) /\ IsFiniteSet(S \ T)
  BY FS_Subset, S \ T \in SUBSET S
<1>2. /\ SumOver(f, S) \in Nat /\ SumOver(f, T) \in Nat
      /\ SumOver(f, S \ T) \in Nat
  BY <1>1, SumFinite
<1>3. (S \ T) \cup T = S /\ (S \ T) \cap T = {}
  OBVIOUS
<1>4. SumOver(f, (S \ T) \cup T) = SumOver(f, S \ T) + SumOver(f, T)
  BY <1>1, <1>3, SumUnion
<1>5. SumOver(f, (S \ T) \cup T) = SumOver(f, S)
  BY <1>3, Zenon
<1> QED BY <1>2, <1>4, <1>5

(* When f counts the elements of disjoint sets, its sum counts those of    *)
(* their union.                                                            *)
LEMMA SumOfCardinalities ==
    ASSUME NEW S, NEW tab, NEW f,
           IsFiniteSet(UNION {tab[r] : r \in S}),
           \A r \in S : f[r] = Cardinality(tab[r]),
           \A r, s \in S : r # s => tab[r] \cap tab[s] = {}
    PROVE  SumOver(f, S) = Cardinality(UNION {tab[r] : r \in S})
<1> DEFINE U == UNION {tab[r] : r \in S}
           g == [r \in S |-> CHOOSE b : b \in Bijection(1..f[r], tab[r])]
           h == [p \in Slots(f, S) |-> g[p[1]][p[2]]]
<1>1. \A r \in S : IsFiniteSet(tab[r]) /\ f[r] \in Nat
  <2> SUFFICES ASSUME NEW r \in S PROVE IsFiniteSet(tab[r]) /\ f[r] \in Nat
    OBVIOUS
  <2>1. tab[r] \subseteq U
    OBVIOUS
  <2> QED BY <2>1, FS_Subset, FS_CardinalityType
<1>2. \A r \in S : g[r] \in Bijection(1..f[r], tab[r])
  <2> SUFFICES ASSUME NEW r \in S PROVE g[r] \in Bijection(1..f[r], tab[r])
    OBVIOUS
  <2>1. ExistsBijection(1..f[r], tab[r])
    BY <1>1, FS_CardinalityType
  <2>2. PICK b : b \in Bijection(1..f[r], tab[r])
    BY <2>1 DEF ExistsBijection
  <2> QED BY <2>2
<1> HIDE DEF g
<1>3. \A r \in S :
        /\ \A i \in 1..f[r] : g[r][i] \in tab[r]
        /\ \A i, j \in 1..f[r] : g[r][i] = g[r][j] => i = j
        /\ \A x \in tab[r] : \E i \in 1..f[r] : g[r][i] = x
  <2> SUFFICES ASSUME NEW r \in S
               PROVE  /\ \A i \in 1..f[r] : g[r][i] \in tab[r]
                      /\ \A i, j \in 1..f[r] : g[r][i] = g[r][j] => i = j
                      /\ \A x \in tab[r] : \E i \in 1..f[r] : g[r][i] = x
    OBVIOUS
  <2>1. g[r] \in Bijection(1..f[r], tab[r])
    BY <1>2
  <2>2. /\ g[r] \in [1..f[r] -> tab[r]]
        /\ \A i, j \in 1..f[r] : g[r][i] = g[r][j] => i = j
        /\ \A x \in tab[r] : \E i \in 1..f[r] : g[r][i] = x
    BY <2>1 DEF Bijection, Injection, Surjection, IsInjective
  <2> QED BY <2>2
<1>4. \A r \in S : \A i \in 1..f[r] : <<r, i>> \in Slots(f, S) /\ h[<<r, i>>] = g[r][i]
  BY SlotElements
<1>5. \A p \in Slots(f, S) : \E r \in S : \E i \in 1..f[r] : p = <<r, i>>
  BY SlotsArePairs
<1>6. h \in [Slots(f, S) -> U]
  <2> SUFFICES ASSUME NEW p \in Slots(f, S) PROVE g[p[1]][p[2]] \in U
    OBVIOUS
  <2>1. PICK r \in S : \E i \in 1..f[r] : p = <<r, i>>
    BY <1>5
  <2> QED BY <2>1, <1>3
<1> HIDE DEF h
<1>7. ASSUME NEW p \in Slots(f, S), NEW q \in Slots(f, S), h[p] = h[q]
      PROVE  p = q
  <2>5. PICK r \in S : \E i \in 1..f[r] : p = <<r, i>>
    BY <1>5
  <2>1. PICK i \in 1..f[r] : p = <<r, i>>
    BY <2>5
  <2>6. PICK s \in S : \E j \in 1..f[s] : q = <<s, j>>
    BY <1>5
  <2>2. PICK j \in 1..f[s] : q = <<s, j>>
    BY <2>6
  <2>3. g[r][i] = g[s][j]
    BY <1>4, <1>7, <2>1, <2>2
  <2>4. r = s
    BY <1>3, <2>3
  <2> QED BY <1>3, <2>1, <2>2, <2>3, <2>4
<1>8. \A x \in U : \E p \in Slots(f, S) : h[p] = x
  <2> SUFFICES ASSUME NEW x \in U PROVE \E p \in Slots(f, S) : h[p] = x
    OBVIOUS
  <2>1. PICK r \in S : x \in tab[r]
    OBVIOUS
  <2>2. PICK i \in 1..f[r] : g[r][i] = x
    BY <1>3, <2>1
  <2> QED BY <1>4, <2>2
<1>9. h \in Bijection(Slots(f, S), U)
  BY <1>6, <1>7, <1>8, Fun_IsBij
<1>10. ExistsBijection(U, Slots(f, S))
  BY <1>9, Fun_ExistsBijSymmetric DEF ExistsBijection
<1> QED BY <1>10, FS_Bijection DEF SumOver

(* A sum grows with what is added up. *)
LEMMA SumMonotone ==
    ASSUME NEW S, IsFiniteSet(S), NEW f, NEW g,
           \A r \in S : f[r] \in Nat /\ g[r] \in Nat /\ f[r] <= g[r]
    PROVE  SumOver(f, S) <= SumOver(g, S)
<1>1. Slots(f, S) \subseteq Slots(g, S)
  <2> SUFFICES ASSUME NEW p \in Slots(f, S) PROVE p \in Slots(g, S)
    OBVIOUS
  <2>1. PICK r \in S : \E i \in 1..f[r] : p = <<r, i>>
    BY SlotsArePairs
  <2>2. PICK i \in 1..f[r] : p = <<r, i>>
    BY <2>1
  <2>3. i \in 1..g[r]
    OBVIOUS
  <2> QED BY <2>2, <2>3, SlotElements
<1>2. IsFiniteSet(Slots(g, S))
  BY SumFinite
<1> QED BY <1>1, <1>2, FS_Subset DEF SumOver

LEMMA SumSubset ==
    ASSUME NEW S, IsFiniteSet(S), NEW T \in SUBSET S, NEW f, \A r \in S : f[r] \in Nat
    PROVE  SumOver(f, T) <= SumOver(f, S)
BY SumDifference

(* A function below the sum of two others sums to no more than they do.    *)
LEMMA SumOfTwo ==
    ASSUME NEW S, IsFiniteSet(S), NEW f, NEW g, NEW h,
           \A r \in S : /\ f[r] \in Nat /\ g[r] \in Nat /\ h[r] \in Nat
                        /\ h[r] <= f[r] + g[r]
    PROVE  SumOver(h, S) <= SumOver(f, S) + SumOver(g, S)
<1> DEFINE F == Slots(f, S)
           G == Slots(g, S)
           H == Slots(h, S)
           up == [p \in G |-> <<p[1], p[2] + f[p[1]]>>]
           U == {up[p] : p \in G}
<1>1. IsFiniteSet(F) /\ IsFiniteSet(G) /\ IsFiniteSet(H)
  BY SumFinite
<1>2. H \subseteq F \cup U
  <2> SUFFICES ASSUME NEW p \in H PROVE p \in F \cup U
    OBVIOUS
  <2>1. PICK r \in S : \E i \in 1..h[r] : p = <<r, i>>
    BY SlotsArePairs
  <2>2. PICK i \in 1..h[r] : p = <<r, i>>
    BY <2>1
  <2>3. CASE i <= f[r]
    BY <2>2, <2>3, SlotElements
  <2>4. CASE i > f[r]
    <3> DEFINE q == <<r, i - f[r]>>
    <3>1. i - f[r] \in 1..g[r] /\ (i - f[r]) + f[r] = i
      BY <2>4
    <3>2. q \in G
      BY <3>1, SlotElements
    <3>3. up[q] = <<r, i>>
      BY <3>1, <3>2
    <3> QED BY <2>2, <3>2, <3>3, Zenon
  <2> QED BY <2>3, <2>4
<1>3. IsFiniteSet(U) /\ Cardinality(U) <= Cardinality(G)
  <2>1. up \in Surjection(G, U)
    BY DEF Surjection
  <2> HIDE DEF up, U, G
  <2> QED BY <1>1, <2>1, FS_Surjection
<1> HIDE DEF F, G, H, U
<1>4. /\ IsFiniteSet(F \cup U)
      /\ Cardinality(F \cup U) = Cardinality(F) + Cardinality(U) - Cardinality(F \cap U)
  BY <1>1, <1>3, FS_Union
<1>5. Cardinality(H) <= Cardinality(F \cup U)
  BY <1>2, <1>4, FS_Subset
<1>6. /\ Cardinality(F) \in Nat /\ Cardinality(G) \in Nat /\ Cardinality(H) \in Nat
      /\ Cardinality(U) \in Nat /\ Cardinality(F \cup U) \in Nat
      /\ Cardinality(F \cap U) \in Nat
  <2>1. IsFiniteSet(F \cap U)
    BY <1>1, FS_Subset, F \cap U \in SUBSET F
  <2> QED BY <1>1, <1>3, <1>4, <2>1, FS_CardinalityType
<1> QED BY <1>3, <1>4, <1>5, <1>6 DEF SumOver, F, G, H

-----------------------------------------------------------------------------
(* Queues: lists in which no request occurs twice *)
Distinct(q) == \A i, j \in 1..Len(q) : q[i] = q[j] => i = j

LEMMA MembersOfAppend ==
    ASSUME NEW S, NEW q \in Seq(S), NEW r \in S
    PROVE  /\ Append(q, r) \in Seq(S)
           /\ Members(Append(q, r)) = Members(q) \cup {r}
           /\ Distinct(q) /\ r \notin Members(q) => Distinct(Append(q, r))
<1> DEFINE u == Append(q, r)
<1>1. /\ u \in Seq(S) /\ Len(u) = Len(q) + 1
      /\ \A i \in 1..Len(q) : u[i] = q[i]
      /\ u[Len(q) + 1] = r
  OBVIOUS
<1> HIDE DEF u
<1>2. Members(u) = Members(q) \cup {r}
  <2>1. ASSUME NEW x \in Members(u) PROVE x \in Members(q) \cup {r}
    <3>1. PICK i \in 1..Len(u) : x = u[i]
      BY DEF Members
    <3> QED BY <1>1, <3>1 DEF Members
  <2>2. ASSUME NEW x \in Members(q) PROVE x \in Members(u)
    BY <1>1 DEF Members
  <2>3. r \in Members(u)
    BY <1>1 DEF Members
  <2> QED BY <2>1, <2>2, <2>3
<1>3. Distinct(q) /\ r \notin Members(q) => Distinct(u)
  BY <1>1 DEF Distinct, Members
<1> QED BY <1>1, <1>2, <1>3 DEF u

LEMMA MembersOfSlice ==
    ASSUME NEW S, NEW q \in Seq(S), NEW a \in 1..(Len(q) + 1), NEW b \in 0..Len(q)
    PROVE  /\ SubSeq(q, a, b) \in Seq(S)
           /\ Members(SubSeq(q, a, b)) = {q[i] : i \in a..b}
           /\ Distinct(q) => Distinct(SubSeq(q, a, b))
<1> DEFINE u == SubSeq(q, a, b)
<1>1. /\ u \in Seq(S) /\ Len(u) = (IF a <= b THEN b - a + 1 ELSE 0)
      /\ \A i \in 1..(b - a + 1) : u[i] = q[a + i - 1]
  BY SubSeqProperties
<1> HIDE DEF u
<1>2. \A i \in 1..Len(u) : a + i - 1 \in a..b /\ u[i] = q[a + i - 1]
  BY <1>1
<1>3. \A i \in a..b : i - a + 1 \in 1..Len(u) /\ u[i - a + 1] = q[i]
  BY <1>1
<1>4. Members(u) = {q[i] : i \in a..b}
  <2>1. ASSUME NEW x \in Members(u) PROVE x \in {q[i] : i \in a..b}
    <3>1. PICK i \in 1..Len(u) : x = u[i]
      BY DEF Members
    <3> QED BY <1>2, <3>1
  <2>2. ASSUME NEW i \in a..b PROVE q[i] \in Members(u)
    <3>1. i - a + 1 \in 1..Len(u) /\ u[i - a + 1] = q[i]
      BY <1>3
    <3> QED BY <3>1 DEF Members
  <2> QED BY <2>1, <2>2
<1>5. Distinct(q) => Distinct(u)
  <2> SUFFICES ASSUME Distinct(q), NEW i \in 1..Len(u), NEW j \in 1..Len(u), u[i] = u[j]
               PROVE  i = j
    BY DEF Distinct
  <2>1. a + i - 1 \in 1..Len(q) /\ a + j - 1 \in 1..Len(q)
    BY <1>1
  <2>2. q[a + i - 1] = q[a + j - 1]
    BY <1>2
  <2>3. a + i - 1 = a + j - 1
    BY <2>1, <2>2 DEF Distinct
  <2> QED BY <2>3
<1> QED BY <1>1, <1>4, <1>5 DEF u

LEMMA MembersOfTail ==
    ASSUME NEW S, NEW q \in Seq(S), q # <<>>
    PROVE  /\ Head(q) \in Members(q) /\ Tail(q) \in Seq(S)
           /\ Members(q) = Members(Tail(q)) \cup {Head(q)}
           /\ Distinct(q) => Head(q) \notin Members(Tail(q)) /\ Distinct(Tail(q))
<1>1. Tail(q) = SubSeq(q, 2, Len(q)) /\ Head(q) = q[1] /\ Len(q) \in Nat \ {0}
  BY TailIsSubSeq, EmptySeq
<1>2. /\ Tail(q) \in Seq(S) /\ Members(Tail(q)) = {q[i] : i \in 2..Len(q)}
      /\ Distinct(q) => Distinct(Tail(q))
  <2>1. 2 \in 1..(Len(q) + 1) /\ Len(q) \in 0..Len(q)
    BY <1>1
  <2>2. /\ SubSeq(q, 2, Len(q)) \in Seq(S)
        /\ Members(SubSeq(q, 2, Len(q))) = {q[i] : i \in 2..Len(q)}
        /\ Distinct(q) => Distinct(SubSeq(q, 2, Len(q)))
    BY <2>1, MembersOfSlice
  <2> QED BY <1>1, <2>2, Zenon
<1>3. Members(q) = {q[i] : i \in 2..Len(q)} \cup {q[1]}
  BY <1>1 DEF Members
<1>4. Distinct(q) => q[1] \notin {q[i] : i \in 2..Len(q)}
  BY <1>1 DEF Distinct
<1> QED BY <1>1, <1>2, <1>3, <1>4

LEMMA MembersOfConcat ==
    ASSUME NEW S, NEW s \in Seq(S), NEW t \in Seq(S)
    PROVE  /\ s \o t \in Seq(S)
           /\ Members(s \o t) = Members(s) \cup Members(t)
           /\ Distinct(s) /\ Distinct(t) /\ Members(s) \cap Members(t) = {} => Distinct(s \o t)
<1> DEFINE u == s \o t
<1>1. /\ u \in Seq(S) /\ Len(u) = Len(s) + Len(t)
      /\ \A i \in 1..(Len(s) + Len(t)) : u[i] = IF i <= Len(s) THEN s[i] ELSE t[i - Len(s)]
  BY ConcatProperties
<1> HIDE DEF u
<1>2. /\ \A i \in 1..Len(s) : i \in 1..Len(u) /\ u[i] = s[i]
      /\ \A i \in 1..Len(t) : i + Len(s) \in 1..Len(u) /\ u[i + Len(s)] = t[i]
  <2>1. Len(s) \in Nat /\ Len(t) \in Nat
    BY LenProperties
  <2>2. ASSUME NEW i \in 1..Len(t)
        PROVE  i + Len(s) \in 1..Len(u) /\ u[i + Len(s)] = t[i]
    <3>1. i + Len(s) \in 1..(Len(s) + Len(t)) /\ ~(i + Len(s) <= Len(s))
          /\ (i + Len(s)) - Len(s) = i
      BY <2>1
    <3> QED BY <1>1, <3>1
  <2> QED BY <1>1, <2>1, <2>2
<1>3. Members(u) = Members(s) \cup Members(t)
  <2>1. ASSUME NEW x \in Members(u) PROVE x \in Members(s) \cup Members(t)
    <3>1. PICK i \in 1..Len(u) : x = u[i]
      BY DEF Members
    <3>2. CASE i <= Len(s)
      BY <1>1, <3>1, <3>2 DEF Members
    <3>3. CASE i > Len(s)
      <4>1. i - Len(s) \in 1..Len(t) /\ x = t[i - Len(s)]
        BY <1>1, <3>1, <3>3
      <4> QED BY <4>1 DEF Members
    <3> QED BY <3>2, <3>3
  <2>2. Members(s) \subseteq Members(u) /\ Members(t) \subseteq Members(u)
    BY <1>2 DEF Members
  <2> QED BY <2>1, <2>2
<1>4. ASSUME Distinct(s), Distinct(t), Members(s) \cap Members(t) = {},
             NEW i \in 1..Len(u), NEW j \in 1..Len(u), u[i] = u[j]
      PROVE  i = j
  <2>1. ASSUME NEW m \in 1..Len(s), NEW n \in 1..Len(t) PROVE s[m] # t[n]
    BY <1>4 DEF Members
  <2>2. CASE i <= Len(s) /\ j <= Len(s)
    BY <1>1, <1>4, <2>2 DEF Distinct
  <2>3. CASE i > Len(s) /\ j > Len(s)
    <3>1. i - Len(s) \in 1..Len(t) /\ j - Len(s) \in 1..Len(t)
      BY <1>1, <2>3
    <3>2. u[i] = t[i - Len(s)] /\ u[j] = t[j - Len(s)]
      BY <1>1, <2>3
    <3>3. i - Len(s) = j - Len(s)
      BY <1>4, <3>1, <3>2 DEF Distinct
    <3> QED BY <3>3
  <2>4. CASE i <= Len(s) /\ j > Len(s)
    BY <1>1, <1>4, <2>1, <2>4
  <2>5. CASE i > Len(s) /\ j <= Len(s)
    BY <1>1, <1>4, <2>1, <2>5
  <2> QED BY <2>2, <2>3, <2>4, <2>5
<1>5. Distinct(s) /\ Distinct(t) /\ Members(s) \cap Members(t) = {} => Distinct(u)
  BY <1>4 DEF Distinct
<1> QED BY <1>1, <1>3, <1>5 DEF u

(* A queue is as long as it has members. *)
LEMMA DistinctCardinality ==
    ASSUME NEW S, NEW q \in Seq(S), Distinct(q)
    PROVE  IsFiniteSet(Members(q)) /\ Cardinality(Members(q)) = Len(q)
<1> DEFINE f == [i \in 1..Len(q) |-> q[i]]
<1>1. f \in Bijection(1..Len(q), Members(q))
  <2>1. /\ f \in [1..Len(q) -> Members(q)]
        /\ \A i, j \in 1..Len(q) : f[i] = f[j] => i = j
        /\ \A x \in Members(q) : \E i \in 1..Len(q) : f[i] = x
    BY DEF Members, Distinct
  <2> QED BY <2>1, Fun_IsBij
<1>2. ExistsBijection(1..Len(q), Members(q))
  BY <1>1 DEF ExistsBijection
<1>3. Len(q) \in Nat
  OBVIOUS
<1>4. IsFiniteSet(Members(q))
  BY <1>2, <1>3, FS_NatBijection
<1> QED BY <1>2, <1>3, <1>4, FS_CountingElements

(* The recursion of Remaining has a solution ... *)
KeptAt(f, q, F, n) ==
    IF n = 0 THEN <<>> ELSE IF q[n] \in F THEN f[n - 1] ELSE Append(f[n - 1], q[n])
IsKept(f, q, F, m) == f = [n \in 0..m |-> KeptAt(f, q, F, n)]

LEMMA KeptExists ==
    ASSUME NEW q, NEW F, NEW m \in Nat
    PROVE  \E f : IsKept(f, q, F, m)
<1> DEFINE T == {n \in Nat : ~ \E f : IsKept(f, q, F, n)}
<1> SUFFICES ASSUME T # {} PROVE FALSE
  OBVIOUS
<1>1. PICK l \in T : \A n \in T : l <= n
  BY LeastNatural
<1>2. CASE l = 0
  <2> DEFINE f == [n \in 0..0 |-> <<>>]
  <2>1. IsKept(f, q, F, 0)
    BY DEF IsKept, KeptAt
  <2> QED BY <1>2, <2>1
<1>3. CASE l # 0
  <2>1. l - 1 \in Nat /\ l - 1 \notin T
    BY <1>1, <1>3
  <2>2. PICK g : IsKept(g, q, F, l - 1)
    BY <2>1
  <2> DEFINE f == [n \in 0..l |-> KeptAt(g, q, F, n)]
  <2>3. \A n \in 0..(l - 1) : f[n] = g[n]
    BY <2>1, <2>2 DEF IsKept
  <2>4. \A n \in 0..l : KeptAt(g, q, F, n) = KeptAt(f, q, F, n)
    <3> SUFFICES ASSUME NEW n \in 0..l, n # 0 PROVE g[n - 1] = f[n - 1]
      BY DEF KeptAt
    <3>1. n - 1 \in 0..(l - 1)
      OBVIOUS
    <3> HIDE DEF f
    <3> QED BY <2>3, <3>1
  <2>5. IsKept(f, q, F, l)
    BY <2>4 DEF IsKept
  <2> QED BY <2>5
<1> QED BY <1>2, <1>3

(* ... so it is what the loop computes.                                    *)
LEMMA RemainingMembers ==
    ASSUME NEW S, NEW q \in Seq(S), NEW F
    PROVE  /\ Remaining(q, F) \in Seq(S)
           /\ Members(Remaining(q, F)) = Members(q) \ F
           /\ Distinct(q) => Distinct(Remaining(q, F))
<1> DEFINE kept == CHOOSE f : IsKept(f, q, F, Len(q))
<1>1. Len(q) \in Nat /\ \A i \in 1..Len(q) : q[i] \in S
  BY LenProperties, ElementOfSeq
<1>2. IsKept(kept, q, F, Len(q))
  BY <1>1, KeptExists
<1>3. Remaining(q, F) = kept[Len(q)]
  BY DEF Remaining, IsKept, KeptAt
<1> HIDE DEF kept
<1> DEFINE Sofar(n) == /\ kept[n] \in Seq(S)
                       /\ Members(kept[n]) = {q[i] : i \in 1..n} \ F
                       /\ Distinct(q) => Distinct(kept[n])
           T == {n \in 0..Len(q) : ~Sofar(n)}
<1>4. T = {}
  <2> SUFFICES ASSUME T # {} PROVE FALSE
    OBVIOUS
  <2>1. PICK n \in T : \A m \in T : n <= m
    <3>1. T \subseteq Nat
      BY <1>1
    <3> HIDE DEF T
    <3> QED BY <3>1, LeastNatural
  <2> HIDE DEF Sofar
  <2>2. kept[n] = KeptAt(kept, q, F, n)
    BY <1>2 DEF IsKept
  <2>3. CASE n = 0
    <3>1. kept[0] = <<>>
      BY <2>2, <2>3 DEF KeptAt
    <3>2. Sofar(0)
      BY <3>1 DEF Members, Distinct, Sofar
    <3> QED BY <2>3, <3>2
  <2>4. CASE n # 0
    <3> DEFINE m == n - 1
    <3>1. m \in 0..Len(q) /\ n \in 1..Len(q) /\ m \notin T
      BY <1>1, <2>1, <2>4
    <3>2. Sofar(m)
      BY <3>1
    <3> HIDE DEF T
    <3>3. {q[i] : i \in 1..n} = {q[i] : i \in 1..m} \cup {q[n]}
      BY <3>1
    <3>4. Distinct(q) => q[n] \notin {q[i] : i \in 1..m}
      BY <3>1 DEF Distinct
    <3>5. kept[n] = IF q[n] \in F THEN kept[m] ELSE Append(kept[m], q[n])
      BY <2>2, <2>4 DEF KeptAt
    <3>6. q[n] \in S
      BY <1>1, <3>1
    <3> HIDE DEF m
    <3>7. ASSUME q[n] \in F PROVE Sofar(n)
      BY <3>2, <3>3, <3>5, <3>7 DEF Sofar
    <3>8. ASSUME q[n] \notin F PROVE Sofar(n)
      <4>1. kept[m] \in Seq(S)
        BY <3>2 DEF Sofar
      <4>2. /\ Append(kept[m], q[n]) \in Seq(S)
            /\ Members(Append(kept[m], q[n])) = Members(kept[m]) \cup {q[n]}
            /\ Distinct(kept[m]) /\ q[n] \notin Members(kept[m])
                 => Distinct(Append(kept[m], q[n]))
        BY <3>6, <4>1, MembersOfAppend
      <4>3. kept[n] = Append(kept[m], q[n])
        BY <3>5, <3>8
      <4> QED BY <3>2, <3>3, <3>4, <3>8, <4>2, <4>3 DEF Sofar
    <3>9. Sofar(n)
      BY <3>7, <3>8
    <3> QED BY <3>9 DEF T
  <2> QED BY <2>3, <2>4
<1>5. Sofar(Len(q))
  <2>1. Len(q) \in 0..Len(q)
    BY <1>1
  <2> HIDE DEF Sofar
  <2> QED BY <1>4, <2>1
<1> QED BY <1>3, <1>5 DEF Members

-----------------------------------------------------------------------------
(* Loops.  The state after n turns is a recursive function of n; it exists *)
(* if no turn leaves the set X.                                            *)
LoopAt(f, x, F, n) == IF n = 0 THEN x ELSE F[<<f[n - 1], n>>]
IsLoop(f, x, F, m) == f = [n \in 0..m |-> LoopAt(f, x, F, n)]

LEMMA LoopExists ==
    ASSUME NEW X, NEW x \in X, NEW m \in Nat, NEW F \in [X \X (1..m) -> X]
    PROVE  \E f \in [0..m -> X] : IsLoop(f, x, F, m)
<1> DEFINE T == {n \in Nat : n <= m /\ ~ \E f \in [0..n -> X] : IsLoop(f, x, F, n)}
<1> SUFFICES ASSUME T # {} PROVE FALSE
  OBVIOUS
<1>1. PICK l \in T : \A n \in T : l <= n
  BY LeastNatural
<1>2. CASE l = 0
  <2> DEFINE f == [n \in 0..0 |-> x]
  <2>1. f \in [0..0 -> X]
    OBVIOUS
  <2>2. \A n \in 0..0 : LoopAt(f, x, F, n) = x
    BY DEF LoopAt
  <2>3. IsLoop(f, x, F, 0)
    BY <2>2 DEF IsLoop
  <2> QED BY <1>2, <2>1, <2>3
<1>3. CASE l # 0
  <2>1. l - 1 \in Nat /\ l - 1 \notin T /\ l \in 1..m
    BY <1>1, <1>3
  <2>2. PICK g \in [0..(l - 1) -> X] : IsLoop(g, x, F, l - 1)
    BY <2>1
  <2> DEFINE f == [n \in 0..l |-> LoopAt(g, x, F, n)]
  <2>3. \A n \in 0..(l - 1) : f[n] = g[n]
    BY <2>1, <2>2 DEF IsLoop
  <2>4. \A n \in 0..l : LoopAt(g, x, F, n) = LoopAt(f, x, F, n)
    <3> SUFFICES ASSUME NEW n \in 0..l, n # 0 PROVE g[n - 1] = f[n - 1]
      BY DEF LoopAt
    <3>1. n - 1 \in 0..(l - 1)
      OBVIOUS
    <3> HIDE DEF f
    <3> QED BY <2>3, <3>1
  <2>5. IsLoop(f, x, F, l)
    BY <2>4 DEF IsLoop
  <2>6. \A n \in 0..l : LoopAt(g, x, F, n) \in X
    <3> SUFFICES ASSUME NEW n \in 0..l, n # 0 PROVE F[<<g[n - 1], n>>] \in X
      BY DEF LoopAt
    <3>1. n - 1 \in 0..(l - 1) /\ n \in 1..m
      BY <2>1
    <3> QED BY <2>2, <3>1
  <2>7. f \in [0..l -> X]
    BY <2>6
  <2> QED BY <2>5, <2>7
<1> QED BY <1>2, <1>3

(* What holds before the first turn and is kept by each holds after all.   *)
LEMMA LoopInvariant ==
    ASSUME NEW m \in Nat, NEW f, NEW X, f[0] \in X[0],
           \A n \in 1..m : f[n - 1] \in X[n - 1] => f[n] \in X[n]
    PROVE  \A n \in 0..m : f[n] \in X[n]
<1> DEFINE T == {n \in 0..m : f[n] \notin X[n]}
<1> SUFFICES ASSUME T # {} PROVE FALSE
  OBVIOUS
<1>1. PICK l \in T : \A n \in T : l <= n
  <2>1. T \subseteq Nat
    OBVIOUS
  <2> HIDE DEF T
  <2> QED BY <2>1, LeastNatural
<1>2. l # 0 /\ l \in 1..m /\ l - 1 \in 0..m /\ l - 1 \notin T
  BY <1>1
<1> QED BY <1>1, <1>2

(* What remains of a list keeps its order, and moves forward if the first  *)
(* element is among those that go.                                         *)
InOrder(u, q) ==
    \A i, j \in 1..Len(u) : i < j =>
        \E a, b \in 1..Len(q) : a < b /\ q[a] = u[i] /\ q[b] = u[j]
Forward(u, q) ==
    \A i \in 1..Len(u) : \E a \in 1..Len(q) : i < a /\ q[a] = u[i]

LEMMA RemainingOrder ==
    ASSUME NEW S, NEW q \in Seq(S), NEW F
    PROVE  /\ InOrder(Remaining(q, F), q)
           /\ q[1] \in F => Forward(Remaining(q, F), q)
<1> DEFINE kept == CHOOSE f : IsKept(f, q, F, Len(q))
<1>1. Len(q) \in Nat /\ \A i \in 1..Len(q) : q[i] \in S
  BY LenProperties, ElementOfSeq
<1>2. IsKept(kept, q, F, Len(q))
  BY <1>1, KeptExists
<1>3. Remaining(q, F) = kept[Len(q)]
  BY DEF Remaining, IsKept, KeptAt
<1> HIDE DEF kept
<1> DEFINE Short(u, n) == Len(u) <= n /\ (n > 0 /\ q[1] \in F => Len(u) < n)
           Later(u, n) == \A i \in 1..Len(u) : \E a \in 1..n :
                             q[a] = u[i] /\ i <= a /\ (q[1] \in F => i < a)
           Ordered(u, n) == \A i, j \in 1..Len(u) : i < j =>
                               \E a, b \in 1..n : a < b /\ q[a] = u[i] /\ q[b] = u[j]
           X == [n \in 0..Len(q) |->
                   {u \in Seq(S) : Short(u, n) /\ Later(u, n) /\ Ordered(u, n)}]
<1>4. kept[0] \in X[0]
  <2>1. kept[0] = <<>>
    BY <1>1, <1>2 DEF IsKept, KeptAt
  <2>2. <<>> \in Seq(S) /\ Len(<<>>) = 0
    OBVIOUS
  <2>3. Short(<<>>, 0) /\ Later(<<>>, 0) /\ Ordered(<<>>, 0)
    BY <2>2
  <2> HIDE DEF Short, Later, Ordered
  <2> QED BY <1>1, <2>1, <2>2, <2>3
<1>5. ASSUME NEW n \in 1..Len(q), kept[n - 1] \in X[n - 1] PROVE kept[n] \in X[n]
  <2>1. /\ n - 1 \in 0..Len(q) /\ n \in 0..Len(q) /\ q[n] \in S
        /\ kept[n] = IF q[n] \in F THEN kept[n - 1] ELSE Append(kept[n - 1], q[n])
    <3>1. n \in 0..Len(q) /\ n # 0 /\ n - 1 \in 0..Len(q) /\ q[n] \in S
      BY <1>1
    <3>2. kept[n] = KeptAt(kept, q, F, n)
      BY <1>2, <3>1 DEF IsKept
    <3> QED BY <3>1, <3>2 DEF KeptAt
  <2>2. PICK u \in Seq(S) : /\ u = kept[n - 1]
                            /\ Short(u, n - 1) /\ Later(u, n - 1) /\ Ordered(u, n - 1)
    <3> HIDE DEF Short, Later, Ordered
    <3> QED BY <1>5, <2>1
  <2>3. CASE q[n] \in F
    <3>1. Short(u, n) /\ Later(u, n) /\ Ordered(u, n)
      <4>1. Short(u, n)
        BY <2>2
      <4>2. Later(u, n)
        BY <2>2
      <4>3. Ordered(u, n)
        BY <2>2
      <4> QED BY <4>1, <4>2, <4>3
    <3> HIDE DEF Short, Later, Ordered
    <3> QED BY <2>1, <2>2, <2>3, <3>1
  <2>4. CASE q[n] \notin F
    <3> DEFINE v == Append(u, q[n])
               l == Len(u)
    <3>1. /\ v \in Seq(S) /\ l \in Nat /\ Len(v) = l + 1 /\ v[l + 1] = q[n]
          /\ \A i \in 1..l : v[i] = u[i]
      BY <2>1
    <3>2. l <= n - 1 /\ (q[1] \in F => l + 1 < n)
      BY <2>2, <2>4
    <3> HIDE DEF v
    <3>3. Short(v, n)
      BY <3>1, <3>2
    <3>4. Later(v, n)
      <4> SUFFICES ASSUME NEW i \in 1..(l + 1)
                   PROVE  \E a \in 1..n : q[a] = v[i] /\ i <= a /\ (q[1] \in F => i < a)
        BY <3>1
      <4>1. CASE i = l + 1
        BY <3>1, <3>2, <4>1
      <4>2. CASE i \in 1..l
        <5>1. PICK a \in 1..(n - 1) : q[a] = u[i] /\ i <= a /\ (q[1] \in F => i < a)
          BY <2>2, <4>2
        <5> QED BY <3>1, <4>2, <5>1
      <4> QED BY <3>1, <4>1, <4>2
    <3>5. Ordered(v, n)
      <4> SUFFICES ASSUME NEW i \in 1..(l + 1), NEW j \in 1..(l + 1), i < j
                   PROVE  \E a, b \in 1..n : a < b /\ q[a] = v[i] /\ q[b] = v[j]
        BY <3>1
      <4>1. i \in 1..l /\ v[i] = u[i]
        BY <3>1
      <4>0. j \in 1..l \/ j = l + 1
        BY <3>1
      <4>2. CASE j = l + 1
        <5>1. PICK a \in 1..(n - 1) : q[a] = u[i]
          BY <2>2, <4>1
        <5>2. a \in 1..n /\ n \in 1..n /\ a < n
          BY <1>1
        <5>3. q[a] = v[i] /\ q[n] = v[j]
          BY <3>1, <4>1, <4>2, <5>1
        <5> QED BY <5>2, <5>3
      <4>3. CASE j \in 1..l
        <5>1. \E a, b \in 1..(n - 1) : a < b /\ q[a] = u[i] /\ q[b] = u[j]
          BY <2>2, <4>1, <4>3
        <5>2. v[j] = u[j] /\ \A a \in 1..(n - 1) : a \in 1..n
          BY <3>1, <4>3
        <5> HIDE DEF X, Short, Later, Ordered
        <5> QED BY <4>1, <5>1, <5>2
      <4> QED BY <4>0, <4>2, <4>3
    <3> HIDE DEF Short, Later, Ordered
    <3> QED BY <2>1, <2>2, <2>4, <3>1, <3>3, <3>4, <3>5 DEF v
  <2> QED BY <2>3, <2>4
<1>6. Len(q) \in 0..Len(q) /\ kept[Len(q)] \in X[Len(q)]
  <2>1. \A n \in 1..Len(q) : kept[n - 1] \in X[n - 1] => kept[n] \in X[n]
    <3> HIDE DEF X
    <3> QED BY <1>5
  <2>2. \A n \in 0..Len(q) : kept[n] \in X[n]
    <3> HIDE DEF X
    <3> QED BY <1>1, <1>4, <2>1, LoopInvariant
  <2> HIDE DEF X
  <2> QED BY <1>1, <2>2
<1>7. Later(kept[Len(q)], Len(q)) /\ Ordered(kept[Len(q)], Len(q))
  <2> HIDE DEF Short, Later, Ordered
  <2> QED BY <1>6
<1>8. InOrder(kept[Len(q)], q)
  BY <1>7 DEF InOrder
<1>9. q[1] \in F => Forward(kept[Len(q)], q)
  BY <1>7 DEF Forward
<1> HIDE DEF Short, Later, Ordered
<1> QED BY <1>3, <1>8, <1>9

-----------------------------------------------------------------------------
(* Pipelines: lists of batches, which are sets that have no request in     *)
(* common                                                                  *)
Pooled(p) == UNION {p[i] : i \in 1..Len(p)}
Apart(p) == \A i, j \in 1..Len(p) : i # j => p[i] \cap p[j] = {}

LEMMA PooledAppend ==
    ASSUME NEW T, NEW p \in Seq(SUBSET T), NEW S \in SUBSET T,
           Apart(p), Pooled(p) \cap S = {}
    PROVE  /\ Append(p, S) \in Seq(SUBSET T) /\ Apart(Append(p, S))
           /\ Len(Append(p, S)) = Len(p) + 1
           /\ Append(p, S)[Len(p) + 1] = S
           /\ \A i \in 1..Len(p) : Append(p, S)[i] = p[i]
           /\ Pooled(Append(p, S)) = Pooled(p) \cup S
<1> DEFINE q == Append(p, S)
<1>1. /\ q \in Seq(SUBSET T)
      /\ Len(q) = Len(p) + 1
      /\ q[Len(p) + 1] = S
      /\ \A i \in 1..Len(p) : q[i] = p[i]
  OBVIOUS
<1> HIDE DEF q
<1>2. \A i \in 1..Len(p) : p[i] \subseteq Pooled(p)
  BY DEF Pooled
<1>3. \A i \in 1..Len(q) : q[i] = S \/ (i \in 1..Len(p) /\ q[i] = p[i])
  BY <1>1
<1>4. Apart(q)
  <2> SUFFICES ASSUME NEW i \in 1..Len(q), NEW j \in 1..Len(q), i # j
               PROVE  q[i] \cap q[j] = {}
    BY DEF Apart
  <2>1. CASE i \in 1..Len(p) /\ j \in 1..Len(p)
    BY <1>1, <2>1 DEF Apart
  <2>2. CASE i = Len(p) + 1
    <3>1. j \in 1..Len(p)
      BY <1>1, <2>2
    <3> QED BY <1>1, <1>2, <2>2, <3>1
  <2>3. CASE j = Len(p) + 1
    <3>1. i \in 1..Len(p)
      BY <1>1, <2>3
    <3> QED BY <1>1, <1>2, <2>3, <3>1
  <2> QED BY <1>1, <2>1, <2>2, <2>3
<1>5. Pooled(q) = Pooled(p) \cup S
  <2>1. \A x : x \in Pooled(q) => x \in Pooled(p) \cup S
    BY <1>3 DEF Pooled
  <2>2. \A i \in 1..Len(q) : q[i] \subseteq Pooled(q)
    BY DEF Pooled
  <2>3. S \subseteq Pooled(q)
    BY <1>1, <2>2
  <2>4. \A x \in Pooled(p) : \E i \in 1..Len(p) : x \in p[i]
    BY DEF Pooled
  <2>5. \A x \in Pooled(p) : x \in Pooled(q)
    BY <1>1, <2>2, <2>4
  <2> QED BY <2>1, <2>3, <2>5
<1> QED BY <1>1, <1>4, <1>5 DEF q

LEMMA PooledTail ==
    ASSUME NEW T, NEW p \in Seq(SUBSET T), p # <<>>, Apart(p)
    PROVE  /\ Head(p) \in SUBSET T /\ Head(p) \subseteq Pooled(p)
           /\ Tail(p) \in Seq(SUBSET T) /\ Apart(Tail(p))
           /\ Len(Tail(p)) = Len(p) - 1
           /\ Pooled(Tail(p)) = Pooled(p) \ Head(p)
           /\ \A i \in 1..(Len(p) - 1) : Tail(p)[i] = p[i + 1]
<1> DEFINE q == Tail(p)
<1>1. /\ q \in Seq(SUBSET T)
      /\ Len(q) = Len(p) - 1
      /\ Head(p) = p[1] /\ 1 \in 1..Len(p)
      /\ \A i \in 1..Len(q) : i + 1 \in 1..Len(p) /\ q[i] = p[i + 1]
  OBVIOUS
<1> HIDE DEF q
<1>2. Head(p) \in SUBSET T /\ Head(p) \subseteq Pooled(p)
  BY <1>1 DEF Pooled
<1>3. Pooled(q) = Pooled(p) \ Head(p)
  <2>1. \A x : x \in Pooled(q) => x \in Pooled(p) \ Head(p)
    <3>1. \A x \in Pooled(q) : \E i \in 1..Len(q) : x \in q[i]
      BY DEF Pooled
    <3>2. \A i \in 1..Len(p) : p[i] \subseteq Pooled(p)
      BY DEF Pooled
    <3>3. \A i \in 1..Len(q) : i + 1 # 1
      BY <1>1
    <3> QED BY <1>1, <3>1, <3>2, <3>3 DEF Apart
  <2>2. ASSUME NEW x \in Pooled(p), x \notin Head(p)
        PROVE  x \in Pooled(q)
    <3>1. PICK i \in 1..Len(p) : x \in p[i]
      BY DEF Pooled
    <3>2. i # 1
      BY <1>1, <2>2, <3>1
    <3>3. i - 1 \in 1..Len(q) /\ q[i - 1] = p[i]
      BY <1>1, <3>2
    <3> QED BY <3>1, <3>3 DEF Pooled
  <2> QED BY <2>1, <2>2
<1>4. Apart(q)
  BY <1>1 DEF Apart
<1> QED BY <1>1, <1>2, <1>3, <1>4 DEF q

=============================================================================
