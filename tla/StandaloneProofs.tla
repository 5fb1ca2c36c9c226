-------------------------- MODULE StandaloneProofs --------------------------
(***************************************************************************)
(* The two components that run by themselves, the pressure controller and  *)
(* the simulator.                                                          *)
(*                                                                         *)
(* Controller: for every range of budgets, every smoothing factor and      *)
(* every pressure, budgets stay in their ranges, tighten with the pressure *)
(* and approach what it asks for.  A budget is twice the rounded quotient  *)
(* of a weighted sum: of the two ends of its range, with the pressure as   *)
(* the weight, and of its last value and the raw one, with the smoothing   *)
(* factor as the weight.  What the proof needs of the rounding is that it  *)
(* is monotone (RoundMonotone), stays within integer bounds of what it     *)
(* rounds (RoundBounds) and moves by at most a half (RoundLeaves).  The    *)
(* range is then inductive: both arguments of the smoothing lie in it.  By *)
(* the same facts a budget with a narrow range never moves (SmoothFrozen). *)
(*                                                                         *)
(* Simulator: for every cluster, a later stage of a pipeline runs the very *)
(* chunk that the first stage has put together.  It finds the end of the   *)
(* chunk by comparing ids and by counting up to the batch size, so the     *)
(* invariant is about queues: what waits before a later stage is one whole *)
(* chunk after the other, none longer than a batch (QueuesAreChunks), and  *)
(* no request is in two places (OnePlace), so that no chunk can change     *)
(* under way.  A second invariant (TokenInv) adds up the portions of a     *)
(* chunk, which the later stages only compare; a third (RingInv) says      *)
(* where every request is, the decodes included, with a witness that maps  *)
(* it to its place (Placed), and what its counter is there (CountsFit).    *)
(* From these: no request is lost or run twice, no wakeup is lost, what    *)
(* leaves was simulated in full, and no iteration exceeds a token budget.  *)
(***************************************************************************)
EXTENDS PressureBudget, Simulator, CommonLemmas

-----------------------------------------------------------------------------
(* The controller: rounding *)

(* A quotient between two integers is rounded to a number between them. *)
LEMMA RoundBounds ==
    ASSUME NEW n \in Nat, NEW d \in Nat \ {0}, NEW low \in Nat, NEW high \in Nat,
           d * low <= n, n <= d * high
    PROVE  RoundHalfEven(n, d) \in low..high
<1> DEFINE q == n \div d
           r == n % d
<1>1. q \in Nat /\ r \in 0..(d - 1) /\ n = d * q + r
  BY DivMod
<1>2. RoundHalfEven(n, d) = IF 2 * r < d \/ (2 * r = d /\ q % 2 = 0) THEN q ELSE q + 1
  BY DEF RoundHalfEven
<1> HIDE DEF q, r
<1>3. d * q \in Nat /\ d * low \in Nat /\ d * high \in Nat
  BY <1>1
<1>4. low <= q
  <2> SUFFICES ASSUME q + 1 <= low PROVE FALSE
    BY <1>1
  <2>1. d * q + d <= d * low
    BY <1>1, TimesStep
  <2> QED BY <1>1, <1>3, <2>1
<1>5. q <= high
  <2> SUFFICES ASSUME high + 1 <= q PROVE FALSE
    BY <1>1
  <2>1. d * high + d <= d * q
    BY <1>1, TimesStep
  <2> QED BY <1>1, <1>3, <2>1
<1>6. q = high => 2 * r < d
  BY <1>1, <1>3
<1>7. CASE q = high
  BY <1>1, <1>2, <1>4, <1>6, <1>7
<1>8. CASE q # high
  <2>1. q + 1 <= high
    BY <1>1, <1>5, <1>8
  <2> QED BY <1>1, <1>2, <1>4, <2>1
<1> QED BY <1>7, <1>8

LEMMA RoundMonotone ==
    ASSUME NEW m \in Nat, NEW n \in Nat, NEW d \in Nat \ {0}, m <= n
    PROVE  /\ RoundHalfEven(m, d) \in Nat /\ RoundHalfEven(n, d) \in Nat
           /\ RoundHalfEven(m, d) <= RoundHalfEven(n, d)
<1> DEFINE p == m \div d
           q == n \div d
           s == m % d
           t == n % d
<1>1. p \in Nat /\ s \in 0..(d - 1) /\ m = d * p + s
  BY DivMod
<1>2. q \in Nat /\ t \in 0..(d - 1) /\ n = d * q + t
  BY DivMod
<1>3. /\ RoundHalfEven(m, d) = IF 2 * s < d \/ (2 * s = d /\ p % 2 = 0) THEN p ELSE p + 1
      /\ RoundHalfEven(n, d) = IF 2 * t < d \/ (2 * t = d /\ q % 2 = 0) THEN q ELSE q + 1
  BY DEF RoundHalfEven
<1> HIDE DEF p, q, s, t
<1>4. d * p \in Nat /\ d * q \in Nat
  BY <1>1, <1>2
<1>5. p <= q
  <2> SUFFICES ASSUME q + 1 <= p PROVE FALSE
    BY <1>1, <1>2
  <2>1. d * q + d <= d * p
    BY <1>1, <1>2, TimesStep
  <2> QED BY <1>1, <1>2, <1>4, <2>1
<1>6. CASE p = q
  <2>1. s <= t
    BY <1>1, <1>2, <1>4, <1>6
  <2> QED BY <1>1, <1>2, <1>3, <1>6, <2>1
<1>7. CASE p # q
  <2>1. p + 1 <= q
    BY <1>1, <1>2, <1>5, <1>7
  <2> QED BY <1>1, <1>2, <1>3, <2>1
<1> QED BY <1>6, <1>7

-----------------------------------------------------------------------------
LEMMA KnobRange ==
    ASSUME NEW k \in Knobs
    PROVE  MinBudget[k] \in Nat /\ MaxBudget[k] \in Nat /\ MinBudget[k] <= MaxBudget[k]
BY PressureBudgetAssumption

(* The weighted sum that a raw budget rounds lies between the ends. *)
LEMMA RawAtInRange ==
    ASSUME NEW k \in Knobs, NEW x \in 0..Unit
    PROVE  RawAt(k, x) \in MinBudget[k]..MaxBudget[k]
<1> DEFINE low == MinBudget[k]
           width == MaxBudget[k] - MinBudget[k]
           share == IF k = "margin" THEN x ELSE Unit - x
           n == low * Unit + share * width
<1>1. /\ low \in Nat /\ MaxBudget[k] \in Nat /\ width \in Nat
      /\ MaxBudget[k] = low + width
      /\ Unit \in Nat \ {0} /\ share \in Nat /\ share <= Unit
  BY KnobRange, PressureBudgetAssumption
<1>2. RawAt(k, x) = IF MaxBudget[k] = 0 THEN 0 ELSE RoundHalfEven(n, Unit)
  BY DEF RawAt
<1> HIDE DEF low, width, share
<1>3. /\ low * Unit \in Nat /\ share * width \in Nat
      /\ low * Unit = Unit * low
      /\ width * share <= width * Unit
      /\ share * width = width * share
  BY <1>1, TimesMonotone
<1>4. Unit * MaxBudget[k] = low * Unit + width * Unit
  BY <1>1
<1>5. n \in Nat /\ Unit * low <= n /\ n <= Unit * MaxBudget[k]
  BY <1>1, <1>3, <1>4
<1> HIDE DEF n
<1>6. RoundHalfEven(n, Unit) \in low..MaxBudget[k]
  BY <1>1, <1>5, RoundBounds
<1> QED BY <1>1, <1>2, <1>6 DEF low

(* So does the weighted sum that the smoothing rounds. *)
LEMMA SmoothInRange ==
    ASSUME NEW low \in Nat, NEW high \in Nat, NEW p \in low..high, NEW raw \in low..high
    PROVE  Smooth(p, raw) \in low..high
<1> DEFINE a == SmoothPercent
           b == 100 - SmoothPercent
<1>1. a \in Nat /\ b \in Nat /\ a + b = 100
  BY PressureBudgetAssumption
<1>2. Smooth(p, raw) = RoundHalfEven(a * p + b * raw, 100)
  BY DEF Smooth
<1> HIDE DEF a, b
<1>3. /\ a * low <= a * p /\ a * p <= a * high
      /\ b * low <= b * raw /\ b * raw <= b * high
  BY <1>1, TimesMonotone
<1>4. a * low + b * low = 100 * low /\ a * high + b * high = 100 * high
  BY <1>1
<1>5. a * p \in Nat /\ b * raw \in Nat /\ a * low \in Nat /\ b * low \in Nat
      /\ a * high \in Nat /\ b * high \in Nat
  BY <1>1
<1>6. a * p + b * raw \in Nat /\ 100 * low <= a * p + b * raw
      /\ a * p + b * raw <= 100 * high
  BY <1>3, <1>4, <1>5
<1> QED BY <1>2, <1>6, RoundBounds

-----------------------------------------------------------------------------
(* The rhos are pressures. *)
LEMMA AggregateOfTwo ==
    ASSUME NEW p \in [Sources -> 0..Unit], NEW i \in Sources, NEW j \in Sources,
           i # j
    PROVE  Aggregate(p, {i, j}) \in 0..Unit
<1>1. Unit \in Nat /\ p[i] \in 0..Unit /\ p[j] \in 0..Unit
  BY PressureBudgetAssumption
<1>2. CASE aggregation = "weighted"
  <2>1. Cardinality({i, j}) = 2
    <3>1. IsFiniteSet({i}) /\ Cardinality({i}) = 1
      BY FS_Singleton
    <3>2. Cardinality({i} \cup {j}) = Cardinality({i}) + 1
      BY <3>1, FS_AddElement
    <3>3. {i} \cup {j} = {i, j}
      OBVIOUS
    <3> QED BY <3>1, <3>2, <3>3
  <2>2. Total(p, {i, j}) = p[i] + p[j]
    BY DEF Total, Sources
  <2>3. (p[i] + p[j]) \div 2 \in 0..Unit
    BY <1>1
  <2> QED BY <1>2, <2>1, <2>2, <2>3 DEF Aggregate
<1>3. CASE aggregation # "weighted"
  <2> DEFINE keys == {i, j}
  <2>1. \E v \in {p[k] : k \in keys} : \A k \in keys : p[k] <= v
    <3>1. CASE p[i] <= p[j]
      BY <1>1, <3>1
    <3>2. CASE ~(p[i] <= p[j])
      BY <1>1, <3>2
    <3> QED BY <3>1, <3>2
  <2>2. {p[k] : k \in keys} \subseteq 0..Unit
    BY <1>1
  <2>3. Aggregate(p, keys)
          = CHOOSE v \in {p[k] : k \in keys} : \A k \in keys : p[k] <= v
    BY <1>3 DEF Aggregate
  <2> HIDE DEF keys
  <2>4. Aggregate(p, keys) \in 0..Unit
    BY <2>1, <2>2, <2>3
  <2> QED BY <2>4 DEF keys
<1> QED BY <1>2, <1>3

LEMMA RhoIsPressure ==
    ASSUME NEW p \in [Sources -> 0..Unit], NEW k \in Knobs
    PROVE  Rho(p, k) \in 0..Unit
<1>1. /\ Aggregate(p, {"bridge", "decode"}) \in 0..Unit
      /\ Aggregate(p, {"kv", "swap"}) \in 0..Unit
  BY AggregateOfTwo DEF Sources
<1>2. p["swap"] \in 0..Unit
  BY DEF Sources
<1> QED BY <1>1, <1>2 DEF Rho, Knobs

-----------------------------------------------------------------------------
Inv == TypeOK /\ BudgetsInRange

LEMMA InitInv == Init => Inv
<1> SUFFICES ASSUME Init PROVE Inv
  OBVIOUS
<1>1. ~updated
  BY DEF Init
<1>2. budget \in [Knobs -> Nat] /\ pressure \in [Sources -> 0..Unit]
  BY PressureBudgetAssumption DEF Init
<1>3. /\ aggregation \in {"max", "weighted"} /\ dynamic \in BOOLEAN
      /\ updated \in BOOLEAN /\ mode \in {"OPEN", "BACKPRESSURE", "STATIC"}
  BY DEF Init
<1> QED BY <1>1, <1>2, <1>3 DEF Inv, TypeOK, BudgetsInRange

LEMMA UpdateInv == Inv /\ Update => Inv'
<1> SUFFICES ASSUME Inv, Update PROVE Inv'
  OBVIOUS
<1>1. PICK p \in [Sources -> Pressures] :
          /\ pressure' = p
          /\ mode' = NextMode(p)
          /\ budget' = [k \in Knobs |-> NextBudget(k, Raw(p, k))]
  BY DEF Update
<1>2. p \in [Sources -> 0..Unit]
  BY PressureBudgetAssumption
<1>3. ASSUME NEW k \in Knobs
      PROVE  NextBudget(k, Raw(p, k)) \in MinBudget[k]..MaxBudget[k]
  <2>1. Raw(p, k) \in MinBudget[k]..MaxBudget[k]
    BY <1>2, RhoIsPressure, RawAtInRange DEF Raw
  <2>2. CASE updated
    <3>1. budget[k] \in MinBudget[k]..MaxBudget[k]
      BY <2>2 DEF Inv, BudgetsInRange
    <3> QED BY <2>1, <2>2, <3>1, KnobRange, SmoothInRange DEF NextBudget
  <2>3. CASE ~updated
    BY <2>1, <2>3 DEF NextBudget
  <2> QED BY <2>2, <2>3
<1>4. \A k \in Knobs : budget'[k] \in MinBudget[k]..MaxBudget[k]
  BY <1>1, <1>3
<1>5. budget' \in [Knobs -> Nat]
  <2>1. \A k \in Knobs : NextBudget(k, Raw(p, k)) \in Nat
    BY <1>3, KnobRange
  <2> QED BY <1>1, <2>1
<1>6. mode' \in {"OPEN", "BACKPRESSURE", "STATIC"}
  BY <1>1 DEF NextMode, Inv, TypeOK
<1> QED BY <1>1, <1>2, <1>4, <1>5, <1>6 DEF Inv, TypeOK, BudgetsInRange, Update

LEMMA StaticUpdateInv == Inv /\ StaticUpdate => Inv'
<1> SUFFICES ASSUME Inv, StaticUpdate PROVE Inv'
  OBVIOUS
<1>1. \A k \in Knobs : /\ StaticBudget(k) \in MinBudget[k]..MaxBudget[k]
                       /\ StaticBudget(k) \in Nat
  BY KnobRange DEF StaticBudget
<1>2. budget' = [k \in Knobs |-> StaticBudget(k)]
  BY DEF StaticUpdate
<1>3. pressure' \in [Sources -> 0..Unit]
  BY PressureBudgetAssumption DEF StaticUpdate
<1> QED BY <1>1, <1>2, <1>3 DEF Inv, TypeOK, BudgetsInRange, StaticUpdate

LEMMA InvAlways == Spec => []Inv
<1>1. Inv /\ [Next]_vars => Inv'
  <2> SUFFICES ASSUME Inv, [Next]_vars PROVE Inv'
    OBVIOUS
  <2>1. CASE Update
    BY <2>1, UpdateInv
  <2>2. CASE StaticUpdate
    BY <2>2, StaticUpdateInv
  <2>3. CASE UNCHANGED vars
    BY <2>3 DEF vars, Inv, TypeOK, BudgetsInRange
  <2> QED BY <2>1, <2>2, <2>3 DEF Next
<1> QED BY InitInv, <1>1, PTL DEF Spec

(* The controller's variables keep their types. *)
THEOREM TypeCorrect == Spec => []TypeOK
<1>1. Inv => TypeOK
  BY DEF Inv
<1> QED BY <1>1, InvAlways, PTL

(* No sequence of updates takes a budget out of its range. *)
THEOREM RangeCorrect == Spec => []BudgetsInRange
<1>1. Inv => BudgetsInRange
  BY DEF Inv
<1> QED BY <1>1, InvAlways, PTL

-----------------------------------------------------------------------------
LEMMA RawAtTightens ==
    ASSUME NEW k \in Knobs, NEW x \in 1..Unit
    PROVE  Tighter(k, RawAt(k, x), RawAt(k, x - 1))
<1> DEFINE low == MinBudget[k]
           width == MaxBudget[k] - MinBudget[k]
<1>1. low \in Nat /\ width \in Nat /\ Unit \in Nat \ {0} /\ x \in Nat
  BY KnobRange, PressureBudgetAssumption
<1> DEFINE at(s) == RoundHalfEven(low * Unit + s * width, Unit)
<1>2. ASSUME NEW s \in Nat, NEW t \in Nat, s <= t
      PROVE  at(s) <= at(t)
  <2> HIDE DEF low, width
  <2>1. /\ low * Unit \in Nat /\ s * width \in Nat /\ t * width \in Nat
        /\ s * width <= t * width
    <3>1. width * s <= width * t
      BY <1>1, <1>2, TimesMonotone
    <3> QED BY <1>1, <3>1
  <2>2. /\ low * Unit + s * width \in Nat /\ low * Unit + t * width \in Nat
        /\ low * Unit + s * width <= low * Unit + t * width
    BY <2>1
  <2> QED BY <1>1, <2>2, RoundMonotone
<1>3. CASE MaxBudget[k] = 0
  BY <1>3 DEF RawAt, Tighter
<1>4. CASE MaxBudget[k] # 0 /\ k = "margin"
  <2>1. RawAt(k, x) = at(x) /\ RawAt(k, x - 1) = at(x - 1)
    BY <1>4 DEF RawAt
  <2>2. at(x - 1) <= at(x)
    BY <1>1, <1>2
  <2>3. RawAt(k, x) \in Nat /\ RawAt(k, x - 1) \in Nat
    BY <1>1, KnobRange, RawAtInRange
  <2> QED BY <1>4, <2>1, <2>2, <2>3 DEF Tighter
<1>5. CASE MaxBudget[k] # 0 /\ k # "margin"
  <2>1. RawAt(k, x) = at(Unit - x) /\ RawAt(k, x - 1) = at(Unit - (x - 1))
    BY <1>5 DEF RawAt
  <2>2. at(Unit - x) <= at(Unit - (x - 1))
    BY <1>1, <1>2
  <2> QED BY <1>5, <2>1, <2>2 DEF Tighter
<1> QED BY <1>3, <1>4, <1>5

LEMMA SmoothMonotone ==
    ASSUME NEW p \in Nat, NEW u \in Nat, NEW v \in Nat, u <= v
    PROVE  Smooth(p, u) \in Int /\ Smooth(p, v) \in Int /\ Smooth(p, u) <= Smooth(p, v)
<1> DEFINE a == SmoothPercent
           b == 100 - SmoothPercent
<1>1. a \in Nat /\ b \in Nat
  BY PressureBudgetAssumption
<1> HIDE DEF a, b
<1>2. b * u <= b * v /\ a * p \in Nat /\ b * u \in Nat /\ b * v \in Nat
  BY <1>1, TimesMonotone
<1>3. /\ a * p + b * u \in Nat /\ a * p + b * v \in Nat
      /\ a * p + b * u <= a * p + b * v
  BY <1>2
<1>4. /\ RoundHalfEven(a * p + b * u, 100) \in Nat
      /\ RoundHalfEven(a * p + b * v, 100) \in Nat
      /\ RoundHalfEven(a * p + b * u, 100) <= RoundHalfEven(a * p + b * v, 100)
  BY <1>3, RoundMonotone
<1> QED BY <1>4 DEF Smooth, a, b

(* Whatever the last budgets were, a higher pressure never leads to a      *)
(* looser budget.                                                          *)
THEOREM TighteningCorrect == Spec => []PressureTightens
<1>1. Inv => PressureTightens
  <2> SUFFICES ASSUME Inv, NEW k \in Knobs, NEW x \in 1..Unit
               PROVE  Tighter(k, NextBudget(k, RawAt(k, x)),
                                 NextBudget(k, RawAt(k, x - 1)))
    BY DEF PressureTightens
  <2> DEFINE u == RawAt(k, x)
             v == RawAt(k, x - 1)
  <2>1. x \in 0..Unit /\ x - 1 \in 0..Unit
    BY PressureBudgetAssumption
  <2>2. u \in Nat /\ v \in Nat
    BY <2>1, RawAtInRange, KnobRange
  <2>3. Tighter(k, u, v)
    BY RawAtTightens
  <2>4. budget[k] \in Nat
    BY DEF Inv, TypeOK
  <2> HIDE DEF u, v
  <2>5. ASSUME updated
        PROVE  Tighter(k, NextBudget(k, u), NextBudget(k, v))
    <3>1. NextBudget(k, u) = Smooth(budget[k], u) /\ NextBudget(k, v) = Smooth(budget[k], v)
      BY <2>5 DEF NextBudget
    <3>2. CASE k = "margin"
      <4>1. v <= u
        BY <2>2, <2>3, <3>2 DEF Tighter
      <4>2. /\ Smooth(budget[k], u) \in Int /\ Smooth(budget[k], v) \in Int
            /\ Smooth(budget[k], v) <= Smooth(budget[k], u)
        BY <2>2, <2>4, <4>1, SmoothMonotone
      <4> QED BY <3>1, <3>2, <4>2 DEF Tighter
    <3>3. CASE k # "margin"
      <4>1. u <= v
        BY <2>2, <2>3, <3>3 DEF Tighter
      <4>2. /\ Smooth(budget[k], u) \in Int /\ Smooth(budget[k], v) \in Int
            /\ Smooth(budget[k], u) <= Smooth(budget[k], v)
        BY <2>2, <2>4, <4>1, SmoothMonotone
      <4> QED BY <3>1, <3>3, <4>2 DEF Tighter
    <3> QED BY <3>2, <3>3
  <2>6. ASSUME ~updated
        PROVE  Tighter(k, NextBudget(k, u), NextBudget(k, v))
    <3>1. NextBudget(k, u) = u /\ NextBudget(k, v) = v
      BY <2>6 DEF NextBudget
    <3> QED BY <2>3, <3>1
  <2>7. Tighter(k, NextBudget(k, u), NextBudget(k, v))
    BY <2>5, <2>6
  <2> QED BY <2>7 DEF u, v
<1> QED BY <1>1, InvAlways, PTL

-----------------------------------------------------------------------------
(* What lies more than half a step off an integer is not rounded to it. *)
LEMMA RoundLeaves ==
    ASSUME NEW n \in Nat, NEW d \in Nat \ {0}, NEW m \in Nat
    PROVE  /\ RoundHalfEven(n, d) = m => 2 * n <= 2 * (d * m) + d
           /\ RoundHalfEven(n, d) = m => 2 * (d * m) <= 2 * n + d
<1> DEFINE q == n \div d
           r == n % d
<1>1. q \in Nat /\ r \in 0..(d - 1) /\ n = d * q + r
  BY DivMod
<1>2. RoundHalfEven(n, d) = IF 2 * r < d \/ (2 * r = d /\ q % 2 = 0) THEN q ELSE q + 1
  BY DEF RoundHalfEven
<1> HIDE DEF q, r
<1>3. d * q \in Nat /\ d * (q + 1) = d * q + d
  BY <1>1
<1>4. CASE RoundHalfEven(n, d) = q /\ 2 * r <= d
  BY <1>1, <1>3, <1>4
<1>5. CASE RoundHalfEven(n, d) = q + 1 /\ 2 * r >= d
  BY <1>1, <1>3, <1>5
<1> QED BY <1>1, <1>2, <1>4, <1>5

(* Beyond the dead zone, the smoothing moves a budget by more than half. *)
LEMMA DeadZoneWide ==
    ASSUME SmoothPercent # 100, NEW distance \in Nat, distance > DeadZone
    PROVE  (100 - SmoothPercent) * distance > 50
<1> DEFINE c == 100 - SmoothPercent
           q == 50 \div c
           r == 50 % c
<1>1. c \in Nat \ {0}
  BY PressureBudgetAssumption
<1>2. q \in Nat /\ r \in 0..(c - 1) /\ 50 = c * q + r
  BY <1>1, DivMod
<1>3. distance > q
  BY DEF DeadZone
<1> HIDE DEF c, q, r
<1>4. c * (q + 1) <= c * distance
  BY <1>1, <1>2, <1>3, TimesMonotone
<1>5. c * (q + 1) = c * q + c /\ c * q \in Nat /\ c * distance \in Nat
  BY <1>1, <1>2
<1>6. c * distance > 50
  BY <1>1, <1>2, <1>4, <1>5
<1> QED BY <1>6 DEF c

(* The smoothed budget lies between the last one and the raw one, and is   *)
(* not the last one beyond the dead zone.                                  *)
LEMMA SmoothApproaches ==
    ASSUME NEW p \in Nat, NEW raw \in Nat, SmoothPercent # 100
    PROVE  /\ Distance(Smooth(p, raw), raw) <= Distance(p, raw)
           /\ Distance(p, raw) > DeadZone
                => Distance(Smooth(p, raw), raw) < Distance(p, raw)
<1> DEFINE a == SmoothPercent
           c == 100 - SmoothPercent
           new == Smooth(p, raw)
           n == a * p + c * raw
<1>1. a \in Nat /\ c \in Nat /\ a + c = 100
  BY PressureBudgetAssumption
<1>2. new = RoundHalfEven(n, 100)
  BY DEF Smooth
<1>3. p <= raw => new \in p..raw
  BY SmoothInRange
<1>4. raw <= p => new \in raw..p
  BY SmoothInRange
<1>5. ASSUME NEW e \in Nat, e > DeadZone
      PROVE  c * e > 50
  BY <1>5, DeadZoneWide
<1> SUFFICES /\ Distance(new, raw) <= Distance(p, raw)
             /\ Distance(p, raw) > DeadZone => Distance(new, raw) < Distance(p, raw)
  OBVIOUS
<1> HIDE DEF a, c, new
<1>6. n \in Nat
  <2>1. a * p \in Nat /\ c * raw \in Nat
    BY <1>1
  <2> QED BY <2>1
<1>7. /\ new = p => 2 * n <= 2 * (100 * p) + 100
      /\ new = p => 2 * (100 * p) <= 2 * n + 100
  BY <1>2, <1>6, RoundLeaves
<1>8. CASE p <= raw
  <2>1. PICK e \in Nat : raw = p + e
    <3>1. raw - p \in Nat /\ raw = p + (raw - p)
      BY <1>8
    <3> QED BY <3>1
  <2>2. n = 100 * p + c * e
    BY <1>1, <2>1
  <2>3. Distance(p, raw) = e
    BY <2>1 DEF Distance
  <2>4. e > DeadZone => new # p
    <3> SUFFICES ASSUME e > DeadZone, new = p PROVE FALSE
      OBVIOUS
    <3>1. c * e > 50 /\ c * e \in Int
      BY <1>1, <1>5, <2>1
    <3> QED BY <1>7, <2>2, <3>1
  <2> QED BY <1>3, <1>8, <2>1, <2>3, <2>4 DEF Distance
<1>9. CASE raw <= p
  <2>1. PICK e \in Nat : p = raw + e
    <3>1. p - raw \in Nat /\ p = raw + (p - raw)
      BY <1>9
    <3> QED BY <3>1
  <2>2. n = 100 * p - c * e /\ c * e \in Int
    BY <1>1, <2>1
  <2>3. Distance(p, raw) = e
    BY <2>1 DEF Distance
  <2>4. e > DeadZone => new # p
    <3> SUFFICES ASSUME e > DeadZone, new = p PROVE FALSE
      OBVIOUS
    <3>1. c * e > 50
      BY <1>5
    <3> QED BY <1>7, <2>2, <3>1
  <2> QED BY <1>4, <1>9, <2>1, <2>3, <2>4 DEF Distance
<1> QED BY <1>8, <1>9

(* For every smoothing factor but 1.0, with which a budget never moves, an *)
(* update brings each budget closer to its raw value, until it is within   *)
(* the dead zone of the rounding.                                          *)
THEOREM ApproachCorrect == SmoothPercent # 100 => (Spec => BudgetApproachesRaw)
<1> SUFFICES ASSUME SmoothPercent # 100 PROVE Spec => BudgetApproachesRaw
  OBVIOUS
<1>1. Inv /\ [Next]_vars => [Approaches]_vars
  <2> SUFFICES ASSUME Inv, Next PROVE Approaches
    OBVIOUS
  <2> SUFFICES ASSUME dynamic, updated, NEW k \in Knobs
               PROVE  LET before == Distance(budget[k], Raw(pressure', k))
                          after  == Distance(budget'[k], Raw(pressure', k))
                      IN  after <= before /\ (before > DeadZone => after < before)
    BY DEF Approaches
  <2>1. Update
    BY DEF Next, StaticUpdate
  <2>2. PICK p \in [Sources -> Pressures] :
            /\ pressure' = p
            /\ budget' = [j \in Knobs |-> NextBudget(j, Raw(p, j))]
    BY <2>1 DEF Update
  <2>3. Raw(p, k) \in Nat
    <3>1. p \in [Sources -> 0..Unit]
      BY PressureBudgetAssumption
    <3> QED BY <3>1, KnobRange, RhoIsPressure, RawAtInRange DEF Raw
  <2>4. budget[k] \in Nat
    BY DEF Inv, TypeOK
  <2>5. budget'[k] = Smooth(budget[k], Raw(p, k))
    BY <2>2 DEF NextBudget
  <2> QED BY <2>2, <2>3, <2>4, <2>5, SmoothApproaches
<1> QED BY <1>1, InvAlways, PTL DEF Spec, BudgetApproachesRaw

(* A range so narrow that its whole width, weighted by what the smoothing  *)
(* lets through, is less than half a unit: with the default factor 0.8 a   *)
(* range of one or two, such as the one of the swap-ins.                   *)
Narrow(k) == 2 * ((100 - SmoothPercent) * (MaxBudget[k] - MinBudget[k])) < 100
NarrowBudgetFrozen ==
    (dynamic /\ updated) => \A k \in Knobs : Narrow(k) => budget'[k] = budget[k]

(* Within half a unit of an integer, the rounding ends there. *)
LEMMA RoundStays ==
    ASSUME NEW n \in Nat, NEW m \in Nat,
           2 * (100 * m) < 2 * n + 100, 2 * n < 2 * (100 * m) + 100
    PROVE  RoundHalfEven(n, 100) = m
<1>1. RoundHalfEven(n, 100) \in m..(m + 1) \/ RoundHalfEven(n, 100) \in (m - 1)..m
  BY DEF RoundHalfEven
<1>2. RoundHalfEven(n, 100) \in Nat
  BY DEF RoundHalfEven
<1>3. RoundHalfEven(n, 100) = m + 1 => 2 * (100 * (m + 1)) <= 2 * n + 100
  BY <1>2, RoundLeaves
<1>4. RoundHalfEven(n, 100) = m - 1 => 2 * n <= 2 * (100 * (m - 1)) + 100
  BY <1>2, RoundLeaves
<1> QED BY <1>1, <1>2, <1>3, <1>4

(* Two values of a narrow range are smoothed to the first of them.         *)
LEMMA SmoothFrozen ==
    ASSUME NEW k \in Knobs, Narrow(k),
           NEW p \in MinBudget[k]..MaxBudget[k], NEW raw \in MinBudget[k]..MaxBudget[k]
    PROVE  Smooth(p, raw) = p
<1> DEFINE a == SmoothPercent
           b == 100 - SmoothPercent
           width == MaxBudget[k] - MinBudget[k]
           n == a * p + b * raw
<1>1. /\ a \in Nat /\ b \in Nat /\ a + b = 100
      /\ width \in Nat /\ p \in Nat /\ raw \in Nat
      /\ p - raw <= width /\ raw - p <= width
  BY KnobRange, PressureBudgetAssumption
<1>2. 2 * (b * width) < 100
  BY DEF Narrow
<1>3. Smooth(p, raw) = RoundHalfEven(n, 100)
  BY DEF Smooth
<1> HIDE DEF a, b, width
<1>4. b * (p - raw) <= b * width /\ b * (raw - p) <= b * width
  BY <1>1, TimesMonotone
<1>5. /\ b * (p - raw) = b * p - b * raw /\ b * (raw - p) = b * raw - b * p
      /\ a * p + b * p = 100 * p
      /\ a * p \in Nat /\ b * p \in Nat /\ b * raw \in Nat /\ b * width \in Nat
  BY <1>1
<1>6. n \in Nat /\ 100 * p - n <= b * width /\ n - 100 * p <= b * width
  BY <1>4, <1>5
<1> HIDE DEF n
<1>7. 2 * (100 * p) < 2 * n + 100 /\ 2 * n < 2 * (100 * p) + 100
  BY <1>1, <1>2, <1>5, <1>6
<1> QED BY <1>1, <1>3, <1>6, <1>7, RoundStays

(* A budget of a narrow range stays for ever what the first update has     *)
(* made of it, whatever pressures follow: the run pbc_swap_budget shows    *)
(* this of the default range.                                              *)
THEOREM NarrowNeverMoves == Spec => [][NarrowBudgetFrozen]_vars
<1>1. Inv /\ [Next]_vars => [NarrowBudgetFrozen]_vars
  <2> SUFFICES ASSUME Inv, Next, dynamic, updated, NEW k \in Knobs, Narrow(k)
               PROVE  budget'[k] = budget[k]
    BY DEF NarrowBudgetFrozen
  <2>1. Update
    BY DEF Next, StaticUpdate
  <2>2. PICK p \in [Sources -> Pressures] :
            budget' = [j \in Knobs |-> NextBudget(j, Raw(p, j))]
    BY <2>1 DEF Update
  <2>3. Raw(p, k) \in MinBudget[k]..MaxBudget[k]
    <3>1. p \in [Sources -> 0..Unit]
      BY PressureBudgetAssumption
    <3> QED BY <3>1, RhoIsPressure, RawAtInRange DEF Raw
  <2>4. budget[k] \in MinBudget[k]..MaxBudget[k]
    BY DEF Inv, BudgetsInRange
  <2>5. budget'[k] = Smooth(budget[k], Raw(p, k))
    BY <2>2 DEF NextBudget
  <2> QED BY <2>3, <2>4, <2>5, SmoothFrozen
<1> QED BY <1>1, InvAlways, PTL DEF Spec

-----------------------------------------------------------------------------
(* The simulator *)

(* From a to b, a queue holds one whole chunk, no longer than a batch may  *)
(* be; f says to which chunk a request belongs.                            *)
IsStretch(f, q, a, b) ==
    /\ b - a < PrefillMaxBatch
    /\ \A j \in a..b : f[q[j]] = {q[i] : i \in a..b}
InStretch(f, q, i) == \E a \in 1..i : \E b \in i..Len(q) : IsStretch(f, q, a, b)
InChunks(f, q) == \A i \in 1..Len(q) : InStretch(f, q, i)

Chunk == [r \in Requests |-> req[r].chunk]
Batch(w) == running[w].prefill

SimType ==
    /\ cluster \in Clusters
    /\ arrived \subseteq Requests
    /\ DOMAIN req = Requests /\ \A r \in Requests : "chunk" \in DOMAIN req[r]
    /\ prefillQ \in [Workers -> Seq(Requests)]
    /\ DOMAIN running = Workers /\ \A w \in Workers : Batch(w) \in Seq(Requests)

(* A request waits for its prefill or is prefilled in at most one place.   *)
OnePlace ==
    /\ \A w \in Workers : Distinct(prefillQ[w]) /\ Distinct(Batch(w))
    /\ \A w \in Workers : Members(prefillQ[w]) \cup Members(Batch(w)) \subseteq arrived
    /\ \A w, x \in Workers : Members(prefillQ[w]) \cap Members(Batch(x)) = {}
    /\ \A w, x \in Workers : w # x =>
         /\ Members(prefillQ[w]) \cap Members(prefillQ[x]) = {}
         /\ Members(Batch(w)) \cap Members(Batch(x)) = {}

(* What a worker prefills is one chunk. *)
BatchesAreChunks ==
    \A w \in Workers :
        /\ Len(Batch(w)) <= PrefillMaxBatch
        /\ \A r \in Members(Batch(w)) : Chunk[r] = Members(Batch(w))

(* What waits before the later stages is one chunk after the other.        *)
QueuesAreChunks ==
    \A w \in Workers : ~IsFirst(w) => InChunks(Chunk, prefillQ[w])

ChunkInv == SimType /\ OnePlace /\ BatchesAreChunks /\ QueuesAreChunks

-----------------------------------------------------------------------------
(* Chunks in a queue *)
LEMMA SameChunks ==
    ASSUME NEW S, NEW q \in Seq(S), NEW f, NEW g, InChunks(f, q),
           \A r \in Members(q) : g[r] = f[r]
    PROVE  InChunks(g, q)
<1> SUFFICES ASSUME NEW i \in 1..Len(q) PROVE InStretch(g, q, i)
  BY DEF InChunks
<1>1. PICK a \in 1..i : \E b \in i..Len(q) : IsStretch(f, q, a, b)
  BY DEF InChunks, InStretch
<1>2. PICK b \in i..Len(q) : IsStretch(f, q, a, b)
  BY <1>1
<1>3. \A j \in a..b : g[q[j]] = f[q[j]]
  BY DEF Members
<1>4. IsStretch(g, q, a, b)
  BY <1>2, <1>3 DEF IsStretch
<1> QED BY <1>4 DEF InStretch

(* Whole chunks stay whole when another one is queued. *)
LEMMA ChunkAppended ==
    ASSUME NEW S, NEW q \in Seq(S), NEW s \in Seq(S), NEW f, InChunks(f, q),
           PrefillMaxBatch \in Nat, Len(s) <= PrefillMaxBatch,
           \A r \in Members(s) : f[r] = Members(s)
    PROVE  InChunks(f, q \o s)
<1> DEFINE t == q \o s
           m == Len(q)
           n == Len(s)
<1>1. /\ t \in Seq(S) /\ m \in Nat /\ n \in Nat /\ Len(t) = m + n
      /\ \A i \in 1..m : t[i] = q[i]
      /\ \A i \in 1..n : t[m + i] = s[i]
  OBVIOUS
<1>2. Members(s) = {s[i] : i \in 1..n}
  BY DEF Members
<1> HIDE DEF t, m, n
<1> SUFFICES ASSUME NEW i \in 1..Len(t) PROVE InStretch(f, t, i)
  BY DEF InChunks, t
<1>3. CASE i \in 1..m
  <2>1. PICK a \in 1..i : \E b \in i..m : IsStretch(f, q, a, b)
    BY <1>3 DEF InChunks, InStretch, m
  <2>2. PICK b \in i..m : IsStretch(f, q, a, b)
    BY <2>1
  <2>3. \A j \in a..b : t[j] = q[j]
    BY <1>1, <1>3
  <2>4. {t[j] : j \in a..b} = {q[j] : j \in a..b}
    BY <2>3
  <2>5. IsStretch(f, t, a, b)
    BY <2>2, <2>3, <2>4 DEF IsStretch
  <2>6. b \in i..Len(t)
    BY <1>1, <1>3
  <2> QED BY <2>5, <2>6 DEF InStretch
<1>4. CASE i \notin 1..m
  <2>1. \A j \in (m + 1)..(m + n) : j - m \in 1..n /\ t[j] = s[j - m]
    <3> SUFFICES ASSUME NEW j \in (m + 1)..(m + n)
                 PROVE  j - m \in 1..n /\ t[j] = s[j - m]
      OBVIOUS
    <3>1. j - m \in 1..n /\ m + (j - m) = j
      BY <1>1
    <3> QED BY <1>1, <3>1
  <2>2. {t[j] : j \in (m + 1)..(m + n)} = Members(s)
    <3>1. ASSUME NEW k \in 1..n
          PROVE  \E j \in (m + 1)..(m + n) : t[j] = s[k]
      <4>1. m + k \in (m + 1)..(m + n)
        BY <1>1
      <4> QED BY <1>1, <4>1
    <3> QED BY <1>2, <2>1, <3>1
  <2>3. \A j \in (m + 1)..(m + n) : t[j] \in Members(s)
    BY <2>2
  <2>4. (m + n) - (m + 1) < PrefillMaxBatch
    BY <1>1 DEF n
  <2>5. IsStretch(f, t, m + 1, m + n)
    BY <2>2, <2>3, <2>4 DEF IsStretch
  <2>6. m + 1 \in 1..i /\ m + n \in i..Len(t)
    BY <1>1, <1>4
  <2> QED BY <2>5, <2>6 DEF InStretch
<1> QED BY <1>3, <1>4

(* The chunk at the head of a queue can be told by the chunk it belongs to *)
(* alone, and behind it whole chunks remain.                               *)
LEMMA HeadChunk ==
    ASSUME NEW S, NEW q \in Seq(S), q # <<>>, Distinct(q), NEW f, InChunks(f, q),
           PrefillMaxBatch \in Nat
    PROVE  \E b \in 1..Len(q) :
             /\ b <= PrefillMaxBatch
             /\ \A i \in 1..b : f[q[i]] = f[q[1]]
             /\ b < Len(q) => f[q[b + 1]] # f[q[1]]
             /\ f[q[1]] = {q[i] : i \in 1..b}
             /\ InChunks(f, SubSeq(q, b + 1, Len(q)))
<1>1. Len(q) \in Nat /\ 1 \in 1..Len(q)
  BY EmptySeq
<1>2. PICK b \in 1..Len(q) : IsStretch(f, q, 1, b)
  <2>1. InStretch(f, q, 1)
    BY <1>1 DEF InChunks
  <2>2. PICK a \in 1..1 : \E b \in 1..Len(q) : IsStretch(f, q, a, b)
    BY <2>1 DEF InStretch
  <2> QED BY <2>2
<1> DEFINE c == {q[i] : i \in 1..b}
<1>3. b <= PrefillMaxBatch
  BY <1>1, <1>2 DEF IsStretch
<1>4. \A i \in 1..b : f[q[i]] = c
  BY <1>2 DEF IsStretch
<1>5. f[q[1]] = c
  <2>1. 1 \in 1..b
    BY <1>1
  <2> HIDE DEF c
  <2> QED BY <1>4, <2>1
<1>6. ASSUME NEW j \in 1..Len(q), q[j] \in c
      PROVE  j <= b
  <2>1. PICK i \in 1..b : q[i] = q[j]
    BY <1>6
  <2>2. i \in 1..Len(q)
    BY <1>1
  <2> QED BY <1>1, <2>1, <2>2 DEF Distinct
<1>7. ASSUME NEW i \in 1..Len(q), NEW a \in 1..i, NEW e \in i..Len(q),
             IsStretch(f, q, a, e), b < i
      PROVE  b < a
  <2> SUFFICES ASSUME a <= b PROVE FALSE
    BY <1>1
  <2>1. a \in 1..b /\ a \in a..e /\ i \in a..e
    BY <1>1
  <2>2. f[q[a]] = c /\ f[q[a]] = {q[j] : j \in a..e}
    BY <1>4, <1>7, <2>1 DEF IsStretch
  <2>3. q[i] \in c
    BY <2>1, <2>2
  <2> QED BY <1>1, <1>6, <1>7, <2>3
<1>8. ASSUME b < Len(q)
      PROVE  f[q[b + 1]] # f[q[1]]
  <2>1. b + 1 \in 1..Len(q)
    BY <1>1, <1>8
  <2>2. PICK a \in 1..(b + 1) : \E e \in (b + 1)..Len(q) : IsStretch(f, q, a, e)
    BY <2>1 DEF InChunks, InStretch
  <2>3. PICK e \in (b + 1)..Len(q) : IsStretch(f, q, a, e)
    BY <2>2
  <2>4. b + 1 \in a..e
    BY <1>1
  <2>5. q[b + 1] \in f[q[b + 1]]
    BY <2>3, <2>4 DEF IsStretch
  <2>6. q[b + 1] \notin c
    BY <1>1, <1>6, <2>1
  <2> QED BY <1>5, <2>5, <2>6
<1>9. InChunks(f, SubSeq(q, b + 1, Len(q)))
  <2> DEFINE t == SubSeq(q, b + 1, Len(q))
  <2>1. Len(t) = Len(q) - b /\ \A i \in 1..(Len(q) - b) : t[i] = q[b + i]
    BY <1>1
  <2> HIDE DEF t, c
  <2> SUFFICES ASSUME NEW i \in 1..Len(t) PROVE InStretch(f, t, i)
    BY DEF InChunks, t
  <2>2. b + i \in 1..Len(q) /\ b < b + i
    BY <1>1, <2>1
  <2>3. PICK a \in 1..(b + i) : \E e \in (b + i)..Len(q) : IsStretch(f, q, a, e)
    BY <2>2 DEF InChunks, InStretch
  <2>4. PICK e \in (b + i)..Len(q) : IsStretch(f, q, a, e)
    BY <2>3
  <2>5. b < a
    BY <1>7, <2>2, <2>4
  <2>6. a - b \in 1..i /\ e - b \in i..Len(t) /\ (e - b) - (a - b) = e - a
    BY <1>1, <2>1, <2>2, <2>5
  <2>7. \A j \in (a - b)..(e - b) : b + j \in a..e /\ t[j] = q[b + j]
    BY <1>1, <2>1, <2>2, <2>5, <2>6
  <2>8. \A j \in a..e : j - b \in (a - b)..(e - b) /\ t[j - b] = q[j]
    <3> SUFFICES ASSUME NEW j \in a..e
                 PROVE  j - b \in (a - b)..(e - b) /\ t[j - b] = q[j]
      OBVIOUS
    <3>1. j - b \in (a - b)..(e - b) /\ b + (j - b) = j
      BY <1>1, <2>2
    <3> QED BY <2>7, <3>1
  <2>9. {t[j] : j \in (a - b)..(e - b)} = {q[j] : j \in a..e}
    <3>1. ASSUME NEW j \in (a - b)..(e - b)
          PROVE  \E k \in a..e : t[j] = q[k]
      BY <2>7
    <3>2. ASSUME NEW j \in a..e
          PROVE  \E k \in (a - b)..(e - b) : q[j] = t[k]
      <4>1. j - b \in (a - b)..(e - b) /\ t[j - b] = q[j]
        BY <2>8
      <4> QED BY <4>1
    <3>3. {t[j] : j \in (a - b)..(e - b)} \subseteq {q[j] : j \in a..e}
      BY <3>1
    <3>4. {q[j] : j \in a..e} \subseteq {t[j] : j \in (a - b)..(e - b)}
      BY <3>2
    <3> QED BY <3>3, <3>4
  <2>10. IsStretch(f, t, a - b, e - b)
    BY <2>4, <2>6, <2>7, <2>9 DEF IsStretch
  <2> QED BY <2>6, <2>10 DEF InStretch
<1> QED BY <1>3, <1>4, <1>5, <1>8, <1>9

-----------------------------------------------------------------------------
(* The ring of workers *)
LEMMA MultipleRemainder ==
    ASSUME NEW q \in Nat, NEW d \in Nat \ {0}
    PROVE  (d * q) % d = 0
<1> DEFINE n == d * q
           p == n \div d
           r == n % d
<1>1. n \in Nat
  OBVIOUS
<1>2. p \in Nat /\ r \in 0..(d - 1) /\ n = d * p + r
  BY <1>1, DivMod
<1> HIDE DEF p, r
<1>3. d * p \in Nat /\ d * q = d * p + r
  BY <1>2
<1>4. CASE p + 1 <= q
  <2>1. d * p + d <= d * q
    BY <1>2, <1>4, TimesStep
  <2> QED BY <1>2, <1>3, <2>1
<1>5. CASE q + 1 <= p
  <2>1. d * q + d <= d * p
    BY <1>2, <1>5, TimesStep
  <2> QED BY <1>1, <1>2, <1>3, <2>1
<1>6. CASE p = q
  BY <1>1, <1>3, <1>6 DEF r
<1> QED BY <1>2, <1>4, <1>5, <1>6

LEMMA ClusterType ==
    ASSUME cluster \in Clusters
    PROVE  /\ cluster.ppPrefill \in Nat \ {0} /\ cluster.ppDecode \in Nat \ {0}
           /\ PrefillWorkers \in Nat \ {0} /\ Workers \subseteq Nat
           /\ 0..(PrefillWorkers - 1) \subseteq Workers
<1>1. /\ cluster.prefill \in Nat \ {0} /\ cluster.ppPrefill \in Nat \ {0}
      /\ cluster.decode \in Nat /\ cluster.ppDecode \in Nat \ {0}
  BY SimulatorAssumption
<1> DEFINE a == cluster.prefill
           b == cluster.ppPrefill
           c == cluster.decode * cluster.ppDecode
<1>2. a \in Nat \ {0} /\ b \in Nat \ {0} /\ c \in Nat
  BY <1>1
<1>3. Workers = 0..(PrefillWorkers + c - 1) /\ PrefillWorkers = a * b
  BY DEF Workers, PrefillWorkers
<1> HIDE DEF a, b, c
<1>4. a * b \in Nat \ {0}
  <2>1. b * 0 + b <= b * a
    BY <1>2, TimesStep
  <2> QED BY <1>2, <2>1
<1>5. 0..(PrefillWorkers - 1) \subseteq Workers /\ Workers \subseteq Nat
  BY <1>2, <1>3, <1>4
<1> QED BY <1>1, <1>3, <1>4, <1>5

(* The last worker of a ring is followed by its first one. *)
LEMMA RingCloses ==
    ASSUME cluster \in Clusters, NEW w \in Workers, IsLast(w)
    PROVE  IsFirst(NextWorker(w))
<1> DEFINE m == PrefillWorkers
           a == cluster.ppPrefill
           b == cluster.ppDecode
<1>1. a \in Nat \ {0} /\ b \in Nat \ {0} /\ m \in Nat /\ w \in Nat
  BY ClusterType
<1>2. NextWorker(w) = w - Rank(w)
  BY DEF NextWorker
<1>3. /\ Rank(w) = IF w < m THEN w % a ELSE (w - m) % b
      /\ Rank(w - Rank(w)) = IF w - Rank(w) < m THEN (w - Rank(w)) % a
                             ELSE ((w - Rank(w)) - m) % b
  BY DEF Rank
<1> HIDE DEF m, a, b
<1>4. CASE w < m
  <2> DEFINE q == w \div a
             r == w % a
  <2>1. q \in Nat /\ r \in 0..(a - 1) /\ w = a * q + r
    BY <1>1, DivMod
  <2>2. Rank(w) = r
    BY <1>3, <1>4
  <2> HIDE DEF q, r
  <2>3. w - r = a * q /\ w - r < m
    BY <1>1, <1>4, <2>1
  <2>4. (a * q) % a = 0
    BY <1>1, <2>1, MultipleRemainder
  <2> QED BY <1>2, <1>3, <2>2, <2>3, <2>4 DEF IsFirst
<1>5. CASE ~(w < m)
  <2> DEFINE u == w - m
             q == u \div b
             r == u % b
  <2>1. u \in Nat
    BY <1>1, <1>5
  <2>2. q \in Nat /\ r \in 0..(b - 1) /\ u = b * q + r
    BY <1>1, <2>1, DivMod
  <2>3. Rank(w) = r
    BY <1>3, <1>5
  <2> HIDE DEF q, r
  <2>4. (w - r) - m = b * q /\ b * q \in Nat /\ w - r \in Int
    BY <1>1, <2>2
  <2>5. ~(w - r < m)
    BY <1>1, <2>4
  <2>6. (b * q) % b = 0
    BY <1>1, <2>2, MultipleRemainder
  <2> QED BY <1>2, <1>3, <2>3, <2>4, <2>5, <2>6 DEF IsFirst
<1> QED BY <1>4, <1>5

(* The least loaded of some workers, and the first of several, is one of   *)
(* them.                                                                   *)
LEMMA BestOfHeads ==
    ASSUME NEW heads \in SUBSET Nat, heads # {}, NEW queues,
           \A x \in heads : Load(x, queues) \in Nat
    PROVE  Best(heads, queues) \in heads
<1> DEFINE load(x) == Load(x, queues)
           T == {load(x) : x \in heads}
<1>1. PICK x \in heads : \A y \in heads : load(x) <= load(y)
  <2>1. T \subseteq Nat /\ T # {}
    OBVIOUS
  <2>2. \E l \in T : \A k \in T : l <= k
    BY <2>1, LeastNatural
  <2> QED BY <2>2
<1> DEFINE U == {y \in heads : load(y) = load(x)}
<1>2. PICK u \in U : \A v \in U : u <= v
  <2>1. U \subseteq Nat /\ U # {}
    OBVIOUS
  <2> QED BY <2>1, LeastNatural
<1>3. \A y \in heads :
        \/ load(u) < load(y)
        \/ load(u) = load(y) /\ u <= y
  <2>1. \A y \in heads : load(y) \in Nat
    OBVIOUS
  <2> HIDE DEF load
  <2> QED BY <1>1, <1>2, <2>1
<1>4. u \in heads
  BY <1>2
<1> QED BY <1>3, <1>4 DEF Best

(* There is a first worker to send an arrival to. *)
LEMMA BestIsFirst ==
    ASSUME SimType
    PROVE  /\ IsFirst(Best(PrefillHeads, prefillQ))
           /\ Best(PrefillHeads, prefillQ) \in Workers
<1>1. PrefillHeads \subseteq Workers /\ Workers \subseteq Nat
  BY ClusterType DEF SimType, PrefillHeads
<1>2. 0 \in PrefillHeads
  <2>1. 0 \in 0..(PrefillWorkers - 1) /\ 0 < PrefillWorkers
    BY ClusterType DEF SimType
  <2>2. 0 % cluster.ppPrefill = 0
    <3>1. cluster.ppPrefill \in Nat \ {0}
      BY ClusterType DEF SimType
    <3>2. cluster.ppPrefill * 0 = 0
      BY <3>1
    <3> QED BY <3>1, <3>2, MultipleRemainder
  <2> QED BY <2>1, <2>2 DEF PrefillHeads, IsFirst, Rank
<1>3. \A x \in PrefillHeads : Load(x, prefillQ) \in Nat
  <2> SUFFICES ASSUME NEW x \in PrefillHeads PROVE Load(x, prefillQ) \in Nat
    OBVIOUS
  <2>1. prefillQ[x] \in Seq(Requests) /\ Batch(x) \in Seq(Requests)
    BY <1>1 DEF SimType
  <2>2. Len(prefillQ[x]) \in Nat /\ Len(Batch(x)) \in Nat
    BY <2>1
  <2>3. Load(x, prefillQ) = Len(prefillQ[x]) + Len(Batch(x))
    BY DEF Load, Batch
  <2> QED BY <2>2, <2>3
<1>4. Best(PrefillHeads, prefillQ) \in PrefillHeads
  BY <1>1, <1>2, <1>3, BestOfHeads
<1> QED BY <1>1, <1>4 DEF PrefillHeads

-----------------------------------------------------------------------------
(* Steps *)
LEMMA SimInitInv == SimInit => ChunkInv
<1> SUFFICES ASSUME SimInit PROVE ChunkInv
  OBVIOUS
<1>1. \A w \in Workers : prefillQ[w] = <<>> /\ Batch(w) = <<>>
  BY DEF SimInit, Batch
<1>2. SimType
  <2>1. DOMAIN req = Requests /\ \A r \in Requests : "chunk" \in DOMAIN req[r]
    BY DEF SimInit, NewRequest
  <2>2. cluster \in Clusters /\ arrived = {}
    BY DEF SimInit
  <2>3. prefillQ \in [Workers -> Seq(Requests)] /\ DOMAIN running = Workers
    BY DEF SimInit
  <2> QED BY <1>1, <2>1, <2>2, <2>3 DEF SimType
<1>3. \A w \in Workers : Members(prefillQ[w]) = {} /\ Members(Batch(w)) = {}
  BY <1>1 DEF Members
<1>4. \A w \in Workers : Distinct(prefillQ[w]) /\ Distinct(Batch(w))
  BY <1>1 DEF Distinct
<1>5. OnePlace
  BY <1>3, <1>4 DEF OnePlace
<1>6. BatchesAreChunks
  <2>1. \A w \in Workers : Len(Batch(w)) = 0
    BY <1>1
  <2> QED BY <1>3, <2>1, SimulatorAssumption DEF BatchesAreChunks
<1>7. QueuesAreChunks
  <2>1. InChunks(Chunk, <<>>)
    BY DEF InChunks
  <2> QED BY <1>1, <2>1 DEF QueuesAreChunks
<1> QED BY <1>2, <1>5, <1>6, <1>7 DEF ChunkInv

(* What a step that moves no prefills leaves alone. *)
LEMMA SamePrefills ==
    ASSUME ChunkInv, UNCHANGED <<cluster, arrived, req, prefillQ>>,
           DOMAIN running' = Workers,
           \A w \in Workers : Batch(w)' = Batch(w)
    PROVE  ChunkInv'
<1>1. Workers' = Workers /\ \A w : IsFirst(w)' = IsFirst(w)
  BY DEF Workers, PrefillWorkers, IsFirst, Rank
<1>2. Chunk' = Chunk
  BY DEF Chunk
<1>3. SimType'
  BY <1>1 DEF ChunkInv, SimType
<1>4. OnePlace'
  BY <1>1 DEF ChunkInv, OnePlace
<1>5. BatchesAreChunks' /\ QueuesAreChunks'
  BY <1>1, <1>2 DEF ChunkInv, BatchesAreChunks, QueuesAreChunks
<1> QED BY <1>3, <1>4, <1>5 DEF ChunkInv

LEMMA ArriveInv ==
    ASSUME ChunkInv, NEW r \in Requests, Arrive(r)
    PROVE  ChunkInv'
<1> DEFINE v == Best(PrefillHeads, prefillQ)
<1>1. /\ r \notin arrived /\ arrived' = arrived \cup {r}
      /\ prefillQ' = [prefillQ EXCEPT ![v] = Append(@, r)]
      /\ UNCHANGED <<cluster, req, running>>
  BY DEF Arrive
<1>2. IsFirst(v)
  BY BestIsFirst DEF ChunkInv
<1> HIDE DEF v
<1>3. Workers' = Workers /\ \A w : IsFirst(w)' = IsFirst(w) /\ Batch(w)' = Batch(w)
  BY <1>1 DEF Workers, PrefillWorkers, IsFirst, Rank, Batch
<1>4. Chunk' = Chunk
  BY <1>1 DEF Chunk
<1>5. ASSUME NEW w \in Workers
      PROVE  /\ w # v => prefillQ'[w] = prefillQ[w]
             /\ prefillQ'[w] \in Seq(Requests)
             /\ Distinct(prefillQ'[w])
             /\ Members(prefillQ'[w]) \subseteq Members(prefillQ[w]) \cup {r}
             /\ w # v => r \notin Members(prefillQ'[w])
  <2>1. /\ prefillQ[w] \in Seq(Requests) /\ Distinct(prefillQ[w])
        /\ r \notin Members(prefillQ[w])
    BY <1>1 DEF ChunkInv, SimType, OnePlace
  <2>2. CASE w = v
    <3>1. prefillQ'[w] = Append(prefillQ[w], r)
      BY <1>1, <2>2 DEF ChunkInv, SimType
    <3> QED BY <2>1, <2>2, <3>1, MembersOfAppend
  <2>3. CASE w # v
    <3>1. prefillQ'[w] = prefillQ[w]
      BY <1>1, <2>3 DEF ChunkInv, SimType
    <3> QED BY <2>1, <2>3, <3>1
  <2> QED BY <2>2, <2>3
<1>6. SimType'
  <2>1. prefillQ' \in [Workers -> Seq(Requests)]
    <3>1. DOMAIN prefillQ' = Workers
      BY <1>1 DEF ChunkInv, SimType
    <3> QED BY <1>1, <1>5, <3>1 DEF ChunkInv, SimType
  <2> QED BY <1>1, <1>3, <2>1 DEF ChunkInv, SimType
<1>7. \A w \in Workers : r \notin Members(Batch(w))
  BY <1>1 DEF ChunkInv, OnePlace
<1>8. OnePlace'
  <2>1. \A w \in Workers : Distinct(prefillQ'[w]) /\ Distinct(Batch(w)')
    BY <1>3, <1>5 DEF ChunkInv, OnePlace
  <2>2. \A w \in Workers : Members(prefillQ'[w]) \cup Members(Batch(w)') \subseteq arrived'
    BY <1>1, <1>3, <1>5 DEF ChunkInv, OnePlace
  <2>3. \A w, x \in Workers : Members(prefillQ'[w]) \cap Members(Batch(x)') = {}
    BY <1>3, <1>5, <1>7 DEF ChunkInv, OnePlace
  <2>4. ASSUME NEW w \in Workers, NEW x \in Workers, w # x
        PROVE  Members(prefillQ'[w]) \cap Members(prefillQ'[x]) = {}
    <3>1. /\ Members(prefillQ[w]) \cap Members(prefillQ[x]) = {}
          /\ r \notin Members(prefillQ[w]) /\ r \notin Members(prefillQ[x])
      BY <1>1, <2>4 DEF ChunkInv, OnePlace
    <3>2. r \notin Members(prefillQ'[w]) \/ r \notin Members(prefillQ'[x])
      BY <1>5, <2>4
    <3> QED BY <1>5, <3>1, <3>2
  <2>5. \A w, x \in Workers : w # x => Members(Batch(w)') \cap Members(Batch(x)') = {}
    BY <1>3 DEF ChunkInv, OnePlace
  <2> QED BY <1>3, <2>1, <2>2, <2>3, <2>4, <2>5 DEF OnePlace
<1>9. BatchesAreChunks' /\ QueuesAreChunks'
  BY <1>2, <1>3, <1>4, <1>5 DEF ChunkInv, BatchesAreChunks, QueuesAreChunks
<1> QED BY <1>6, <1>8, <1>9 DEF ChunkInv

(* What the start of an iteration does to the prefills: the first k leave  *)
(* the queue for the batch.                                                *)
LEMMA StartMoves ==
    ASSUME ChunkInv, NEW w \in Workers, NEW k \in 0..Len(prefillQ[w]), NEW d,
           StartBatch(w, k, d), DOMAIN req' = Requests,
           \A r \in Requests : "chunk" \in DOMAIN req'[r]
    PROVE  /\ SimType' /\ OnePlace'
           /\ prefillQ'[w] = SubSeq(prefillQ[w], k + 1, Len(prefillQ[w]))
           /\ Batch(w)' = SubSeq(prefillQ[w], 1, k)
           /\ Len(Batch(w)') = k
           /\ Members(Batch(w)') = {prefillQ[w][i] : i \in 1..k}
           /\ Members(Batch(w)') \subseteq Members(prefillQ[w])
           /\ \A x \in Workers \ {w} : prefillQ'[x] = prefillQ[x] /\ Batch(x)' = Batch(x)
           /\ Workers' = Workers
           /\ \A x : IsFirst(x)' = IsFirst(x)
<1> DEFINE q == prefillQ[w]
           a == SubSeq(q, 1, k)
           b == SubSeq(q, k + 1, Len(q))
<1>1. q \in Seq(Requests) /\ Len(q) \in Nat /\ Distinct(q)
  BY DEF ChunkInv, SimType, OnePlace
<1>2. /\ a \in Seq(Requests) /\ Members(a) = {q[i] : i \in 1..k}
      /\ Distinct(a)
  <2>1. 1 \in 1..(Len(q) + 1) /\ k \in 0..Len(q)
    BY <1>1
  <2> HIDE DEF q
  <2> QED BY <1>1, <2>1, MembersOfSlice
<1>3. /\ b \in Seq(Requests) /\ Members(b) = {q[i] : i \in (k + 1)..Len(q)}
      /\ Distinct(b)
  <2>1. k + 1 \in 1..(Len(q) + 1) /\ Len(q) \in 0..Len(q)
    BY <1>1
  <2> HIDE DEF q
  <2> QED BY <1>1, <2>1, MembersOfSlice
<1>4. Len(a) = k
  BY <1>1
<1>5. Members(a) \cap Members(b) = {}
  <2> HIDE DEF q, a, b
  <2> SUFFICES ASSUME NEW i \in 1..k, NEW j \in (k + 1)..Len(q), q[i] = q[j]
               PROVE  FALSE
    BY <1>2, <1>3
  <2>1. i \in 1..Len(q) /\ j \in 1..Len(q) /\ i # j
    BY <1>1 DEF q
  <2> QED BY <1>1, <2>1 DEF Distinct
<1>6. Members(a) \subseteq Members(q) /\ Members(b) \subseteq Members(q)
  <2>1. \A i \in 1..k : i \in 1..Len(q)
    BY <1>1
  <2>2. \A i \in (k + 1)..Len(q) : i \in 1..Len(q)
    BY <1>1
  <2> HIDE DEF q, a, b
  <2> QED BY <1>2, <1>3, <2>1, <2>2 DEF Members
<1>7. prefillQ'[w] = b /\ \A x \in Workers \ {w} : prefillQ'[x] = prefillQ[x]
  BY DEF StartBatch, ChunkInv, SimType
<1>8. Batch(w)' = a /\ \A x \in Workers \ {w} : Batch(x)' = Batch(x)
  <2>1. running' = [running EXCEPT ![w] = [prefill |-> a,
                        decode |-> SubSeq(decodeQ[w], 1, d)]]
    BY DEF StartBatch
  <2>2. running'[w] = [prefill |-> a, decode |-> SubSeq(decodeQ[w], 1, d)]
    BY <2>1 DEF ChunkInv, SimType
  <2>3. \A x \in Workers \ {w} : running'[x] = running[x]
    BY <2>1 DEF ChunkInv, SimType
  <2> QED BY <2>2, <2>3 DEF Batch
<1>9. Workers' = Workers /\ \A x : IsFirst(x)' = IsFirst(x)
  BY DEF StartBatch, Workers, PrefillWorkers, IsFirst, Rank
<1>10. SimType'
  <2>1. DOMAIN prefillQ' = Workers /\ DOMAIN running' = Workers
    BY DEF StartBatch, ChunkInv, SimType
  <2>2. prefillQ' = [x \in Workers |-> prefillQ'[x]]
    BY <2>1 DEF StartBatch, ChunkInv, SimType
  <2>3. \A x \in Workers : prefillQ'[x] \in Seq(Requests) /\ Batch(x)' \in Seq(Requests)
    BY <1>2, <1>3, <1>7, <1>8 DEF ChunkInv, SimType
  <2>4. prefillQ' \in [Workers -> Seq(Requests)]
    BY <2>2, <2>3
  <2> QED BY <1>9, <2>1, <2>3, <2>4 DEF StartBatch, ChunkInv, SimType
<1> HIDE DEF a, b
<1>11. \A x \in Workers :
         /\ Members(prefillQ'[x]) \subseteq Members(prefillQ[x])
         /\ x # w => Members(Batch(x)') = Members(Batch(x))
  BY <1>6, <1>7, <1>8
<1>12. OnePlace'
  <2>1. \A x \in Workers : Distinct(prefillQ'[x]) /\ Distinct(Batch(x)')
    BY <1>2, <1>3, <1>7, <1>8 DEF ChunkInv, OnePlace
  <2>2. \A x \in Workers : Members(prefillQ'[x]) \cup Members(Batch(x)') \subseteq arrived'
    BY <1>6, <1>8, <1>11 DEF StartBatch, ChunkInv, OnePlace
  <2>3. ASSUME NEW x \in Workers, NEW y \in Workers
        PROVE  Members(prefillQ'[x]) \cap Members(Batch(y)') = {}
    <3>1. CASE y = w /\ x = w
      BY <1>5, <1>7, <1>8, <3>1
    <3>2. CASE y = w /\ x # w
      <4>1. Members(prefillQ[x]) \cap Members(q) = {}
        BY <3>2 DEF ChunkInv, OnePlace
      <4> QED BY <1>6, <1>8, <1>11, <3>2, <4>1
    <3>3. CASE y # w
      <4>1. Members(prefillQ[x]) \cap Members(Batch(y)) = {}
        BY DEF ChunkInv, OnePlace
      <4> QED BY <1>11, <3>3, <4>1
    <3> QED BY <3>1, <3>2, <3>3
  <2>4. ASSUME NEW x \in Workers, NEW y \in Workers, x # y
        PROVE  Members(prefillQ'[x]) \cap Members(prefillQ'[y]) = {}
    BY <1>11, <2>4 DEF ChunkInv, OnePlace
  <2>5. ASSUME NEW x \in Workers, NEW y \in Workers, x # y
        PROVE  Members(Batch(x)') \cap Members(Batch(y)') = {}
    <3>1. \A z \in Workers : Members(q) \cap Members(Batch(z)) = {}
      BY DEF ChunkInv, OnePlace
    <3>2. Members(Batch(x)) \cap Members(Batch(y)) = {}
      BY <2>5 DEF ChunkInv, OnePlace
    <3>3. CASE x = w
      BY <1>6, <1>8, <1>11, <2>5, <3>1, <3>3
    <3>4. CASE y = w
      BY <1>6, <1>8, <1>11, <2>5, <3>1, <3>4
    <3> QED BY <1>11, <3>2, <3>3, <3>4
  <2> QED BY <1>9, <2>1, <2>2, <2>3, <2>4, <2>5 DEF OnePlace
<1> QED BY <1>2, <1>4, <1>6, <1>7, <1>8, <1>9, <1>10, <1>12 DEF a, b

LEMMA LongestExists ==
    ASSUME NEW n \in Nat, NEW G
    PROVE  \E k \in 0..n : (\A i \in 1..k : i \in G) /\ (k < n => k + 1 \notin G)
<1> DEFINE T == {k \in 0..n : k = n \/ k + 1 \notin G}
<1>1. T \subseteq Nat /\ T # {}
  OBVIOUS
<1>2. PICK k \in T : \A j \in T : k <= j
  BY <1>1, LeastNatural
<1>3. ASSUME NEW i \in 1..k, i \notin G PROVE FALSE
  <2>1. i - 1 \in 0..n /\ (i - 1) + 1 = i /\ ~(k <= i - 1)
    BY <1>1
  <2>2. i - 1 \in T
    BY <1>3, <2>1
  <2> QED BY <1>2, <2>1, <2>2
<1> QED BY <1>2, <1>3

LEMMA CutInRange ==
    ASSUME SimType, NEW w \in Workers, NEW scheduled
    PROVE  /\ CutChunk(w, scheduled) \in 0..Len(prefillQ[w])
           /\ CutChunk(w, scheduled) <= PrefillMaxBatch
           /\ \A i \in 1..CutChunk(w, scheduled) : scheduled[i] > scheduled[i - 1]
<1> DEFINE n == AtMost(PrefillMaxBatch, prefillQ[w])
           G == {i \in Int : scheduled[i] > scheduled[i - 1]}
           Fits(k) == /\ \A i \in 1..k : scheduled[i] > scheduled[i - 1]
                      /\ k < n => ~(scheduled[k + 1] > scheduled[k + 1 - 1])
<1>1. /\ n \in Nat /\ n <= Len(prefillQ[w]) /\ n <= PrefillMaxBatch
      /\ Len(prefillQ[w]) \in Nat /\ PrefillMaxBatch \in Nat
  <2>1. Len(prefillQ[w]) \in Nat /\ PrefillMaxBatch \in Nat
    BY SimulatorAssumption DEF SimType
  <2> QED BY <2>1 DEF AtMost
<1>2. \E k \in 0..n : Fits(k)
  <2> HIDE DEF n
  <2>1. PICK k \in 0..n : (\A i \in 1..k : i \in G) /\ (k < n => k + 1 \notin G)
    <3> HIDE DEF G
    <3> QED BY <1>1, LongestExists
  <2>2. \A i \in 1..k : scheduled[i] > scheduled[i - 1]
    BY <2>1
  <2>3. k + 1 \in Int
    OBVIOUS
  <2>4. k < n => ~(scheduled[k + 1] > scheduled[k + 1 - 1])
    BY <2>1, <2>3
  <2> QED BY <2>2, <2>4
<1>3. CutChunk(w, scheduled) = CHOOSE k \in 0..n : Fits(k)
  BY DEF CutChunk, Longest
<1> HIDE DEF n, Fits
<1>4. PICK c \in 0..n : CutChunk(w, scheduled) = c /\ Fits(c)
  BY <1>2, <1>3
<1>5. c \in 0..Len(prefillQ[w]) /\ c <= PrefillMaxBatch
  BY <1>1
<1>6. \A i \in 1..c : scheduled[i] > scheduled[i - 1]
  BY <1>4 DEF Fits
<1> QED BY <1>4, <1>5, <1>6

(* A later worker finds the chunk at the head of its queue. *)
LEMMA SameChunkIsHead ==
    ASSUME ChunkInv, NEW w \in Workers, ~IsFirst(w), prefillQ[w] # <<>>
    PROVE  \E b \in 1..Len(prefillQ[w]) :
             /\ SameChunk(w) = b /\ b <= PrefillMaxBatch
             /\ \A i \in 1..b : Chunk[prefillQ[w][i]] = {prefillQ[w][j] : j \in 1..b}
             /\ InChunks(Chunk, SubSeq(prefillQ[w], b + 1, Len(prefillQ[w])))
<1> DEFINE q == prefillQ[w]
           f == Chunk
           n == AtMost(PrefillMaxBatch, q)
           Fits(k) == /\ \A i \in 1..k : req[q[i]].chunk = req[q[1]].chunk
                      /\ k < n => ~(req[q[k + 1]].chunk = req[q[1]].chunk)
<1>1. q \in Seq(Requests) /\ Len(q) \in Nat /\ q # <<>> /\ Distinct(q) /\ InChunks(f, q)
      /\ PrefillMaxBatch \in Nat
  BY SimulatorAssumption DEF ChunkInv, SimType, OnePlace, QueuesAreChunks
<1> HIDE DEF q, f
<1>2. PICK b \in 1..Len(q) :
             /\ b <= PrefillMaxBatch
             /\ \A i \in 1..b : f[q[i]] = f[q[1]]
             /\ b < Len(q) => f[q[b + 1]] # f[q[1]]
             /\ f[q[1]] = {q[i] : i \in 1..b}
             /\ InChunks(f, SubSeq(q, b + 1, Len(q)))
  BY <1>1, HeadChunk
<1>3. n \in Nat /\ b <= n /\ n <= Len(q)
  BY <1>1, <1>2 DEF AtMost
<1>4. \A i \in 1..Len(q) : f[q[i]] = req[q[i]].chunk
  BY <1>1 DEF f, Chunk
<1>5. \A i \in 1..b : req[q[i]].chunk = req[q[1]].chunk
  <2>1. \A i \in 1..b : i \in 1..Len(q) /\ 1 \in 1..Len(q)
    BY <1>1
  <2> QED BY <1>2, <1>4, <2>1
<1>6. b < Len(q) => req[q[b + 1]].chunk # req[q[1]].chunk
  BY <1>1, <1>2, <1>4
<1>7. Fits(b)
  BY <1>1, <1>3, <1>5, <1>6
<1>8. SameChunk(w) = CHOOSE k \in 0..n : Fits(k)
  BY DEF SameChunk, Longest, q
<1>9. ASSUME NEW k \in 0..n, Fits(k) PROVE k = b
  <2>1. CASE k < b
    <3>1. k < n /\ k + 1 \in 1..b
      BY <1>1, <1>3, <2>1
    <3> QED BY <1>5, <1>9, <3>1
  <2>2. CASE b < k
    <3>1. b + 1 \in 1..k /\ b < Len(q)
      BY <1>1, <1>3, <2>2
    <3> QED BY <1>6, <1>9, <3>1
  <2> QED BY <1>1, <1>3, <2>1, <2>2
<1>10. SameChunk(w) = b
  <2>1. b \in 0..n
    BY <1>1, <1>3
  <2> HIDE DEF n, Fits
  <2> QED BY <1>7, <1>8, <1>9, <2>1
<1> QED BY <1>2, <1>10 DEF q, f

LEMMA BeginPrefillInv ==
    ASSUME ChunkInv, NEW w, BeginPrefill(w)
    PROVE  ChunkInv'
<1> DEFINE q == prefillQ[w]
<1>1. w \in Workers /\ q # <<>>
  BY DEF BeginPrefill, CanRun, WantsPrefill
<1>2. PICK scheduled \in {Scheduled(q)} :
        \E k \in {IF IsFirst(w) THEN CutChunk(w, scheduled) ELSE SameChunk(w)} :
          DoPrefill(w, scheduled, k)
  BY DEF BeginPrefill
<1>3. PICK k \in {IF IsFirst(w) THEN CutChunk(w, scheduled) ELSE SameChunk(w)} :
        DoPrefill(w, scheduled, k)
  BY <1>2
<1> DEFINE batch == Members(SubSeq(q, 1, k))
           place == [r \in batch |-> CHOOSE i \in 1..k : q[i] = r]
           size  == [r \in batch |-> IF IsFirst(w)
                         THEN scheduled[place[r]] - scheduled[place[r] - 1]
                         ELSE req[r].current]
           d == IF chunked
                THEN EnterDecodes(w, PrefillMaxTokens - SumOver(size, batch))
                ELSE 0
<1>4. /\ req' = IF ~IsFirst(w) THEN req
                ELSE [r \in Requests |->
                       IF r \notin batch THEN req[r]
                       ELSE [req[r] EXCEPT !.remain = @ - size[r],
                                           !.current = size[r],
                                           !.chunk = batch]]
      /\ StartBatch(w, k, d)
  BY <1>3 DEF DoPrefill
<1> HIDE DEF q, place, size, d, batch
<1>5. DOMAIN req = Requests /\ \A r \in Requests : "chunk" \in DOMAIN req[r]
  BY DEF ChunkInv, SimType
<1>6. /\ DOMAIN req' = Requests
      /\ \A r \in Requests : "chunk" \in DOMAIN req'[r]
      /\ \A r \in Requests :
           Chunk'[r] = IF IsFirst(w) /\ r \in batch THEN batch ELSE Chunk[r]
  <2>1. CASE ~IsFirst(w)
    BY <1>4, <1>5, <2>1 DEF Chunk
  <2>2. CASE IsFirst(w)
    <3>1. req' = [r \in Requests |->
                    IF r \notin batch THEN req[r]
                    ELSE [req[r] EXCEPT !.remain = @ - size[r],
                                        !.current = size[r], !.chunk = batch]]
      BY <1>4, <2>2
    <3>2. ASSUME NEW r \in Requests, r \in batch
          PROVE  "chunk" \in DOMAIN req'[r] /\ req'[r].chunk = batch
      BY <1>5, <3>1, <3>2
    <3>3. ASSUME NEW r \in Requests, r \notin batch
          PROVE  req'[r] = req[r]
      BY <3>1, <3>3
    <3>4. DOMAIN req' = Requests
      BY <3>1
    <3> QED BY <1>5, <2>2, <3>2, <3>3, <3>4 DEF Chunk
  <2> QED BY <2>1, <2>2
<1>7. CASE IsFirst(w)
  <2>1. k \in 0..Len(prefillQ[w]) /\ k <= PrefillMaxBatch
    BY <1>1, <1>7, CutInRange DEF ChunkInv
  <2>2. /\ SimType' /\ OnePlace'
        /\ prefillQ'[w] = SubSeq(prefillQ[w], k + 1, Len(prefillQ[w]))
        /\ Batch(w)' = SubSeq(prefillQ[w], 1, k)
        /\ Len(Batch(w)') = k
        /\ Members(Batch(w)') \subseteq Members(prefillQ[w])
        /\ \A x \in Workers \ {w} : prefillQ'[x] = prefillQ[x] /\ Batch(x)' = Batch(x)
        /\ Workers' = Workers
        /\ \A x : IsFirst(x)' = IsFirst(x)
    BY <1>1, <1>4, <1>6, <2>1, StartMoves
  <2>3. Members(Batch(w)') = batch /\ batch \subseteq Members(prefillQ[w])
    BY <2>2 DEF batch, q
  <2>4. ASSUME NEW x \in Workers \ {w}, NEW r \in Members(prefillQ[x]) \cup Members(Batch(x))
        PROVE  r \in Requests /\ Chunk'[r] = Chunk[r]
    <3>1. r \in Requests
      BY DEF ChunkInv, SimType, OnePlace
    <3>2. r \notin Members(prefillQ[w])
      BY <1>1, <2>4 DEF ChunkInv, OnePlace
    <3> QED BY <1>6, <2>3, <3>1, <3>2
  <2>5. BatchesAreChunks'
    <3> SUFFICES ASSUME NEW x \in Workers
                 PROVE  /\ Len(Batch(x)') <= PrefillMaxBatch
                        /\ \A r \in Members(Batch(x)') : Chunk'[r] = Members(Batch(x)')
      BY <2>2 DEF BatchesAreChunks
    <3>1. CASE x = w
      <4>1. \A r \in batch : r \in Requests
        BY <1>1, <2>3 DEF ChunkInv, SimType, OnePlace
      <4> QED BY <1>6, <1>7, <2>1, <2>2, <2>3, <3>1, <4>1
    <3>2. CASE x # w
      BY <2>2, <2>4, <3>2 DEF ChunkInv, BatchesAreChunks
    <3> QED BY <3>1, <3>2
  <2>6. QueuesAreChunks'
    <3> SUFFICES ASSUME NEW x \in Workers, ~IsFirst(x)
                 PROVE  InChunks(Chunk', prefillQ'[x])
      BY <2>2 DEF QueuesAreChunks
    <3>1. x # w
      BY <1>7
    <3>2. /\ prefillQ[x] \in Seq(Requests) /\ InChunks(Chunk, prefillQ[x])
          /\ \A r \in Members(prefillQ[x]) : Chunk'[r] = Chunk[r]
      BY <2>4, <3>1 DEF ChunkInv, SimType, QueuesAreChunks
    <3>3. InChunks(Chunk', prefillQ[x])
      BY <3>2, SameChunks
    <3> QED BY <2>2, <3>1, <3>3
  <2> QED BY <2>2, <2>5, <2>6 DEF ChunkInv
<1>8. CASE ~IsFirst(w)
  <2>1. PICK b \in 1..Len(prefillQ[w]) :
             /\ SameChunk(w) = b /\ b <= PrefillMaxBatch
             /\ \A i \in 1..b : Chunk[prefillQ[w][i]] = {prefillQ[w][j] : j \in 1..b}
             /\ InChunks(Chunk, SubSeq(prefillQ[w], b + 1, Len(prefillQ[w])))
    BY <1>1, <1>8, SameChunkIsHead DEF q
  <2>2. k = b /\ b \in 0..Len(prefillQ[w])
    BY <1>8, <2>1
  <2>3. /\ SimType' /\ OnePlace'
        /\ prefillQ'[w] = SubSeq(prefillQ[w], b + 1, Len(prefillQ[w]))
        /\ Len(Batch(w)') = b
        /\ Members(Batch(w)') = {prefillQ[w][i] : i \in 1..b}
        /\ \A x \in Workers \ {w} : prefillQ'[x] = prefillQ[x] /\ Batch(x)' = Batch(x)
        /\ Workers' = Workers
        /\ \A x : IsFirst(x)' = IsFirst(x)
    BY <1>1, <1>4, <1>6, <2>2, StartMoves
  <2>4. Chunk' = Chunk
    BY <1>4, <1>8 DEF Chunk
  <2>5. BatchesAreChunks'
    <3>1. \A r \in Members(Batch(w)') : Chunk[r] = Members(Batch(w)')
      BY <2>1, <2>3
    <3>2. Len(Batch(w)') <= PrefillMaxBatch
      BY <2>1, <2>3
    <3> QED BY <2>3, <2>4, <3>1, <3>2 DEF ChunkInv, BatchesAreChunks
  <2>6. QueuesAreChunks'
    BY <2>1, <2>3, <2>4 DEF ChunkInv, QueuesAreChunks
  <2> QED BY <2>3, <2>5, <2>6 DEF ChunkInv
<1> QED BY <1>7, <1>8

LEMMA BeginDecodeInv ==
    ASSUME ChunkInv, NEW w, BeginDecode(w)
    PROVE  ChunkInv'
<1> DEFINE q == prefillQ[w]
<1>1. w \in Workers /\ StartBatch(w, 0, EnterDecodes(w, DecodeMaxTokens)) /\ req' = req
  BY DEF BeginDecode, CanRun
<1>2. q \in Seq(Requests) /\ Len(q) \in Nat
  BY <1>1 DEF ChunkInv, SimType
<1>3. 0 \in 0..Len(q) /\ SubSeq(q, 0 + 1, Len(q)) = q
  BY <1>2
<1>4. /\ DOMAIN req' = Requests /\ \A r \in Requests : "chunk" \in DOMAIN req'[r]
      /\ Chunk' = Chunk
  BY <1>1 DEF ChunkInv, SimType, Chunk
<1>5. /\ SimType' /\ OnePlace'
      /\ prefillQ'[w] = q
      /\ Len(Batch(w)') = 0
      /\ Members(Batch(w)') = {q[i] : i \in 1..0}
      /\ \A x \in Workers \ {w} : prefillQ'[x] = prefillQ[x] /\ Batch(x)' = Batch(x)
      /\ Workers' = Workers
      /\ \A x : IsFirst(x)' = IsFirst(x)
  BY <1>1, <1>3, <1>4, StartMoves
<1>6. Members(Batch(w)') = {}
  BY <1>5
<1>7. BatchesAreChunks'
  BY <1>4, <1>5, <1>6, SimulatorAssumption DEF ChunkInv, BatchesAreChunks
<1>8. QueuesAreChunks'
  BY <1>4, <1>5 DEF ChunkInv, QueuesAreChunks
<1> QED BY <1>5, <1>7, <1>8 DEF ChunkInv

LEMMA FallAsleepInv ==
    ASSUME ChunkInv, NEW w, FallAsleep(w)
    PROVE  ChunkInv'
<1>1. UNCHANGED <<cluster, arrived, req, prefillQ, running>>
  BY DEF FallAsleep
<1>2. DOMAIN running' = Workers /\ \A x \in Workers : Batch(x)' = Batch(x)
  BY <1>1 DEF ChunkInv, SimType, Batch
<1> QED BY <1>1, <1>2, SamePrefills

(* The end of an iteration only takes a request out of its chunk at the    *)
(* last worker.                                                            *)
LEMMA FinishRequests ==
    ASSUME ChunkInv, NEW w, Finish(w)
    PROVE  /\ DOMAIN req' = Requests
           /\ \A r \in Requests : "chunk" \in DOMAIN req'[r]
           /\ \A r \in Requests :
                Chunk'[r] = IF IsLast(w) /\ r \in Members(Batch(w)) THEN {} ELSE Chunk[r]
<1> DEFINE prefills == Members(running[w].prefill)
           decodes  == Members(running[w].decode)
<1>1. req' = [r \in Requests |-> IF r \in prefills THEN AfterPrefill(w, r)
                                 ELSE IF r \in decodes THEN AfterDecode(w, r)
                                 ELSE req[r]]
  BY DEF Finish
<1>2. prefills = Members(Batch(w))
  BY DEF Batch
<1> HIDE DEF prefills, decodes
<1> SUFFICES ASSUME NEW r \in Requests
             PROVE  /\ "chunk" \in DOMAIN req'[r]
                    /\ req'[r].chunk = IF IsLast(w) /\ r \in prefills THEN {} ELSE req[r].chunk
  BY <1>1, <1>2 DEF Chunk
<1>3. "chunk" \in DOMAIN req[r]
  BY DEF ChunkInv, SimType
<1>4. CASE r \in prefills
  <2>1. req'[r] = AfterPrefill(w, r)
    BY <1>1, <1>4
  <2>2. CASE IsLast(w)
    <3>1. req'[r] = [req[r] EXCEPT !.chunk = {}, !.current = 0,
                          !.counter = IF Prefilled(w, r) THEN 0 ELSE @]
      BY <2>1, <2>2 DEF AfterPrefill
    <3> QED BY <1>3, <1>4, <2>2, <3>1
  <2>3. CASE ~IsLast(w)
    BY <1>3, <2>1, <2>3 DEF AfterPrefill
  <2> QED BY <2>2, <2>3
<1>5. CASE r \notin prefills
  <2>1. CASE r \in decodes /\ IsLast(w)
    <3>1. req'[r] = [req[r] EXCEPT !.counter = @ + 1]
      BY <1>1, <1>5, <2>1 DEF AfterDecode
    <3> QED BY <1>3, <1>5, <3>1
  <2>2. CASE ~(r \in decodes /\ IsLast(w))
    <3>1. req'[r] = req[r]
      BY <1>1, <1>5, <2>2 DEF AfterDecode
    <3> QED BY <1>3, <1>5, <3>1
  <2> QED BY <2>1, <2>2
<1> QED BY <1>4, <1>5

(* The batch goes to the next queue, except what is prefilled now.         *)
LEMMA FinishMoves ==
    ASSUME ChunkInv, NEW w, Finish(w)
    PROVE  \E s \in Seq(Requests) :
             /\ Distinct(s) /\ Members(s) \subseteq Members(Batch(w))
             /\ Members(s) = Members(Batch(w)) \ {r \in Requests : Prefilled(w, r)}
             /\ ~IsLast(w) => Members(s) = Members(Batch(w))
             /\ DOMAIN prefillQ' = Workers
             /\ \A x \in Workers : prefillQ'[x] = IF x = NextWorker(w) THEN prefillQ[x] \o s
                                                  ELSE prefillQ[x]
             /\ w \in Workers
             /\ DOMAIN running' = Workers
             /\ \A x \in Workers : Batch(x)' = IF x = w THEN <<>> ELSE Batch(x)
<1> DEFINE F == {r \in Requests : Prefilled(w, r)}
           s == Remaining(Batch(w), F)
<1>1. w \in Workers /\ Batch(w) \in Seq(Requests) /\ Distinct(Batch(w))
  BY DEF Finish, ChunkInv, SimType, OnePlace
<1>2. prefillQ' = [prefillQ EXCEPT ![NextWorker(w)] = @ \o s]
  BY DEF Finish, ForwardPrefill, Batch
<1>3. ~IsLast(w) => F = {}
  BY DEF Prefilled
<1> HIDE DEF F
<1>4. s \in Seq(Requests) /\ Members(s) = Members(Batch(w)) \ F /\ Distinct(s)
  BY <1>1, RemainingMembers
<1> HIDE DEF s
<1>5. /\ DOMAIN prefillQ' = Workers
      /\ \A x \in Workers : prefillQ'[x] = IF x = NextWorker(w) THEN prefillQ[x] \o s
                                           ELSE prefillQ[x]
  BY <1>2 DEF ChunkInv, SimType
<1>6. /\ DOMAIN running' = Workers
      /\ \A x \in Workers : Batch(x)' = IF x = w THEN <<>> ELSE Batch(x)
  <2>1. running' = [running EXCEPT ![w] = [prefill |-> <<>>, decode |-> <<>>]]
    BY DEF Finish
  <2>2. DOMAIN running' = Workers
    BY <2>1 DEF ChunkInv, SimType
  <2>3. running'[w] = [prefill |-> <<>>, decode |-> <<>>]
    BY <1>1, <2>1 DEF ChunkInv, SimType
  <2>4. \A x \in Workers : x # w => running'[x] = running[x]
    BY <2>1 DEF ChunkInv, SimType
  <2> QED BY <2>2, <2>3, <2>4 DEF Batch
<1>7. Members(s) = Members(Batch(w)) \ {r \in Requests : Prefilled(w, r)}
  BY <1>4 DEF F
<1> QED BY <1>1, <1>3, <1>4, <1>5, <1>6, <1>7

LEMMA FinishInv ==
    ASSUME ChunkInv, NEW w, Finish(w)
    PROVE  ChunkInv'
<1> DEFINE v == NextWorker(w)
<1>1. PICK s \in Seq(Requests) :
             /\ Distinct(s) /\ Members(s) \subseteq Members(Batch(w))
             /\ ~IsLast(w) => Members(s) = Members(Batch(w))
             /\ DOMAIN prefillQ' = Workers
             /\ \A x \in Workers : prefillQ'[x] = IF x = v THEN prefillQ[x] \o s
                                                  ELSE prefillQ[x]
             /\ w \in Workers
             /\ DOMAIN running' = Workers
             /\ \A x \in Workers : Batch(x)' = IF x = w THEN <<>> ELSE Batch(x)
  BY FinishMoves
<1> HIDE DEF v
<1>2. /\ DOMAIN req' = Requests
      /\ \A r \in Requests : "chunk" \in DOMAIN req'[r]
      /\ \A r \in Requests :
           Chunk'[r] = IF IsLast(w) /\ r \in Members(Batch(w)) THEN {} ELSE Chunk[r]
  BY FinishRequests
<1>3. Workers' = Workers /\ \A x : IsFirst(x)' = IsFirst(x)
  BY DEF Finish, Workers, PrefillWorkers, IsFirst, Rank
<1>4. UNCHANGED <<cluster, arrived>>
  BY DEF Finish
<1>5. ASSUME NEW x \in Workers
      PROVE  /\ prefillQ[x] \in Seq(Requests) /\ Distinct(prefillQ[x])
             /\ Members(prefillQ[x]) \cap Members(Batch(w)) = {}
             /\ Batch(x) \in Seq(Requests)
  BY <1>1 DEF ChunkInv, SimType, OnePlace
<1>6. ASSUME NEW x \in Workers
      PROVE  /\ prefillQ'[x] \in Seq(Requests) /\ Distinct(prefillQ'[x])
             /\ x # v => Members(prefillQ'[x]) = Members(prefillQ[x])
             /\ x = v => Members(prefillQ'[x]) = Members(prefillQ[x]) \cup Members(s)
  <2>1. CASE x = v
    <3>1. prefillQ'[x] = prefillQ[x] \o s
      BY <1>1, <2>1
    <3>2. Members(prefillQ[x]) \cap Members(s) = {}
      BY <1>1, <1>5
    <3> QED BY <1>1, <1>5, <2>1, <3>1, <3>2, MembersOfConcat
  <2>2. CASE x # v
    BY <1>1, <1>5, <2>2
  <2> QED BY <2>1, <2>2
<1>7. Batch(w)' = <<>> /\ Members(<<>>) = {} /\ Distinct(<<>>) /\ Len(<<>>) = 0
  BY <1>1 DEF Members, Distinct
<1>8. SimType'
  <2>1. prefillQ' = [x \in Workers |-> prefillQ'[x]]
    BY <1>1 DEF Finish, ForwardPrefill, ChunkInv, SimType
  <2>2. prefillQ' \in [Workers -> Seq(Requests)]
    BY <1>6, <2>1
  <2>3. \A x \in Workers : Batch(x)' \in Seq(Requests)
    <3>1. <<>> \in Seq(Requests)
      OBVIOUS
    <3> QED BY <1>1, <1>5, <3>1
  <2> QED BY <1>1, <1>2, <1>3, <1>4, <2>2, <2>3 DEF ChunkInv, SimType
<1>9. OnePlace'
  <2>1. \A x \in Workers : Distinct(prefillQ'[x]) /\ Distinct(Batch(x)')
    BY <1>1, <1>6, <1>7 DEF ChunkInv, OnePlace
  <2>2. \A x \in Workers : Members(prefillQ'[x]) \cup Members(Batch(x)') \subseteq arrived'
    <3>1. \A x \in Workers : Members(Batch(x)') \subseteq Members(Batch(x))
      BY <1>1, <1>7
    <3>2. Members(s) \subseteq arrived
      BY <1>1 DEF ChunkInv, OnePlace
    <3> QED BY <1>4, <1>6, <3>1, <3>2 DEF ChunkInv, OnePlace
  <2>3. ASSUME NEW x \in Workers, NEW y \in Workers
        PROVE  Members(prefillQ'[x]) \cap Members(Batch(y)') = {}
    <3>1. CASE y = w
      BY <1>7, <3>1
    <3>2. CASE y # w
      <4>1. /\ Members(prefillQ[x]) \cap Members(Batch(y)) = {}
            /\ Members(Batch(w)) \cap Members(Batch(y)) = {}
        BY <1>1, <3>2 DEF ChunkInv, OnePlace
      <4>2. Batch(y)' = Batch(y)
        BY <1>1, <3>2
      <4> QED BY <1>1, <1>6, <4>1, <4>2
    <3> QED BY <3>1, <3>2
  <2>4. ASSUME NEW x \in Workers, NEW y \in Workers, x # y
        PROVE  Members(prefillQ'[x]) \cap Members(prefillQ'[y]) = {}
    <3>1. Members(prefillQ[x]) \cap Members(prefillQ[y]) = {}
      BY <2>4 DEF ChunkInv, OnePlace
    <3>2. Members(prefillQ[x]) \cap Members(s) = {} /\ Members(prefillQ[y]) \cap Members(s) = {}
      BY <1>1, <1>5
    <3> QED BY <1>6, <2>4, <3>1, <3>2
  <2>5. ASSUME NEW x \in Workers, NEW y \in Workers, x # y
        PROVE  Members(Batch(x)') \cap Members(Batch(y)') = {}
    <3>1. Members(Batch(x)) \cap Members(Batch(y)) = {}
      BY <2>5 DEF ChunkInv, OnePlace
    <3> QED BY <1>1, <1>7, <3>1
  <2> QED BY <1>3, <2>1, <2>2, <2>3, <2>4, <2>5 DEF OnePlace
<1>10. ASSUME NEW r \in Requests, r \notin Members(Batch(w)) \/ ~IsLast(w)
       PROVE  Chunk'[r] = Chunk[r]
  BY <1>2, <1>10
<1>11. BatchesAreChunks'
  <2> SUFFICES ASSUME NEW x \in Workers
               PROVE  /\ Len(Batch(x)') <= PrefillMaxBatch
                      /\ \A r \in Members(Batch(x)') : Chunk'[r] = Members(Batch(x)')
    BY <1>3 DEF BatchesAreChunks
  <2>1. CASE x = w
    BY <1>7, <2>1, SimulatorAssumption
  <2>2. CASE x # w
    <3>1. Batch(x)' = Batch(x) /\ Members(Batch(x)) \cap Members(Batch(w)) = {}
      BY <1>1, <2>2 DEF ChunkInv, OnePlace
    <3>2. \A r \in Members(Batch(x)) : r \in Requests /\ Chunk'[r] = Chunk[r]
      <4>1. \A r \in Members(Batch(x)) : r \in Requests
        BY <1>5 DEF Members
      <4> QED BY <1>10, <3>1, <4>1
    <3> QED BY <3>1, <3>2 DEF ChunkInv, BatchesAreChunks
  <2> QED BY <2>1, <2>2
<1>12. QueuesAreChunks'
  <2> SUFFICES ASSUME NEW x \in Workers, ~IsFirst(x)
               PROVE  InChunks(Chunk', prefillQ'[x])
    BY <1>3 DEF QueuesAreChunks
  <2>1. InChunks(Chunk', prefillQ[x])
    <3>1. \A r \in Members(prefillQ[x]) : r \in Requests /\ r \notin Members(Batch(w))
      <4>1. \A r \in Members(prefillQ[x]) : r \in Requests
        BY <1>5 DEF Members
      <4> QED BY <1>5, <4>1
    <3>2. \A r \in Members(prefillQ[x]) : Chunk'[r] = Chunk[r]
      BY <1>10, <3>1
    <3>3. InChunks(Chunk, prefillQ[x])
      BY DEF ChunkInv, QueuesAreChunks
    <3> QED BY <1>5, <3>2, <3>3, SameChunks
  <2>2. CASE x # v
    BY <1>1, <2>1, <2>2
  <2>3. CASE x = v
    <3>1. ~IsLast(w)
      BY <1>1, <2>3, RingCloses DEF v, ChunkInv, SimType
    <3>2. Members(s) = Members(Batch(w))
      BY <1>1, <3>1
    <3>3. \A r \in Members(s) : Chunk'[r] = Members(s)
      <4>1. \A r \in Members(Batch(w)) : r \in Requests /\ Chunk[r] = Members(Batch(w))
        BY <1>1, <1>5 DEF ChunkInv, BatchesAreChunks, Members
      <4> QED BY <1>10, <3>1, <3>2, <4>1
    <3>4. Len(s) <= PrefillMaxBatch
      <4>1. Len(Batch(w)) <= PrefillMaxBatch /\ Distinct(Batch(w))
        BY <1>1 DEF ChunkInv, BatchesAreChunks, OnePlace
      <4>2. Cardinality(Members(s)) = Len(s)
        BY <1>1, DistinctCardinality
      <4>3. Cardinality(Members(Batch(w))) = Len(Batch(w))
        BY <1>1, <1>5, <4>1, DistinctCardinality
      <4> QED BY <3>2, <4>1, <4>2, <4>3
    <3>5. InChunks(Chunk', prefillQ[x] \o s)
      BY <1>1, <1>5, <2>1, <3>3, <3>4, SimulatorAssumption, ChunkAppended
    <3> QED BY <1>1, <2>3, <3>5
  <2> QED BY <2>2, <2>3
<1> QED BY <1>8, <1>9, <1>11, <1>12 DEF ChunkInv

LEMMA ChunkInvAlways == SimSpec => []ChunkInv
<1>1. ChunkInv /\ [SimNext]_simVars => ChunkInv'
  <2> SUFFICES ASSUME ChunkInv, [SimNext]_simVars PROVE ChunkInv'
    OBVIOUS
  <2>1. CASE \E r \in Requests : Arrive(r)
    BY <2>1, ArriveInv
  <2>2. ASSUME NEW w \in AllWorkers,
               BeginPrefill(w) \/ BeginDecode(w) \/ FallAsleep(w) \/ Finish(w)
        PROVE  ChunkInv'
    BY <2>2, BeginPrefillInv, BeginDecodeInv, FallAsleepInv, FinishInv
  <2>3. CASE UNCHANGED simVars
    <3>1. UNCHANGED <<cluster, arrived, req, prefillQ, running>>
      BY <2>3 DEF simVars
    <3>2. DOMAIN running' = Workers /\ \A x \in Workers : Batch(x)' = Batch(x)
      BY <3>1 DEF ChunkInv, SimType, Batch
    <3> QED BY <3>1, <3>2, SamePrefills
  <2> QED BY <2>1, <2>2, <2>3 DEF SimNext
<1> QED BY SimInitInv, <1>1, PTL DEF SimSpec

(* For every cluster, pipeline and set of requests, a later stage runs the *)
(* very chunk that the first stage has put together.                       *)
THEOREM ChunksCorrect == SimSpec => []ChunksStayWhole
<1>1. ChunkInv => ChunksStayWhole
  <2> SUFFICES ASSUME ChunkInv, NEW w \in Workers, NEW r \in Members(Batch(w))
               PROVE  req[r].chunk = Members(Batch(w))
    BY DEF ChunksStayWhole, Batch
  <2>1. Chunk[r] = Members(Batch(w))
    BY DEF ChunkInv, BatchesAreChunks
  <2>2. r \in Requests
    <3>1. Batch(w) \in Seq(Requests)
      BY DEF ChunkInv, SimType
    <3> QED BY <3>1 DEF Members
  <2> QED BY <2>1, <2>2 DEF Chunk
<1> QED BY <1>1, ChunkInvAlways, PTL

-----------------------------------------------------------------------------
(* Token budgets.  The chunk that the first stage cuts is within the       *)
(* budget, and so is what a later stage runs, since it is the same chunk;  *)
(* the requests of a chunk keep their portions until its last stage.       *)
TokensOf(C) == SumOver([r \in Requests |-> req[r].current], C)
Limits == [remain: Nat, current: Nat, counter: Int, chunk: SUBSET Requests]
ChunksFit ==
    \A w \in Workers :
        /\ TokensOf(Members(Batch(w))) <= PrefillMaxTokens
        /\ ~IsFirst(w) => \A r \in Members(prefillQ[w]) :
                            TokensOf(Chunk[r]) <= PrefillMaxTokens
TokenInv == req \in [Requests -> Limits] /\ ChunksFit

LEMMA PortionFits ==
    ASSUME req \in [Requests -> Limits], NEW r \in Requests, NEW n \in 0..PrefillMaxTokens
    PROVE  /\ Portion(r, n) \in 0..req[r].remain
           /\ n + Portion(r, n) \in 0..PrefillMaxTokens
<1>1. PrefillMaxTokens \in Nat /\ req[r].remain \in Nat
  BY SimulatorAssumption DEF Limits
<1> DEFINE left == PrefillMaxTokens - (IF chunked THEN 2 ELSE 1) * n
<1>2. left \in Int /\ left <= PrefillMaxTokens - n
  BY <1>1
<1>3. Portion(r, n) = IF req[r].remain <= left THEN req[r].remain
                      ELSE IF chunked /\ left > 0 THEN left ELSE 0
  BY DEF Portion
<1> HIDE DEF left
<1> QED BY <1>1, <1>2, <1>3

(* How much the first i portions are, for each i. *)
LEMMA ScheduleTurns ==
    ASSUME req \in [Requests -> Limits], NEW q \in Seq(Requests)
    PROVE  /\ Scheduled(q)[0] = 0
           /\ \A i \in 1..Len(q) :
                Scheduled(q)[i] = Scheduled(q)[i - 1] + Portion(q[i], Scheduled(q)[i - 1])
           /\ \A i \in 0..Len(q) : Scheduled(q)[i] \in 0..PrefillMaxTokens
<1> DEFINE X == 0..PrefillMaxTokens
           n == Len(q)
           turn(st, r) == st + Portion(r, st)
           F == [p \in X \X (1..n) |-> turn(p[1], q[p[2]])]
           At(h, i) == IF i = 0 THEN 0
                       ELSE LET before == h[i - 1] IN before + Portion(q[i], before)
           run == CHOOSE h : h = [i \in 0..n |-> At(h, i)]
<1>1. Scheduled(q) = run
  BY Zenon DEF Scheduled
<1>2. n \in Nat /\ \A i \in 1..n : q[i] \in Requests
  BY ElementOfSeq
<1>3. 0 \in X
  BY SimulatorAssumption
<1>4. \A st \in X, r \in Requests : turn(st, r) \in X
  BY PortionFits
<1>5. \A h : At(h, 0) = 0
  OBVIOUS
<1>6. \A h : \A i \in 1..n : At(h, i) = turn(h[i - 1], q[i])
  BY <1>2
<1> HIDE DEF X, n, turn, At
<1>7. F \in [X \X (1..n) -> X]
  BY <1>2, <1>4
<1>8. PICK f \in [0..n -> X] : IsLoop(f, 0, F, n)
  <2> HIDE DEF F
  <2> QED BY <1>2, <1>3, <1>7, LoopExists
<1>9. \A i \in 1..n : F[<<f[i - 1], i>>] = turn(f[i - 1], q[i])
  <2> SUFFICES ASSUME NEW i \in 1..n PROVE F[<<f[i - 1], i>>] = turn(f[i - 1], q[i])
    OBVIOUS
  <2>1. f[i - 1] \in X
    BY <1>2
  <2> QED BY <2>1
<1> HIDE DEF F
<1>10. f = [i \in 0..n |-> At(f, i)]
  <2>1. f = [i \in 0..n |-> LoopAt(f, 0, F, i)]
    BY <1>8 DEF IsLoop
  <2>2. \A i \in 0..n : LoopAt(f, 0, F, i) = At(f, i)
    BY <1>2, <1>5, <1>6, <1>9 DEF LoopAt
  <2> QED BY <2>1, <2>2
<1>11. run = [i \in 0..n |-> At(run, i)]
  BY <1>10
<1> HIDE DEF run
<1>12. run[0] = 0 /\ \A i \in 1..n : run[i] = turn(run[i - 1], q[i])
  BY <1>2, <1>5, <1>6, <1>11
<1> DEFINE Xs == [i \in 0..n |-> X]
<1>13. \A i \in 0..n : run[i] \in Xs[i]
  <2>1. run[0] \in Xs[0]
    BY <1>2, <1>3, <1>12
  <2>2. ASSUME NEW i \in 1..n, run[i - 1] \in Xs[i - 1]
        PROVE  run[i] \in Xs[i]
    <3>1. i \in 0..n /\ i - 1 \in 0..n
      BY <1>2
    <3>2. run[i - 1] \in X
      BY <2>2, <3>1
    <3>3. run[i] \in X
      BY <1>2, <1>4, <1>12, <3>2
    <3> QED BY <3>1, <3>3
  <2> HIDE DEF Xs
  <2> QED BY <1>2, <2>1, <2>2, LoopInvariant
<1>14. \A i \in 0..n : run[i] \in X
  BY <1>13
<1> QED BY <1>1, <1>12, <1>14 DEF X, n, turn

(* The portions of a batch add up to what is scheduled with its last one.  *)
Portioned(q, k, f, g) ==
    /\ f[0] = 0 /\ \A i \in 0..k : f[i] \in Nat
    /\ \A i \in 1..k : g[q[i]] = f[i] - f[i - 1] /\ g[q[i]] \in Nat

LEMMA PortionsAddUp ==
    ASSUME NEW S, NEW q \in Seq(S), Distinct(q), NEW k \in 0..Len(q), NEW f, NEW g,
           Portioned(q, k, f, g)
    PROVE  SumOver(g, Members(SubSeq(q, 1, k))) = f[k]
<1> DEFINE Upto(i) == {q[j] : j \in 1..i}
           Sums == [i \in 0..k |-> {h \in {f} : IsFiniteSet(Upto(i)) /\ SumOver(g, Upto(i)) = h[i]}]
           ff == [i \in 0..k |-> f]
<1>1. Len(q) \in Nat /\ k \in Nat
  OBVIOUS
<1> USE DEF Portioned
<1>2. Members(SubSeq(q, 1, k)) = Upto(k)
  <2>1. 1 \in 1..(Len(q) + 1)
    BY <1>1
  <2> QED BY <2>1, MembersOfSlice
<1>3. ff[0] \in Sums[0]
  <2>1. Upto(0) = {} /\ 0 \in 0..k
    BY <1>1
  <2> HIDE DEF Upto
  <2>2. IsFiniteSet(Upto(0)) /\ SumOver(g, Upto(0)) = f[0]
    BY <2>1, FS_EmptySet, SumEmpty
  <2> QED BY <2>1, <2>2
<1>4. ASSUME NEW i \in 1..k, ff[i - 1] \in Sums[i - 1]
      PROVE  ff[i] \in Sums[i]
  <2>1. i \in 0..k /\ i - 1 \in 0..k /\ i \in 1..Len(q)
    BY <1>1
  <2>2. Upto(i) = Upto(i - 1) \cup {q[i]}
    <3>1. \A j \in 1..i : j \in 1..(i - 1) \/ j = i
      BY <1>1
    <3>2. \A j \in 1..(i - 1) : j \in 1..i
      BY <1>1
    <3>3. i \in 1..i
      BY <1>1
    <3> QED BY <3>1, <3>2, <3>3
  <2>3. q[i] \notin Upto(i - 1)
    <3> SUFFICES ASSUME NEW j \in 1..(i - 1), q[j] = q[i] PROVE FALSE
      OBVIOUS
    <3>1. j \in 1..Len(q) /\ j # i
      BY <1>1
    <3> QED BY <2>1, <3>1 DEF Distinct
  <2>4. \A s \in Upto(i - 1) \cup {q[i]} : g[s] \in Nat
    <3>1. \A j \in 1..(i - 1) : j \in 1..k
      BY <1>1
    <3> QED BY <3>1
  <2> HIDE DEF Upto
  <2>5. IsFiniteSet(Upto(i - 1)) /\ SumOver(g, Upto(i - 1)) = f[i - 1]
    BY <1>4, <2>1
  <2>6. IsFiniteSet({q[i]}) /\ SumOver(g, {q[i]}) = f[i] - f[i - 1]
    BY <2>4, FS_Singleton, SumSingleton
  <2>7. SumOver(g, Upto(i - 1) \cup {q[i]}) = SumOver(g, Upto(i - 1)) + SumOver(g, {q[i]})
    <3>1. Upto(i - 1) \cap {q[i]} = {}
      BY <2>3
    <3> QED BY <2>4, <2>5, <2>6, <3>1, SumUnion
  <2>8. IsFiniteSet(Upto(i))
    <3>1. IsFiniteSet(Upto(i - 1) \cup {q[i]})
      BY <2>5, FS_AddElement
    <3> QED BY <2>2, <3>1
  <2>9. SumOver(g, Upto(i)) = f[i]
    BY <2>1, <2>2, <2>5, <2>6, <2>7
  <2> QED BY <2>1, <2>8, <2>9
<1>5. \A i \in 0..k : ff[i] \in Sums[i]
  <2> HIDE DEF ff, Sums
  <2> QED BY <1>1, <1>3, <1>4, LoopInvariant
<1>6. SumOver(g, Upto(k)) = f[k]
  <2> HIDE DEF Upto
  <2>1. k \in 0..k
    BY <1>1
  <2> QED BY <1>5, <2>1
<1> QED BY <1>2, <1>6

LEMMA SameSum ==
    ASSUME NEW S, NEW f, NEW g, \A r \in S : f[r] = g[r]
    PROVE  SumOver(f, S) = SumOver(g, S)
<1>1. Slots(f, S) = Slots(g, S)
  BY DEF Slots
<1> QED BY <1>1 DEF SumOver

LEMMA SameTokens ==
    ASSUME NEW C, \A r \in C : r \in Requests /\ req'[r].current = req[r].current
    PROVE  TokensOf(C)' = TokensOf(C)
<1> DEFINE f == [r \in Requests |-> req[r].current]
           g == [r \in Requests |-> req'[r].current]
<1>1. \A r \in C : g[r] = f[r]
  OBVIOUS
<1> HIDE DEF f, g
<1>2. SumOver(g, C) = SumOver(f, C)
  BY <1>1, SameSum
<1> QED BY <1>2 DEF TokensOf, f, g

(* The chunk of a request that waits before a later stage waits there.     *)
LEMMA ChunkInQueue ==
    ASSUME NEW S, NEW q \in Seq(S), NEW f, InChunks(f, q), NEW r \in Members(q)
    PROVE  f[r] \subseteq Members(q)
<1>1. PICK i \in 1..Len(q) : q[i] = r
  BY DEF Members
<1>2. PICK a \in 1..i : \E b \in i..Len(q) : IsStretch(f, q, a, b)
  BY DEF InChunks, InStretch
<1>3. PICK b \in i..Len(q) : IsStretch(f, q, a, b)
  BY <1>2
<1>4. i \in a..b /\ \A j \in a..b : j \in 1..Len(q)
  OBVIOUS
<1>5. f[r] = {q[j] : j \in a..b}
  BY <1>1, <1>3, <1>4 DEF IsStretch
<1> QED BY <1>4, <1>5 DEF Members

(* What a worker takes into a batch of prefills, and how many tokens it    *)
(* has left for decodes.                                                   *)
LEMMA PrefillStarts ==
    ASSUME ChunkInv, TokenInv, NEW w, BeginPrefill(w)
    PROVE  \E k \in 0..Len(prefillQ[w]), tokens \in Nat, batch \in SUBSET Requests :
             /\ batch = Members(SubSeq(prefillQ[w], 1, k))
             /\ StartBatch(w, k, IF chunked THEN EnterDecodes(w, tokens) ELSE 0)
             /\ req' \in [Requests -> Limits]
             /\ \A r \in Requests : req'[r].counter = req[r].counter
             /\ \A r \in Requests \ batch : req'[r] = req[r]
             /\ ~IsFirst(w) => req' = req
             /\ TokensOf(batch)' \in Nat /\ TokensOf(batch)' + tokens <= PrefillMaxTokens
<1> DEFINE q == prefillQ[w]
<1>1. w \in Workers /\ q # <<>>
  BY DEF BeginPrefill, CanRun, WantsPrefill
<1>2. q \in Seq(Requests) /\ Len(q) \in Nat /\ Distinct(q) /\ \A i \in 1..Len(q) : q[i] \in Requests
  <2>1. q \in Seq(Requests) /\ Distinct(q)
    BY <1>1 DEF ChunkInv, SimType, OnePlace
  <2> QED BY <2>1, ElementOfSeq
<1>3. PICK scheduled \in {Scheduled(q)} :
        \E k \in {IF IsFirst(w) THEN CutChunk(w, scheduled) ELSE SameChunk(w)} :
          DoPrefill(w, scheduled, k)
  BY DEF BeginPrefill
<1>4. PICK k \in {IF IsFirst(w) THEN CutChunk(w, scheduled) ELSE SameChunk(w)} :
        DoPrefill(w, scheduled, k)
  BY <1>3
<1>0. PICK batch : batch = Members(SubSeq(q, 1, k))
  OBVIOUS
<1> DEFINE place == [r \in batch |-> CHOOSE i \in 1..k : q[i] = r]
           size  == [r \in batch |-> IF IsFirst(w)
                         THEN scheduled[place[r]] - scheduled[place[r] - 1]
                         ELSE req[r].current]
           tokens == PrefillMaxTokens - SumOver(size, batch)
<1>5. /\ req' = IF ~IsFirst(w) THEN req
                ELSE [r \in Requests |->
                       IF r \notin batch THEN req[r]
                       ELSE [req[r] EXCEPT !.remain = @ - size[r],
                                           !.current = size[r],
                                           !.chunk = batch]]
      /\ StartBatch(w, k, IF chunked THEN EnterDecodes(w, tokens) ELSE 0)
  <2> DEFINE placeIn(b) == [r \in b |-> CHOOSE i \in 1..k : q[i] = r]
             sizeIn(b) == [r \in b |-> IF IsFirst(w)
                             THEN scheduled[placeIn(b)[r]] - scheduled[placeIn(b)[r] - 1]
                             ELSE req[r].current]
             Done(b) ==
               /\ req' = IF ~IsFirst(w) THEN req
                         ELSE [r \in Requests |->
                                IF r \notin b THEN req[r]
                                ELSE [req[r] EXCEPT !.remain = @ - sizeIn(b)[r],
                                                    !.current = sizeIn(b)[r],
                                                    !.chunk = b]]
               /\ StartBatch(w, k,
                     IF chunked
                     THEN EnterDecodes(w, PrefillMaxTokens - SumOver(sizeIn(b), b))
                     ELSE 0)
  <2>1. Done(Members(SubSeq(q, 1, k)))
    BY <1>4 DEF DoPrefill
  <2> HIDE DEF Done
  <2>2. Done(batch)
    BY <1>0, <2>1
  <2> QED BY <2>2 DEF Done
<1> HIDE DEF q
<1>6. k \in 0..Len(q)
  <2>1. CASE IsFirst(w)
    BY <1>1, <1>4, <2>1, CutInRange DEF ChunkInv, q
  <2>2. CASE ~IsFirst(w)
    <3>1. SameChunk(w) \in 1..Len(q)
      BY <1>1, <2>2, SameChunkIsHead DEF q
    <3> QED BY <1>2, <1>4, <2>2, <3>1
  <2> QED BY <2>1, <2>2
<1>7. /\ batch = {q[i] : i \in 1..k} /\ batch \in SUBSET Requests
      /\ \A i \in 1..k : i \in 1..Len(q) /\ i \in 0..k /\ i - 1 \in 0..k /\ q[i] \in batch
  <2>1. 1 \in 1..(Len(q) + 1)
    BY <1>2
  <2>2. batch = {q[i] : i \in 1..k}
    BY <1>0, <1>2, <1>6, <2>1, MembersOfSlice
  <2>3. \A i \in 1..k : i \in 1..Len(q) /\ i \in 0..k /\ i - 1 \in 0..k
    BY <1>2, <1>6
  <2> QED BY <1>2, <2>2, <2>3
<1>8. IsFiniteSet(batch)
  <2>1. 1 \in 1..(Len(q) + 1)
    BY <1>2
  <2>2. SubSeq(q, 1, k) \in Seq(Requests) /\ Distinct(SubSeq(q, 1, k))
    BY <1>2, <1>6, <2>1, MembersOfSlice
  <2> QED BY <1>0, <2>2, DistinctCardinality
<1>9. req \in [Requests -> Limits] /\ PrefillMaxTokens \in Nat
  BY SimulatorAssumption DEF TokenInv
<1>10. CASE IsFirst(w)
  <2>1. /\ scheduled[0] = 0
        /\ \A i \in 1..Len(q) : scheduled[i] = scheduled[i - 1] + Portion(q[i], scheduled[i - 1])
        /\ \A i \in 0..Len(q) : scheduled[i] \in 0..PrefillMaxTokens
    BY <1>2, <1>3, <1>9, ScheduleTurns
  <2>2. \A i \in 1..k : size[q[i]] = scheduled[i] - scheduled[i - 1]
    <3> SUFFICES ASSUME NEW i \in 1..k PROVE size[q[i]] = scheduled[i] - scheduled[i - 1]
      OBVIOUS
    <3>1. place[q[i]] = i
      BY <1>2, <1>7 DEF Distinct
    <3> HIDE DEF place
    <3> QED BY <1>7, <1>10, <3>1
  <2> HIDE DEF place, size
  <2>3. ASSUME NEW i \in 1..k
        PROVE  /\ size[q[i]] \in Nat /\ size[q[i]] <= req[q[i]].remain
               /\ scheduled[i] \in Nat
    <3>1. scheduled[i - 1] \in 0..PrefillMaxTokens /\ scheduled[i] \in 0..PrefillMaxTokens
      BY <1>6, <1>7, <2>1
    <3>2. Portion(q[i], scheduled[i - 1]) \in 0..req[q[i]].remain
      BY <1>2, <1>7, <1>9, <3>1, PortionFits
    <3>3. req[q[i]].remain \in Nat
      BY <1>2, <1>7, <1>9 DEF Limits
    <3>4. size[q[i]] = Portion(q[i], scheduled[i - 1])
      BY <1>7, <2>1, <2>2, <3>1, <3>2, <3>3
    <3> QED BY <1>9, <3>1, <3>2, <3>3, <3>4
  <2>4. SumOver(size, batch) = scheduled[k] /\ scheduled[k] \in 0..PrefillMaxTokens
    <3>1. \A i \in 0..k : scheduled[i] \in Nat
      BY <1>6, <1>9, <2>1
    <3>2. k \in 0..Len(q)
      BY <1>6
    <3>3. Portioned(q, k, scheduled, size)
      BY <2>1, <2>2, <2>3, <3>1 DEF Portioned
    <3>4. SumOver(size, Members(SubSeq(q, 1, k))) = scheduled[k]
      BY <1>2, <3>2, <3>3, PortionsAddUp
    <3> QED BY <1>0, <2>1, <3>2, <3>4
  <2>5. \A r \in batch : r \in Requests /\ size[r] \in Nat /\ size[r] <= req[r].remain
    BY <1>7, <2>3
  <2>6. req' = [r \in Requests |->
                  IF r \notin batch THEN req[r]
                  ELSE [req[r] EXCEPT !.remain = @ - size[r], !.current = size[r],
                                      !.chunk = batch]]
    BY <1>5, <1>10
  <2>7. ASSUME NEW r \in Requests
        PROVE  /\ req'[r] \in Limits /\ req'[r].counter = req[r].counter
               /\ r \notin batch => req'[r] = req[r]
               /\ r \in batch => req'[r].current = size[r]
    <3>1. req[r] \in Limits
      BY <1>9
    <3>2. CASE r \in batch
      <4>1. req'[r] = [req[r] EXCEPT !.remain = @ - size[r], !.current = size[r],
                                     !.chunk = batch]
        BY <2>6, <3>2
      <4>2. req[r].remain \in Nat /\ req[r].remain - size[r] \in Nat
        BY <2>5, <3>1, <3>2 DEF Limits
      <4>3. req'[r] = [remain |-> req[r].remain - size[r], current |-> size[r],
                       counter |-> req[r].counter, chunk |-> batch]
        BY <3>1, <4>1 DEF Limits
      <4> QED BY <1>7, <2>5, <3>1, <3>2, <4>2, <4>3 DEF Limits
    <3>3. CASE r \notin batch
      <4>1. req'[r] = req[r]
        BY <2>6, <3>3
      <4> QED BY <3>1, <3>3, <4>1
    <3> QED BY <3>2, <3>3
  <2>8. req' \in [Requests -> Limits]
    BY <2>6, <2>7
  <2>9. TokensOf(batch)' = SumOver(size, batch)
    <3> DEFINE f == [r \in Requests |-> req'[r].current]
    <3>1. \A r \in batch : f[r] = size[r]
      BY <2>5, <2>7
    <3> HIDE DEF f
    <3>2. SumOver(f, batch) = SumOver(size, batch)
      BY <3>1, SameSum
    <3> QED BY <3>2 DEF TokensOf, f
  <2>10. tokens \in Nat /\ TokensOf(batch)' \in Nat
         /\ TokensOf(batch)' + tokens <= PrefillMaxTokens
    BY <1>9, <2>4, <2>9
  <2> HIDE DEF tokens
  <2> QED BY <1>0, <1>5, <1>6, <1>7, <1>10, <2>7, <2>8, <2>10 DEF q
<1>11. CASE ~IsFirst(w)
  <2>1. PICK b \in 1..Len(q) :
             /\ SameChunk(w) = b
             /\ \A i \in 1..b : Chunk[q[i]] = {q[j] : j \in 1..b}
    BY <1>1, <1>11, SameChunkIsHead DEF q
  <2>2. k = b /\ 1 \in 1..b /\ 1 \in 1..Len(q)
    BY <1>2, <1>4, <1>11, <2>1
  <2>3. Chunk[q[1]] = batch
    BY <1>7, <2>1, <2>2
  <2> DEFINE f == [r \in Requests |-> req[r].current]
  <2>4. SumOver(f, batch) <= PrefillMaxTokens
    <3>1. q[1] \in Members(prefillQ[w])
      BY <2>2 DEF Members, q
    <3> QED BY <1>1, <1>11, <2>3, <3>1 DEF TokenInv, ChunksFit, TokensOf
  <2>5. req' = req
    BY <1>5, <1>11
  <2>6. \A r \in batch : f[r] = size[r] /\ f[r] \in Nat
    <3> HIDE DEF place
    <3> QED BY <1>7, <1>9, <1>11 DEF Limits
  <2>7. TokensOf(batch)' = SumOver(f, batch)
    BY <2>5 DEF TokensOf
  <2> HIDE DEF f, size
  <2>8. SumOver(f, batch) = SumOver(size, batch) /\ SumOver(f, batch) \in Nat
    BY <1>8, <2>6, SameSum, SumFinite
  <2>9. tokens \in Nat /\ TokensOf(batch)' \in Nat
        /\ TokensOf(batch)' + tokens <= PrefillMaxTokens
    BY <1>9, <2>4, <2>7, <2>8
  <2> HIDE DEF tokens
  <2> QED BY <1>0, <1>5, <1>6, <1>7, <1>9, <2>5, <2>9 DEF q
<1> QED BY <1>10, <1>11

LEMMA BatchMembers ==
    ASSUME ChunkInv, NEW w \in Workers
    PROVE  /\ Members(Batch(w)) \subseteq Requests /\ Members(prefillQ[w]) \subseteq Requests
           /\ IsFiniteSet(Members(Batch(w)))
<1>1. Batch(w) \in Seq(Requests) /\ prefillQ[w] \in Seq(Requests) /\ Distinct(Batch(w))
  BY DEF ChunkInv, SimType, OnePlace
<1>2. \A q \in Seq(Requests) : Members(q) \subseteq Requests
  BY ElementOfSeq DEF Members
<1> QED BY <1>1, <1>2, DistinctCardinality

(* Where nothing changes, the chunks remain within the budget. *)
LEMMA StillFits ==
    ASSUME ChunkInv, TokenInv, NEW w \in Workers, Batch(w)' = Batch(w),
           \A r \in Members(Batch(w)) : req'[r].current = req[r].current
    PROVE  TokensOf(Members(Batch(w)))' <= PrefillMaxTokens
<1>1. PICK C : C = Members(Batch(w))
  OBVIOUS
<1>2. TokensOf(C)' = TokensOf(C)
  BY <1>1, BatchMembers, SameTokens
<1>3. TokensOf(C) <= PrefillMaxTokens
  BY <1>1 DEF TokenInv, ChunksFit
<1>4. Members(Batch(w))' = C
  BY <1>1
<1> QED BY <1>2, <1>3, <1>4 DEF TokensOf

LEMMA StillFitsInQueue ==
    ASSUME ChunkInv, TokenInv, NEW w \in Workers, ~IsFirst(w), NEW r \in Members(prefillQ[w]),
           \A s \in Members(prefillQ[w]) : req'[s].current = req[s].current,
           Chunk'[r] = Chunk[r]
    PROVE  TokensOf(Chunk[r])' <= PrefillMaxTokens
<1>1. PICK C : C = Chunk[r]
  OBVIOUS
<1>2. C \subseteq Members(prefillQ[w])
  <2>1. prefillQ[w] \in Seq(Requests) /\ InChunks(Chunk, prefillQ[w])
    BY DEF ChunkInv, SimType, QueuesAreChunks
  <2> QED BY <1>1, <2>1, ChunkInQueue
<1>3. TokensOf(C)' = TokensOf(C)
  BY <1>2, BatchMembers, SameTokens
<1>4. TokensOf(C) <= PrefillMaxTokens
  BY <1>1 DEF TokenInv, ChunksFit
<1> QED BY <1>1, <1>3, <1>4 DEF TokensOf

LEMMA TokensOfNobody == TokensOf({}) = 0
BY SumEmpty DEF TokensOf

LEMMA TokenInit == SimInit => TokenInv
<1> SUFFICES ASSUME SimInit PROVE TokenInv
  OBVIOUS
<1>1. req \in [Requests -> Limits]
  <2>1. \A r \in Requests : NewRequest(r) \in Limits
    BY SimulatorAssumption DEF NewRequest, Limits
  <2> QED BY <2>1 DEF SimInit
<1>2. \A w \in Workers : prefillQ[w] = <<>> /\ Batch(w) = <<>>
  BY DEF SimInit, Batch
<1>3. Members(<<>>) = {}
  BY DEF Members
<1>4. ChunksFit
  <2>1. \A w \in Workers : Members(prefillQ[w]) = {} /\ Members(Batch(w)) = {}
    BY <1>2, <1>3
  <2>2. TokensOf({}) <= PrefillMaxTokens
    BY TokensOfNobody, SimulatorAssumption
  <2> QED BY <2>1, <2>2 DEF ChunksFit
<1> QED BY <1>1, <1>4 DEF TokenInv

LEMMA SameWorkers ==
    ASSUME UNCHANGED cluster
    PROVE  /\ Workers' = Workers
           /\ \A x : /\ IsFirst(x)' = IsFirst(x) /\ IsLast(x)' = IsLast(x)
                     /\ NextWorker(x)' = NextWorker(x)
BY DEF Workers, PrefillWorkers, IsFirst, IsLast, NextWorker, Stages, Rank

LEMMA ArriveTokens ==
    ASSUME ChunkInv, TokenInv, NEW r \in Requests, Arrive(r)
    PROVE  TokenInv'
<1>1. UNCHANGED <<cluster, req, running>>
  BY DEF Arrive
<1>2. Workers' = Workers /\ \A x : IsFirst(x)' = IsFirst(x) /\ Batch(x)' = Batch(x)
  BY <1>1, SameWorkers DEF Batch
<1>3. \A x \in Workers : ~IsFirst(x) => prefillQ'[x] = prefillQ[x]
  BY BestIsFirst DEF Arrive, ChunkInv, SimType
<1>4. ASSUME NEW x \in Workers PROVE TokensOf(Members(Batch(x)))' <= PrefillMaxTokens
  BY <1>1, <1>2, StillFits
<1>5. ASSUME NEW x \in Workers, ~IsFirst(x), NEW s \in Members(prefillQ'[x])
      PROVE  TokensOf(Chunk[s])' <= PrefillMaxTokens
  <2>1. Chunk' = Chunk /\ s \in Members(prefillQ[x])
    BY <1>1, <1>3, <1>5 DEF Chunk
  <2> QED BY <1>1, <1>5, <2>1, StillFitsInQueue
<1>6. ChunksFit'
  BY <1>2, <1>4, <1>5 DEF ChunksFit
<1> QED BY <1>1, <1>6 DEF TokenInv

(* The rest of a step that starts a batch. *)
LEMMA StartTokens ==
    ASSUME ChunkInv, TokenInv, NEW w \in Workers, NEW k \in 0..Len(prefillQ[w]), NEW d,
           StartBatch(w, k, d), req' \in [Requests -> Limits],
           NEW batch, batch = Members(SubSeq(prefillQ[w], 1, k)),
           TokensOf(batch)' <= PrefillMaxTokens,
           \A r \in Requests \ batch : req'[r] = req[r],
           ~IsFirst(w) => req' = req
    PROVE  TokenInv'
<1>1. /\ prefillQ'[w] = SubSeq(prefillQ[w], k + 1, Len(prefillQ[w]))
      /\ Batch(w)' = SubSeq(prefillQ[w], 1, k)
      /\ Members(Batch(w)') \subseteq Members(prefillQ[w])
      /\ \A x \in Workers \ {w} : prefillQ'[x] = prefillQ[x] /\ Batch(x)' = Batch(x)
      /\ Workers' = Workers
      /\ \A x : IsFirst(x)' = IsFirst(x)
  <2>1. DOMAIN req' = Requests /\ \A r \in Requests : "chunk" \in DOMAIN req'[r]
    BY DEF Limits
  <2> QED BY <2>1, StartMoves
<1>2. Members(Batch(w)') = batch /\ batch \subseteq Members(prefillQ[w])
  BY <1>1
<1>3. ASSUME NEW x \in Workers
      PROVE  TokensOf(Members(Batch(x)))' <= PrefillMaxTokens
  <2>1. CASE x = w
    BY <1>2, <2>1 DEF TokensOf
  <2>2. CASE x # w
    <3>1. \A r \in Members(Batch(x)) : r \in Requests \ batch
      <4>1. Members(prefillQ[w]) \cap Members(Batch(x)) = {}
        BY DEF ChunkInv, OnePlace
      <4> QED BY <1>2, <4>1, BatchMembers
    <3> QED BY <1>1, <2>2, <3>1, StillFits
  <2> QED BY <2>1, <2>2
<1>4. ASSUME NEW x \in Workers, ~IsFirst(x), NEW r \in Members(prefillQ'[x])
      PROVE  TokensOf(Chunk[r])' <= PrefillMaxTokens
  <2>1. r \in Members(prefillQ[x])
    <3>1. CASE x = w
      <4>1. prefillQ[w] \in Seq(Requests) /\ Len(prefillQ[w]) \in Nat
        BY DEF ChunkInv, SimType
      <4>2. k + 1 \in 1..(Len(prefillQ[w]) + 1) /\ Len(prefillQ[w]) \in 0..Len(prefillQ[w])
        BY <4>1
      <4>3. Members(SubSeq(prefillQ[w], k + 1, Len(prefillQ[w])))
              = {prefillQ[w][i] : i \in (k + 1)..Len(prefillQ[w])}
        BY <4>1, <4>2, MembersOfSlice
      <4>4. \A i \in (k + 1)..Len(prefillQ[w]) : i \in 1..Len(prefillQ[w])
        BY <4>1
      <4>5. {prefillQ[w][i] : i \in (k + 1)..Len(prefillQ[w])} \subseteq Members(prefillQ[w])
        BY <4>4 DEF Members
      <4> QED BY <1>1, <1>4, <3>1, <4>3, <4>5
    <3>2. CASE x # w
      BY <1>1, <1>4, <3>2
    <3> QED BY <3>1, <3>2
  <2>2. \A s \in Members(prefillQ[x]) : s \in Requests /\ req'[s] = req[s]
    <3>1. Members(prefillQ[x]) \subseteq Requests
      BY BatchMembers
    <3>2. CASE x = w
      BY <1>4, <3>1, <3>2
    <3>3. CASE x # w
      <4>1. Members(prefillQ[x]) \cap Members(prefillQ[w]) = {}
        BY <3>3 DEF ChunkInv, OnePlace
      <4> QED BY <1>2, <3>1, <4>1
    <3> QED BY <3>2, <3>3
  <2>3. Chunk'[r] = Chunk[r]
    BY <2>1, <2>2 DEF Chunk
  <2> QED BY <1>4, <2>1, <2>2, <2>3, StillFitsInQueue
<1>5. ChunksFit'
  BY <1>1, <1>3, <1>4 DEF ChunksFit
<1> QED BY <1>5 DEF TokenInv

LEMMA BeginPrefillTokens ==
    ASSUME ChunkInv, TokenInv, NEW w, BeginPrefill(w)
    PROVE  TokenInv'
<1>1. w \in Workers
  BY DEF BeginPrefill, CanRun
<1>2. PICK k \in 0..Len(prefillQ[w]), tokens \in Nat, batch \in SUBSET Requests :
             /\ batch = Members(SubSeq(prefillQ[w], 1, k))
             /\ StartBatch(w, k, IF chunked THEN EnterDecodes(w, tokens) ELSE 0)
             /\ req' \in [Requests -> Limits]
             /\ \A r \in Requests \ batch : req'[r] = req[r]
             /\ ~IsFirst(w) => req' = req
             /\ TokensOf(batch)' \in Nat /\ TokensOf(batch)' + tokens <= PrefillMaxTokens
  BY PrefillStarts
<1>3. TokensOf(batch)' <= PrefillMaxTokens
  BY <1>2, SimulatorAssumption
<1> QED BY <1>1, <1>2, <1>3, StartTokens

LEMMA BeginDecodeTokens ==
    ASSUME ChunkInv, TokenInv, NEW w, BeginDecode(w)
    PROVE  TokenInv'
<1>1. w \in Workers /\ StartBatch(w, 0, EnterDecodes(w, DecodeMaxTokens)) /\ req' = req
  BY DEF BeginDecode, CanRun
<1>2. 0 \in 0..Len(prefillQ[w]) /\ Members(SubSeq(prefillQ[w], 1, 0)) = {}
  <2>1. prefillQ[w] \in Seq(Requests)
    BY <1>1 DEF ChunkInv, SimType
  <2>2. Len(prefillQ[w]) \in Nat /\ SubSeq(prefillQ[w], 1, 0) = <<>>
    BY <2>1
  <2> QED BY <2>2 DEF Members
<1>3. TokensOf({})' <= PrefillMaxTokens
  BY <1>1, TokensOfNobody, SimulatorAssumption DEF TokensOf
<1>4. PICK batch : batch = {}
  OBVIOUS
<1>5. TokensOf(batch)' <= PrefillMaxTokens
  BY <1>3, <1>4 DEF TokensOf
<1>6. req' \in [Requests -> Limits] /\ \A r \in Requests \ batch : req'[r] = req[r]
  BY <1>1 DEF TokenInv
<1>7. batch = Members(SubSeq(prefillQ[w], 1, 0))
  BY <1>2, <1>4
<1> QED BY <1>1, <1>2, <1>5, <1>6, <1>7, StartTokens

(* What the end of an iteration does to the requests of its batch. *)
LEMMA FinishCounts ==
    ASSUME TokenInv, NEW w, Finish(w)
    PROVE  /\ req' \in [Requests -> Limits]
           /\ \A r \in Requests :
                /\ req'[r].remain = req[r].remain
                /\ r \notin Members(Batch(w)) \/ ~IsLast(w) => req'[r].current = req[r].current
                /\ req'[r].counter =
                     IF ~IsLast(w) THEN req[r].counter
                     ELSE IF r \in Members(Batch(w))
                          THEN IF req[r].remain = 0 THEN 0 ELSE req[r].counter
                     ELSE IF r \in Members(running[w].decode) THEN req[r].counter + 1
                     ELSE req[r].counter
<1> DEFINE prefills == Members(running[w].prefill)
           decodes  == Members(running[w].decode)
<1>1. req' = [r \in Requests |-> IF r \in prefills THEN AfterPrefill(w, r)
                                 ELSE IF r \in decodes THEN AfterDecode(w, r)
                                 ELSE req[r]]
  BY DEF Finish
<1>2. prefills = Members(Batch(w))
  BY DEF Batch
<1> HIDE DEF prefills, decodes
<1>3. ASSUME NEW r \in Requests
      PROVE  /\ req'[r] \in Limits
             /\ req'[r].remain = req[r].remain
             /\ r \notin prefills \/ ~IsLast(w) => req'[r].current = req[r].current
             /\ req'[r].counter =
                  IF ~IsLast(w) THEN req[r].counter
                  ELSE IF r \in prefills
                       THEN IF req[r].remain = 0 THEN 0 ELSE req[r].counter
                  ELSE IF r \in decodes THEN req[r].counter + 1
                  ELSE req[r].counter
  <2>1. req[r] \in Limits
    BY DEF TokenInv
  <2>2. req[r] = [remain |-> req[r].remain, current |-> req[r].current,
                  counter |-> req[r].counter, chunk |-> req[r].chunk]
    BY <2>1 DEF Limits
  <2>3. CASE r \in prefills /\ IsLast(w)
    <3>1. req'[r] = [req[r] EXCEPT !.chunk = {}, !.current = 0,
                          !.counter = IF req[r].remain = 0 THEN 0 ELSE @]
      BY <1>1, <2>3 DEF AfterPrefill, Prefilled
    <3>2. req'[r] = [remain |-> req[r].remain, current |-> 0,
                     counter |-> IF req[r].remain = 0 THEN 0 ELSE req[r].counter,
                     chunk |-> {}]
      BY <2>2, <3>1
    <3> QED BY <2>1, <2>3, <3>2 DEF Limits
  <2>4. CASE r \notin prefills /\ r \in decodes /\ IsLast(w)
    <3>1. req'[r] = [req[r] EXCEPT !.counter = @ + 1]
      BY <1>1, <2>4 DEF AfterDecode
    <3>2. req'[r] = [remain |-> req[r].remain, current |-> req[r].current,
                     counter |-> req[r].counter + 1, chunk |-> req[r].chunk]
      BY <2>2, <3>1
    <3> QED BY <2>1, <2>4, <3>2 DEF Limits
  <2>5. CASE (r \notin prefills /\ r \notin decodes) \/ ~IsLast(w)
    <3>1. req'[r] = req[r]
      BY <1>1, <2>5 DEF AfterPrefill, AfterDecode
    <3> QED BY <2>1, <2>5, <3>1
  <2> QED BY <2>3, <2>4, <2>5
<1>4. req' \in [Requests -> Limits]
  BY <1>1, <1>3
<1> QED BY <1>2, <1>3, <1>4 DEF decodes

LEMMA FinishTokens ==
    ASSUME ChunkInv, TokenInv, NEW w, Finish(w)
    PROVE  TokenInv'
<1> DEFINE v == NextWorker(w)
<1>1. PICK s \in Seq(Requests) :
             /\ Members(s) \subseteq Members(Batch(w))
             /\ \A x \in Workers : prefillQ'[x] = IF x = v THEN prefillQ[x] \o s
                                                  ELSE prefillQ[x]
             /\ w \in Workers
             /\ \A x \in Workers : Batch(x)' = IF x = w THEN <<>> ELSE Batch(x)
  BY FinishMoves
<1> HIDE DEF v
<1>2. /\ req' \in [Requests -> Limits]
      /\ \A r \in Requests : r \notin Members(Batch(w)) \/ ~IsLast(w) =>
            req'[r].current = req[r].current
  BY FinishCounts
<1>3. \A r \in Requests : r \notin Members(Batch(w)) \/ ~IsLast(w) => Chunk'[r] = Chunk[r]
  BY FinishRequests
<1>4. UNCHANGED cluster
  BY DEF Finish
<1>5. Workers' = Workers /\ \A x : IsFirst(x)' = IsFirst(x)
  BY <1>4, SameWorkers
<1>6. ASSUME NEW x \in Workers PROVE TokensOf(Members(Batch(x)))' <= PrefillMaxTokens
  <2>1. CASE x = w
    <3>1. Members(Batch(x))' = {}
      BY <1>1, <2>1 DEF Members
    <3>2. TokensOf({})' <= PrefillMaxTokens
      BY SumEmpty, SimulatorAssumption DEF TokensOf
    <3> QED BY <3>1, <3>2 DEF TokensOf
  <2>2. CASE x # w
    <3>1. \A r \in Members(Batch(x)) : r \in Requests /\ r \notin Members(Batch(w))
      <4>1. Members(Batch(w)) \cap Members(Batch(x)) = {}
        BY <1>1, <2>2 DEF ChunkInv, OnePlace
      <4> QED BY <4>1, BatchMembers
    <3> QED BY <1>1, <1>2, <2>2, <3>1, StillFits
  <2> QED BY <2>1, <2>2
<1>7. ASSUME NEW x \in Workers, ~IsFirst(x), NEW r \in Members(prefillQ'[x])
      PROVE  TokensOf(Chunk[r])' <= PrefillMaxTokens
  <2>1. CASE r \in Members(prefillQ[x])
    <3>1. \A t \in Members(prefillQ[x]) : t \in Requests /\ t \notin Members(Batch(w))
      <4>1. Members(prefillQ[x]) \cap Members(Batch(w)) = {}
        BY <1>1 DEF ChunkInv, OnePlace
      <4> QED BY <4>1, BatchMembers
    <3> QED BY <1>2, <1>3, <1>7, <2>1, <3>1, StillFitsInQueue
  <2>2. CASE r \notin Members(prefillQ[x])
    <3>1. x = v
      BY <1>1, <1>7, <2>2
    <3>2. ~IsLast(w)
      BY <1>1, <1>7, <3>1, RingCloses DEF v, ChunkInv, SimType
    <3>3. r \in Members(Batch(w))
      <4>1. prefillQ[x] \in Seq(Requests)
        BY DEF ChunkInv, SimType
      <4>2. Members(prefillQ[x] \o s) = Members(prefillQ[x]) \cup Members(s)
        BY <4>1, MembersOfConcat
      <4> QED BY <1>1, <1>7, <2>2, <3>1, <4>2
    <3>4. PICK C : C = Members(Batch(w))
      OBVIOUS
    <3>5. C \subseteq Requests /\ r \in Requests
      BY <1>1, <3>3, <3>4, BatchMembers
    <3>6. Chunk'[r] = C
      BY <1>1, <1>3, <3>2, <3>3, <3>4, <3>5 DEF ChunkInv, BatchesAreChunks
    <3>7. TokensOf(C)' = TokensOf(C)
      BY <1>2, <3>2, <3>5, SameTokens
    <3>8. TokensOf(C) <= PrefillMaxTokens
      BY <1>1, <3>4 DEF TokenInv, ChunksFit
    <3> QED BY <3>6, <3>7, <3>8 DEF TokensOf
  <2> QED BY <2>1, <2>2
<1>8. ChunksFit'
  BY <1>5, <1>6, <1>7 DEF ChunksFit
<1> QED BY <1>2, <1>8 DEF TokenInv

LEMMA SimInvAlways == SimSpec => [](ChunkInv /\ TokenInv)
<1> DEFINE I == ChunkInv /\ TokenInv
<1>1. SimInit => I
  BY SimInitInv, TokenInit
<1>2. I /\ [SimNext]_simVars => I'
  <2> SUFFICES ASSUME ChunkInv, TokenInv, [SimNext]_simVars PROVE TokenInv' /\ ChunkInv'
    OBVIOUS
  <2>1. CASE \E r \in Requests : Arrive(r)
    BY <2>1, ArriveInv, ArriveTokens
  <2>2. ASSUME NEW w \in AllWorkers,
               BeginPrefill(w) \/ BeginDecode(w) \/ FallAsleep(w) \/ Finish(w)
        PROVE  TokenInv' /\ ChunkInv'
    <3>1. CASE FallAsleep(w)
      <4>1. UNCHANGED <<cluster, req, prefillQ, running>>
        BY <3>1 DEF FallAsleep
      <4>2. Workers' = Workers /\ \A x : IsFirst(x)' = IsFirst(x) /\ Batch(x)' = Batch(x)
        BY <4>1, SameWorkers DEF Batch
      <4>3. ChunksFit'
        BY <4>1, <4>2 DEF TokenInv, ChunksFit, TokensOf, Chunk
      <4> QED BY <3>1, <4>1, <4>3, FallAsleepInv DEF TokenInv
    <3> QED BY <2>2, <3>1, BeginPrefillInv, BeginDecodeInv, FinishInv,
               BeginPrefillTokens, BeginDecodeTokens, FinishTokens
  <2>3. CASE UNCHANGED simVars
    <3>1. UNCHANGED <<cluster, arrived, req, prefillQ, running>>
      BY <2>3 DEF simVars
    <3>2. DOMAIN running' = Workers /\ \A x \in Workers : Batch(x)' = Batch(x)
      BY <3>1 DEF ChunkInv, SimType, Batch
    <3>3. Workers' = Workers /\ \A x : IsFirst(x)' = IsFirst(x) /\ Batch(x)' = Batch(x)
      BY <3>1, SameWorkers DEF Batch
    <3>4. ChunksFit'
      BY <3>1, <3>3 DEF TokenInv, ChunksFit, TokensOf, Chunk
    <3> QED BY <3>1, <3>2, <3>4, SamePrefills DEF TokenInv
  <2> QED BY <2>1, <2>2, <2>3 DEF SimNext
<1> QED BY <1>1, <1>2, PTL DEF SimSpec

-----------------------------------------------------------------------------
(* Where the requests are.  Every one that has arrived and not exited is   *)
(* in one queue or batch of one worker.                                    *)
Kinds == {"prefillQ", "prefill", "decodeQ", "decode"}
Held(w, k) ==
    IF k = "prefillQ" THEN prefillQ[w]
    ELSE IF k = "prefill" THEN running[w].prefill
    ELSE IF k = "decodeQ" THEN decodeQ[w] ELSE running[w].decode
Inside == arrived \ exited

Placed(place) ==
    /\ place \in [Inside -> Workers \X Kinds]
    /\ \A w \in Workers, k \in Kinds :
         /\ Held(w, k) \in Seq(Requests) /\ Distinct(Held(w, k))
         /\ \A r : r \in Members(Held(w, k)) <=> r \in Inside /\ place[r] = <<w, k>>

RingType ==
    /\ arrived \subseteq Requests /\ exited \subseteq arrived
    /\ decodeQ \in [Workers -> Seq(Requests)]
    /\ running \in [Workers -> [prefill: Seq(Requests), decode: Seq(Requests)]]
    /\ DOMAIN state = Workers

(* A request is still to prefill, or prefilled and to decode, as the place *)
(* that it has reached says.                                               *)
SimulatedInFull == \A r \in exited : req[r].counter = OutputLen[r] /\ req[r].remain = 0
CountsFit ==
    /\ \A r \in Requests \ arrived : req[r].counter < 0
    /\ \A w \in Workers :
         /\ \A r \in Members(prefillQ[w]) \cup Members(Batch(w)) : req[r].counter < 0
         /\ \A r \in Members(decodeQ[w]) \cup Members(running[w].decode) :
              req[r].counter \in 0..(OutputLen[r] - 1) /\ req[r].remain = 0
    /\ SimulatedInFull

BatchOnlyIfBusy ==
    \A w \in Workers :
        state[w] # "busy" => running[w].prefill = <<>> /\ running[w].decode = <<>>

(* Whoever sleeps has nothing to do. *)
NoWakeupLost ==
    \A w \in Workers : state[w] = "asleep" => prefillQ[w] = <<>> /\ decodeQ[w] = <<>>

(* What is asked of the profiles: an iteration that prefills has no more   *)
(* tokens than the prefill budget, its decodes counted, one that does not  *)
(* no more requests than the decode budget.                                *)
TokensBounded ==
    \A w \in Workers :
        \/ TokensOf(Members(Batch(w))) + Len(running[w].decode) <= PrefillMaxTokens
        \/ Batch(w) = <<>> /\ Len(running[w].decode) <= DecodeMaxTokens

RingInv == /\ RingType /\ (\E place : Placed(place)) /\ CountsFit
           /\ BatchOnlyIfBusy /\ NoWakeupLost /\ TokensBounded

(* The ring is closed. *)
LEMMA NotTheEnd ==
    ASSUME NEW d \in Nat \ {0}, NEW n \in Nat, NEW u \in Nat, u < d * n, u % d # d - 1
    PROVE  u + 1 < d * n
<1> DEFINE q == u \div d
           r == u % d
<1>1. q \in Nat /\ r \in 0..(d - 1) /\ u = d * q + r
  BY DivMod
<1> HIDE DEF q
<1>2. r # d - 1
  OBVIOUS
<1> HIDE DEF r
<1>3. d * q \in Nat /\ d * n \in Nat
  BY <1>1
<1>4. CASE q + 1 <= n
  <2>1. d * q + d <= d * n
    BY <1>1, <1>4, TimesStep
  <2> QED BY <1>1, <1>2, <1>3, <2>1
<1>5. CASE n <= q
  <2>1. d * n <= d * q
    BY <1>1, <1>5, TimesMonotone
  <2> QED BY <1>1, <1>3, <2>1
<1> QED BY <1>1, <1>4, <1>5

LEMMA NextIsWorker ==
    ASSUME cluster \in Clusters, NEW w \in Workers
    PROVE  NextWorker(w) \in Workers
<1> DEFINE a == cluster.prefill
           b == cluster.ppPrefill
           e == cluster.decode
           f == cluster.ppDecode
           m == PrefillWorkers
<1>1. a \in Nat \ {0} /\ b \in Nat \ {0} /\ e \in Nat /\ f \in Nat \ {0}
  BY SimulatorAssumption
<1>2. m = b * a /\ m \in Nat /\ f * e \in Nat /\ Workers = 0..(m + f * e - 1)
  <2>1. m = a * b /\ Workers = 0..(m + e * f - 1)
    BY DEF PrefillWorkers, Workers
  <2> HIDE DEF m
  <2>2. a * b = b * a /\ e * f = f * e /\ b * a \in Nat /\ f * e \in Nat
    BY <1>1
  <2> QED BY <2>1, <2>2
<1>3. /\ Rank(w) = IF w < m THEN w % b ELSE (w - m) % f
      /\ Stages(w) = IF w < m THEN b ELSE f
      /\ NextWorker(w) = IF Rank(w) = Stages(w) - 1 THEN w - Rank(w) ELSE w + 1
  BY DEF Rank, Stages, NextWorker, IsLast
<1> HIDE DEF a, b, e, f, m
<1>4. w \in Nat /\ w < m + f * e
  BY <1>2
<1>5. CASE w < m
  <2>1. w % b \in 0..(b - 1) /\ w % b <= w
    <3>1. w \div b \in Nat /\ w % b \in 0..(b - 1) /\ w = b * (w \div b) + (w % b)
      BY <1>1, <1>4, DivMod
    <3>2. b * (w \div b) \in Nat
      BY <1>1, <3>1
    <3> QED BY <3>1, <3>2
  <2>2. CASE w % b = b - 1
    BY <1>1, <1>2, <1>3, <1>4, <1>5, <2>1, <2>2
  <2>3. CASE w % b # b - 1
    <3>1. w + 1 < b * a
      BY <1>1, <1>2, <1>4, <1>5, <2>3, NotTheEnd
    <3> QED BY <1>2, <1>3, <1>4, <1>5, <2>3, <3>1
  <2> QED BY <2>2, <2>3
<1>6. CASE ~(w < m)
  <2> DEFINE u == w - m
  <2>1. u \in Nat /\ u < f * e
    BY <1>2, <1>4, <1>6
  <2>2. u % f \in 0..(f - 1) /\ u % f <= u
    <3> HIDE DEF u
    <3>1. u \div f \in Nat /\ u % f \in 0..(f - 1) /\ u = f * (u \div f) + (u % f)
      BY <1>1, <2>1, DivMod
    <3>2. f * (u \div f) \in Nat
      BY <1>1, <3>1
    <3> QED BY <2>1, <3>1, <3>2
  <2>3. CASE u % f = f - 1
    BY <1>1, <1>2, <1>3, <1>4, <1>6, <2>2, <2>3
  <2>4. CASE u % f # f - 1
    <3>1. u + 1 < f * e
      <4> HIDE DEF u
      <4> QED BY <1>1, <2>1, <2>4, NotTheEnd
    <3> QED BY <1>2, <1>3, <1>4, <1>6, <2>1, <2>4, <3>1
  <2> QED BY <2>3, <2>4
<1> QED BY <1>5, <1>6

(* A first worker of a decode instance, if there is one. *)
LEMMA DecodeHeadExists ==
    ASSUME cluster \in Clusters, ~IsVLLM
    PROVE  DecodeHeads \subseteq Workers /\ DecodeHeads # {}
<1>1. /\ cluster.decode \in Nat \ {0} /\ cluster.ppDecode \in Nat \ {0}
      /\ PrefillWorkers \in Nat \ {0}
  BY SimulatorAssumption, ClusterType DEF IsVLLM
<1>2. cluster.decode * cluster.ppDecode \in Nat \ {0}
  <2> DEFINE e == cluster.decode
             f == cluster.ppDecode
  <2>1. f * 0 + f <= f * e
    <3>1. e \in Nat /\ f \in Nat \ {0} /\ 0 + 1 <= e
      BY <1>1
    <3> HIDE DEF e, f
    <3> QED BY <3>1, TimesStep
  <2>2. e \in Nat /\ f \in Nat \ {0}
    BY <1>1
  <2> HIDE DEF e, f
  <2>3. e * f \in Nat \ {0}
    BY <2>1, <2>2
  <2> QED BY <2>3 DEF e, f
<1>3. PrefillWorkers \in Workers
  BY <1>1, <1>2 DEF Workers
<1>4. IsFirst(PrefillWorkers)
  <2>1. 0 % cluster.ppDecode = 0
    <3>1. cluster.ppDecode * 0 = 0
      BY <1>1
    <3> QED BY <1>1, <3>1, MultipleRemainder
  <2> QED BY <1>1, <2>1 DEF IsFirst, Rank
<1>5. PrefillWorkers \in DecodeHeads
  BY <1>1, <1>3, <1>4 DEF DecodeHeads
<1>6. DecodeHeads \subseteq Workers
  BY DEF DecodeHeads
<1> QED BY <1>5, <1>6

(* As many decodes enter as there are and as there are tokens left for. *)
LEMMA EnterInRange ==
    ASSUME NEW w, decodeQ[w] \in Seq(Requests), NEW tokens \in Nat
    PROVE  EnterDecodes(w, tokens) \in 0..Len(decodeQ[w]) /\ EnterDecodes(w, tokens) <= tokens
<1> DEFINE q == decodeQ[w]
           need == [r \in Requests |-> ContextLen(r) + 1]
           ok(i) == SumOver(need, Members(SubSeq(q, 1, i))) <= ContextCap
           n == AtMost(tokens, q)
           G == {i \in Int : ok(i)}
           Fits(k) == (\A i \in 1..k : ok(i)) /\ (k < n => ~ok(k + 1))
<1>1. n \in Nat /\ n <= Len(q) /\ n <= tokens /\ Len(q) \in Nat
  <2>1. Len(q) \in Nat
    OBVIOUS
  <2> QED BY <2>1 DEF AtMost
<1>2. EnterDecodes(w, tokens) = CHOOSE k \in 0..n : Fits(k)
  BY DEF EnterDecodes, Longest
<1> HIDE DEF n, ok
<1>3. \E k \in 0..n : Fits(k)
  <2>1. PICK k \in 0..n : (\A i \in 1..k : i \in G) /\ (k < n => k + 1 \notin G)
    <3> HIDE DEF G
    <3> QED BY <1>1, LongestExists
  <2>2. \A i \in 1..k : ok(i)
    BY <2>1
  <2>3. k + 1 \in Int
    OBVIOUS
  <2>4. k < n => ~ok(k + 1)
    BY <2>1, <2>3
  <2> QED BY <2>2, <2>4
<1> HIDE DEF Fits, q
<1>4. EnterDecodes(w, tokens) \in 0..n
  BY <1>2, <1>3
<1> QED BY <1>1, <1>4 DEF q

(* A queue in two. *)
LEMMA SplitQueue ==
    ASSUME NEW S, NEW q \in Seq(S), Distinct(q), NEW k \in 0..Len(q)
    PROVE  LET a == SubSeq(q, 1, k)
               b == SubSeq(q, k + 1, Len(q))
           IN  /\ a \in Seq(S) /\ b \in Seq(S) /\ Distinct(a) /\ Distinct(b) /\ Len(a) = k
               /\ \A r : /\ r \in Members(q) <=> r \in Members(a) \/ r \in Members(b)
                         /\ ~(r \in Members(a) /\ r \in Members(b))
<1> DEFINE a == SubSeq(q, 1, k)
           b == SubSeq(q, k + 1, Len(q))
<1>1. Len(q) \in Nat /\ 1 \in 1..(Len(q) + 1) /\ k + 1 \in 1..(Len(q) + 1) /\ Len(q) \in 0..Len(q)
  OBVIOUS
<1>2. a \in Seq(S) /\ Distinct(a) /\ Members(a) = {q[i] : i \in 1..k}
  BY <1>1, MembersOfSlice
<1>3. b \in Seq(S) /\ Distinct(b) /\ Members(b) = {q[i] : i \in (k + 1)..Len(q)}
  BY <1>1, MembersOfSlice
<1>4. Len(a) = k
  BY <1>1
<1> HIDE DEF a, b
<1>5. ASSUME NEW r \in Members(a), r \in Members(b) PROVE FALSE
  <2>1. PICK i \in 1..k, j \in (k + 1)..Len(q) : q[i] = r /\ q[j] = r
    BY <1>2, <1>3, <1>5
  <2>2. i \in 1..Len(q) /\ j \in 1..Len(q) /\ i # j
    BY <1>1
  <2> QED BY <2>1, <2>2 DEF Distinct
<1>6. Members(q) = Members(a) \cup Members(b)
  <2>1. \A i \in 1..Len(q) : i \in 1..k \/ i \in (k + 1)..Len(q)
    BY <1>1
  <2>2. /\ \A i \in 1..k : i \in 1..Len(q)
        /\ \A i \in (k + 1)..Len(q) : i \in 1..Len(q)
    BY <1>1
  <2> QED BY <1>2, <1>3, <2>1, <2>2 DEF Members
<1> QED BY <1>2, <1>3, <1>4, <1>5, <1>6 DEF a, b

LEMMA HeldIs ==
    \A w : /\ Held(w, "prefillQ") = prefillQ[w] /\ Held(w, "prefill") = running[w].prefill
           /\ Held(w, "decodeQ") = decodeQ[w] /\ Held(w, "decode") = running[w].decode
BY DEF Held

(* Nobody is in two places. *)
LEMMA Elsewhere ==
    ASSUME NEW place, Placed(place), NEW w \in Workers, NEW x \in Workers,
           NEW k \in Kinds, NEW l \in Kinds, NEW r \in Members(Held(w, k)),
           r \in Members(Held(x, l))
    PROVE  w = x /\ k = l /\ r \in Inside /\ r \in Requests
<1>1. place[r] = <<w, k>> /\ place[r] = <<x, l>> /\ r \in Inside
  BY DEF Placed
<1>2. Held(w, k) \in Seq(Requests)
  BY DEF Placed
<1>3. r \in Requests
  BY <1>2, ElementOfSeq DEF Members
<1> QED BY <1>1, <1>3

(* Whoever falls asleep moves nobody. *)
LEMMA RingSame ==
    ASSUME UNCHANGED <<cluster, arrived, req, exited, prefillQ, decodeQ, running>>
    PROVE  /\ (\E place : Placed(place)) => (\E place : Placed(place))'
           /\ CountsFit => CountsFit'
           /\ TokensBounded => TokensBounded'
<1>1. Workers' = Workers /\ \A x : Batch(x)' = Batch(x)
  BY SameWorkers DEF Batch
<1>2. Inside' = Inside /\ \A x, l : Held(x, l)' = Held(x, l)
  BY DEF Inside, Held
<1>3. ASSUME NEW place, Placed(place) PROVE Placed(place)'
  BY <1>1, <1>2, <1>3 DEF Placed
<1>4. CountsFit => CountsFit'
  BY <1>1 DEF CountsFit, SimulatedInFull
<1>5. TokensBounded => TokensBounded'
  BY <1>1 DEF TokensBounded, TokensOf
<1> QED BY <1>3, <1>4, <1>5

LEMMA RingInit == SimInit => RingInv
<1> SUFFICES ASSUME SimInit PROVE RingInv
  OBVIOUS
<1>1. /\ arrived = {} /\ exited = {} /\ req = [r \in Requests |-> NewRequest(r)]
      /\ prefillQ = [w \in Workers |-> <<>>] /\ decodeQ = [w \in Workers |-> <<>>]
      /\ running = [w \in Workers |-> [prefill |-> <<>>, decode |-> <<>>]]
      /\ state = [w \in Workers |-> "loop"]
  BY DEF SimInit
<1>2. Members(<<>>) = {} /\ Distinct(<<>>) /\ <<>> \in Seq(Requests) /\ Len(<<>>) = 0
  BY DEF Members, Distinct
<1>3. \A w \in Workers : /\ prefillQ[w] = <<>> /\ decodeQ[w] = <<>> /\ Batch(w) = <<>>
                         /\ running[w].decode = <<>> /\ running[w].prefill = <<>>
                         /\ state[w] = "loop"
  BY <1>1 DEF Batch
<1>4. RingType
  BY <1>1, <1>2 DEF RingType
<1>5. \E place : Placed(place)
  <2> DEFINE place == [r \in {} |-> r]
  <2>1. Inside = {}
    BY <1>1 DEF Inside
  <2>2. \A w \in Workers, k \in Kinds : Held(w, k) = <<>>
    BY <1>3 DEF Held
  <2>3. place \in [Inside -> Workers \X Kinds]
    BY <2>1
  <2> HIDE DEF place
  <2>4. Placed(place)
    BY <1>2, <2>1, <2>2, <2>3 DEF Placed
  <2> QED BY <2>4
<1>6. CountsFit
  BY <1>1, <1>2, <1>3 DEF CountsFit, SimulatedInFull, NewRequest
<1>7. BatchOnlyIfBusy /\ NoWakeupLost
  BY <1>3 DEF BatchOnlyIfBusy, NoWakeupLost
<1>8. TokensBounded
  BY <1>2, <1>3, SimulatorAssumption DEF TokensBounded
<1> QED BY <1>4, <1>5, <1>6, <1>7, <1>8 DEF RingInv

LEMMA ArriveRing ==
    ASSUME ChunkInv, RingInv, NEW r \in Requests, Arrive(r)
    PROVE  RingInv'
<1> DEFINE v == Best(PrefillHeads, prefillQ)
<1>1. /\ r \notin arrived /\ arrived' = arrived \cup {r}
      /\ prefillQ' = [prefillQ EXCEPT ![v] = Append(@, r)]
      /\ state' = Wake({v})
      /\ UNCHANGED <<cluster, req, exited, decodeQ, running>>
  BY DEF Arrive
<1>2. v \in Workers
  BY BestIsFirst DEF ChunkInv
<1> HIDE DEF v
<1>3. Workers' = Workers
  BY <1>1, SameWorkers
<1>4. /\ prefillQ \in [Workers -> Seq(Requests)]
      /\ \A w \in Workers : prefillQ'[w] = IF w = v THEN Append(prefillQ[w], r) ELSE prefillQ[w]
  BY <1>1, <1>2 DEF ChunkInv, SimType
<1>5. RingType'
  BY <1>1, <1>3 DEF RingInv, RingType, Wake
<1>6. /\ \A w \in Workers : Members(prefillQ'[w]) \subseteq Members(prefillQ[w]) \cup {r}
      /\ \A w : Batch(w)' = Batch(w)
  <2>1. \A w \in Workers : prefillQ[w] \in Seq(Requests)
    BY <1>4
  <2>2. \A w \in Workers : Members(Append(prefillQ[w], r)) = Members(prefillQ[w]) \cup {r}
    BY <2>1, MembersOfAppend
  <2> QED BY <1>1, <1>4, <2>2 DEF Batch
<1>7. (\E place : Placed(place))'
  <2>1. PICK place : Placed(place)
    BY DEF RingInv
  <2>0. PICK p : p = [x \in Inside \cup {r} |-> IF x = r THEN <<v, "prefillQ">> ELSE place[x]]
    OBVIOUS
  <2>2. Inside' = Inside \cup {r} /\ r \notin Inside
    BY <1>1 DEF Inside, RingInv, RingType
  <2>3. p \in [Inside' -> Workers' \X Kinds]
    BY <1>2, <1>3, <2>0, <2>1, <2>2 DEF Placed, Kinds
  <2>4. ASSUME NEW w \in Workers, NEW k \in Kinds
        PROVE  /\ Held(w, k)' \in Seq(Requests) /\ Distinct(Held(w, k)')
               /\ \A x : x \in Members(Held(w, k)') <=> x \in Inside' /\ p[x] = <<w, k>>
    <3>1. /\ Held(w, k) \in Seq(Requests) /\ Distinct(Held(w, k))
          /\ \A x : x \in Members(Held(w, k)) <=> x \in Inside /\ place[x] = <<w, k>>
      BY <2>1 DEF Placed
    <3>2. CASE w = v /\ k = "prefillQ"
      <4>1. Held(w, k)' = Append(Held(w, k), r)
        BY <1>4, <3>2 DEF Held
      <4>2. /\ Append(Held(w, k), r) \in Seq(Requests)
            /\ Members(Append(Held(w, k), r)) = Members(Held(w, k)) \cup {r}
            /\ Distinct(Append(Held(w, k), r))
        BY <2>2, <3>1, MembersOfAppend
      <4> QED BY <2>0, <2>2, <3>1, <3>2, <4>1, <4>2
    <3>3. CASE ~(w = v /\ k = "prefillQ")
      <4>1. Held(w, k)' = Held(w, k)
        BY <1>1, <1>4, <3>3 DEF Held
      <4> QED BY <2>0, <2>2, <3>1, <3>3, <4>1
    <3> QED BY <3>2, <3>3
  <2>5. Placed(p)'
    BY <1>3, <2>3, <2>4 DEF Placed
  <2> QED BY <2>5
<1>8. CountsFit'
  BY <1>1, <1>3, <1>6 DEF RingInv, CountsFit, SimulatedInFull
<1>9. NoWakeupLost'
  <2> SUFFICES ASSUME NEW w \in Workers, state'[w] = "asleep"
               PROVE  prefillQ'[w] = <<>> /\ decodeQ'[w] = <<>>
    BY <1>3 DEF NoWakeupLost
  <2>1. state[w] = "asleep" /\ w # v
    BY <1>1 DEF Wake
  <2> QED BY <1>1, <1>4, <2>1 DEF RingInv, NoWakeupLost
<1>10. BatchOnlyIfBusy'
  <2>1. \A w \in Workers : state[w] = "busy" => state'[w] = "busy"
    BY <1>1 DEF Wake
  <2> QED BY <1>1, <1>3, <2>1 DEF RingInv, BatchOnlyIfBusy
<1>11. TokensBounded'
  BY <1>1, <1>3, <1>6 DEF RingInv, TokensBounded, TokensOf
<1> QED BY <1>5, <1>7, <1>8, <1>9, <1>10, <1>11 DEF RingInv

LEMMA StartRing ==
    ASSUME ChunkInv, TokenInv, RingInv, NEW w \in Workers, state[w] # "busy",
           NEW k \in 0..Len(prefillQ[w]), NEW d \in 0..Len(decodeQ[w]), StartBatch(w, k, d),
           req' \in [Requests -> Limits],
           NEW batch, batch = Members(SubSeq(prefillQ[w], 1, k)),
           \A r \in Requests : req'[r].counter = req[r].counter,
           \A r \in Requests \ batch : req'[r] = req[r],
           \/ TokensOf(batch)' + d <= PrefillMaxTokens
           \/ k = 0 /\ d <= DecodeMaxTokens
    PROVE  RingInv'
<1> DEFINE pa == SubSeq(prefillQ[w], 1, k)
           pb == SubSeq(prefillQ[w], k + 1, Len(prefillQ[w]))
           da == SubSeq(decodeQ[w], 1, d)
           db == SubSeq(decodeQ[w], d + 1, Len(decodeQ[w]))
<1>1. /\ running' = [running EXCEPT ![w] = [prefill |-> pa, decode |-> da]]
      /\ prefillQ' = [prefillQ EXCEPT ![w] = pb]
      /\ decodeQ' = [decodeQ EXCEPT ![w] = db]
      /\ state' = [state EXCEPT ![w] = "busy"]
      /\ UNCHANGED <<cluster, arrived, exited>>
  BY DEF StartBatch
<1>2. PICK place : Placed(place)
  BY DEF RingInv
<1>3. /\ prefillQ[w] \in Seq(Requests) /\ Distinct(prefillQ[w])
      /\ decodeQ[w] \in Seq(Requests) /\ Distinct(decodeQ[w])
  BY <1>2, HeldIs DEF Placed, Kinds
<1>4. /\ pa \in Seq(Requests) /\ pb \in Seq(Requests) /\ Distinct(pa) /\ Distinct(pb)
      /\ Len(pa) = k
      /\ \A r : /\ r \in Members(prefillQ[w]) <=> r \in Members(pa) \/ r \in Members(pb)
                /\ ~(r \in Members(pa) /\ r \in Members(pb))
  BY <1>3, SplitQueue
<1>5. /\ da \in Seq(Requests) /\ db \in Seq(Requests) /\ Distinct(da) /\ Distinct(db)
      /\ Len(da) = d
      /\ \A r : /\ r \in Members(decodeQ[w]) <=> r \in Members(da) \/ r \in Members(db)
                /\ ~(r \in Members(da) /\ r \in Members(db))
  BY <1>3, SplitQueue
<1>6. batch = Members(pa)
  OBVIOUS
<1> HIDE DEF pa, pb, da, db
<1>7. running[w].prefill = <<>> /\ running[w].decode = <<>> /\ Members(<<>>) = {}
  BY DEF RingInv, BatchOnlyIfBusy, Members
<1>8. Workers' = Workers
  BY <1>1, SameWorkers
<1>9. /\ prefillQ \in [Workers -> Seq(Requests)] /\ decodeQ \in [Workers -> Seq(Requests)]
      /\ running \in [Workers -> [prefill: Seq(Requests), decode: Seq(Requests)]]
      /\ DOMAIN state = Workers
  BY DEF ChunkInv, SimType, RingInv, RingType
<1>10. /\ prefillQ'[w] = pb /\ decodeQ'[w] = db
       /\ running'[w] = [prefill |-> pa, decode |-> da] /\ state'[w] = "busy"
       /\ \A x \in Workers \ {w} : /\ prefillQ'[x] = prefillQ[x] /\ decodeQ'[x] = decodeQ[x]
                                   /\ running'[x] = running[x] /\ state'[x] = state[x]
  BY <1>1, <1>9
<1>11. /\ Held(w, "prefillQ")' = pb /\ Held(w, "prefill")' = pa
       /\ Held(w, "decodeQ")' = db /\ Held(w, "decode")' = da
       /\ \A x \in Workers \ {w}, l \in Kinds : Held(x, l)' = Held(x, l)
  BY <1>10 DEF Held
<1>12. RingType'
  BY <1>1, <1>4, <1>5, <1>8, <1>9 DEF RingInv, RingType
<1>13. (\E p : Placed(p))'
  <2>0. PICK p : p = [x \in Inside |->
                       IF x \in Members(pa) THEN <<w, "prefill">>
                       ELSE IF x \in Members(da) THEN <<w, "decode">> ELSE place[x]]
    OBVIOUS
  <2>1. Inside' = Inside
    BY <1>1 DEF Inside
  <2>2. p \in [Inside -> Workers \X Kinds]
    BY <1>2, <2>0 DEF Placed, Kinds
  <2>3. \A x \in Workers, l \in Kinds :
          /\ Held(x, l) \in Seq(Requests) /\ Distinct(Held(x, l))
          /\ \A r : r \in Members(Held(x, l)) <=> r \in Inside /\ place[r] = <<x, l>>
    BY <1>2 DEF Placed
  <2>4. /\ \A r : r \in Members(prefillQ[w]) <=> r \in Inside /\ place[r] = <<w, "prefillQ">>
        /\ \A r : r \in Members(decodeQ[w]) <=> r \in Inside /\ place[r] = <<w, "decodeQ">>
        /\ \A r : ~(r \in Inside /\ place[r] = <<w, "prefill">>)
        /\ \A r : ~(r \in Inside /\ place[r] = <<w, "decode">>)
    <3>1. {"prefillQ", "prefill", "decodeQ", "decode"} = Kinds
      BY DEF Kinds
    <3> QED BY <1>7, <2>3, <3>1, HeldIs
  <2>5. /\ \A r : r \in Members(pa) => r \in Inside /\ place[r] = <<w, "prefillQ">>
        /\ \A r : r \in Members(da) => r \in Inside /\ place[r] = <<w, "decodeQ">>
    BY <1>4, <1>5, <2>4
  <2>6. ASSUME NEW x \in Workers, NEW l \in Kinds
        PROVE  /\ Held(x, l)' \in Seq(Requests) /\ Distinct(Held(x, l)')
               /\ \A r : r \in Members(Held(x, l)') <=> r \in Inside /\ p[r] = <<x, l>>
    <3>1. CASE x # w
      <4>1. \A r \in Inside : p[r] = <<x, l>> <=> place[r] = <<x, l>>
        BY <2>0, <2>5, <3>1
      <4> QED BY <1>11, <2>3, <3>1, <4>1
    <3>2. CASE x = w /\ l = "prefillQ"
      <4>1. \A r \in Inside : p[r] = <<x, l>> <=>
                place[r] = <<w, "prefillQ">> /\ r \notin Members(pa)
        BY <2>0, <2>5, <3>2
      <4> QED BY <1>4, <1>11, <2>4, <3>2, <4>1
    <3>3. CASE x = w /\ l = "prefill"
      <4>1. \A r \in Inside : p[r] = <<x, l>> <=> r \in Members(pa)
        BY <2>0, <2>4, <3>3
      <4> QED BY <1>4, <1>11, <2>5, <3>3, <4>1
    <3>4. CASE x = w /\ l = "decodeQ"
      <4>1. \A r \in Inside : p[r] = <<x, l>> <=>
                place[r] = <<w, "decodeQ">> /\ r \notin Members(da)
        BY <2>0, <2>5, <3>4
      <4> QED BY <1>5, <1>11, <2>4, <3>4, <4>1
    <3>5. CASE x = w /\ l = "decode"
      <4>1. \A r \in Inside : p[r] = <<x, l>> <=> r \in Members(da)
        BY <2>0, <2>4, <2>5, <3>5
      <4> QED BY <1>5, <1>11, <2>5, <3>5, <4>1
    <3> QED BY <3>1, <3>2, <3>3, <3>4, <3>5 DEF Kinds
  <2>7. Placed(p)'
    BY <1>8, <2>1, <2>2, <2>6 DEF Placed
  <2> QED BY <2>7
<1>14. \A r \in batch : r \in Members(Held(w, "prefillQ"))
  BY <1>4, <1>6 DEF Held
<1>15. CountsFit'
  <2>1. \A r \in Requests \ arrived' : req'[r].counter < 0
    BY <1>1 DEF RingInv, CountsFit
  <2>2. ASSUME NEW x \in Workers, NEW r \in Members(prefillQ'[x]) \cup Members(Batch(x)')
        PROVE  req'[r].counter < 0
    <3>1. r \in Members(prefillQ[x]) \cup Members(Batch(x))
      <4>1. CASE x = w
        BY <1>4, <1>10, <2>2, <4>1 DEF Batch
      <4>2. CASE x # w
        BY <1>10, <2>2, <4>2 DEF Batch
      <4> QED BY <4>1, <4>2
    <3>2. r \in Requests
      BY <3>1, BatchMembers
    <3> QED BY <3>1, <3>2 DEF RingInv, CountsFit
  <2>3. ASSUME NEW x \in Workers, NEW r \in Members(decodeQ'[x]) \cup Members(running'[x].decode)
        PROVE  req'[r].counter \in 0..(OutputLen[r] - 1) /\ req'[r].remain = 0
    <3>1. r \in Members(decodeQ[x]) \cup Members(running[x].decode)
      <4>1. CASE x = w
        BY <1>5, <1>10, <2>3, <4>1
      <4>2. CASE x # w
        BY <1>10, <2>3, <4>2
      <4> QED BY <4>1, <4>2
    <3>2. r \in Requests \ batch
      <4>1. {"prefillQ", "prefill", "decodeQ", "decode"} = Kinds
        BY DEF Kinds
      <4>2. CASE r \in Members(decodeQ[x])
        <5>1. r \in Members(Held(x, "decodeQ"))
          BY <4>2, HeldIs
        <5> QED BY <1>2, <1>14, <4>1, <5>1, Elsewhere
      <4>3. CASE r \in Members(running[x].decode)
        <5>1. r \in Members(Held(x, "decode"))
          BY <4>3, HeldIs
        <5> QED BY <1>2, <1>14, <4>1, <5>1, Elsewhere
      <4> QED BY <3>1, <4>2, <4>3
    <3>3. req'[r] = req[r]
      BY <3>2
    <3> QED BY <3>1, <3>3 DEF RingInv, CountsFit
  <2>4. SimulatedInFull'
    <3> SUFFICES ASSUME NEW r \in exited
                 PROVE  req'[r].counter = OutputLen[r] /\ req'[r].remain = 0
      BY <1>1 DEF SimulatedInFull
    <3>1. r \notin batch
      <4>1. "prefillQ" \in Kinds
        BY DEF Kinds
      <4>2. \A x \in batch : x \in Inside
        BY <1>2, <1>14, <4>1 DEF Placed
      <4> QED BY <4>2 DEF Inside
    <3>2. r \in Requests
      BY DEF RingInv, RingType
    <3>3. req'[r] = req[r]
      BY <3>1, <3>2
    <3> QED BY <3>3 DEF RingInv, CountsFit, SimulatedInFull
  <2> QED BY <1>8, <2>1, <2>2, <2>3, <2>4 DEF CountsFit
<1>16. BatchOnlyIfBusy'
  BY <1>8, <1>10 DEF RingInv, BatchOnlyIfBusy
<1>17. NoWakeupLost'
  BY <1>8, <1>10 DEF RingInv, NoWakeupLost
<1>18. TokensBounded'
  <2> SUFFICES ASSUME NEW x \in Workers
               PROVE  \/ TokensOf(Members(Batch(x)))' + Len(running'[x].decode) <= PrefillMaxTokens
                      \/ Batch(x)' = <<>> /\ Len(running'[x].decode) <= DecodeMaxTokens
    BY <1>8 DEF TokensBounded
  <2>1. CASE x = w
    <3>1. Batch(x)' = pa /\ running'[x].decode = da
      BY <1>10, <2>1 DEF Batch
    <3>2. k = 0 => pa = <<>>
      BY <1>4, EmptySeq
    <3>3. TokensOf(Members(Batch(x)))' = TokensOf(batch)'
      BY <1>6, <3>1 DEF TokensOf
    <3> QED BY <1>5, <3>1, <3>2, <3>3
  <2>2. CASE x # w
    <3>1. Batch(x)' = Batch(x) /\ running'[x] = running[x]
      BY <1>10, <2>2 DEF Batch
    <3>2. \A r \in Members(Batch(x)) : r \in Requests \ batch
      <4>1. "prefillQ" \in Kinds /\ "prefill" \in Kinds
        BY DEF Kinds
      <4>2. Batch(x) = Held(x, "prefill")
        BY HeldIs DEF Batch
      <4> QED BY <1>2, <1>14, <2>2, <4>1, <4>2, Elsewhere
    <3>3. PICK C : C = Members(Batch(x))
      OBVIOUS
    <3>4. TokensOf(C)' = TokensOf(C)
      BY <3>2, <3>3, SameTokens
    <3>5. TokensOf(Members(Batch(x)))' = TokensOf(Members(Batch(x)))
      BY <3>1, <3>3, <3>4 DEF TokensOf
    <3> QED BY <3>1, <3>5 DEF RingInv, TokensBounded
  <2> QED BY <2>1, <2>2
<1> QED BY <1>12, <1>13, <1>15, <1>16, <1>17, <1>18 DEF RingInv

LEMMA BeginPrefillRing ==
    ASSUME ChunkInv, TokenInv, RingInv, NEW w, BeginPrefill(w)
    PROVE  RingInv'
<1>1. w \in Workers /\ state[w] # "busy"
  BY DEF BeginPrefill, CanRun
<1>2. PICK k \in 0..Len(prefillQ[w]), tokens \in Nat, batch \in SUBSET Requests :
             /\ batch = Members(SubSeq(prefillQ[w], 1, k))
             /\ StartBatch(w, k, IF chunked THEN EnterDecodes(w, tokens) ELSE 0)
             /\ req' \in [Requests -> Limits]
             /\ \A r \in Requests : req'[r].counter = req[r].counter
             /\ \A r \in Requests \ batch : req'[r] = req[r]
             /\ TokensOf(batch)' \in Nat /\ TokensOf(batch)' + tokens <= PrefillMaxTokens
  BY PrefillStarts
<1>3. decodeQ[w] \in Seq(Requests)
  BY <1>1 DEF RingInv, RingType
<1>4. /\ EnterDecodes(w, tokens) \in 0..Len(decodeQ[w])
      /\ EnterDecodes(w, tokens) <= tokens
  BY <1>3, EnterInRange
<1>5. PICK d : d = IF chunked THEN EnterDecodes(w, tokens) ELSE 0
  OBVIOUS
<1>6. d \in 0..Len(decodeQ[w]) /\ d <= tokens
  <2>1. Len(decodeQ[w]) \in Nat
    BY <1>3
  <2> QED BY <1>4, <1>5, <2>1
<1>7. TokensOf(batch)' + d <= PrefillMaxTokens
  <2>1. PICK t : t = TokensOf(batch)'
    OBVIOUS
  <2>2. t \in Nat /\ t + tokens <= PrefillMaxTokens /\ PrefillMaxTokens \in Nat
    BY <1>2, <2>1, SimulatorAssumption
  <2>3. Len(decodeQ[w]) \in Nat
    BY <1>3
  <2>4. t + d <= PrefillMaxTokens
    BY <1>6, <2>2, <2>3
  <2> QED BY <2>1, <2>4
<1>8. StartBatch(w, k, d)
  BY <1>2, <1>5
<1> QED BY <1>1, <1>2, <1>6, <1>7, <1>8, StartRing

LEMMA BeginDecodeRing ==
    ASSUME ChunkInv, TokenInv, RingInv, NEW w, BeginDecode(w)
    PROVE  RingInv'
<1>1. /\ w \in Workers /\ state[w] # "busy" /\ req' = req
      /\ StartBatch(w, 0, EnterDecodes(w, DecodeMaxTokens))
  BY DEF BeginDecode, CanRun
<1>2. 0 \in 0..Len(prefillQ[w]) /\ Members(SubSeq(prefillQ[w], 1, 0)) = {}
  <2>1. prefillQ[w] \in Seq(Requests)
    BY <1>1 DEF ChunkInv, SimType
  <2>2. Len(prefillQ[w]) \in Nat /\ SubSeq(prefillQ[w], 1, 0) = <<>>
    BY <2>1
  <2> QED BY <2>2 DEF Members
<1>3. decodeQ[w] \in Seq(Requests)
  BY <1>1 DEF RingInv, RingType
<1>4. PICK d : d = EnterDecodes(w, DecodeMaxTokens)
  OBVIOUS
<1>5. d \in 0..Len(decodeQ[w]) /\ d <= DecodeMaxTokens
  BY <1>3, <1>4, EnterInRange, SimulatorAssumption
<1>6. PICK batch : batch = Members(SubSeq(prefillQ[w], 1, 0))
  OBVIOUS
<1>7. req' \in [Requests -> Limits] /\ \A r \in Requests : req'[r] = req[r]
  BY <1>1 DEF TokenInv
<1> QED BY <1>1, <1>2, <1>4, <1>5, <1>6, <1>7, StartRing

(* Where a finished iteration sends what is prefilled and has something to *)
(* decode: for each of A, to one worker's queue.                           *)
Going(w) == {r \in Members(Batch(w)) : Prefilled(w, r) /\ OutputLen[r] # 0}
SentAs(queues, A, to) ==
    /\ to \in [A -> Workers]
    /\ \A x \in Workers :
         /\ Distinct(queues[x])
         /\ \A r : r \in Members(queues[x]) <=>
                     r \in Members(decodeQ[x]) \/ (r \in A /\ to[r] = x)
Sent(queues, A) == \E to : SentAs(queues, A, to)

LEMMA SendMore ==
    ASSUME NEW queues \in [Workers -> Seq(Requests)], NEW A, Sent(queues, A),
           NEW r \in Requests, r \notin A, \A x \in Workers : r \notin Members(decodeQ[x]),
           NEW v \in Workers
    PROVE  /\ [queues EXCEPT ![v] = Append(@, r)] \in [Workers -> Seq(Requests)]
           /\ Sent([queues EXCEPT ![v] = Append(@, r)], A \cup {r})
<1> DEFINE more == [queues EXCEPT ![v] = Append(@, r)]
<1>1. PICK to : SentAs(queues, A, to)
  BY DEF Sent
<1>2. \A x \in Workers : more[x] = IF x = v THEN Append(queues[x], r) ELSE queues[x]
  OBVIOUS
<1>3. more \in [Workers -> Seq(Requests)]
  OBVIOUS
<1> HIDE DEF more
<1>4. PICK t : t = [y \in A \cup {r} |-> IF y = r THEN v ELSE to[y]]
  OBVIOUS
<1>5. t \in [A \cup {r} -> Workers]
  BY <1>1, <1>4 DEF SentAs
<1>6. ASSUME NEW x \in Workers
      PROVE  /\ Distinct(more[x])
             /\ \A y : y \in Members(more[x]) <=>
                         y \in Members(decodeQ[x]) \/ (y \in A \cup {r} /\ t[y] = x)
  <2>1. /\ Distinct(queues[x])
        /\ \A y : y \in Members(queues[x]) <=>
                    y \in Members(decodeQ[x]) \/ (y \in A /\ to[y] = x)
    BY <1>1 DEF SentAs
  <2>2. r \notin Members(queues[x])
    BY <2>1
  <2>3. /\ Members(Append(queues[x], r)) = Members(queues[x]) \cup {r}
        /\ Distinct(Append(queues[x], r))
    BY <2>1, <2>2, MembersOfAppend
  <2>4. \A y \in A : y # r /\ t[y] = to[y]
    BY <1>4
  <2>5. t[r] = v
    BY <1>4
  <2>6. CASE x = v
    <3>1. more[x] = Append(queues[x], r)
      BY <1>2, <2>6
    <3> QED BY <2>1, <2>3, <2>4, <2>5, <2>6, <3>1
  <2>7. CASE x # v
    <3>1. more[x] = queues[x]
      BY <1>2, <2>7
    <3> QED BY <2>1, <2>4, <2>5, <2>7, <3>1
  <2> QED BY <2>6, <2>7
<1>7. SentAs(more, A \cup {r}, t)
  BY <1>5, <1>6 DEF SentAs
<1> QED BY <1>3, <1>7 DEF Sent, more

(* There is always a worker to send it to. *)
LEMMA SendOne ==
    ASSUME ChunkInv, NEW w \in Workers, NEW queues \in [Workers -> Seq(Requests)],
           NEW r \in Requests
    PROVE  IF Prefilled(w, r) /\ OutputLen[r] # 0
           THEN \E v \in Workers : SendPrefilled(w, queues, r) = [queues EXCEPT ![v] = Append(@, r)]
           ELSE SendPrefilled(w, queues, r) = queues
<1> SUFFICES ASSUME Prefilled(w, r), OutputLen[r] # 0
             PROVE  \E v \in Workers : SendPrefilled(w, queues, r) = [queues EXCEPT ![v] = Append(@, r)]
  BY DEF SendPrefilled
<1> DEFINE v == IF ShouldRequestStay(w) THEN NextWorker(w) ELSE Best(DecodeHeads, queues)
<1>1. SendPrefilled(w, queues, r) = [queues EXCEPT ![v] = Append(@, r)]
  BY DEF SendPrefilled
<1>2. cluster \in Clusters
  BY DEF ChunkInv, SimType
<1>3. CASE ShouldRequestStay(w)
  BY <1>1, <1>2, <1>3, NextIsWorker
<1>4. CASE ~ShouldRequestStay(w)
  <2>1. DecodeHeads \subseteq Workers /\ DecodeHeads # {} /\ Workers \subseteq Nat
    BY <1>2, <1>4, DecodeHeadExists, ClusterType DEF ShouldRequestStay
  <2>2. \A x \in DecodeHeads : Load(x, queues) \in Nat
    <3> SUFFICES ASSUME NEW x \in DecodeHeads PROVE Load(x, queues) \in Nat
      OBVIOUS
    <3>1. queues[x] \in Seq(Requests) /\ Batch(x) \in Seq(Requests)
      BY <2>1 DEF ChunkInv, SimType
    <3>2. Len(queues[x]) \in Nat /\ Len(Batch(x)) \in Nat
      BY <3>1
    <3>3. Load(x, queues) = Len(queues[x]) + Len(Batch(x))
      BY DEF Load, Batch
    <3> QED BY <3>2, <3>3
  <2>3. Best(DecodeHeads, queues) \in DecodeHeads
    BY <2>1, <2>2, BestOfHeads
  <2> QED BY <1>1, <1>4, <2>1, <2>3
<1> QED BY <1>3, <1>4

LEMMA AllSent ==
    ASSUME ChunkInv, RingInv, NEW w \in Workers
    PROVE  /\ AfterExitPrefill(w) \in [Workers -> Seq(Requests)]
           /\ Sent(AfterExitPrefill(w), Going(w))
<1> DEFINE X == [Workers -> Seq(Requests)]
           b == Batch(w)
           n == Len(b)
           F == [p \in X \X (1..n) |-> SendPrefilled(w, p[1], b[p[2]])]
           At(h, i) == IF i = 0 THEN decodeQ ELSE SendPrefilled(w, h[i - 1], b[i])
           run == CHOOSE h : h = [i \in 0..n |-> At(h, i)]
           A(i) == {b[j] : j \in 1..i} \cap Going(w)
           Good == [i \in 0..n |-> {q \in X : Sent(q, A(i))}]
<1>1. AfterExitPrefill(w) = run[n]
  BY Zenon DEF AfterExitPrefill, Batch
<1>2. PICK place : Placed(place)
  BY DEF RingInv
<1>3. b \in Seq(Requests) /\ Distinct(b) /\ Members(b) \subseteq Requests
  BY BatchMembers DEF ChunkInv, SimType, OnePlace
<1>4. n \in Nat /\ \A i \in 1..n : b[i] \in Requests /\ b[i] \in Members(b)
  BY <1>3, ElementOfSeq DEF Members
<1>5. decodeQ \in X
  BY DEF RingInv, RingType
<1>6. \A i \in 1..n, q \in X :
        IF b[i] \in Going(w)
        THEN \E v \in Workers : SendPrefilled(w, q, b[i]) = [q EXCEPT ![v] = Append(@, b[i])]
        ELSE SendPrefilled(w, q, b[i]) = q
  <2> SUFFICES ASSUME NEW i \in 1..n, NEW q \in X
               PROVE  IF b[i] \in Going(w)
                      THEN \E v \in Workers :
                             SendPrefilled(w, q, b[i]) = [q EXCEPT ![v] = Append(@, b[i])]
                      ELSE SendPrefilled(w, q, b[i]) = q
    OBVIOUS
  <2>1. b[i] \in Requests /\ b[i] \in Members(b)
    BY <1>4
  <2>2. b[i] \in Going(w) <=> Prefilled(w, b[i]) /\ OutputLen[b[i]] # 0
    BY <2>1 DEF Going
  <2> QED BY <2>1, <2>2, SendOne
<1>7. \A x \in Workers, r \in Members(b) : r \notin Members(decodeQ[x])
  <2>1. "prefill" \in Kinds /\ "decodeQ" \in Kinds
    BY DEF Kinds
  <2>2. b = Held(w, "prefill") /\ \A x : decodeQ[x] = Held(x, "decodeQ")
    BY HeldIs DEF Batch
  <2> HIDE DEF b
  <2> QED BY <1>2, <2>1, <2>2, Elsewhere
<1>8. \A h : At(h, 0) = decodeQ /\ \A i \in 1..n : At(h, i) = SendPrefilled(w, h[i - 1], b[i])
  BY <1>4
<1>9. \A i \in 1..n, q \in X : SendPrefilled(w, q, b[i]) \in X
  <2> SUFFICES ASSUME NEW i \in 1..n, NEW q \in X PROVE SendPrefilled(w, q, b[i]) \in X
    OBVIOUS
  <2>1. b[i] \in Requests
    BY <1>4
  <2>2. CASE b[i] \in Going(w)
    <3>1. PICK v \in Workers : SendPrefilled(w, q, b[i]) = [q EXCEPT ![v] = Append(@, b[i])]
      BY <1>6, <2>2
    <3> HIDE DEF b
    <3> QED BY <2>1, <3>1
  <2>3. CASE b[i] \notin Going(w)
    BY <1>6, <2>3
  <2> QED BY <2>2, <2>3
<1> HIDE DEF At, n
<1>10. F \in [X \X (1..n) -> X]
  BY <1>9
<1>11. PICK f \in [0..n -> X] : IsLoop(f, decodeQ, F, n)
  <2> HIDE DEF F, X
  <2> QED BY <1>4, <1>5, <1>10, LoopExists
<1>12. f = [i \in 0..n |-> At(f, i)]
  <2>1. ASSUME NEW i \in 0..n PROVE LoopAt(f, decodeQ, F, i) = At(f, i)
    <3>1. CASE i = 0
      BY <1>8, <3>1 DEF LoopAt
    <3>2. CASE i # 0
      <4>1. i \in 1..n /\ i - 1 \in 0..n
        BY <1>4, <3>2
      <4>2. F[<<f[i - 1], i>>] = SendPrefilled(w, f[i - 1], b[i])
        <5>1. f[i - 1] \in X
          BY <4>1
        <5> HIDE DEF X, b
        <5> QED BY <4>1, <5>1
      <4> HIDE DEF F
      <4> QED BY <1>8, <3>2, <4>1, <4>2 DEF LoopAt
    <3> QED BY <3>1, <3>2
  <2> HIDE DEF F
  <2> QED BY <1>11, <2>1 DEF IsLoop
<1>13. run = [i \in 0..n |-> At(run, i)]
  BY <1>12
<1> HIDE DEF run
<1>14. run[0] \in Good[0]
  <2>1. run[0] = decodeQ
    BY <1>4, <1>8, <1>13
  <2>2. A(0) = {}
    BY <1>4
  <2>3. Sent(decodeQ, {})
    <3>1. PICK to : to = [y \in {} |-> y]
      OBVIOUS
    <3>2. \A x \in Workers : Distinct(decodeQ[x])
      BY <1>2, HeldIs DEF Placed, Kinds
    <3>3. to \in [{} -> Workers]
      BY <3>1
    <3>4. SentAs(decodeQ, {}, to)
      BY <3>2, <3>3 DEF SentAs
    <3> QED BY <3>4 DEF Sent
  <2>4. 0 \in 0..n
    BY <1>4
  <2> HIDE DEF A, X
  <2> QED BY <1>5, <2>1, <2>2, <2>3, <2>4
<1>15. \A i \in 1..n : run[i - 1] \in Good[i - 1] => run[i] \in Good[i]
  <2> SUFFICES ASSUME NEW i \in 1..n, run[i - 1] \in Good[i - 1] PROVE run[i] \in Good[i]
    OBVIOUS
  <2>1. i \in 0..n /\ i - 1 \in 0..n
    BY <1>4
  <2>2. PICK q \in X : q = run[i - 1] /\ Sent(q, A(i - 1))
    <3> HIDE DEF A, X
    <3> QED BY <2>1
  <2>3. run[i] = SendPrefilled(w, q, b[i])
    BY <1>8, <1>13, <2>1, <2>2
  <2>4. {b[j] : j \in 1..i} = {b[j] : j \in 1..(i - 1)} \cup {b[i]}
    <3>1. i \in Nat /\ 1..i = 1..(i - 1) \cup {i}
      BY <1>4
    <3> HIDE DEF b
    <3> QED BY <3>1
  <2>5. SendPrefilled(w, q, b[i]) \in X /\ Sent(SendPrefilled(w, q, b[i]), A(i))
    <3>1. CASE b[i] \in Going(w)
      <4>1. PICK v \in Workers : SendPrefilled(w, q, b[i]) = [q EXCEPT ![v] = Append(@, b[i])]
        BY <1>6, <3>1
      <4>2. A(i) = A(i - 1) \cup {b[i]}
        BY <2>4, <3>1
      <4>3. b[i] \notin A(i - 1)
        <5>1. \A j \in 1..(i - 1) : j \in 1..n /\ j # i
          BY <1>4
        <5>2. \A j \in 1..(i - 1) : b[j] # b[i]
          BY <1>3, <5>1 DEF Distinct, n
        <5> QED BY <5>2
      <4>4. b[i] \in Requests /\ \A x \in Workers : b[i] \notin Members(decodeQ[x])
        BY <1>4, <1>7
      <4>5. PICK a, r : a = A(i - 1) /\ r = b[i]
        OBVIOUS
      <4> HIDE DEF A, b
      <4>6. Sent(q, a) /\ r \notin a /\ r \in Requests /\ \A x \in Workers : r \notin Members(decodeQ[x])
        BY <2>2, <4>3, <4>4, <4>5
      <4>7. /\ [q EXCEPT ![v] = Append(@, r)] \in X
            /\ Sent([q EXCEPT ![v] = Append(@, r)], a \cup {r})
        BY <4>6, SendMore
      <4> HIDE DEF X
      <4> QED BY <4>1, <4>2, <4>5, <4>7
    <3>2. CASE b[i] \notin Going(w)
      <4>1. SendPrefilled(w, q, b[i]) = q
        BY <1>6, <3>2
      <4>2. A(i) = A(i - 1)
        BY <2>4, <3>2
      <4> HIDE DEF A
      <4> QED BY <2>2, <4>1, <4>2
    <3> QED BY <3>1, <3>2
  <2> HIDE DEF A, X, b
  <2> QED BY <2>1, <2>3, <2>5
<1> HIDE DEF Good
<1>16. \A i \in 0..n : run[i] \in Good[i]
  BY <1>4, <1>14, <1>15, LoopInvariant
<1>17. run[n] \in X /\ Sent(run[n], A(n))
  <2>1. n \in 0..n
    BY <1>4
  <2> HIDE DEF A, X
  <2> QED BY <1>16, <2>1 DEF Good
<1>18. A(n) = Going(w)
  BY DEF Going, Members, n
<1> HIDE DEF A
<1> QED BY <1>1, <1>17, <1>18

(* Nobody in a batch waits anywhere. *)
LEMMA BatchApart ==
    ASSUME ChunkInv, RingInv, NEW w \in Workers
    PROVE  /\ running[w].decode \in Seq(Requests) /\ Distinct(running[w].decode)
           /\ \A r \in Members(Batch(w)) \cup Members(running[w].decode) :
                /\ r \in Inside /\ r \in Requests
                /\ \A x \in Workers : r \notin Members(prefillQ[x]) /\ r \notin Members(decodeQ[x])
                /\ \A x \in Workers \ {w} :
                     r \notin Members(Batch(x)) /\ r \notin Members(running[x].decode)
           /\ \A r \in Members(Batch(w)) : r \notin Members(running[w].decode)
<1>1. PICK place : Placed(place)
  BY DEF RingInv
<1>2. {"prefillQ", "prefill", "decodeQ", "decode"} = Kinds
  BY DEF Kinds
<1>3. \A x : Batch(x) = Held(x, "prefill")
  BY HeldIs DEF Batch
<1>4. ASSUME NEW r \in Members(Batch(w)) \cup Members(running[w].decode)
      PROVE  /\ r \in Inside /\ r \in Requests
             /\ \A x \in Workers : r \notin Members(prefillQ[x]) /\ r \notin Members(decodeQ[x])
             /\ \A x \in Workers \ {w} :
                  r \notin Members(Batch(x)) /\ r \notin Members(running[x].decode)
             /\ r \in Members(Batch(w)) => r \notin Members(running[w].decode)
  <2>1. CASE r \in Members(Held(w, "prefill"))
    BY <1>1, <1>2, <1>3, <2>1, HeldIs, Elsewhere
  <2>2. CASE r \in Members(Held(w, "decode"))
    BY <1>1, <1>2, <1>3, <2>2, HeldIs, Elsewhere
  <2> QED BY <1>3, <1>4, <2>1, <2>2, HeldIs
<1>5. running[w].decode \in Seq(Requests) /\ Distinct(running[w].decode)
  BY <1>1, <1>2, HeldIs DEF Placed
<1> QED BY <1>4, <1>5

(* Who leaves at the end of an iteration. *)
LEMMA FinishExits ==
    ASSUME ChunkInv, TokenInv, RingInv, NEW w, Finish(w)
    PROVE  /\ exited \subseteq exited'
           /\ exited' \subseteq exited \cup Members(Batch(w)) \cup Members(running[w].decode)
           /\ \A r \in Members(Batch(w)) :
                r \in exited' <=> Prefilled(w, r) /\ OutputLen[r] = 0
           /\ \A r \in Members(running[w].decode) :
                r \in exited' <=> IsLast(w) /\ req[r].counter + 1 = OutputLen[r]
<1> DEFINE b == Members(Batch(w))
           d == Members(running[w].decode)
<1>1. w \in Workers /\ exited' = exited \cup {r \in b \cup d : req'[r].counter >= OutputLen[r]}
  BY DEF Finish, Batch
<1>2. /\ \A r \in b \cup d : r \in Requests /\ r \notin exited
      /\ \A r \in b : r \notin d
  BY <1>1, BatchApart DEF Inside
<1>3. /\ \A r \in b : req[r].counter < 0
      /\ \A r \in d : req[r].counter \in 0..(OutputLen[r] - 1)
  BY <1>1 DEF RingInv, CountsFit
<1>4. \A r \in Requests : req'[r].counter =
            IF ~IsLast(w) THEN req[r].counter
            ELSE IF r \in b THEN IF req[r].remain = 0 THEN 0 ELSE req[r].counter
            ELSE IF r \in d THEN req[r].counter + 1
            ELSE req[r].counter
  BY FinishCounts
<1>5. \A r \in Requests : OutputLen[r] \in Nat /\ req[r].counter \in Int
  BY SimulatorAssumption DEF TokenInv, Limits
<1> HIDE DEF b, d
<1>6. ASSUME NEW r \in b PROVE r \in exited' <=> Prefilled(w, r) /\ OutputLen[r] = 0
  <2>1. r \in exited' <=> req'[r].counter >= OutputLen[r]
    BY <1>1, <1>2
  <2>2. req'[r].counter = IF IsLast(w) /\ req[r].remain = 0 THEN 0 ELSE req[r].counter
    BY <1>2, <1>4
  <2>3. OutputLen[r] \in Nat /\ req[r].counter \in Int /\ req[r].counter < 0
    BY <1>2, <1>3, <1>5
  <2> QED BY <2>1, <2>2, <2>3 DEF Prefilled
<1>7. ASSUME NEW r \in d PROVE r \in exited' <=> IsLast(w) /\ req[r].counter + 1 = OutputLen[r]
  <2>1. r \in exited' <=> req'[r].counter >= OutputLen[r]
    BY <1>1, <1>2
  <2>2. req'[r].counter = IF IsLast(w) THEN req[r].counter + 1 ELSE req[r].counter
    BY <1>2, <1>4
  <2>3. OutputLen[r] \in Nat /\ req[r].counter \in 0..(OutputLen[r] - 1)
    BY <1>2, <1>3, <1>5
  <2> QED BY <2>1, <2>2, <2>3
<1> QED BY <1>1, <1>6, <1>7 DEF b, d

(* What waits to be decoded after it. *)
LEMMA FinishDecodes ==
    ASSUME ChunkInv, TokenInv, RingInv, NEW w, Finish(w)
    PROVE  /\ decodeQ' \in [Workers -> Seq(Requests)]
           /\ \E to \in [Going(w) -> Workers] :
                \A x \in Workers :
                  /\ Distinct(decodeQ'[x])
                  /\ \A r : r \in Members(decodeQ'[x]) <=>
                        \/ r \in Members(decodeQ[x])
                        \/ r \in Going(w) /\ to[r] = x
                        \/ x = NextWorker(w) /\ r \in Members(running[w].decode) \ exited'
<1> DEFINE queues == AfterExitPrefill(w)
           v == NextWorker(w)
           d == running[w].decode
           left == Remaining(d, exited')
<1>1. w \in Workers /\ decodeQ' = [queues EXCEPT ![v] = @ \o left]
  BY DEF Finish
<1>2. queues \in [Workers -> Seq(Requests)] /\ Sent(queues, Going(w))
  BY <1>1, AllSent
<1> HIDE DEF queues
<1>3. PICK to : SentAs(queues, Going(w), to)
  BY <1>2 DEF Sent
<1>4. /\ d \in Seq(Requests) /\ Distinct(d)
      /\ \A r \in Members(d), x \in Workers : r \notin Members(decodeQ[x])
      /\ \A r \in Going(w) : r \notin Members(d)
  BY <1>1, BatchApart DEF Going
<1>5. left \in Seq(Requests) /\ Members(left) = Members(d) \ exited' /\ Distinct(left)
  <2>1. PICK F : F = exited'
    OBVIOUS
  <2> HIDE DEF d
  <2> QED BY <1>4, <2>1, RemainingMembers
<1>6. v \in Workers
  BY <1>1, NextIsWorker DEF ChunkInv, SimType
<1> HIDE DEF left, d, v
<1>7. \A x \in Workers : decodeQ'[x] = IF x = v THEN queues[x] \o left ELSE queues[x]
  BY <1>1, <1>2
<1>8. decodeQ' \in [Workers -> Seq(Requests)]
  <2>1. queues[v] \o left \in Seq(Requests)
    BY <1>2, <1>5, <1>6, MembersOfConcat
  <2> QED BY <1>1, <1>2, <2>1
<1>9. ASSUME NEW x \in Workers
      PROVE  /\ Distinct(decodeQ'[x])
             /\ \A r : r \in Members(decodeQ'[x]) <=>
                   \/ r \in Members(decodeQ[x])
                   \/ r \in Going(w) /\ to[r] = x
                   \/ x = v /\ r \in Members(d) \ exited'
  <2>1. /\ Distinct(queues[x])
        /\ \A r : r \in Members(queues[x]) <=>
                    r \in Members(decodeQ[x]) \/ (r \in Going(w) /\ to[r] = x)
    BY <1>3 DEF SentAs
  <2>2. CASE x = v
    <3>1. Members(queues[x]) \cap Members(left) = {}
      BY <1>4, <1>5, <2>1
    <3>2. /\ Members(queues[x] \o left) = Members(queues[x]) \cup Members(left)
          /\ Distinct(queues[x] \o left)
      BY <1>2, <1>5, <2>1, <3>1, MembersOfConcat
    <3> QED BY <1>5, <1>7, <2>1, <2>2, <3>2
  <2>3. CASE x # v
    BY <1>7, <2>1, <2>3
  <2> QED BY <2>2, <2>3
<1> QED BY <1>3, <1>8, <1>9 DEF SentAs, d, v

(* Everyone is in one place again after it. *)
LEMMA FinishPlaces ==
    ASSUME ChunkInv, TokenInv, RingInv, NEW w, Finish(w)
    PROVE  (\E place : Placed(place))'
<1>0. w \in Workers /\ UNCHANGED <<cluster, arrived>>
  BY DEF Finish
<1>1. PICK place : Placed(place)
  BY DEF RingInv
<1>2. PICK v, b, d, g : /\ v = NextWorker(w) /\ b = Members(Batch(w))
                        /\ d = Members(running[w].decode) /\ g = Going(w)
  OBVIOUS
<1>3. v \in Workers /\ Workers' = Workers
  BY <1>0, <1>2, NextIsWorker, SameWorkers DEF ChunkInv, SimType
<1>4. PICK s \in Seq(Requests) :
             /\ Distinct(s) /\ Members(s) = b \ {r \in Requests : Prefilled(w, r)}
             /\ \A x \in Workers : prefillQ'[x] = IF x = v THEN prefillQ[x] \o s ELSE prefillQ[x]
  BY <1>2, FinishMoves
<1>5. PICK to \in [g -> Workers] :
             \A x \in Workers :
               /\ Distinct(decodeQ'[x])
               /\ \A r : r \in Members(decodeQ'[x]) <=>
                     \/ r \in Members(decodeQ[x])
                     \/ r \in g /\ to[r] = x
                     \/ x = v /\ r \in d \ exited'
  <2>1. PICK to \in [Going(w) -> Workers] :
             \A x \in Workers :
               /\ Distinct(decodeQ'[x])
               /\ \A r : r \in Members(decodeQ'[x]) <=>
                     \/ r \in Members(decodeQ[x])
                     \/ r \in Going(w) /\ to[r] = x
                     \/ x = NextWorker(w) /\ r \in Members(running[w].decode) \ exited'
    BY FinishDecodes
  <2> QED BY <1>2, <2>1
<1>6. decodeQ' \in [Workers -> Seq(Requests)]
  BY FinishDecodes
<1>7. running' = [running EXCEPT ![w] = [prefill |-> <<>>, decode |-> <<>>]]
  BY DEF Finish
<1>8. /\ \A r \in b \cup d : /\ r \in Inside /\ r \in Requests
                            /\ \A x \in Workers : r \notin Members(prefillQ[x])
      /\ b \cap d = {}
  BY <1>0, <1>2, BatchApart
<1>9. /\ exited \subseteq exited' /\ exited' \subseteq exited \cup b \cup d
      /\ \A r \in b : r \in exited' <=> Prefilled(w, r) /\ OutputLen[r] = 0
  BY <1>2, FinishExits
<1>10. g = {r \in b : Prefilled(w, r) /\ OutputLen[r] # 0}
  BY <1>2 DEF Going
<1>11. Inside' \subseteq Inside /\ \A r \in Inside : r \notin b \cup d => r \in Inside'
  BY <1>0, <1>9 DEF Inside
<1>12. {"prefillQ", "prefill", "decodeQ", "decode"} = Kinds
  BY DEF Kinds
<1>13. \A x \in Workers, l \in Kinds :
          /\ Held(x, l) \in Seq(Requests) /\ Distinct(Held(x, l))
          /\ \A r : r \in Members(Held(x, l)) <=> r \in Inside /\ place[r] = <<x, l>>
  BY <1>1 DEF Placed
<1>14. /\ b = Members(Held(w, "prefill")) /\ d = Members(Held(w, "decode"))
  BY <1>2, HeldIs DEF Batch
<1>15. \A r : /\ r \in b <=> r \in Inside /\ place[r] = <<w, "prefill">>
              /\ r \in d <=> r \in Inside /\ place[r] = <<w, "decode">>
  BY <1>0, <1>12, <1>13, <1>14
<1>16. PICK p : p = [x \in Inside' |->
                       IF x \in g THEN <<to[x], "decodeQ">>
                       ELSE IF x \in b THEN <<v, "prefillQ">>
                       ELSE IF x \in d THEN <<v, "decodeQ">> ELSE place[x]]
  OBVIOUS
<1>17. p \in [Inside' -> Workers \X Kinds]
  <2>1. \A x \in Inside' : place[x] \in Workers \X Kinds
    BY <1>1, <1>11 DEF Placed
  <2>2. \A x \in g : to[x] \in Workers
    BY <1>5
  <2>3. \A x \in Inside' : p[x] \in Workers \X Kinds
    BY <1>3, <1>12, <1>16, <2>1, <2>2
  <2> QED BY <1>16, <2>3
<1>18. ASSUME NEW x \in Workers, NEW l \in Kinds
       PROVE  /\ Held(x, l)' \in Seq(Requests) /\ Distinct(Held(x, l)')
              /\ \A r : r \in Members(Held(x, l)') <=> r \in Inside' /\ p[r] = <<x, l>>
  <2>1. /\ Held(x, l) \in Seq(Requests) /\ Distinct(Held(x, l))
        /\ \A r : r \in Members(Held(x, l)) <=> r \in Inside /\ place[r] = <<x, l>>
    BY <1>13
  <2>2. g \subseteq b
    BY <1>10
  <2>3. CASE l = "prefillQ"
    <3>1. Held(x, l) = prefillQ[x] /\ Held(x, l)' = prefillQ'[x]
      BY <2>3 DEF Held
    <3>2. \A r \in Inside' : p[r] = <<x, l>> <=>
             (x = v /\ r \in b \ g) \/ (r \notin b \cup d /\ place[r] = <<x, l>>)
      BY <1>16, <2>2, <2>3
    <3>3. \A r : r \in Members(s) <=> r \in Inside' /\ r \in b \ g
      <4>1. \A r \in b : r \in Inside' <=> ~(Prefilled(w, r) /\ OutputLen[r] = 0)
        BY <1>0, <1>8, <1>9 DEF Inside
      <4> QED BY <1>4, <1>8, <1>10, <4>1
    <3>4. \A r \in Members(Held(x, l)) : r \in Inside' /\ r \notin b \cup d
      BY <1>8, <1>11, <2>1, <3>1
    <3>5. CASE x = v
      <4>1. Held(x, l)' = Held(x, l) \o s
        BY <1>4, <3>1, <3>5
      <4>2. Members(Held(x, l)) \cap Members(s) = {}
        BY <3>3, <3>4
      <4>3. /\ Held(x, l) \o s \in Seq(Requests) /\ Distinct(Held(x, l) \o s)
            /\ Members(Held(x, l) \o s) = Members(Held(x, l)) \cup Members(s)
        BY <1>4, <2>1, <4>2, MembersOfConcat
      <4> QED BY <1>11, <2>1, <3>2, <3>3, <3>4, <3>5, <4>1, <4>3
    <3>6. CASE x # v
      <4>1. Held(x, l)' = Held(x, l)
        BY <1>4, <3>1, <3>6
      <4> QED BY <1>11, <2>1, <3>2, <3>4, <3>6, <4>1
    <3> QED BY <3>5, <3>6
  <2>4. CASE l = "decodeQ"
    <3>1. Held(x, l) = decodeQ[x] /\ Held(x, l)' = decodeQ'[x]
      BY <2>4 DEF Held
    <3>2. \A r \in Inside' : p[r] = <<x, l>> <=>
             \/ r \in g /\ to[r] = x
             \/ x = v /\ r \in d
             \/ r \notin b \cup d /\ place[r] = <<x, l>>
      BY <1>8, <1>16, <2>2, <2>4
    <3>3. \A r \in Members(Held(x, l)) : r \in Inside' /\ r \notin b \cup d
      BY <1>11, <1>15, <2>1, <2>4
    <3>4. /\ \A r \in g : r \in Inside'
          /\ \A r \in d : r \in Inside' <=> r \notin exited'
      BY <1>0, <1>8, <1>9, <1>10 DEF Inside
    <3>5. Held(x, l)' \in Seq(Requests) /\ Distinct(Held(x, l)')
      BY <1>5, <1>6, <3>1
    <3>6. \A r : r \in Members(Held(x, l)') <=>
             r \in Members(Held(x, l)) \/ (r \in g /\ to[r] = x) \/ (x = v /\ r \in d \ exited')
      BY <1>5, <3>1
    <3> QED BY <1>11, <2>1, <3>2, <3>3, <3>4, <3>5, <3>6
  <2>5. CASE l \in {"prefill", "decode"}
    <3>1. \A r \in Inside' : p[r] = <<x, l>> <=> r \notin b \cup d /\ place[r] = <<x, l>>
      BY <1>16, <2>2, <2>5
    <3>2. CASE x = w
      <4>1. Held(x, l)' = <<>>
        <5>1. running'[w] = [prefill |-> <<>>, decode |-> <<>>]
          BY <1>0, <1>7 DEF RingInv, RingType
        <5> QED BY <2>5, <3>2, <5>1 DEF Held
      <4>2. Members(<<>>) = {} /\ Distinct(<<>>) /\ <<>> \in Seq(Requests)
        BY DEF Members, Distinct
      <4>3. \A r \in Inside' : ~(r \notin b \cup d /\ place[r] = <<x, l>>)
        BY <1>11, <1>15, <2>5, <3>2
      <4> QED BY <3>1, <4>1, <4>2, <4>3
    <3>3. CASE x # w
      <4>1. Held(x, l)' = Held(x, l)
        <5>1. running'[x] = running[x]
          BY <1>7, <3>3
        <5> QED BY <2>5, <5>1 DEF Held
      <4>2. \A r \in Members(Held(x, l)) : r \notin b \cup d
        BY <1>15, <2>1, <3>3
      <4> QED BY <1>11, <2>1, <3>1, <4>1, <4>2
    <3> QED BY <3>2, <3>3
  <2> QED BY <1>12, <2>3, <2>4, <2>5
<1>19. Placed(p)'
  BY <1>3, <1>17, <1>18 DEF Placed
<1> QED BY <1>19

LEMMA FinishRing ==
    ASSUME ChunkInv, TokenInv, RingInv, NEW w, Finish(w)
    PROVE  RingInv'
<1>0. w \in Workers /\ state[w] = "busy" /\ UNCHANGED <<cluster, arrived>>
  BY DEF Finish
<1>1. PICK v, b, d, g : /\ v = NextWorker(w) /\ b = Members(Batch(w))
                        /\ d = Members(running[w].decode) /\ g = Going(w)
  OBVIOUS
<1>2. v \in Workers /\ Workers' = Workers
  BY <1>0, <1>1, NextIsWorker, SameWorkers DEF ChunkInv, SimType
<1>3. /\ \A r \in b \cup d :
           /\ r \in Inside /\ r \in Requests
           /\ \A x \in Workers : r \notin Members(prefillQ[x]) /\ r \notin Members(decodeQ[x])
           /\ \A x \in Workers \ {w} :
                r \notin Members(Batch(x)) /\ r \notin Members(running[x].decode)
      /\ b \cap d = {}
  BY <1>0, <1>1, BatchApart
<1>4. /\ exited \subseteq exited' /\ exited' \subseteq exited \cup b \cup d
      /\ \A r \in b : r \in exited' <=> Prefilled(w, r) /\ OutputLen[r] = 0
      /\ \A r \in d : r \in exited' <=> IsLast(w) /\ req[r].counter + 1 = OutputLen[r]
  BY <1>1, FinishExits
<1>5. /\ req' \in [Requests -> Limits]
      /\ \A r \in Requests :
           /\ req'[r].remain = req[r].remain
           /\ r \notin b => req'[r].current = req[r].current
           /\ req'[r].counter =
                IF ~IsLast(w) THEN req[r].counter
                ELSE IF r \in b THEN IF req[r].remain = 0 THEN 0 ELSE req[r].counter
                ELSE IF r \in d THEN req[r].counter + 1 ELSE req[r].counter
  BY <1>1, FinishCounts
<1>6. PICK s \in Seq(Requests) :
             /\ Members(s) = b \ {r \in Requests : Prefilled(w, r)}
             /\ \A x \in Workers : prefillQ'[x] = IF x = v THEN prefillQ[x] \o s ELSE prefillQ[x]
             /\ \A x \in Workers : Batch(x)' = IF x = w THEN <<>> ELSE Batch(x)
  BY <1>1, FinishMoves
<1>7. /\ decodeQ' \in [Workers -> Seq(Requests)]
      /\ \A x \in Workers : \A r \in Members(decodeQ'[x]) :
            r \in Members(decodeQ[x]) \/ r \in g \/ r \in d \ exited'
  BY <1>1, FinishDecodes
<1>8. /\ running' = [running EXCEPT ![w] = [prefill |-> <<>>, decode |-> <<>>]]
      /\ running \in [Workers -> [prefill: Seq(Requests), decode: Seq(Requests)]]
  BY DEF Finish, RingInv, RingType
<1>9. /\ running'[w] = [prefill |-> <<>>, decode |-> <<>>]
      /\ \A x \in Workers \ {w} : running'[x] = running[x]
  BY <1>0, <1>8
<1>10. /\ \A r \in b : req[r].counter < 0
       /\ \A r \in d : req[r].counter \in 0..(OutputLen[r] - 1) /\ req[r].remain = 0
  BY <1>0, <1>1 DEF RingInv, CountsFit
<1>11. \A r \in g : r \in b /\ IsLast(w) /\ req[r].remain = 0 /\ OutputLen[r] \in Nat \ {0}
  BY <1>1, <1>3, SimulatorAssumption DEF Going, Prefilled
<1>12. \A r \in Requests \ (b \cup d) : req'[r].counter = req[r].counter
  BY <1>5
<1>13. DOMAIN state' = Workers /\ state'[w] = "loop"
       /\ \A x \in Workers \ {w} :
            IF state[x] = "asleep" /\ (prefillQ'[x] # prefillQ[x] \/ decodeQ'[x] # decodeQ[x])
            THEN state'[x] = "woken" ELSE state'[x] = state[x]
  <2> DEFINE fed == {x \in Workers : prefillQ'[x] # prefillQ[x] \/ decodeQ'[x] # decodeQ[x]}
  <2>1. state' = [Wake(fed) EXCEPT ![w] = "loop"]
    BY DEF Finish
  <2>2. Wake(fed) = [x \in Workers |-> IF x \in fed /\ state[x] = "asleep" THEN "woken"
                                       ELSE state[x]]
    BY DEF Wake
  <2>3. \A x \in Workers : x \in fed <=> prefillQ'[x] # prefillQ[x] \/ decodeQ'[x] # decodeQ[x]
    OBVIOUS
  <2> HIDE DEF fed
  <2> QED BY <1>0, <2>1, <2>2, <2>3
<1>14. RingType'
  <2>1. exited' \subseteq arrived
    BY <1>3, <1>4 DEF Inside, RingInv, RingType
  <2>2. running' \in [Workers -> [prefill: Seq(Requests), decode: Seq(Requests)]]
    <3>1. <<>> \in Seq(Requests)
      OBVIOUS
    <3>2. [prefill |-> <<>>, decode |-> <<>>] \in [prefill: Seq(Requests), decode: Seq(Requests)]
      BY <3>1
    <3> QED BY <1>8, <3>2
  <2> QED BY <1>0, <1>2, <1>7, <1>13, <2>1, <2>2 DEF RingInv, RingType
<1>15. (\E place : Placed(place))'
  BY FinishPlaces
<1>16. CountsFit'
  <2>1. ASSUME NEW r \in Requests \ arrived' PROVE req'[r].counter < 0
    <3>1. r \notin b \cup d /\ r \notin arrived
      BY <1>0, <1>3 DEF Inside
    <3> QED BY <1>12, <3>1 DEF RingInv, CountsFit
  <2>2. ASSUME NEW x \in Workers, NEW r \in Members(prefillQ'[x]) \cup Members(Batch(x)')
        PROVE  req'[r].counter < 0
    <3>1. CASE r \in Members(s)
      <4>1. r \in b /\ r \in Requests /\ ~Prefilled(w, r)
        BY <1>3, <1>6, <3>1
      <4>2. req'[r].counter = req[r].counter
        BY <1>5, <4>1 DEF Prefilled
      <4> QED BY <1>10, <4>1, <4>2
    <3>2. CASE r \in Members(prefillQ[x])
      <4>1. r \in Requests /\ r \notin b \cup d
        BY <1>3, <3>2, BatchMembers
      <4> QED BY <1>12, <3>2, <4>1 DEF RingInv, CountsFit
    <3>3. CASE x # w /\ r \in Members(Batch(x))
      <4>1. r \in Requests /\ r \notin b \cup d
        BY <1>3, <3>3, BatchMembers
      <4> QED BY <1>12, <3>3, <4>1 DEF RingInv, CountsFit
    <3>4. \/ r \in Members(s) \/ r \in Members(prefillQ[x])
          \/ x # w /\ r \in Members(Batch(x))
      <4>1. prefillQ[x] \in Seq(Requests) /\ Members(<<>>) = {}
        BY DEF ChunkInv, SimType, Members
      <4>2. Members(prefillQ[x] \o s) = Members(prefillQ[x]) \cup Members(s)
        BY <4>1, MembersOfConcat
      <4> QED BY <1>6, <2>2, <4>1, <4>2
    <3> QED BY <3>1, <3>2, <3>3, <3>4
  <2>3. ASSUME NEW x \in Workers,
               NEW r \in Members(decodeQ'[x]) \cup Members(running'[x].decode)
        PROVE  req'[r].counter \in 0..(OutputLen[r] - 1) /\ req'[r].remain = 0
    <3>1. CASE r \in g
      <4>1. r \in b /\ r \in Requests /\ IsLast(w) /\ req[r].remain = 0
            /\ OutputLen[r] \in Nat \ {0}
        BY <1>3, <1>11, <3>1
      <4>2. req'[r].counter = 0 /\ req'[r].remain = 0
        BY <1>5, <4>1
      <4> QED BY <4>1, <4>2
    <3>2. CASE r \in d \ exited'
      <4>1. /\ r \in Requests /\ r \notin b /\ req[r].counter \in 0..(OutputLen[r] - 1)
            /\ req[r].remain = 0 /\ OutputLen[r] \in Nat
        BY <1>3, <1>10, <3>2, SimulatorAssumption
      <4>2. ~(IsLast(w) /\ req[r].counter + 1 = OutputLen[r])
        BY <1>4, <3>2
      <4>3. /\ req'[r].remain = 0
            /\ req'[r].counter = IF IsLast(w) THEN req[r].counter + 1 ELSE req[r].counter
        BY <1>5, <3>2, <4>1
      <4> QED BY <4>1, <4>2, <4>3
    <3>3. CASE \/ r \in Members(decodeQ[x])
               \/ x # w /\ r \in Members(running[x].decode)
      <4>1. r \notin b \cup d
        BY <1>3, <3>3
      <4>2. r \in Requests
        <5>1. decodeQ[x] \in Seq(Requests) /\ running[x].decode \in Seq(Requests)
          BY <1>8 DEF RingInv, RingType
        <5> QED BY <3>3, <5>1, ElementOfSeq DEF Members
      <4>3. req'[r].counter = req[r].counter /\ req'[r].remain = req[r].remain
        BY <1>5, <1>12, <4>1, <4>2
      <4> QED BY <3>3, <4>3 DEF RingInv, CountsFit
    <3>4. x = w => Members(running'[x].decode) = {}
      BY <1>9 DEF Members
    <3>5. x # w => running'[x].decode = running[x].decode
      BY <1>9
    <3> QED BY <1>7, <2>3, <3>1, <3>2, <3>3, <3>4, <3>5
  <2>4. ASSUME NEW r \in exited' PROVE req'[r].counter = OutputLen[r] /\ req'[r].remain = 0
    <3>1. CASE r \in exited
      <4>1. r \notin b \cup d /\ r \in Requests
        BY <1>3, <3>1 DEF Inside, RingInv, RingType
      <4>2. req[r].counter = OutputLen[r] /\ req[r].remain = 0
        BY <3>1 DEF RingInv, CountsFit, SimulatedInFull
      <4> QED BY <1>5, <4>1, <4>2
    <3>2. CASE r \in b
      <4>1. r \in Requests /\ Prefilled(w, r) /\ OutputLen[r] = 0
        BY <1>3, <1>4, <2>4, <3>2
      <4> QED BY <1>5, <3>2, <4>1 DEF Prefilled
    <3>3. CASE r \in d
      <4>1. r \in Requests /\ r \notin b /\ IsLast(w) /\ req[r].counter + 1 = OutputLen[r]
            /\ req[r].remain = 0
        BY <1>3, <1>4, <1>10, <2>4, <3>3
      <4> QED BY <1>5, <3>3, <4>1
    <3> QED BY <1>4, <3>1, <3>2, <3>3
  <2>5. SimulatedInFull'
    BY <2>4 DEF SimulatedInFull
  <2> QED BY <1>2, <2>1, <2>2, <2>3, <2>5 DEF CountsFit
<1>17. BatchOnlyIfBusy'
  <2> SUFFICES ASSUME NEW x \in Workers, state'[x] # "busy"
               PROVE  running'[x].prefill = <<>> /\ running'[x].decode = <<>>
    BY <1>2 DEF BatchOnlyIfBusy
  <2>1. CASE x = w
    BY <1>9, <2>1
  <2>2. CASE x # w
    <3>1. state[x] # "busy" /\ running'[x] = running[x]
      BY <1>9, <1>13, <2>2
    <3> QED BY <3>1 DEF RingInv, BatchOnlyIfBusy
  <2> QED BY <2>1, <2>2
<1>18. NoWakeupLost'
  <2> SUFFICES ASSUME NEW x \in Workers, state'[x] = "asleep"
               PROVE  prefillQ'[x] = <<>> /\ decodeQ'[x] = <<>>
    BY <1>2 DEF NoWakeupLost
  <2>1. state[x] = "asleep" /\ prefillQ'[x] = prefillQ[x] /\ decodeQ'[x] = decodeQ[x]
    BY <1>13
  <2> QED BY <2>1 DEF RingInv, NoWakeupLost
<1>19. TokensBounded'
  <2> SUFFICES ASSUME NEW x \in Workers
               PROVE  \/ TokensOf(Members(Batch(x)))' + Len(running'[x].decode) <= PrefillMaxTokens
                      \/ Batch(x)' = <<>> /\ Len(running'[x].decode) <= DecodeMaxTokens
    BY <1>2 DEF TokensBounded
  <2>1. CASE x = w
    <3>1. Batch(x)' = <<>> /\ running'[x].decode = <<>> /\ Len(<<>>) = 0
      BY <1>6, <1>9, <2>1
    <3> QED BY <3>1, SimulatorAssumption
  <2>2. CASE x # w
    <3>1. Batch(x)' = Batch(x) /\ running'[x] = running[x]
      BY <1>6, <1>9, <2>2
    <3>2. \A r \in Members(Batch(x)) : r \in Requests /\ req'[r].current = req[r].current
      BY <1>3, <1>5, <2>2, BatchMembers
    <3>3. PICK C : C = Members(Batch(x))
      OBVIOUS
    <3>4. TokensOf(C)' = TokensOf(C)
      BY <3>2, <3>3, SameTokens
    <3>5. TokensOf(Members(Batch(x)))' = TokensOf(Members(Batch(x)))
      BY <3>1, <3>3, <3>4 DEF TokensOf
    <3> QED BY <3>1, <3>5 DEF RingInv, TokensBounded
  <2> QED BY <2>1, <2>2
<1> QED BY <1>14, <1>15, <1>16, <1>17, <1>18, <1>19 DEF RingInv

LEMMA RingAlways == SimSpec => []RingInv
<1>1. SimInit => RingInv
  BY RingInit
<1>2. ChunkInv /\ TokenInv /\ RingInv /\ [SimNext]_simVars => RingInv'
  <2> SUFFICES ASSUME ChunkInv, TokenInv, RingInv, [SimNext]_simVars PROVE RingInv'
    OBVIOUS
  <2>1. CASE \E r \in Requests : Arrive(r)
    BY <2>1, ArriveRing
  <2>2. ASSUME NEW w \in AllWorkers,
               BeginPrefill(w) \/ BeginDecode(w) \/ FallAsleep(w) \/ Finish(w)
        PROVE  RingInv'
    <3>1. CASE FallAsleep(w)
      <4>1. /\ w \in Workers /\ state' = [state EXCEPT ![w] = "asleep"]
            /\ state[w] = "loop" /\ prefillQ[w] = <<>> /\ decodeQ[w] = <<>>
            /\ UNCHANGED <<cluster, arrived, req, exited, prefillQ, decodeQ, running>>
        BY <3>1 DEF FallAsleep
      <4>2. Workers' = Workers
        BY <4>1, SameWorkers
      <4>3. RingType' /\ BatchOnlyIfBusy' /\ NoWakeupLost'
        BY <4>1, <4>2 DEF RingInv, RingType, BatchOnlyIfBusy, NoWakeupLost
      <4> QED BY <4>1, <4>2, <4>3, RingSame DEF RingInv
    <3> QED BY <2>2, <3>1, BeginPrefillRing, BeginDecodeRing, FinishRing
  <2>3. CASE UNCHANGED simVars
    <3>1. UNCHANGED <<cluster, arrived, req, exited, prefillQ, decodeQ, running, state>>
      BY <2>3 DEF simVars
    <3>2. Workers' = Workers
      BY <3>1, SameWorkers
    <3>3. RingType' /\ BatchOnlyIfBusy' /\ NoWakeupLost'
      BY <3>1, <3>2 DEF RingInv, RingType, BatchOnlyIfBusy, NoWakeupLost
    <3> QED BY <3>1, <3>2, <3>3, RingSame DEF RingInv
  <2> QED BY <2>1, <2>2, <2>3 DEF SimNext
<1> QED BY <1>1, <1>2, SimInvAlways, PTL DEF SimSpec

(* Every request that has arrived and has not left the simulation is in    *)
(* one queue or batch of one worker, once, and nobody else is: none is     *)
(* lost on its way round the ring or to the decode workers, and none is    *)
(* run twice.                                                              *)
EachInOnePlace ==
    /\ \A r \in Requests :
         r \in Inside <=> \E w \in Workers, k \in Kinds : r \in Members(Held(w, k))
    /\ \A w, x \in Workers, k, l \in Kinds :
       \A i \in 1..Len(Held(w, k)), j \in 1..Len(Held(x, l)) :
         Held(w, k)[i] = Held(x, l)[j] => w = x /\ k = l /\ i = j
(* For every cluster and every order of arrivals and iterations. *)
THEOREM PlacesCorrect == SimSpec => []EachInOnePlace
<1>1. RingInv => EachInOnePlace
  <2> SUFFICES ASSUME RingInv PROVE EachInOnePlace
    OBVIOUS
  <2>1. PICK place : Placed(place)
    BY DEF RingInv
  <2>2. ASSUME NEW r \in Requests
        PROVE  r \in Inside <=> \E w \in Workers, k \in Kinds : r \in Members(Held(w, k))
    <3>1. CASE r \in Inside
      <4>1. PICK w \in Workers, k \in Kinds : place[r] = <<w, k>>
        BY <2>1, <3>1 DEF Placed
      <4> QED BY <2>1, <3>1, <4>1 DEF Placed
    <3>2. CASE r \notin Inside
      BY <2>1, <3>2 DEF Placed
    <3> QED BY <3>1, <3>2
  <2>3. ASSUME NEW w \in Workers, NEW x \in Workers, NEW k \in Kinds, NEW l \in Kinds,
               NEW i \in 1..Len(Held(w, k)), NEW j \in 1..Len(Held(x, l)),
               Held(w, k)[i] = Held(x, l)[j]
        PROVE  w = x /\ k = l /\ i = j
    <3>1. Held(w, k)[i] \in Members(Held(w, k)) /\ Held(w, k)[i] \in Members(Held(x, l))
      BY <2>3 DEF Members
    <3>2. w = x /\ k = l
      BY <2>1, <3>1, Elsewhere
    <3>3. Distinct(Held(w, k))
      BY <2>1 DEF Placed
    <3> QED BY <2>3, <3>2, <3>3 DEF Distinct
  <2> QED BY <2>2, <2>3 DEF EachInOnePlace
<1> QED BY <1>1, RingAlways, PTL

(* A worker that waits for its event has nothing to do: whoever gives it   *)
(* something triggers the event, also while it is busy or about to wait.   *)
THEOREM WakeupsCorrect == SimSpec => []NoWakeupLost
<1>1. RingInv => NoWakeupLost
  BY DEF RingInv
<1> QED BY <1>1, RingAlways, PTL

(* What has left was simulated in full: no token of its prompt is left to  *)
(* prefill, and it was decoded in exactly output_lens rounds of a ring.    *)
THEOREM SimulatedCorrect == SimSpec => []SimulatedInFull
<1>1. RingInv => SimulatedInFull
  BY DEF RingInv, CountsFit
<1> QED BY <1>1, RingAlways, PTL

(* No iteration exceeds the worker's budgets, whatever the chunks and the  *)
(* decodes that share it with them (_enter_prefill, _enter_decodes).       *)
THEOREM BudgetCorrect == SimSpec => []TokensBounded
<1>1. RingInv => TokensBounded
  BY DEF RingInv
<1> QED BY <1>1, RingAlways, PTL

=============================================================================
