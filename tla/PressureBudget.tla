--------------------------- MODULE PressureBudget ---------------------------
(***************************************************************************)
(* PressureBudgetController of distserve/phase_scheduler.py: it turns the  *)
(* pressures a scheduler reports each iteration into four budgets, two for *)
(* the prefill scheduler (tokens, block margin) and two for the decoding   *)
(* scheduler (swap-ins, scan limit), and a mode with hysteresis.           *)
(*                                                                         *)
(* The pressures and rhos are numbers of Unit-ths, so that int(round(...)) *)
(* is exact: a tie goes to the even number.  The pressure "age" and the    *)
(* figures that are only reported are left out.                            *)
(***************************************************************************)
EXTENDS Integers, FiniteSets

CONSTANTS
    Unit,            \* the pressure 1.0
    Pressures,       \* the values of a clamped pressure that are explored
    MinBudget,       \* the min_... and max_... attributes of the controller,
    MaxBudget,       \*   records with the fields prefill, margin, swap, scan
    SmoothPercent,   \* 100 * smooth_lambda
    RhoLowPercent,   \* 100 * rho_low
    RhoHighPercent   \* 100 * rho_high

Knobs == {"prefill", "margin", "swap", "scan"}
Sources == {"bridge", "decode", "kv", "swap"}

ASSUME PressureBudgetAssumption ==
    /\ Unit \in Nat \ {0}
    /\ Pressures \subseteq 0..Unit
    /\ MinBudget \in [Knobs -> Nat] /\ MaxBudget \in [Knobs -> Nat]
    /\ \A k \in Knobs : MinBudget[k] <= MaxBudget[k]
    /\ SmoothPercent \in 0..100
    /\ RhoLowPercent \in 0..100 /\ RhoHighPercent \in 0..100
    /\ RhoLowPercent <= RhoHighPercent

VARIABLES
    aggregation,  \* "max" or "weighted", with the default weights 1.0
    dynamic,      \* not disable_dynamic
    mode,         \* previous_mode
    budget,       \* previous_budget: knob -> value
    updated,      \* previous_budget is not None
    pressure      \* the pressures of the last update

vars == <<aggregation, dynamic, mode, budget, updated, pressure>>

-----------------------------------------------------------------------------
(* Operators marked "mistake:" are not part of the specification.  Each is *)
(* a slip that the code could have made in the definition that follows it, *)
(* kept to see that the properties notice it.                              *)

(* int(round(n / d)) of Python, for n >= 0 and d > 0 *)
RoundHalfEven(n, d) ==
    LET q == n \div d
        r == n % d
    IN  IF 2 * r < d \/ (2 * r = d /\ q % 2 = 0) THEN q ELSE q + 1

(* _aggregate_keys: the largest pressure of the keys, or their mean.       *)
(* Pressures are multiples of four units, for the mean to be exact.        *)
Total(p, keys) ==
    (IF "bridge" \in keys THEN p["bridge"] ELSE 0)
    + (IF "decode" \in keys THEN p["decode"] ELSE 0)
    + (IF "kv" \in keys THEN p["kv"] ELSE 0)
    + (IF "swap" \in keys THEN p["swap"] ELSE 0)
Aggregate(p, keys) ==
    IF aggregation = "weighted"
    THEN Total(p, keys) \div Cardinality(keys)
    ELSE CHOOSE v \in {p[k] : k \in keys} : \A k \in keys : p[k] <= v

(* The rho that drives a knob *)
Rho(p, knob) ==
    CASE knob = "prefill" -> Aggregate(p, {"bridge", "decode"})
      [] knob = "swap"    -> p["swap"]
      [] OTHER            -> Aggregate(p, {"kv", "swap"})

(* mistake: the lower end of the range is not added *)
RawAtFromZero(knob, x) ==
    LET share == IF knob = "margin" THEN x ELSE Unit - x
    IN  RoundHalfEven(share * (MaxBudget[knob] - MinBudget[knob]), Unit)

(* mistake: the block margin narrows under pressure like the others *)
RawAtSameSign(knob, x) ==
    IF MaxBudget[knob] = 0 THEN 0
    ELSE RoundHalfEven(MinBudget[knob] * Unit
                         + (Unit - x) * (MaxBudget[knob] - MinBudget[knob]), Unit)

(* The raw budget of a knob when its rho is x.  A higher rho widens the    *)
(* block margin and narrows the other three.                               *)
RawAt(knob, x) ==
    LET share == IF knob = "margin" THEN x ELSE Unit - x
    IN  IF MaxBudget[knob] = 0 THEN 0
        ELSE RoundHalfEven(MinBudget[knob] * Unit
                             + share * (MaxBudget[knob] - MinBudget[knob]), Unit)
Raw(p, knob) == RawAt(knob, Rho(p, knob))

(* mistake: int() without round() *)
SmoothDown(previous, raw) ==
    (SmoothPercent * previous + (100 - SmoothPercent) * raw) \div 100

(* _smooth_int *)
Smooth(previous, raw) ==
    RoundHalfEven(SmoothPercent * previous + (100 - SmoothPercent) * raw, 100)

(* What update makes of the previous budget and a raw one *)
NextBudget(knob, raw) ==
    IF updated THEN Smooth(budget[knob], raw) ELSE raw

(* mistake: between the thresholds the mode is forgotten *)
NextModeBalanced(p) ==
    LET down == Aggregate(p, Sources) IN
    IF down * 100 >= RhoHighPercent * Unit THEN "BACKPRESSURE"
    ELSE IF down * 100 <= RhoLowPercent * Unit THEN "OPEN"
    ELSE "BALANCED"

NextMode(p) ==
    LET down == Aggregate(p, Sources) IN
    IF down * 100 >= RhoHighPercent * Unit THEN "BACKPRESSURE"
    ELSE IF down * 100 <= RhoLowPercent * Unit THEN "OPEN"
    ELSE mode

(* _static_budget opens every knob *)
StaticBudget(knob) ==
    IF knob = "margin" THEN MinBudget[knob] ELSE MaxBudget[knob]

-----------------------------------------------------------------------------
Init ==
    /\ aggregation \in {"max", "weighted"}
    /\ dynamic \in BOOLEAN
    /\ mode = "OPEN"
    /\ budget = [k \in Knobs |-> 0]
    /\ updated = FALSE
    /\ pressure = [s \in Sources |-> 0]

Update ==
    /\ dynamic
    /\ \E p \in [Sources -> Pressures] :
         /\ pressure' = p
         /\ mode' = NextMode(p)
         /\ budget' = [k \in Knobs |-> NextBudget(k, Raw(p, k))]
    /\ updated' = TRUE
    /\ UNCHANGED <<aggregation, dynamic>>

StaticUpdate ==
    /\ ~dynamic
    /\ \E p \in [Sources -> Pressures] : pressure' = p
    /\ mode' = "STATIC"
    /\ budget' = [k \in Knobs |-> StaticBudget(k)]
    /\ updated' = TRUE
    /\ UNCHANGED <<aggregation, dynamic>>

Next == Update \/ StaticUpdate

Spec == Init /\ [][Next]_vars

(* The schedulers update the controller in every iteration. *)
FairSpec == Spec /\ WF_vars(Next)

-----------------------------------------------------------------------------
(* Every variable has its type. *)
TypeOK ==
    /\ aggregation \in {"max", "weighted"}
    /\ dynamic \in BOOLEAN /\ updated \in BOOLEAN
    /\ mode \in {"OPEN", "BACKPRESSURE", "STATIC"}
    /\ budget \in [Knobs -> Nat]
    /\ pressure \in [Sources -> 0..Unit]

(* Whatever sequence of pressures was reported, and however often their    *)
(* effect was smoothed and rounded, a budget never leaves the range it was *)
(* configured with.                                                        *)
BudgetsInRange ==
    updated => \A k \in Knobs : budget[k] \in MinBudget[k]..MaxBudget[k]

(* Budget monotonicity (docs/methodology.md): in the same state, a higher  *)
(* pressure never leads to a looser budget, in spite of the rounding.  One *)
(* unit more is enough to look at.                                         *)
Tighter(knob, x, y) == IF knob = "margin" THEN x >= y ELSE x <= y
PressureTightens ==
    \A k \in Knobs : \A x \in 1..Unit :
        Tighter(k, NextBudget(k, RawAt(k, x)), NextBudget(k, RawAt(k, x - 1)))

(* An update brings each budget closer to the raw budget of the pressures  *)
(* it was given, until the rounding stops it: SmoothPercent = 80 leaves a  *)
(* distance of two, which no number of updates removes.                    *)
Distance(x, y) == IF x > y THEN x - y ELSE y - x
DeadZone == 50 \div (100 - SmoothPercent)
Approaches ==
    (dynamic /\ updated) =>
        \A k \in Knobs :
            LET before == Distance(budget[k], Raw(pressure', k))
                after  == Distance(budget'[k], Raw(pressure', k))
            IN  after <= before /\ (before > DeadZone => after < before)
BudgetApproachesRaw == [][Approaches]_vars

(* docs/pbc_component_mapping.md: when the swap pressure is high, there    *)
(* are fewer swap-ins per iteration.  Stated for a pressure that has been  *)
(* at its maximum from some point on.                                      *)
SwapPressureCutsSwapIns ==
    dynamic /\ <>[](pressure["swap"] = Unit) => <>[](budget["swap"] < MaxBudget["swap"])
=============================================================================
