-------------------------- MODULE DeploymentProofs --------------------------
(***************************************************************************)
(* For every cluster, model and number of faults: the bisection of         *)
(* simulate.py brackets the rate it reports, every worker of a server that *)
(* was started with the result has a placement group to go to, and no      *)
(* worker loads weights that are not wholly written.                       *)
(*                                                                         *)
(* Three invariants, each inductive with the ones before it.  SearchInv    *)
(* says that every configuration was enumerated and that both ends of the  *)
(* bisection were simulated.  PlaceInv carries over to the server that the *)
(* pipeline sizes divide the number of layers, from which it follows that  *)
(* a worker's placement group, and with it its disk, exists (DiskExists).  *)
(* StoreInv is about the file lock: who checks, converts or marks holds    *)
(* it, and the marker `done` is only there with the whole weights.         *)
(***************************************************************************)
EXTENDS Deployment, CommonLemmas

-----------------------------------------------------------------------------
(* The search *)
Searches == [alive: BOOLEAN, low: Nat, high: Nat, best: Nat, tested: SUBSET (Nat \X BOOLEAN)]

(* Both ends of a bisection were simulated, or are where it began.         *)
Bracketed(s) ==
    /\ s.low <= s.high /\ s.high <= MaxRate
    /\ s.best = s.low
    /\ s.low = 0 \/ <<s.low, TRUE>> \in s.tested
    /\ s.high = MaxRate \/ <<s.high, FALSE>> \in s.tested

AllConfigs == IF backend = "vllm" THEN VLLMConfigs ELSE DistserveConfigs

SearchInv ==
    /\ cluster \in (Nat \ {0}) \X (Nat \ {0})
    /\ configs \subseteq AllConfigs
    /\ search \in [DOMAIN search -> Searches]
    /\ DOMAIN search \subseteq AllConfigs \ configs
    /\ result \in [DOMAIN result -> Nat]
    /\ DOMAIN result \subseteq DOMAIN search
    /\ \A c \in DOMAIN search : Bracketed(search[c])
    /\ \A c \in DOMAIN result :
         /\ ~search[c].alive /\ result[c] = search[c].best
         /\ search[c].high - search[c].low <= Esp
    /\ best_config \in AllConfigs \cup {<<>>}

(* The server *)
WorkerStates == {"init", "check", "convert", "mark", "load", "loaded", "raised", "dead"}
Holders == {"check", "convert", "mark"}

PlaceInv ==
    /\ nodes \in Nat \ {0}
    /\ \A s \in Stages : PP(s) \in Divisors(NumLayers)
    /\ groups \in Seq(1..nodes)
    /\ status \in {"starting", "initialized"} => Len(groups) = NumPlacementGroups
    /\ DOMAIN worker # {} => status \in {"starting", "initialized"}
    /\ DOMAIN worker \subseteq Workers

(* What a worker has found, or holds, on its disk. *)
Secured(w) ==
    /\ worker[w] \in Holders => lock[Disk(w)] = w
    /\ Writing(w) => ~folder[Disk(w)].done
    /\ worker[w] = "mark" => folder[Disk(w)].content = "whole"
    /\ worker[w] = "load" => folder[Disk(w)].done

Folders == [content: {"none", "partial", "whole"}, done: BOOLEAN]
StoreInv ==
    /\ worker \in [DOMAIN worker -> WorkerStates]
    /\ lock \in [1..nodes -> (Stages \X Nat \X Nat) \cup {NoWorker}]
    /\ folder \in [1..nodes -> Folders]
    /\ \A d \in 1..nodes : folder[d].done => folder[d].content = "whole"
    /\ \A w \in DOMAIN worker : Secured(w)
-----------------------------------------------------------------------------
(* A set of tuples of naturals that is not empty has a least element in    *)
(* the order of itertools.product.                                         *)
LEMMA LeastTuple ==
    ASSUME NEW n \in Nat, NEW T, T # {},
           \A c \in T : c \in [1..n -> Nat] /\ Len(c) = n
    PROVE  \E c \in T : \A d \in T \ {c} : Before(c, d)
<1> DEFINE R == OpToRel(<, Nat)
<1>1. IsWellFoundedOn(LexProductOrdering(R, Nat, n), [1..n -> Nat])
  <2>1. IsWellFoundedOn(R, Nat)
    BY NatLessThanWellFounded
  <2> HIDE DEF R
  <2> QED BY <2>1, WFLexProductOrdering
<1>2. PICK c \in T : \A d \in T : ~(<<d, c>> \in LexProductOrdering(R, Nat, n))
  <2>1. T \subseteq [1..n -> Nat]
    OBVIOUS
  <2> HIDE DEF R
  <2> QED BY <1>1, <2>1, WFMin
<1>3. ASSUME NEW d \in T \ {c}
      PROVE  Before(c, d)
  <2> DEFINE D == {i \in 1..n : c[i] # d[i]}
  <2>1. c \in [1..n -> Nat] /\ d \in [1..n -> Nat] /\ c # d
    OBVIOUS
  <2>2. D # {} /\ D \subseteq Nat
    <3>1. c = [i \in 1..n |-> c[i]] /\ d = [i \in 1..n |-> d[i]]
      BY <2>1
    <3>2. (\A i \in 1..n : c[i] = d[i]) => [i \in 1..n |-> c[i]] = [i \in 1..n |-> d[i]]
      OBVIOUS
    <3>3. ~(\A i \in 1..n : c[i] = d[i])
      BY <2>1, <3>1, <3>2, Zenon
    <3>4. \E i \in 1..n : c[i] # d[i]
      BY <3>3, Zenon
    <3>5. D # {}
      BY <3>4, Zenon
    <3>6. \A i \in D : i \in Nat
      OBVIOUS
    <3> HIDE DEF D
    <3> QED BY <3>5, <3>6
  <2>3. PICK i \in D : \A j \in D : i <= j
    BY <2>2, LeastNatural
  <2>4. i \in 1..n /\ \A j \in 1..(i - 1) : c[j] = d[j]
    BY <2>3
  <2>5. ~(d[i] < c[i])
    <3> SUFFICES ASSUME d[i] < c[i] PROVE FALSE
      OBVIOUS
    <3>1. <<d[i], c[i]>> \in R
      BY <2>1, <2>4 DEF OpToRel
    <3> HIDE DEF R
    <3>2. <<d, c>> \in LexProductOrdering(R, Nat, n)
      BY <2>1, <2>4, <3>1 DEF LexProductOrdering
    <3> QED BY <1>2, <3>2
  <2>6. c[i] < d[i]
    BY <2>1, <2>3, <2>5
  <2>7. Len(c) = n
    OBVIOUS
  <2> QED BY <2>4, <2>6, <2>7 DEF Before
<1> QED BY <1>3

-----------------------------------------------------------------------------
(* The configurations of one command are tuples of one length.             *)
LEMMA ConfigsAreTuples ==
    ASSUME cluster \in (Nat \ {0}) \X (Nat \ {0})
    PROVE  \E n \in Nat : \A c \in AllConfigs : c \in [1..n -> Nat] /\ Len(c) = n
<1>1. PossibleTP \subseteq Nat /\ PossiblePP \subseteq Nat
  BY DEF PossibleTP, PossiblePP, Divisors
<1>2. CASE backend = "vllm"
  <2>1. ASSUME NEW c \in PossibleTP \X PossiblePP
        PROVE  c \in [1..2 -> Nat] /\ Len(c) = 2
    <3>1. PICK x \in PossibleTP, y \in PossiblePP : c = <<x, y>>
      OBVIOUS
    <3>2. x \in Nat /\ y \in Nat
      BY <1>1
    <3> QED BY <3>1, <3>2
  <2> QED BY <1>2, <2>1 DEF AllConfigs, VLLMConfigs
<1>3. CASE backend # "vllm"
  <2> DEFINE Width == IF high_affinity THEN NumNodes * GpusPerNode ELSE GpusPerNode
             Crosses == IF high_affinity THEN {1} ELSE PossiblePP \cap 1..NumNodes
             TPs == PossibleTP \cap 1..Width
             PPs == PossiblePP \cap 1..Width
  <2>1. Crosses \subseteq Nat /\ TPs \subseteq Nat /\ PPs \subseteq Nat
    BY <1>1
  <2>2. DistserveConfigs \subseteq Crosses \X TPs \X PPs \X TPs \X PPs
    BY DEF DistserveConfigs
  <2> HIDE DEF Crosses, TPs, PPs
  <2>3. ASSUME NEW c \in Crosses \X TPs \X PPs \X TPs \X PPs
        PROVE  c \in [1..5 -> Nat] /\ Len(c) = 5
    <3>1. PICK v \in Crosses, w \in TPs, x \in PPs, y \in TPs, z \in PPs :
            c = <<v, w, x, y, z>>
      OBVIOUS
    <3>2. v \in Nat /\ w \in Nat /\ x \in Nat /\ y \in Nat /\ z \in Nat
      BY <2>1
    <3> QED BY <3>1, <3>2
  <2> QED BY <1>3, <2>2, <2>3 DEF AllConfigs
<1> QED BY <1>2, <1>3

(* There is always a next configuration. *)
LEMMA NextConfigExists ==
    ASSUME SearchInv, configs # {}
    PROVE  NextConfig \in configs
<1>1. PICK n \in Nat : \A c \in configs : c \in [1..n -> Nat] /\ Len(c) = n
  BY ConfigsAreTuples DEF SearchInv
<1>2. PICK c \in configs : \A d \in configs \ {c} : Before(c, d)
  BY <1>1, LeastTuple
<1> QED BY <1>2 DEF NextConfig

-----------------------------------------------------------------------------
(* What can be enumerated depends on the command line alone. *)
LEMMA SameConfigs ==
    ASSUME UNCHANGED command
    PROVE  AllConfigs' = AllConfigs
BY DEF command, AllConfigs, VLLMConfigs, DistserveConfigs, SegmentFits, NumGpu,
       GpuPerSegment, NumNodes, GpusPerNode

LEMMA SearchInitInv == SearchInit => SearchInv
<1> SUFFICES ASSUME SearchInit PROVE SearchInv
  OBVIOUS
<1>1. cluster \in (Nat \ {0}) \X (Nat \ {0})
  BY SearchAssumption DEF SearchInit
<1>2. configs = AllConfigs /\ best_config = <<>>
  BY DEF SearchInit, AllConfigs
<1>3. DOMAIN search = {} /\ DOMAIN result = {}
  BY DEF SearchInit, NoSearch
<1>4. search \in [DOMAIN search -> Searches] /\ result \in [DOMAIN result -> Nat]
  BY <1>3 DEF SearchInit, NoSearch
<1> QED BY <1>1, <1>2, <1>3, <1>4 DEF SearchInv

(* A process begins with the whole range, on a configuration that no       *)
(* process had before.                                                     *)
LEMMA LaunchInv ==
    ASSUME SearchInv, Launch
    PROVE  SearchInv'
<1> DEFINE c == NextConfig
<1>1. c \in configs
  BY NextConfigExists DEF Launch
<1> HIDE DEF c
<1>2. /\ configs' = configs \ {c}
      /\ search' = [d \in DOMAIN search \cup {c} |-> IF d = c THEN Begun ELSE search[d]]
      /\ UNCHANGED <<command, result, best_config>>
  BY DEF Launch, c
<1>3. Begun \in Searches /\ Bracketed(Begun)
  BY SearchAssumption DEF Begun, Searches, Bracketed
<1>4. AllConfigs' = AllConfigs /\ cluster' = cluster
  BY <1>2, SameConfigs DEF command
<1>5. c \notin DOMAIN search /\ c \in AllConfigs
  BY <1>1 DEF SearchInv
<1>6. /\ DOMAIN search' = DOMAIN search \cup {c}
      /\ search'[c] = Begun
      /\ \A d \in DOMAIN search : search'[d] = search[d]
  BY <1>2, <1>5
<1>7. search' \in [DOMAIN search' -> Searches]
  BY <1>2, <1>3, <1>6 DEF SearchInv
<1>8. DOMAIN search' \subseteq AllConfigs \ configs'
  BY <1>2, <1>5, <1>6 DEF SearchInv
<1>9. \A d \in DOMAIN search' : Bracketed(search'[d])
  BY <1>3, <1>6 DEF SearchInv
<1> QED BY <1>2, <1>4, <1>6, <1>7, <1>8, <1>9 DEF SearchInv

(* Either end of a bisection may move to a rate that was simulated. *)
LEMMA LowMoved ==
    ASSUME NEW s \in Searches, Bracketed(s), NEW rate \in s.low..s.high, NEW u,
           u = [s EXCEPT !.low = rate, !.best = rate,
                         !.tested = s.tested \cup {<<rate, TRUE>>}]
    PROVE  u \in Searches /\ Bracketed(u)
<1>1. s.low \in Nat /\ s.high \in Nat /\ s.alive \in BOOLEAN /\ rate \in Nat
  BY DEF Searches
<1>2. s.tested \cup {<<rate, TRUE>>} \in SUBSET (Nat \X BOOLEAN)
  <2>1. <<rate, TRUE>> \in Nat \X BOOLEAN
    BY <1>1, Zenon
  <2> QED BY <2>1 DEF Searches
<1>3. u = [alive |-> s.alive, low |-> rate, high |-> s.high, best |-> rate,
           tested |-> s.tested \cup {<<rate, TRUE>>}]
  BY DEF Searches
<1>4. <<rate, TRUE>> \in u.tested /\ s.tested \subseteq u.tested
  BY <1>3
<1>5. u \in Searches
  BY <1>1, <1>2, <1>3 DEF Searches
<1>6. u.low = rate /\ u.high = s.high /\ u.best = rate
  BY <1>3
<1> QED BY <1>1, <1>4, <1>5, <1>6 DEF Bracketed

LEMMA HighMoved ==
    ASSUME NEW s \in Searches, Bracketed(s), NEW rate \in s.low..s.high, NEW u,
           u = [s EXCEPT !.high = rate, !.tested = s.tested \cup {<<rate, FALSE>>}]
    PROVE  u \in Searches /\ Bracketed(u)
<1>1. /\ s.low \in Nat /\ s.high \in Nat /\ s.best \in Nat /\ s.alive \in BOOLEAN
      /\ rate \in Nat
  BY DEF Searches
<1>2. s.tested \cup {<<rate, FALSE>>} \in SUBSET (Nat \X BOOLEAN)
  <2>1. <<rate, FALSE>> \in Nat \X BOOLEAN
    BY <1>1, Zenon
  <2> QED BY <2>1 DEF Searches
<1>3. u = [alive |-> s.alive, low |-> s.low, high |-> rate, best |-> s.best,
           tested |-> s.tested \cup {<<rate, FALSE>>}]
  BY DEF Searches
<1>4. <<rate, FALSE>> \in u.tested /\ s.tested \subseteq u.tested
  BY <1>3
<1>5. u \in Searches
  BY <1>1, <1>2, <1>3 DEF Searches
<1>6. u.low = s.low /\ u.high = rate /\ u.best = s.best
  BY <1>3
<1> QED BY <1>1, <1>4, <1>5, <1>6, SearchAssumption DEF Bracketed

(* One turn of the bisection moves one end to a rate that was simulated. *)
LEMMA ExperimentInv ==
    ASSUME SearchInv, NEW c \in DOMAIN search, Experiment(c)
    PROVE  SearchInv'
<1> DEFINE s == search[c]
           rate == (s.low + s.high) \div 2
<1>1. PICK prefill \in BOOLEAN, decode \in BOOLEAN :
        search' = [search EXCEPT ![c] =
          IF Success(prefill, decode)
          THEN [@ EXCEPT !.low = rate, !.best = rate,
                         !.tested = s.tested \cup {<<rate, prefill /\ decode>>}]
          ELSE [@ EXCEPT !.high = rate,
                         !.tested = s.tested \cup {<<rate, prefill /\ decode>>}]]
  BY DEF Experiment
<1>2. /\ UNCHANGED <<command, configs, result, best_config>>
      /\ s.alive /\ s.high - s.low > Esp
  BY DEF Experiment, Alive
<1>3. s \in Searches /\ Bracketed(s)
  BY DEF SearchInv
<1>4. /\ s.low \in Nat /\ s.high \in Nat /\ s.low <= s.high /\ s.high <= MaxRate
      /\ rate \in Nat /\ s.low <= rate /\ rate <= s.high
  BY <1>3 DEF Searches, Bracketed
<1> HIDE DEF s, rate
<1>5. search'[c] \in Searches /\ Bracketed(search'[c])
  <2>1. CASE Success(prefill, decode)
    <3>1. (prefill /\ decode) = TRUE
      BY <2>1 DEF Success
    <3>2. search'[c] = [s EXCEPT !.low = rate, !.best = rate,
                                 !.tested = s.tested \cup {<<rate, TRUE>>}]
      BY <1>1, <2>1, <3>1 DEF s
    <3>3. rate \in s.low..s.high
      BY <1>4
    <3> QED BY <1>3, <3>2, <3>3, LowMoved, Zenon
  <2>2. CASE ~Success(prefill, decode)
    <3>1. (prefill /\ decode) = FALSE
      BY <2>2 DEF Success
    <3>2. search'[c] = [s EXCEPT !.high = rate,
                                 !.tested = s.tested \cup {<<rate, FALSE>>}]
      BY <1>1, <2>2, <3>1 DEF s
    <3>3. rate \in s.low..s.high
      BY <1>4
    <3> QED BY <1>3, <3>2, <3>3, HighMoved, Zenon
  <2> QED BY <2>1, <2>2
<1>6. /\ DOMAIN search' = DOMAIN search
      /\ \A d \in DOMAIN search : d # c => search'[d] = search[d]
  BY <1>1
<1>7. search' \in [DOMAIN search' -> Searches]
  BY <1>1, <1>5, <1>6 DEF SearchInv
<1>8. c \notin DOMAIN result
  BY <1>2 DEF SearchInv, s
<1>9. AllConfigs' = AllConfigs /\ cluster' = cluster
  BY <1>2, SameConfigs DEF command
<1> QED BY <1>2, <1>5, <1>6, <1>7, <1>8, <1>9 DEF SearchInv

(* A process that ends keeps its two ends, with or without an answer. *)
LEMMA ProcessEndInv ==
    ASSUME SearchInv, NEW c \in DOMAIN search, ExperimentRaises(c) \/ Answer(c)
    PROVE  SearchInv'
<1>1. /\ UNCHANGED <<command, configs, best_config>>
      /\ search[c].alive
      /\ search' = [search EXCEPT ![c].alive = FALSE]
  BY DEF ExperimentRaises, Answer, Alive
<1>2. AllConfigs' = AllConfigs /\ cluster' = cluster
  BY <1>1, SameConfigs DEF command
<1>3. search[c] \in Searches /\ Bracketed(search[c]) /\ c \notin DOMAIN result
  BY <1>1 DEF SearchInv
<1>4. /\ DOMAIN search' = DOMAIN search
      /\ search'[c] = [search[c] EXCEPT !.alive = FALSE]
      /\ \A d \in DOMAIN search : d # c => search'[d] = search[d]
  BY <1>1
<1>5. /\ search'[c] \in Searches /\ Bracketed(search'[c]) /\ ~search'[c].alive
      /\ search'[c].best = search[c].best
      /\ search'[c].high = search[c].high /\ search'[c].low = search[c].low
  BY <1>3, <1>4 DEF Searches, Bracketed
<1>6. search' \in [DOMAIN search' -> Searches]
  BY <1>1, <1>4, <1>5 DEF SearchInv
<1>7. CASE result' = result
  BY <1>1, <1>2, <1>3, <1>4, <1>5, <1>6, <1>7 DEF SearchInv
<1>8. CASE Answer(c)
  <2>1. /\ result' = [d \in DOMAIN result \cup {c} |->
                        IF d = c THEN search[c].best ELSE result[d]]
        /\ search[c].high - search[c].low <= Esp
    BY <1>8 DEF Answer
  <2>2. /\ DOMAIN result' = DOMAIN result \cup {c}
        /\ result'[c] = search[c].best
        /\ \A d \in DOMAIN result : result'[d] = result[d]
    BY <1>3, <2>1
  <2>3. search[c].best \in Nat
    BY <1>3 DEF Searches
  <2>4. result' \in [DOMAIN result' -> Nat]
    BY <2>1, <2>2, <2>3 DEF SearchInv
  <2> QED BY <1>1, <1>2, <1>3, <1>4, <1>5, <1>6, <2>1, <2>2, <2>4 DEF SearchInv
<1> QED BY <1>7, <1>8 DEF ExperimentRaises

(* The answer is one of the configurations that were enumerated. *)
LEMMA CollectInv ==
    ASSUME SearchInv, Collect
    PROVE  SearchInv'
<1>1. /\ search' = NoSearch /\ result' = NoSearch
      /\ UNCHANGED <<command, configs>>
  BY DEF Collect
<1>2. AllConfigs' = AllConfigs /\ cluster' = cluster
  BY <1>1, SameConfigs DEF command
<1>3. /\ DOMAIN search' = {} /\ DOMAIN result' = {}
      /\ search' \in [DOMAIN search' -> Searches] /\ result' \in [DOMAIN result' -> Nat]
  BY <1>1 DEF NoSearch
<1>4. best_config' = <<>> \/ best_config' \in DOMAIN result
  BY DEF Collect, BestConfigs
<1>5. best_config' \in AllConfigs' \cup {<<>>}
  BY <1>2, <1>4 DEF SearchInv
<1> QED BY <1>1, <1>2, <1>3, <1>5 DEF SearchInv

LEMMA SearchNextInv ==
    ASSUME SearchInv, [DeployNext]_vars
    PROVE  SearchInv'
<1>1. CASE UNCHANGED searchVars
  BY <1>1 DEF searchVars, SearchInv, AllConfigs, VLLMConfigs, DistserveConfigs,
              SegmentFits, NumGpu, GpuPerSegment, NumNodes, GpusPerNode
<1>2. CASE SearchNext
  BY <1>2, LaunchInv, CollectInv, ExperimentInv, ProcessEndInv
     DEF SearchNext, SearchStep
<1> QED BY <1>1, <1>2 DEF DeployNext, StartServer, vars

LEMMA SearchInvAlways == DeploySpec => []SearchInv
<1>1. DeployInit => SearchInv
  BY SearchInitInv DEF DeployInit
<1> QED BY <1>1, SearchNextInv, PTL DEF DeploySpec

(* Whatever the simulator answers and however the processes of the pool    *)
(* interleave, a rate reported was simulated and met both targets, or is   *)
(* zero, and within Esp above it is a rate that did not meet them or the   *)
(* limit of the search.                                                    *)
THEOREM BestRateCorrect == DeploySpec => []BestRateBracketed
<1>1. ASSUME SearchInv
      PROVE  BestRateBracketed
  <2> SUFFICES ASSUME NEW c \in DOMAIN result
               PROVE  /\ result[c] = 0 \/ <<result[c], TRUE>> \in search[c].tested
                      /\ \E rate \in result[c]..(result[c] + Esp) :
                           rate = MaxRate \/ <<rate, FALSE>> \in search[c].tested
    BY DEF BestRateBracketed
  <2>1. /\ search[c] \in Searches /\ Bracketed(search[c])
        /\ result[c] = search[c].best /\ search[c].high - search[c].low <= Esp
    BY <1>1 DEF SearchInv
  <2>2. search[c].high \in result[c]..(result[c] + Esp)
    BY <2>1, SearchAssumption DEF Searches, Bracketed
  <2> QED BY <2>1, <2>2 DEF Bracketed
<1> QED BY <1>1, SearchInvAlways, PTL
-----------------------------------------------------------------------------
(* Divisors *)
Pos == Nat \ {0}

LEMMA ExactProduct ==
    ASSUME NEW a \in Pos, NEW q \in Nat
    PROVE  (a * q) \div a = q /\ (a * q) % a = 0
<1> DEFINE n == a * q
           u == n \div a
           r == n % a
<1>1. n \in Nat /\ n = a * q
  BY DEF Pos
<1> HIDE DEF n
<1>2. u \in Nat /\ r \in 0..(a - 1) /\ n = a * u + r
  BY <1>1 DEF Pos
<1> HIDE DEF u, r
<1>3. u = q
  <2>1. CASE u + 1 <= q
    <3>1. a * u + a <= a * q
      BY <1>2, <2>1, TimesStep DEF Pos
    <3> QED BY <1>1, <1>2, <3>1 DEF Pos
  <2>2. CASE q + 1 <= u
    <3>1. a * q + a <= a * u
      BY <1>2, <2>2, TimesStep DEF Pos
    <3> QED BY <1>1, <1>2, <3>1 DEF Pos
  <2> QED BY <1>2, <2>1, <2>2
<1>4. r = 0
  BY <1>1, <1>2, <1>3 DEF Pos
<1> QED BY <1>3, <1>4 DEF n, u, r

LEMMA ExactQuotient ==
    ASSUME NEW a \in Pos, NEW n \in Pos, n % a = 0
    PROVE  /\ n \div a \in Pos
           /\ n = a * (n \div a) /\ n = (n \div a) * a
           /\ n % (n \div a) = 0 /\ n \div (n \div a) = a
<1> DEFINE q == n \div a
<1>1. q \in Nat /\ n = a * q + (n % a)
  BY DEF Pos
<1> HIDE DEF q
<1>2. n = a * q
  BY <1>1 DEF Pos
<1>3. q # 0
  BY <1>1, <1>2 DEF Pos
<1>4. n = q * a
  BY <1>1, <1>2 DEF Pos
<1>5. n % q = 0 /\ n \div q = a
  BY <1>1, <1>3, <1>4, ExactProduct DEF Pos
<1> QED BY <1>1, <1>2, <1>3, <1>4, <1>5 DEF q, Pos

(* What is left of a multiple of a after multiples of a are taken away is  *)
(* a multiple of a.                                                        *)
LEMMA ExactRemainder ==
    ASSUME NEW a \in Pos, NEW n \in Pos, NEW l \in Pos, n % a = 0, l % a = 0
    PROVE  (n % l) % a = 0
<1> DEFINE u == n \div a
           v == l \div a
           q == n \div l
           r == n % l
<1>1. u \in Nat /\ v \in Nat /\ n = a * u /\ l = a * v
  BY ExactQuotient DEF Pos
<1>2. q \in Nat /\ r \in Nat /\ n = l * q + r
  BY DEF Pos
<1> HIDE DEF u, v, q, r
<1> DEFINE x == v * q
<1>3. x \in Nat /\ l * q = a * x
  BY <1>1, <1>2 DEF Pos
<1> HIDE DEF x
<1>4. r = a * (u - x)
  BY <1>1, <1>2, <1>3 DEF Pos
<1>5. u - x \in Nat
  <2> SUFFICES ASSUME u + 1 <= x PROVE FALSE
    BY <1>1, <1>3
  <2>1. a * u + a <= a * x
    BY <1>1, <1>3, TimesStep DEF Pos
  <2> QED BY <1>1, <1>2, <1>3, <2>1 DEF Pos
<1>6. (a * (u - x)) % a = 0
  BY <1>5, ExactProduct
<1> QED BY <1>4, <1>6 DEF r

(* The least common multiple exists, and divides every common multiple.    *)
LEMMA LcmDivides ==
    ASSUME NEW a \in Pos, NEW b \in Pos, NEW n \in Pos, n % a = 0, n % b = 0
    PROVE  /\ Lcm(a, b) \in Pos
           /\ Lcm(a, b) % a = 0 /\ Lcm(a, b) % b = 0
           /\ n % Lcm(a, b) = 0
<1> DEFINE IsLcm(l) == /\ l % a = 0 /\ l % b = 0
                       /\ \A k \in 1..(l - 1) : k % a # 0 \/ k % b # 0
           T == {m \in Pos : m % a = 0 /\ m % b = 0}
           l == Lcm(a, b)
<1>1. a * b \in T
  <2>1. a * b \in Pos /\ a * b = b * a
    BY DEF Pos
  <2>2. (a * b) % a = 0 /\ (b * a) % b = 0
    BY ExactProduct DEF Pos
  <2> QED BY <2>1, <2>2
<1>2. PICK m \in T : \A k \in T : m <= k
  <2>1. T \subseteq Nat
    BY DEF Pos
  <2> QED BY <1>1, <2>1, LeastNatural
<1>3. m \in 1..(a * b) /\ IsLcm(m)
  <2>1. m \in Pos /\ m % a = 0 /\ m % b = 0
    OBVIOUS
  <2>2. m <= a * b
    BY <1>1, <1>2
  <2>3. a * b \in Nat
    BY DEF Pos
  <2>4. ASSUME NEW k \in 1..(m - 1), k % a = 0, k % b = 0
        PROVE  FALSE
    <3>1. k \in Pos /\ k < m
      BY <2>1, <2>4 DEF Pos
    <3>2. k \in T
      BY <2>4, <3>1
    <3> HIDE DEF T
    <3>3. m <= k
      BY <1>2, <3>2
    <3> QED BY <2>1, <3>1, <3>3 DEF Pos
  <2> HIDE DEF T
  <2> QED BY <2>1, <2>2, <2>3, <2>4 DEF Pos
<1>4. l \in 1..(a * b) /\ IsLcm(l)
  BY <1>3, Zenon DEF Lcm
<1>5. a * b \in Nat
  BY DEF Pos
<1> HIDE DEF l, T
<1>6. l \in Pos
  BY <1>4, <1>5 DEF Pos
<1>7. n % l = 0
  <2>1. (n % l) % a = 0 /\ (n % l) % b = 0
    BY <1>4, <1>6, ExactRemainder
  <2>2. n % l \in 0..(l - 1)
    BY <1>6 DEF Pos
  <2> QED BY <1>4, <1>6, <2>1, <2>2 DEF Pos
<1> QED BY <1>4, <1>6, <1>7 DEF l

(* The pipeline stages of one kind fill the placement groups: with p       *)
(* stages of n / p layers and groups of l layers, stage i is in a group.   *)
LEMMA StageInGroup ==
    ASSUME NEW n \in Pos, NEW p \in Pos, NEW l \in Pos, n % p = 0, n % l = 0,
           l % (n \div p) = 0, NEW i \in 0..(p - 1)
    PROVE  i \div ((n \div (n \div l)) \div (n \div p)) \in 0..((n \div l) - 1)
<1> DEFINE k == n \div p
           g == n \div l
           m == l \div k
<1>1. k \in Pos /\ n = k * p
  BY ExactQuotient
<1>2. g \in Pos /\ n = l * g /\ n \div g = l
  BY ExactQuotient
<1>3. m \in Pos /\ l = k * m
  BY <1>1, ExactQuotient
<1> HIDE DEF k, g, m
<1> DEFINE x == m * g
<1>4. x \in Pos /\ k * x = n
  <2>1. x \in Pos /\ k * x = (k * m) * g
    BY <1>1, <1>2, <1>3 DEF Pos
  <2> QED BY <1>2, <1>3, <2>1
<1> HIDE DEF x
<1>5. x = p
  <2>1. (k * x) \div k = x /\ (k * p) \div k = p
    BY <1>1, <1>4, ExactProduct DEF Pos
  <2> QED BY <1>1, <1>4, <2>1
<1> DEFINE j == i \div m
<1>6. i \in Nat /\ i < m * g
  BY <1>5 DEF Pos, x
<1>7. j \in Nat /\ m * j <= i
  BY <1>3, <1>6 DEF Pos
<1> HIDE DEF j
<1>8. j < g
  <2> SUFFICES ASSUME g <= j PROVE FALSE
    BY <1>2, <1>7 DEF Pos
  <2>1. m * g <= m * j
    BY <1>2, <1>3, <1>7 DEF Pos
  <2>2. m * g \in Nat /\ m * j \in Nat
    BY <1>2, <1>3, <1>7 DEF Pos
  <2> QED BY <1>6, <1>7, <2>1, <2>2
<1>9. j \in 0..(g - 1)
  BY <1>2, <1>7, <1>8 DEF Pos
<1> QED BY <1>2, <1>9 DEF j, m, g, k

-----------------------------------------------------------------------------
(* The placement *)

(* Every configuration that was enumerated cuts the model evenly.          *)
LEMMA ShapeDivides ==
    ASSUME SearchInv, backend = "distserve", best_config # <<>>
    PROVE  /\ PrefillShape(best_config)[2] \in Divisors(NumLayers)
           /\ DecodeShape(best_config)[2] \in Divisors(NumLayers)
<1>1. best_config \in DistserveConfigs
  BY DEF SearchInv, AllConfigs
<1> DEFINE c == best_config
<1>2. {PrefillShape(c)[2], DecodeShape(c)[2]} \subseteq PossiblePP
  BY <1>1, Zenon DEF DistserveConfigs
<1> HIDE DEF c
<1>3. PossiblePP = Divisors(NumLayers)
  BY SameModel DEF PossiblePP
<1> QED BY <1>2, <1>3 DEF c

LEMMA PlaceInitInv == DeployInit => PlaceInv
<1> SUFFICES ASSUME DeployInit PROVE PlaceInv
  OBVIOUS
<1>1. nodes \in Nat \ {0}
  BY SearchInitInv DEF DeployInit, SearchInv, NumNodes
<1>2. ASSUME NEW s \in Stages
      PROVE  PP(s) \in Divisors(NumLayers)
  <2>1. PP(s) = 1
    BY DEF DeployInit, PP
  <2>2. NumLayers \in Nat \ {0}
    BY SearchAssumption, SameModel
  <2> QED BY <2>1, <2>2 DEF Divisors
<1>3. groups = <<>> /\ status = "off" /\ DOMAIN worker = {}
  BY DEF DeployInit, StartInit, Off
<1> QED BY <1>1, <1>2, <1>3 DEF PlaceInv

(* The operator starts the server when no worker is there.                 *)
LEMMA StartServerInv ==
    ASSUME SearchInv, PlaceInv, StartServer
    PROVE  PlaceInv'
<1>1. /\ UNCHANGED <<nodes, groups, worker>>
      /\ status = "off" /\ status' = "placing"
      /\ shape' = [context |-> PrefillShape(best_config),
                   decoding |-> DecodeShape(best_config)]
  BY DEF StartServer
<1>2. ASSUME NEW s \in Stages
      PROVE  PP(s)' \in Divisors(NumLayers)
  BY <1>1, ShapeDivides DEF StartServer, Found, PP, Stages
<1>3. DOMAIN worker = {}
  BY <1>1 DEF PlaceInv
<1> QED BY <1>1, <1>2, <1>3 DEF PlaceInv

(* What follows from the shape alone. *)
LEMMA SameShape ==
    ASSUME UNCHANGED shape
    PROVE  /\ Workers' = Workers
           /\ NumPlacementGroups' = NumPlacementGroups
           /\ \A s : PP(s)' = PP(s) /\ WorkersOf(s)' = WorkersOf(s)
BY DEF Workers, WorkersOf, NumPlacementGroups, LayerPerPlacementGroup, LayersPer, PP, TP

LEMMA PlaceGroupInv ==
    ASSUME PlaceInv, PlaceGroup
    PROVE  PlaceInv'
<1>1. PICK n \in 1..nodes : groups' = Append(groups, n)
  BY DEF PlaceGroup, Room
<1>2. /\ status = "placing" /\ UNCHANGED <<nodes, shape, worker>>
      /\ status' = IF Len(groups) + 1 = NumPlacementGroups THEN "starting" ELSE "placing"
  BY DEF PlaceGroup, placeVars
<1>3. DOMAIN worker = {}
  BY <1>2 DEF PlaceInv
<1>4. groups \in Seq(1..nodes)
  BY DEF PlaceInv
<1>5. groups' \in Seq(1..nodes) /\ Len(groups') = Len(groups) + 1
  BY <1>1, <1>4
<1> QED BY <1>2, <1>3, <1>5, SameShape DEF PlaceInv

LEMMA StartNextPlaceInv ==
    ASSUME PlaceInv, StartNext
    PROVE  PlaceInv'
<1> USE SameShape DEF PlaceInv
<1>1. CASE PlaceGroup
  BY <1>1, PlaceGroupInv
<1>2. CASE PlacementFails
  <2>1. /\ status = "placing" /\ status' = "unplaceable"
        /\ UNCHANGED <<nodes, shape, groups, worker>>
    BY <1>2 DEF PlacementFails, placeVars
  <2> QED BY <2>1
<1>3. CASE RegisterHandles
  <2>1. /\ status = "starting" /\ status' = "initialized"
        /\ UNCHANGED <<nodes, shape, groups, worker>>
    BY <1>3 DEF RegisterHandles, placeVars
  <2> QED BY <2>1
<1>4. CASE \E s \in Stages : InitWorkers(s)
  <2>1. PICK s \in Stages : InitWorkers(s)
    BY <1>4
  <2>2. /\ status = "starting" /\ UNCHANGED <<nodes, shape, status, groups>>
        /\ DOMAIN worker' = DOMAIN worker \cup WorkersOf(s)
    BY <2>1 DEF InitWorkers, placeVars
  <2>3. WorkersOf(s) \subseteq Workers
    BY DEF Stages, Workers
  <2> QED BY <2>2, <2>3
<1>5. CASE \E s \in Stages : InitKVCache(s)
  BY <1>5 DEF InitKVCache, placeVars
<1>6. CASE \E s \in Stages : InitFails(s)
  <2>1. /\ UNCHANGED <<nodes, shape>> /\ status' = "off" /\ groups' = <<>>
        /\ DOMAIN worker' = {}
    BY <1>6 DEF InitFails, placeVars, Off
  <2> QED BY <2>1
<1>7. CASE \E w \in DOMAIN worker : WorkerStep(w) \/ ConversionRaises(w) \/ Killed(w)
  <2>1. UNCHANGED <<nodes, shape, status, groups>> /\ DOMAIN worker' = DOMAIN worker
    BY <1>7 DEF WorkerStep, TakeLock, FindDone, BeginConversion, EndConversion, MarkDone,
                Load, ConversionRaises, Killed, Moves, ModelUnchanged, placeVars
  <2> QED BY <2>1
<1> QED BY <1>1, <1>2, <1>3, <1>4, <1>5, <1>6, <1>7 DEF StartNext

LEMMA PlaceInvAlways == DeploySpec => []PlaceInv
<1>1. ASSUME SearchInv, PlaceInv, [DeployNext]_vars
      PROVE  PlaceInv'
  <2>1. CASE UNCHANGED startVars
    BY <1>1, <2>1, SameShape DEF startVars, PlaceInv
  <2> QED BY <1>1, <2>1, StartServerInv, StartNextPlaceInv DEF DeployNext, vars
<1> QED BY <1>1, PlaceInitInv, SearchInvAlways, PTL DEF DeploySpec

(* Every worker has a placement group to go to, hence a disk: the groups   *)
(* have as many layers as the two pipelines can both be cut into, so each  *)
(* takes the same number of stages of either (StageInGroup).               *)
LEMMA DiskExists ==
    ASSUME PlaceInv, NEW w \in DOMAIN worker
    PROVE  Disk(w) \in 1..nodes
<1>1. PICK s \in Stages : w \in WorkersOf(s)
  BY DEF PlaceInv, Workers, Stages
<1>2. w[1] = s /\ w[2] \in 0..(PP(s) - 1)
  BY <1>1 DEF WorkersOf
<1>3. NumLayers \in Pos
  BY SearchAssumption, SameModel DEF Pos
<1>4. \A t \in Stages : PP(t) \in Pos /\ NumLayers % PP(t) = 0
  BY <1>3 DEF PlaceInv, Divisors, Pos
<1>5. \A t \in Stages : LayersPer(t) \in Pos /\ NumLayers % LayersPer(t) = 0
  BY <1>3, <1>4, ExactQuotient DEF LayersPer
<1> DEFINE l == LayerPerPlacementGroup
<1>6. /\ l \in Pos /\ NumLayers % l = 0
      /\ \A t \in Stages : l % LayersPer(t) = 0
  BY <1>3, <1>5, LcmDivides DEF Stages, LayerPerPlacementGroup
<1> HIDE DEF l
<1>7. groups \in Seq(1..nodes) /\ Len(groups) = NumLayers \div l
  BY DEF PlaceInv, NumPlacementGroups, l
<1>8. PlacementGroupIndex(w) \in 0..(Len(groups) - 1)
  <2>1. w[2] \div ((NumLayers \div (NumLayers \div l)) \div (NumLayers \div PP(s)))
          \in 0..((NumLayers \div l) - 1)
    BY <1>2, <1>3, <1>4, <1>5, <1>6, StageInGroup DEF LayersPer
  <2> QED BY <1>2, <1>7, <2>1 DEF PlacementGroupIndex, LayersPer
<1>9. NodeOf(w) \in 1..nodes
  <2>1. PlacementGroupIndex(w) + 1 \in 1..Len(groups)
    BY <1>7, <1>8
  <2>2. \A i \in 1..Len(groups) : groups[i] \in 1..nodes
    BY <1>7, ElementOfSeq
  <2> QED BY <2>1, <2>2, Zenon DEF NodeOf
<1>10. nodes \in Nat \ {0}
  BY DEF PlaceInv
<1> QED BY <1>9, <1>10 DEF Disk

-----------------------------------------------------------------------------
(* The weights *)
StoreOK == PlaceInv /\ StoreInv

LEMMA StoreInitInv == DeployInit => StoreInv
<1> SUFFICES ASSUME DeployInit PROVE StoreInv
  OBVIOUS
<1>1. DOMAIN worker = {} /\ worker \in [DOMAIN worker -> WorkerStates]
  BY DEF DeployInit, StartInit, Off
<1>2. /\ lock = [d \in 1..nodes |-> NoWorker]
      /\ folder = [d \in 1..nodes |-> Clean]
  BY DEF DeployInit, StartInit
<1>3. Clean \in Folders /\ ~Clean.done
  BY DEF Clean, Folders
<1> QED BY <1>1, <1>2, <1>3 DEF StoreInv

(* A worker is none of the lock file's strangers. *)
LEMMA WorkerIsSomeone ==
    ASSUME PlaceInv, NEW w \in DOMAIN worker
    PROVE  w \in Stages \X Nat \X Nat /\ w # NoWorker
<1>1. PICK s \in Stages : w \in WorkersOf(s)
  BY DEF PlaceInv, Workers, Stages
<1>2. w \in Stages \X Nat \X Nat
  BY <1>1 DEF WorkersOf
<1>3. w[1] # "none"
  BY <1>2 DEF Stages
<1> QED BY <1>2, <1>3 DEF NoWorker

(* Nobody moves to another disk. *)
LEMMA SameDisk ==
    ASSUME ModelUnchanged
    PROVE  nodes' = nodes /\ \A w : Disk(w)' = Disk(w)
BY DEF ModelUnchanged, placeVars, Disk, NodeOf, PlacementGroupIndex, LayersPer, PP

(* A step of one worker: it moves on, with what it has secured; it writes  *)
(* at most the folder on its own disk, and takes or gives up at most the   *)
(* lock there.                                                             *)
LEMMA WorkerMoves ==
    ASSUME StoreOK, ModelUnchanged, NEW w \in DOMAIN worker, NEW to \in WorkerStates,
           worker' = [worker EXCEPT ![w] = to],
           \/ lock' = lock
           \/ lock' = Released(w)
           \/ lock[Disk(w)] = NoWorker /\ lock' = [lock EXCEPT ![Disk(w)] = w],
           NEW f \in Folders,
           folder' = [folder EXCEPT ![Disk(w)] = f],
           f.done => f.content = "whole",
           f # folder[Disk(w)] => worker[w] \in Holders /\ ~folder[Disk(w)].done,
           Secured(w)'
    PROVE  StoreInv'
<1> DEFINE disk == Disk(w)
<1>1. disk \in 1..nodes
  BY DiskExists DEF StoreOK
<1>2. nodes' = nodes /\ \A v : Disk(v)' = Disk(v)
  BY SameDisk
<1>3. \A v \in DOMAIN worker : Disk(v) \in 1..nodes
  BY DiskExists DEF StoreOK
<1>4. \A v \in DOMAIN worker : v \in Stages \X Nat \X Nat /\ v # NoWorker
  BY WorkerIsSomeone DEF StoreOK
<1> HIDE DEF disk
<1>5. worker' \in [DOMAIN worker' -> WorkerStates] /\ DOMAIN worker' = DOMAIN worker
  BY DEF StoreOK, StoreInv
<1>6. lock' \in [1..nodes' -> (Stages \X Nat \X Nat) \cup {NoWorker}]
  BY <1>2, <1>4 DEF StoreOK, StoreInv, Released
<1>7. /\ folder' \in [1..nodes' -> Folders]
      /\ \A d \in 1..nodes' : folder'[d].done => folder'[d].content = "whole"
  BY <1>1, <1>2 DEF StoreOK, StoreInv, disk
<1>8. ASSUME NEW v \in DOMAIN worker, v # w
      PROVE  Secured(v)'
  <2> DEFINE d == Disk(v)
  <2>1. Secured(v) /\ worker'[v] = worker[v] /\ d \in 1..nodes /\ Disk(v)' = d
    BY <1>2, <1>3, <1>8 DEF StoreOK, StoreInv
  <2> HIDE DEF d
  <2>2. worker[v] \in Holders => lock'[d] = v
    <3> SUFFICES ASSUME worker[v] \in Holders PROVE lock'[d] = v
      OBVIOUS
    <3>1. lock[d] = v /\ v # NoWorker
      BY <1>4, <2>1 DEF Secured, d
    <3> QED BY <1>8, <2>1, <3>1 DEF Released, StoreOK, StoreInv
  <2>3. CASE folder'[d] = folder[d]
    BY <2>1, <2>2, <2>3 DEF Secured, Writing, d
  <2>4. CASE folder'[d] # folder[d]
    <3>1. d = disk /\ f # folder[disk]
      BY <2>1, <2>4 DEF StoreOK, StoreInv, disk
    <3>2. worker[w] \in Holders /\ ~folder[d].done
      BY <3>1 DEF disk
    <3>3. lock[d] = w
      BY <3>1, <3>2 DEF StoreOK, StoreInv, Secured, disk
    <3>4. worker[v] \notin Holders /\ worker[v] # "load"
      BY <1>8, <2>1, <3>2, <3>3 DEF Secured, d
    <3> QED BY <2>1, <3>4 DEF Secured, Writing, Holders
  <2> QED BY <2>3, <2>4
<1>9. \A v \in DOMAIN worker' : Secured(v)'
  BY <1>5, <1>8
<1> QED BY <1>5, <1>6, <1>7, <1>9 DEF StoreInv

(* Writing a folder, or its marker. *)
LEMMA ContentWritten ==
    ASSUME NEW f \in Folders, NEW c \in {"partial", "whole"}, NEW g,
           g = [f EXCEPT !.content = c]
    PROVE  g \in Folders /\ g.content = c /\ g.done = f.done
BY DEF Folders

LEMMA DoneWritten ==
    ASSUME NEW f \in Folders, NEW g, g = [f EXCEPT !.done = TRUE]
    PROVE  g \in Folders /\ g.content = f.content /\ g.done
BY DEF Folders

LEMMA WorkerStepInv ==
    ASSUME StoreOK, NEW w \in DOMAIN worker,
           WorkerStep(w) \/ ConversionRaises(w) \/ Killed(w)
    PROVE  StoreInv'
<1> DEFINE d == Disk(w)
<1>1. /\ Secured(w) /\ d \in 1..nodes
      /\ worker[w] \in WorkerStates
      /\ folder[d] \in Folders
      /\ folder = [folder EXCEPT ![d] = folder[d]]
      /\ folder[d].done => folder[d].content = "whole"
  BY DiskExists DEF StoreOK, StoreInv
<1>2. ModelUnchanged
  BY DEF WorkerStep, TakeLock, FindDone, BeginConversion, EndConversion, MarkDone, Load,
         ConversionRaises, Killed
<1>3. Disk(w)' = d
  BY <1>2, SameDisk
<1> HIDE DEF d
<1>4. \A to : worker' = [worker EXCEPT ![w] = to] => worker'[w] = to
  BY DEF StoreOK, StoreInv
(* A step that leaves the folders alone. *)
<1>5. ASSUME NEW to \in WorkerStates, worker' = [worker EXCEPT ![w] = to], folder' = folder,
             \/ lock' = lock
             \/ lock' = Released(w)
             \/ lock[d] = NoWorker /\ lock' = [lock EXCEPT ![d] = w],
             Secured(w)'
      PROVE  StoreInv'
  BY <1>1, <1>2, <1>5, WorkerMoves DEF d
<1>6. CASE TakeLock(w)
  <2>1. /\ worker' = [worker EXCEPT ![w] = "check"] /\ folder' = folder
        /\ lock[d] = NoWorker /\ lock' = [lock EXCEPT ![d] = w]
    BY <1>6 DEF TakeLock, Moves, LockIsFree, d
  <2>2. worker'[w] = "check"
    BY <1>4, <2>1
  <2>3. lock'[d] = w
    BY <1>1, <2>1 DEF StoreOK, StoreInv
  <2>4. Secured(w)'
    BY <1>3, <2>2, <2>3 DEF Secured, Writing
  <2> QED BY <1>5, <2>1, <2>4 DEF WorkerStates
<1>7. CASE FindDone(w)
  <2>1. /\ worker' = [worker EXCEPT ![w] = "load"] /\ folder' = folder
        /\ lock' = Released(w) /\ folder[d].done
    BY <1>7 DEF FindDone, Moves, d
  <2>2. worker'[w] = "load"
    BY <1>4, <2>1
  <2>3. Secured(w)'
    BY <1>3, <2>1, <2>2 DEF Secured, Writing, Holders
  <2> QED BY <1>5, <2>1, <2>3 DEF WorkerStates
<1>8. CASE BeginConversion(w)
  <2> DEFINE f == [folder[d] EXCEPT !.content = "partial"]
  <2>1. /\ worker' = [worker EXCEPT ![w] = "convert"] /\ lock' = lock
        /\ folder' = [folder EXCEPT ![d] = f]
        /\ worker[w] = "check" /\ ~folder[d].done
    BY <1>8 DEF BeginConversion, Moves, d
  <2>2. f \in Folders /\ ~f.done
    <3> HIDE DEF f
    <3>1. f = [folder[d] EXCEPT !.content = "partial"]
      BY DEF f
    <3> QED BY <1>1, <2>1, <3>1, ContentWritten
  <2> HIDE DEF f
  <2>3. worker'[w] = "convert"
    BY <1>4, <2>1
  <2>4. folder'[d] = f /\ lock[d] = w
    BY <1>1, <2>1 DEF StoreOK, StoreInv, Secured, Holders, d
  <2>5. Secured(w)'
    BY <1>3, <2>1, <2>2, <2>3, <2>4 DEF Secured, Writing
  <2> QED BY <1>2, <2>1, <2>2, <2>5, WorkerMoves DEF WorkerStates, Holders, d
<1>9. CASE EndConversion(w)
  <2> DEFINE f == [folder[d] EXCEPT !.content = "whole"]
  <2>1. /\ worker' = [worker EXCEPT ![w] = "mark"] /\ lock' = lock
        /\ folder' = [folder EXCEPT ![d] = f]
        /\ worker[w] = "convert"
    BY <1>9 DEF EndConversion, Moves, d
  <2>2. ~folder[d].done /\ lock[d] = w
    BY <1>1, <2>1 DEF Secured, Writing, Holders, d
  <2>3. f \in Folders /\ ~f.done /\ f.content = "whole"
    <3> HIDE DEF f
    <3>1. f = [folder[d] EXCEPT !.content = "whole"]
      BY DEF f
    <3> QED BY <1>1, <2>2, <3>1, ContentWritten
  <2> HIDE DEF f
  <2>4. worker'[w] = "mark"
    BY <1>4, <2>1
  <2>5. folder'[d] = f
    BY <1>1, <2>1 DEF StoreOK, StoreInv
  <2>6. Secured(w)'
    BY <1>3, <2>1, <2>2, <2>3, <2>4, <2>5 DEF Secured, Writing
  <2> QED BY <1>2, <2>1, <2>2, <2>3, <2>6, WorkerMoves DEF WorkerStates, Holders, d
<1>10. CASE MarkDone(w)
  <2> DEFINE f == [folder[d] EXCEPT !.done = TRUE]
  <2>1. /\ worker' = [worker EXCEPT ![w] = "load"] /\ lock' = Released(w)
        /\ folder' = [folder EXCEPT ![d] = f]
        /\ worker[w] = "mark"
    BY <1>10 DEF MarkDone, Moves, d
  <2>2. folder[d].content = "whole" /\ ~folder[d].done
    BY <1>1, <2>1 DEF Secured, Writing, d
  <2>3. f \in Folders /\ f.done /\ f.content = "whole"
    <3> HIDE DEF f
    <3>1. f = [folder[d] EXCEPT !.done = TRUE]
      BY DEF f
    <3> QED BY <1>1, <2>2, <3>1, DoneWritten
  <2> HIDE DEF f
  <2>4. worker'[w] = "load"
    BY <1>4, <2>1
  <2>5. folder'[d] = f
    BY <1>1, <2>1 DEF StoreOK, StoreInv
  <2>6. Secured(w)'
    BY <1>3, <2>3, <2>4, <2>5 DEF Secured, Writing, Holders
  <2> QED BY <1>2, <2>1, <2>2, <2>3, <2>6, WorkerMoves DEF WorkerStates, Holders, d
<1>11. CASE Load(w)
  <2>1. worker' = [worker EXCEPT ![w] = "loaded"] /\ folder' = folder /\ lock' = lock
    BY <1>11 DEF Load, Moves
  <2>2. worker'[w] = "loaded"
    BY <1>4, <2>1
  <2>3. Secured(w)'
    BY <2>2 DEF Secured, Writing, Holders
  <2> QED BY <1>5, <2>1, <2>3 DEF WorkerStates
<1>12. CASE ConversionRaises(w) \/ Killed(w)
  <2>1. PICK to \in {"raised", "dead"} :
          worker' = [worker EXCEPT ![w] = to] /\ folder' = folder /\ lock' = Released(w)
    BY <1>12 DEF ConversionRaises, Killed, Moves
  <2>2. worker'[w] = to
    BY <1>4, <2>1
  <2>3. Secured(w)'
    BY <2>2 DEF Secured, Writing, Holders
  <2> QED BY <1>5, <2>1, <2>3 DEF WorkerStates
<1> QED BY <1>6, <1>7, <1>8, <1>9, <1>10, <1>11, <1>12 DEF WorkerStep

(* The steps of the main process begin with no worker, add workers that    *)
(* have secured nothing yet, or end them all.                              *)
LEMMA MainStepInv ==
    ASSUME StoreOK, NEW s \in Stages, InitWorkers(s) \/ InitKVCache(s) \/ InitFails(s)
    PROVE  StoreInv'
<1>1. CASE InitWorkers(s)
  <2>1. /\ worker' = [w \in DOMAIN worker \cup WorkersOf(s) |->
                        IF w[1] = s THEN "init" ELSE worker[w]]
        /\ UNCHANGED <<nodes, lock, folder>>
        /\ \A w : Disk(w)' = Disk(w)
    BY <1>1 DEF InitWorkers, placeVars, Disk, NodeOf, PlacementGroupIndex, LayersPer, PP
  <2>2. \A w \in WorkersOf(s) : w[1] = s
    BY DEF WorkersOf
  <2>3. ASSUME NEW w \in DOMAIN worker'
        PROVE  worker'[w] \in WorkerStates /\ Secured(w)'
    <3>1. CASE w[1] = s
      <4>1. worker'[w] = "init"
        BY <2>1, <3>1
      <4> QED BY <4>1 DEF Secured, Writing, Holders, WorkerStates
    <3>2. CASE w[1] # s
      <4>1. w \in DOMAIN worker /\ worker'[w] = worker[w]
        BY <2>1, <2>2, <3>2
      <4> QED BY <2>1, <4>1 DEF Secured, Writing, StoreOK, StoreInv
    <3> QED BY <3>1, <3>2
  <2>4. worker' \in [DOMAIN worker' -> WorkerStates]
    BY <2>1, <2>3
  <2> QED BY <2>1, <2>3, <2>4 DEF StoreOK, StoreInv
<1>2. CASE InitKVCache(s)
  <2>1. /\ UNCHANGED <<nodes, worker, lock, folder>>
        /\ \A w : Disk(w)' = Disk(w)
    BY <1>2 DEF InitKVCache, placeVars, Disk, NodeOf, PlacementGroupIndex, LayersPer, PP
  <2> QED BY <2>1 DEF StoreOK, StoreInv, Secured, Writing
<1>3. CASE InitFails(s)
  <2>1. /\ worker' = Off /\ lock' = [d \in DOMAIN lock |-> NoWorker]
        /\ UNCHANGED <<nodes, folder>>
    BY <1>3 DEF InitFails, placeVars
  <2>2. DOMAIN worker' = {} /\ worker' \in [DOMAIN worker' -> WorkerStates]
    BY <2>1 DEF Off
  <2> QED BY <2>1, <2>2 DEF StoreOK, StoreInv
<1> QED BY <1>1, <1>2, <1>3

LEMMA NoWorkerStepInv ==
    ASSUME StoreOK, UNCHANGED <<nodes, worker, lock, folder>>,
           DOMAIN worker = {} \/ UNCHANGED <<shape, sharedDisk, groups>>
    PROVE  StoreInv'
<1>1. CASE DOMAIN worker = {}
  BY <1>1 DEF StoreOK, StoreInv
<1>2. CASE UNCHANGED <<shape, sharedDisk, groups>>
  <2>1. \A w : Disk(w)' = Disk(w)
    BY <1>2 DEF Disk, NodeOf, PlacementGroupIndex, LayersPer, PP
  <2> QED BY <2>1 DEF StoreOK, StoreInv, Secured, Writing
<1> QED BY <1>1, <1>2

LEMMA StoreNextInv ==
    ASSUME StoreOK, [DeployNext]_vars
    PROVE  StoreInv'
<1>1. CASE UNCHANGED startVars
  BY <1>1, NoWorkerStepInv DEF startVars
<1>2. CASE StartServer \/ PlaceGroup \/ PlacementFails \/ RegisterHandles
  <2>1. UNCHANGED <<nodes, worker, lock, folder>>
    BY <1>2 DEF StartServer, PlaceGroup, PlacementFails, RegisterHandles, placeVars
  <2>2. status \in {"off", "placing"} => DOMAIN worker = {}
    BY DEF StoreOK, PlaceInv
  <2>3. DOMAIN worker = {} \/ UNCHANGED <<shape, sharedDisk, groups>>
    BY <1>2, <2>2 DEF StartServer, PlaceGroup, PlacementFails, RegisterHandles, placeVars
  <2> QED BY <2>1, <2>3, NoWorkerStepInv
<1> QED BY <1>1, <1>2, WorkerStepInv, MainStepInv DEF DeployNext, StartNext, vars

(* However the workers of the two stages interleave, whichever of them     *)
(* raise or are killed, and however often the server is started again, no  *)
(* worker reads weights that are not wholly written and marked, or that    *)
(* another one is writing, and no two write into one folder.               *)
THEOREM WeightsAreWhole == DeploySpec => []LoadsWholeWeights
<1>1. ASSUME StoreOK
      PROVE  LoadsWholeWeights
  <2> SUFFICES ASSUME NEW w \in DOMAIN worker
               PROVE  /\ worker[w] = "load" =>
                           folder[Disk(w)] = [content |-> "whole", done |-> TRUE]
                      /\ Writing(w) => \A v \in DOMAIN worker \ {w} :
                           Disk(v) = Disk(w) => ~Writing(v) /\ worker[v] # "load"
    BY DEF LoadsWholeWeights
  <2>1. /\ Secured(w) /\ folder[Disk(w)] \in Folders
        /\ folder[Disk(w)].done => folder[Disk(w)].content = "whole"
    BY <1>1, DiskExists DEF StoreOK, StoreInv
  <2>2. worker[w] = "load" => folder[Disk(w)] = [content |-> "whole", done |-> TRUE]
    BY <2>1 DEF Secured, Folders
  <2>3. ASSUME Writing(w), NEW v \in DOMAIN worker \ {w}, Disk(v) = Disk(w)
        PROVE  ~Writing(v) /\ worker[v] # "load"
    BY <1>1, <2>1, <2>3 DEF StoreOK, StoreInv, Secured, Writing, Holders
  <2> QED BY <2>2, <2>3
<1>2. DeploySpec => []StoreInv
  <2>1. PlaceInv /\ StoreInv /\ [DeployNext]_vars => StoreInv'
    BY StoreNextInv DEF StoreOK
  <2> QED BY <2>1, StoreInitInv, PlaceInvAlways, PTL DEF DeploySpec
<1>3. PlaceInv /\ StoreInv => LoadsWholeWeights
  BY <1>1 DEF StoreOK
<1> QED BY <1>2, <1>3, PlaceInvAlways, PTL

====
