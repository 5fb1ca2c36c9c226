----------------------------- MODULE RateSearch -----------------------------
(***************************************************************************)
(* simulate.py: the search for the parallel configuration that carries the *)
(* highest request rate per GPU.  The configurations that fit the cluster  *)
(* and the model are enumerated (search_configs.py), a bounded pool of     *)
(* processes bisects the rate of each of them by simulation                *)
(* (parallel_bisect.py, search_binary.py), and the best one is printed     *)
(* (find_best_config).  An experiment is a run of the simulator: whether   *)
(* its latencies meet the two targets is a nondeterministic choice.        *)
(*                                                                         *)
(* A configuration of DistServe is <<pp_cross, tp_prefill, pp_prefill,     *)
(* tp_decode, pp_decode>>, one of vLLM is <<tp, pp>>.  Rates are integers  *)
(* in a unit in which every half the bisection computes is exact.  The set *)
(* of tested rates, and the searches of processes that have ended, are     *)
(* kept for the invariant only.  Operators marked "mistake:" are not part  *)
(* of the specification.                                                   *)
(***************************************************************************)
EXTENDS Integers, FiniteSets, Sequences

CONSTANTS Layers, Heads,   \* model_hyperparams of the model
          Runnable,        \* the <<tp, pp>> that max_num_tokens.csv lists for it
          Commands,        \* the command lines looked at: backend, high affinity,
                           \* <<num_node, num_gpu_per_node>>
          MaxRate, Esp,    \* max_per_gpu_rate and esp
          MaxProcs         \* max_cpu_count: processes alive at a time

ASSUME SearchAssumption ==
    /\ {Layers, Heads, MaxRate, Esp, MaxProcs} \subseteq Nat \ {0}
    /\ Commands \subseteq
         {"distserve", "vllm"} \X BOOLEAN \X ((Nat \ {0}) \X (Nat \ {0}))
    /\ \E k \in 0..MaxRate : MaxRate % 2 ^ k = 0 /\ MaxRate \div 2 ^ k <= Esp

VARIABLES backend, high_affinity, cluster,   \* the command line
          configs,      \* configurations not yet given to a process
          processes,    \* configurations whose process is in the pool's list
          search,       \* config -> low, high and best of its process, tested rates
          result,       \* the shared dict: config -> best rate
          searching,    \* the program has not printed its answer yet
          best_config   \* that answer, <<>> for None

command == <<backend, high_affinity, cluster>>
searchVars == <<backend, high_affinity, cluster, configs, processes, search,
                result, searching, best_config>>

NumNodes == cluster[1]
GpusPerNode == cluster[2]

Divisors(n) == {k \in 1..n : n % k = 0}
PossibleTP == Divisors(Heads)
PossiblePP == Divisors(Layers)

(* <<tp, pp>> of the two stages, as the simulator and the engine get them. *)
PrefillShape(c) == IF Len(c) = 2 THEN c ELSE <<c[2], c[1] * c[3]>>
DecodeShape(c) == <<c[4], c[1] * c[5]>>

GpuPerSegment(c) == c[2] * c[3] + c[4] * c[5]
NumGpu(c) == IF Len(c) = 2 THEN c[1] * c[2] ELSE c[1] * GpuPerSegment(c)

(* mistake: a segment may span nodes *)
SegmentFitsAnyhow(c) == TRUE
(* Without high affinity a segment must fit a node. *)
SegmentFits(c) == high_affinity \/ GpuPerSegment(c) <= GpusPerNode

DistserveConfigs ==
    LET Width == IF high_affinity THEN NumNodes * GpusPerNode ELSE GpusPerNode
        Crosses == IF high_affinity THEN {1} ELSE PossiblePP \cap 1..NumNodes
        TPs == PossibleTP \cap 1..Width
        PPs == PossiblePP \cap 1..Width
    IN  {c \in Crosses \X TPs \X PPs \X TPs \X PPs :
            /\ SegmentFits(c)
            /\ NumGpu(c) <= NumNodes * GpusPerNode
            /\ {PrefillShape(c)[2], DecodeShape(c)[2]} \subseteq PossiblePP}

VLLMConfigs == {c \in PossibleTP \X PossiblePP : NumGpu(c) <= NumNodes * GpusPerNode}

(* The order of itertools.product. *)
Before(c, d) == \E i \in 1..Len(c) : c[i] < d[i] /\ \A j \in 1..(i - 1) : c[j] = d[j]
NextConfig == CHOOSE c \in configs : \A d \in configs \ {c} : Before(c, d)

NoSearch == [c \in {} |-> 0]
SearchInit ==
    /\ \E c \in Commands : backend = c[1] /\ high_affinity = c[2] /\ cluster = c[3]
    /\ configs = IF backend = "vllm" THEN VLLMConfigs ELSE DistserveConfigs
    /\ processes = {}
    /\ search = NoSearch
    /\ result = NoSearch
    /\ searching = TRUE
    /\ best_config = <<>>

Found == ~searching /\ best_config # <<>>
Alive(c) == search[c].alive
Begun == [alive |-> TRUE, low |-> 0, high |-> MaxRate, best |-> 0, tested |-> {}]

(* The main process starts the next search; when the pool is full it first *)
(* looks for a process that has ended, and takes it out of the list.       *)
Launch ==
    /\ configs # {}
    /\ LET c == NextConfig IN
       /\ \/ Cardinality(processes) < MaxProcs /\ processes' = processes \cup {c}
          \/ /\ Cardinality(processes) >= MaxProcs
             /\ \E p \in processes : ~Alive(p) /\ processes' = (processes \ {p}) \cup {c}
       /\ configs' = configs \ {c}
       /\ search' = [d \in DOMAIN search \cup {c} |-> IF d = c THEN Begun ELSE search[d]]
    /\ UNCHANGED <<command, result, searching, best_config>>

(* mistake: one target met is enough *)
SuccessOfEither(prefill, decode) == prefill \/ decode
(* The run meets the targets if it meets both. *)
Success(prefill, decode) == prefill /\ decode

IsModelRunnable(shape) == shape \in Runnable
ModelRunnable(c) ==
    /\ IsModelRunnable(PrefillShape(c))
    /\ backend # "vllm" => IsModelRunnable(DecodeShape(c))

(* One turn of the bisection. *)
Experiment(c) ==
    /\ Alive(c)
    /\ search[c].high - search[c].low > Esp
    /\ ModelRunnable(c)
    /\ \E prefill, decode \in BOOLEAN :
         LET rate == (search[c].low + search[c].high) \div 2
             tested == search[c].tested \cup {<<rate, prefill /\ decode>>}
         IN  search' = [search EXCEPT ![c] =
                IF Success(prefill, decode)
                THEN [@ EXCEPT !.low = rate, !.best = rate, !.tested = tested]
                ELSE [@ EXCEPT !.high = rate, !.tested = tested]]
    /\ UNCHANGED <<command, configs, processes, result, searching, best_config>>

(* An experiment that raises ends the search of this configuration: its    *)
(* process returns without an entry in the shared dict.                    *)
ExperimentRaises(c) ==
    /\ Alive(c)
    /\ search[c].high - search[c].low > Esp
    /\ ~ModelRunnable(c)
    /\ search' = [search EXCEPT ![c].alive = FALSE]
    /\ UNCHANGED <<command, configs, processes, result, searching, best_config>>

Answer(c) ==
    /\ Alive(c)
    /\ search[c].high - search[c].low <= Esp
    /\ result' = [d \in DOMAIN result \cup {c} |->
                    IF d = c THEN search[c].best ELSE result[d]]
    /\ search' = [search EXCEPT ![c].alive = FALSE]
    /\ UNCHANGED <<command, configs, processes, searching, best_config>>

(* find_best_config: the highest rate, then the fewest GPUs; of several    *)
(* such configurations the first in the dict, whose order is the order in  *)
(* which the processes ended.                                              *)
AtLeastAsGood(c, d) ==
    \/ result[c] > result[d]
    \/ result[c] = result[d] /\ NumGpu(c) <= NumGpu(d)
BestConfigs == {c \in DOMAIN result : \A d \in DOMAIN result : AtLeastAsGood(c, d)}

(* Every process has been joined; the program prints the best              *)
(* configuration, or fails on None, and ends.                              *)
Collect ==
    /\ searching /\ searching' = FALSE
    /\ configs = {}
    /\ \A p \in processes : ~Alive(p)
    /\ IF result = NoSearch THEN best_config' = <<>> ELSE best_config' \in BestConfigs
    /\ processes' = {} /\ search' = NoSearch /\ result' = NoSearch
    /\ UNCHANGED <<command, configs>>

SearchStep(c) == Experiment(c) \/ ExperimentRaises(c) \/ Answer(c)
SearchNext == Launch \/ Collect \/ \E c \in DOMAIN search : SearchStep(c)
-----------------------------------------------------------------------------
(* The bisection keeps its promise in every process, whatever the          *)
(* simulator answers: the rate reported was simulated and met both targets *)
(* (or is zero), and no more than Esp above it there is a rate that was    *)
(* simulated and did not, or the limit of the search.                      *)
BestRateBracketed ==
    \A c \in DOMAIN result :
        /\ result[c] = 0 \/ <<result[c], TRUE>> \in search[c].tested
        /\ \E rate \in result[c]..(result[c] + Esp) :
             rate = MaxRate \/ <<rate, FALSE>> \in search[c].tested
=============================================================================
