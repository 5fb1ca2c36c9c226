----------------------------- MODULE Simulator ------------------------------
(***************************************************************************)
(* The simulator of simdistserve: SimPy processes, one for each Worker of  *)
(* base/worker.py, arranged in rings by clusters/disagg.py or              *)
(* clusters/vllm.py, with the Scheduler of base/scheduler.py in front.     *)
(*                                                                         *)
(* An action is the code between two yields.  Simulated time is left out:  *)
(* how long a batch takes comes from fitted profiles and may be anything,  *)
(* so a busy worker may finish at any time.                                *)
(***************************************************************************)
EXTENDS Integers, Sequences, FiniteSets, RequestQueues, RequestSums

CONSTANTS
    Requests,          \* request ids
    PrefillLen,        \* request -> prefill_lens
    OutputLen,         \* request -> output_lens
    Clusters,          \* [prefill, ppPrefill, decode, ppDecode: Nat]: numbers of
                       \* instances and their stages; no decode ones with vLLM
    PrefillMaxBatch, DecodeMaxBatch, PrefillMaxTokens, DecodeMaxTokens,
    ContextCap         \* the 50000 of _enter_decodes

ASSUME SimulatorAssumption ==
    /\ PrefillLen \in [Requests -> Nat \ {0}]
    /\ OutputLen \in [Requests -> Nat]
    /\ Clusters \subseteq [prefill: Nat \ {0}, ppPrefill: Nat \ {0},
                           decode: Nat, ppDecode: Nat \ {0}]
    /\ PrefillMaxBatch \in Nat
    /\ PrefillMaxTokens \in Nat /\ DecodeMaxTokens \in Nat

VARIABLES
    cluster,   \* the cluster that is simulated
    chunked,   \* worker.enable_chunked_prefill
    arrived,   \* requests that put_request_at_time has scheduled
    req,       \* request -> [remain, current, counter: Int, chunk: SUBSET Requests]
    exited,    \* requests with _terminated set
    prefillQ,  \* worker -> prefill_queue
    decodeQ,   \* worker -> decode_queue
    running,   \* worker -> [prefill, decode]: the batch of its last iteration
    state      \* worker -> "loop", "asleep", "woken" or "busy"

simVars == <<cluster, chunked, arrived, req, exited, prefillQ, decodeQ, running,
             state>>

(* Operators marked "mistake:" are not part of the specification.  Each is *)
(* a slip that the code could have made in the definition that follows it, *)
(* kept to see that the properties notice it.                              *)

-----------------------------------------------------------------------------
(* The constructors number the workers, those of the prefill instances     *)
(* first, and chain those of an instance to a ring.                        *)
PrefillWorkers == cluster.prefill * cluster.ppPrefill
Workers == 0..(PrefillWorkers + cluster.decode * cluster.ppDecode - 1)
IsVLLM == cluster.decode = 0

Stages(w) == IF w < PrefillWorkers THEN cluster.ppPrefill ELSE cluster.ppDecode
Rank(w) == IF w < PrefillWorkers THEN w % cluster.ppPrefill
           ELSE (w - PrefillWorkers) % cluster.ppDecode
IsFirst(w) == Rank(w) = 0
IsLast(w) == Rank(w) = Stages(w) - 1
NextWorker(w) == IF IsLast(w) THEN w - Rank(w) ELSE w + 1

PrefillHeads == {w \in 0..(PrefillWorkers - 1) : IsFirst(w)}
DecodeHeads == IF IsVLLM THEN PrefillHeads
               ELSE {w \in Workers \ 0..(PrefillWorkers - 1) : IsFirst(w)}
ShouldRequestStay(w) == IsVLLM \/ w >= PrefillWorkers \/ ~IsLast(w)

ContextLen(r) == PrefillLen[r] + (IF req[r].counter > 0 THEN req[r].counter ELSE 0)

(* A request before it is scheduled: nothing of its prompt is being worked *)
(* on, it belongs to no chunk, and its counter says that it is to prefill. *)
NewRequest(r) ==
    [remain |-> PrefillLen[r], current |-> 0, counter |-> -1, chunk |-> {}]

SimInit ==
    /\ cluster \in Clusters /\ chunked \in BOOLEAN
    /\ arrived = {} /\ exited = {}
    /\ req = [r \in Requests |-> NewRequest(r)]
    /\ prefillQ = [w \in Workers |-> <<>>] /\ decodeQ = [w \in Workers |-> <<>>]
    /\ running = [w \in Workers |-> [prefill |-> <<>>, decode |-> <<>>]]
    /\ state = [w \in Workers |-> "loop"]

-----------------------------------------------------------------------------
(* mistake: the event is replaced before it is triggered *)
WakeNobody(S) == state

(* wakeup: whoever waits for the event will run. *)
Wake(S) == [w \in Workers |-> IF w \in S /\ state[w] = "asleep" THEN "woken"
                              ELSE state[w]]

(* _find_best_worker_and_queue: fewest waiting, with the prefills in       *)
(* progress; the first of several.                                         *)
Load(w, queues) == Len(queues[w]) + Len(running[w].prefill)
Best(heads, queues) ==
    CHOOSE w \in heads : \A x \in heads :
        \/ Load(w, queues) < Load(x, queues)
        \/ Load(w, queues) = Load(x, queues) /\ w <= x

(* put_request_at_time: schedule_prefill *)
Arrive(r) ==
    /\ r \notin arrived
    /\ arrived' = arrived \cup {r}
    /\ LET w == Best(PrefillHeads, prefillQ) IN
         /\ prefillQ' = [prefillQ EXCEPT ![w] = Append(@, r)]
         /\ state' = Wake({w})
    /\ UNCHANGED <<cluster, chunked, req, exited, decodeQ, running>>

-----------------------------------------------------------------------------
(* has_back_pressure compares a number of tokens to a number of requests. *)
HasBackPressure(w) ==
    SumOver([r \in Requests |-> ContextLen(r)], Members(decodeQ[w]))
        > (DecodeMaxBatch * 9) \div 10

(* The longest of the prefixes up to n whose every step is acceptable *)
Longest(n, ok(_)) ==
    CHOOSE k \in 0..n : (\A i \in 1..k : ok(i)) /\ (k < n => ~ok(k + 1))
AtMost(n, q) == IF n < Len(q) THEN n ELSE Len(q)

(* _enter_prefill of the first worker cuts a chunk from the head of the    *)
(* queue; Scheduled[i] is the size of the first i portions.  With chunked  *)
(* prefill the budget is reduced twice by what is scheduled: in            *)
(* prefill_max_tokens, and by the chunk_size that is taken off it.  A      *)
(* portion of 0 is one that ends the chunk.                                *)
Portion(r, scheduled) ==
    LET left == PrefillMaxTokens - (IF chunked THEN 2 ELSE 1) * scheduled IN
    IF req[r].remain <= left THEN req[r].remain
    ELSE IF chunked /\ left > 0 THEN left ELSE 0
Scheduled(q) ==
    LET f[i \in 0..Len(q)] ==
            IF i = 0 THEN 0
            ELSE LET before == f[i - 1] IN before + Portion(q[i], before)
    IN  f
CutChunk(w, scheduled) ==
    Longest(AtMost(PrefillMaxBatch, prefillQ[w]),
            LAMBDA i : scheduled[i] > scheduled[i - 1])

(* mistake: everything that waits is taken to be one chunk *)
WholeQueue(w) == AtMost(PrefillMaxBatch, prefillQ[w])

(* The other workers take what has the chunk id of the head. *)
SameChunk(w) ==
    LET q == prefillQ[w] IN
    Longest(AtMost(PrefillMaxBatch, q),
            LAMBDA i : req[q[i]].chunk = req[q[1]].chunk)

(* _enter_decodes *)
EnterDecodes(w, tokens) ==
    LET q == decodeQ[w]
        need == [r \in Requests |-> ContextLen(r) + 1]
    IN  Longest(AtMost(tokens, q), LAMBDA i : SumOver(need, Members(SubSeq(q, 1, i))) <= ContextCap)

(* run up to the timeout: the worker begins an iteration with the first k  *)
(* prefills and the first d decodes.                                       *)
StartBatch(w, k, d) ==
    /\ running' = [running EXCEPT ![w] = [prefill |-> SubSeq(prefillQ[w], 1, k),
                                          decode  |-> SubSeq(decodeQ[w], 1, d)]]
    /\ prefillQ' = [prefillQ EXCEPT ![w] = SubSeq(@, k + 1, Len(@))]
    /\ decodeQ' = [decodeQ EXCEPT ![w] = SubSeq(@, d + 1, Len(@))]
    /\ state' = [state EXCEPT ![w] = "busy"]
    /\ UNCHANGED <<cluster, chunked, arrived, exited>>

(* The worker may go on: it was woken, or does not find both queues empty. *)
CanRun(w) ==
    /\ w \in Workers
    /\ \/ state[w] = "woken"
       \/ state[w] = "loop" /\ (prefillQ[w] # <<>> \/ decodeQ[w] # <<>>)
WantsPrefill(w) == prefillQ[w] # <<>> /\ ~HasBackPressure(w)

(* do_prefill with the first k requests.  Only the first worker of a       *)
(* pipeline cuts chunks; their id is only ever compared, so the set of the *)
(* requests stands for it.                                                 *)
DoPrefill(w, scheduled, k) ==
    LET batch == Members(SubSeq(prefillQ[w], 1, k))
        place == [r \in batch |-> CHOOSE i \in 1..k : prefillQ[w][i] = r]
        size  == [r \in batch |-> IF IsFirst(w)
                      THEN scheduled[place[r]] - scheduled[place[r] - 1]
                      ELSE req[r].current]
    IN  /\ req' = IF ~IsFirst(w) THEN req
                  ELSE [r \in Requests |->
                         IF r \notin batch THEN req[r]
                         ELSE [req[r] EXCEPT !.remain = @ - size[r],
                                             !.current = size[r],
                                             !.chunk = batch]]
        /\ StartBatch(w, k,
              IF chunked
              THEN EnterDecodes(w, PrefillMaxTokens - SumOver(size, batch))
              ELSE 0)
BeginPrefill(w) ==
    /\ CanRun(w) /\ WantsPrefill(w)
    /\ \E scheduled \in {Scheduled(prefillQ[w])} :
       \E k \in {IF IsFirst(w) THEN CutChunk(w, scheduled) ELSE SameChunk(w)} :
         DoPrefill(w, scheduled, k)

BeginDecode(w) ==
    /\ CanRun(w) /\ ~WantsPrefill(w)
    /\ StartBatch(w, 0, EnterDecodes(w, DecodeMaxTokens))
    /\ UNCHANGED req

(* Nothing to do: the worker waits for its event. *)
FallAsleep(w) ==
    /\ w \in Workers
    /\ state[w] = "loop" /\ prefillQ[w] = <<>> /\ decodeQ[w] = <<>>
    /\ state' = [state EXCEPT ![w] = "asleep"]
    /\ UNCHANGED <<cluster, chunked, arrived, req, exited, prefillQ, decodeQ, running>>

-----------------------------------------------------------------------------
(* finish_prefill, finish_decode: the last worker ends the round. *)
Prefilled(w, r) == IsLast(w) /\ req[r].remain = 0
AfterPrefill(w, r) ==
    IF IsLast(w) THEN [req[r] EXCEPT !.chunk = {}, !.current = 0,
                          !.counter = IF Prefilled(w, r) THEN 0 ELSE @]
    ELSE req[r]
AfterDecode(w, r) == IF IsLast(w) THEN [req[r] EXCEPT !.counter = @ + 1] ELSE req[r]

(* run after the timeout: _exit_prefill, then _exit_decode.  What is not    *)
(* prefilled yet goes on to the next worker, in the order of the batch.    *)
ForwardPrefill(w) ==
    [prefillQ EXCEPT ![NextWorker(w)] =
        @ \o Remaining(running[w].prefill, {r \in Requests : Prefilled(w, r)})]

(* What is prefilled is sent to be decoded; schedule_decode looks at the   *)
(* loads anew for each one.                                                *)
SendPrefilled(w, queues, r) ==
    IF ~Prefilled(w, r) \/ OutputLen[r] = 0 THEN queues
    ELSE LET to == IF ShouldRequestStay(w) THEN NextWorker(w)
                   ELSE Best(DecodeHeads, queues)
         IN  [queues EXCEPT ![to] = Append(@, r)]
AfterExitPrefill(w) ==
    LET sent[i \in 0..Len(running[w].prefill)] ==
            IF i = 0 THEN decodeQ
            ELSE SendPrefilled(w, sent[i - 1], running[w].prefill[i])
    IN  sent[Len(running[w].prefill)]

Finish(w) ==
    /\ w \in Workers /\ state[w] = "busy"
    /\ LET prefills == Members(running[w].prefill)
           decodes  == Members(running[w].decode)
       IN  /\ req' = [r \in Requests |-> IF r \in prefills THEN AfterPrefill(w, r)
                                         ELSE IF r \in decodes THEN AfterDecode(w, r)
                                         ELSE req[r]]
           /\ exited' = exited \cup {r \in prefills \cup decodes :
                                        req'[r].counter >= OutputLen[r]}
    /\ prefillQ' = ForwardPrefill(w)
    /\ \E queues \in {AfterExitPrefill(w)} :
         decodeQ' = [queues EXCEPT ![NextWorker(w)] =
                        @ \o Remaining(running[w].decode, exited')]
    /\ LET fed == {x \in Workers : prefillQ'[x] # prefillQ[x]
                                    \/ decodeQ'[x] # decodeQ[x]}
       IN  state' = [Wake(fed) EXCEPT ![w] = "loop"]
    /\ running' = [running EXCEPT ![w] = [prefill |-> <<>>, decode |-> <<>>]]
    /\ UNCHANGED <<cluster, chunked, arrived>>

Work(w) == BeginPrefill(w) \/ BeginDecode(w) \/ FallAsleep(w) \/ Finish(w)

AllWorkers == UNION {0..(c.prefill * c.ppPrefill + c.decode * c.ppDecode - 1) :
                        c \in Clusters}

SimNext ==
    \/ \E r \in Requests : Arrive(r)
    \/ \E w \in AllWorkers :
         BeginPrefill(w) \/ BeginDecode(w) \/ FallAsleep(w) \/ Finish(w)

(* SimPy runs every process whose event has come. *)
SimSpec == /\ SimInit /\ [][SimNext]_simVars
           /\ \A w \in AllWorkers : WF_simVars(Work(w))

-----------------------------------------------------------------------------
(* A later stage of a prefill pipeline runs the very batch that the first  *)
(* one has put together, not a part of it and nothing more, although the   *)
(* requests are sent on one by one and others queue up in the meantime.    *)
ChunksStayWhole ==
    \A w \in Workers :
        state[w] = "busy" /\ ~IsFirst(w) =>
            \A r \in Members(running[w].prefill) :
                req[r].chunk = Members(running[w].prefill)

(* A request that has arrived leaves the simulation, for prompts that fit  *)
(* a batch: no wakeup is lost, no request is left in the ring, and later   *)
(* arrivals do not hold it back.  Otherwise the simulation would not end.  *)
EveryRequestExits == \A r \in Requests : r \in arrived ~> r \in exited
=============================================================================
