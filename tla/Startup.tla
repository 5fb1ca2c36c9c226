------------------------------- MODULE Startup -------------------------------
(***************************************************************************)
(* Starting an LLMEngine on a Ray cluster: the placement groups            *)
(* (engine.py), the workers of the two stages, their models, whose weights *)
(* the first worker to come downloads and converts under a file lock       *)
(* (downloader.py), the K/V caches, and the hand-over of the context       *)
(* workers' memory handles to the decoding workers.                        *)
(*                                                                         *)
(* A worker may raise or be killed while it prepares its model.  The two   *)
(* engines wait for their workers with asyncio.wait, which does not raise; *)
(* a dead worker is noticed at the next asyncio.gather, which ends the     *)
(* server and with it every worker, and the operator starts it again.      *)
(***************************************************************************)
EXTENDS Integers, FiniteSets, Sequences

CONSTANTS NumLayers,   \* of the model
          MaxFaults    \* bound of the model: workers that raise or are killed

VARIABLES nodes, gpus,    \* the Ray cluster
          shape,          \* stage -> <<tensor, pipeline>> parallel size
          sharedDisk,     \* the cache is on a network file system
          status,         \* "off", "placing", "starting", "initialized", "unplaceable"
          groups,         \* the node of each placement group
          phase,          \* stage -> what SingleStageLLMEngine.initialize waits for
          worker,         \* worker -> progress of its init_model
          lock,           \* disk -> the worker that holds the file lock, or NoWorker
          folder,         \* disk -> content of the storage folder, and its file `done`
          registered,     \* the decoding workers that opened the handles they need
          faults

placeVars == <<nodes, gpus, shape, sharedDisk>>
startVars == <<nodes, gpus, shape, sharedDisk, status, groups, phase, worker,
               lock, folder, registered, faults>>

Stages == {"context", "decoding"}
NoWorker == <<"none", 0, 0>>
TP(s) == shape[s][1]
PP(s) == shape[s][2]
WorkersOf(s) == {s} \X (0..(PP(s) - 1)) \X (0..(TP(s) - 1))
Workers == WorkersOf("context") \cup WorkersOf("decoding")

LayersPer(s) == NumLayers \div PP(s)
LayersOf(w) == (w[2] * LayersPer(w[1]))..((w[2] + 1) * LayersPer(w[1]) - 1)

Lcm(a, b) == CHOOSE n \in 1..(a * b) :
    /\ n % a = 0 /\ n % b = 0
    /\ \A k \in 1..(n - 1) : k % a # 0 \/ k % b # 0

LayerPerPlacementGroup == Lcm(LayersPer("context"), LayersPer("decoding"))
WorkersInGroup(s) == (LayerPerPlacementGroup \div LayersPer(s)) * TP(s)
WorkersPerPlacementGroup == WorkersInGroup("context") + WorkersInGroup("decoding")
NumPlacementGroups == NumLayers \div LayerPerPlacementGroup

(* The group, counted from zero, that a worker's pipeline stage is put in. *)
PlacementGroupIndex(w) == w[2] \div ((NumLayers \div Len(groups)) \div LayersPer(w[1]))
NodeOf(w) == groups[PlacementGroupIndex(w) + 1]
Disk(w) == IF sharedDisk THEN 1 ELSE NodeOf(w)

Clean == [content |-> "none", done |-> FALSE]
Off == [w \in {} |-> "init"]

StartInit ==
    /\ status = "off"
    /\ groups = <<>>
    /\ phase = [s \in Stages |-> "workers"]
    /\ worker = Off
    /\ lock = [d \in 1..nodes |-> NoWorker]
    /\ folder = [d \in 1..nodes |-> Clean]
    /\ registered = {}
    /\ faults = 0

(* Ray packs a group on one node that has the GPUs for it. *)
FreeGpus(n) ==
    gpus - WorkersPerPlacementGroup * Cardinality({i \in 1..Len(groups) : groups[i] = n})
Room == {n \in 1..nodes : FreeGpus(n) >= WorkersPerPlacementGroup}

PlaceGroup ==
    /\ status = "placing"
    /\ \E n \in Room : groups' = Append(groups, n)
    /\ status' = IF Len(groups) + 1 = NumPlacementGroups THEN "starting" ELSE "placing"
    /\ UNCHANGED <<placeVars, phase, worker, lock, folder, registered, faults>>

(* placement_group.ready() times out. *)
PlacementFails ==
    /\ status = "placing"
    /\ Room = {}
    /\ status' = "unplaceable"
    /\ UNCHANGED <<placeVars, groups, phase, worker, lock, folder, registered, faults>>

(* _init_workers, and the call of init_model on each of them. *)
InitWorkers(s) ==
    /\ status = "starting" /\ phase[s] = "workers"
    /\ worker' = [w \in DOMAIN worker \cup WorkersOf(s) |->
                    IF w[1] = s THEN "init" ELSE worker[w]]
    /\ phase' = [phase EXCEPT ![s] = "model"]
    /\ UNCHANGED <<placeVars, status, groups, lock, folder, registered, faults>>
-----------------------------------------------------------------------------
(* download_and_convert_weights, in worker w.                              *)

Moves(w, from, to) == worker[w] = from /\ worker' = [worker EXCEPT ![w] = to]
Released(w) == [d \in DOMAIN lock |-> IF lock[d] = w THEN NoWorker ELSE lock[d]]
ModelUnchanged == UNCHANGED <<placeVars, status, groups, phase, registered>>

(* mistake: no lock is taken *)
LockIgnored(w) == TRUE
LockIsFree(w) == lock[Disk(w)] = NoWorker

TakeLock(w) ==
    /\ Moves(w, "init", "check")
    /\ LockIsFree(w)
    /\ lock' = [lock EXCEPT ![Disk(w)] = w]
    /\ ModelUnchanged /\ UNCHANGED <<folder, faults>>

FindDone(w) ==
    /\ folder[Disk(w)].done
    /\ Moves(w, "check", "load")
    /\ lock' = Released(w)
    /\ ModelUnchanged /\ UNCHANGED <<folder, faults>>

(* The pieces are written one by one into the storage folder. *)
BeginConversion(w) ==
    /\ ~folder[Disk(w)].done
    /\ Moves(w, "check", "convert")
    /\ folder' = [folder EXCEPT ![Disk(w)].content = "partial"]
    /\ ModelUnchanged /\ UNCHANGED <<lock, faults>>

EndConversion(w) ==
    /\ Moves(w, "convert", "mark")
    /\ folder' = [folder EXCEPT ![Disk(w)].content = "whole"]
    /\ ModelUnchanged /\ UNCHANGED <<lock, faults>>

MarkDone(w) ==
    /\ Moves(w, "mark", "load")
    /\ folder' = [folder EXCEPT ![Disk(w)].done = TRUE]
    /\ lock' = Released(w)
    /\ ModelUnchanged /\ UNCHANGED faults

Load(w) ==
    /\ Moves(w, "load", "loaded")
    /\ ModelUnchanged /\ UNCHANGED <<lock, folder, faults>>

(* The conversion raises: the call fails, the actor lives on without       *)
(* weights.                                                                *)
ConversionRaises(w) ==
    /\ faults < MaxFaults /\ faults' = faults + 1
    /\ Moves(w, "convert", "raised")
    /\ lock' = Released(w)
    /\ ModelUnchanged /\ UNCHANGED folder

(* The process of the worker is killed; the system gives up its lock. *)
Killed(w) ==
    /\ faults < MaxFaults /\ faults' = faults + 1
    /\ worker[w] \in {"check", "convert", "mark", "load"}
    /\ worker' = [worker EXCEPT ![w] = "dead"]
    /\ lock' = Released(w)
    /\ ModelUnchanged /\ UNCHANGED folder
-----------------------------------------------------------------------------
(* asyncio.wait: every call to init_model has ended, one way or another. *)
ModelsDone(s) ==
    /\ phase[s] = "model"
    /\ \A w \in WorkersOf(s) : worker[w] \in {"loaded", "raised", "dead"}

InitKVCache(s) ==
    /\ ModelsDone(s)
    /\ \A w \in WorkersOf(s) : worker[w] # "dead"
    /\ phase' = [phase EXCEPT ![s] = "ready"]
    /\ UNCHANGED <<placeVars, status, groups, worker, lock, folder, registered, faults>>

(* A call to a dead worker raises, initialize raises, the server ends.     *)
InitFails(s) ==
    /\ ModelsDone(s)
    /\ \E w \in WorkersOf(s) : worker[w] = "dead"
    /\ status' = "off"
    /\ groups' = <<>>
    /\ phase' = [t \in Stages |-> "workers"]
    /\ worker' = Off
    /\ lock' = [d \in DOMAIN lock |-> NoWorker]
    /\ UNCHANGED <<placeVars, folder, registered, faults>>

(* A decoding worker opens the handle of every context worker that holds   *)
(* one of its layers; CUDA's IPC handles can be opened on the same node.   *)
Sources(w) == {v \in WorkersOf("context") : LayersOf(v) \cap LayersOf(w) # {}}
Opens(w) == \A v \in Sources(w) : NodeOf(v) = NodeOf(w)

(* register_kvcache_mem_handles: it, too, is waited for with asyncio.wait. *)
RegisterHandles ==
    /\ status = "starting"
    /\ \A s \in Stages : phase[s] = "ready"
    /\ registered' = {w \in WorkersOf("decoding") : Opens(w)}
    /\ status' = "initialized"
    /\ UNCHANGED <<placeVars, groups, phase, worker, lock, folder, faults>>

WorkerStep(w) ==
    \/ TakeLock(w) \/ FindDone(w) \/ BeginConversion(w) \/ EndConversion(w)
    \/ MarkDone(w) \/ Load(w)

StartNext ==
    \/ PlaceGroup \/ PlacementFails \/ RegisterHandles
    \/ \E s \in Stages : InitWorkers(s) \/ InitKVCache(s) \/ InitFails(s)
    \/ \E w \in DOMAIN worker : WorkerStep(w) \/ ConversionRaises(w) \/ Killed(w)
-----------------------------------------------------------------------------
(* A worker never reads weights that nobody has finished writing or that   *)
(* another worker is writing again, on whichever node and after whatever   *)
(* crashes; and no two workers convert into one folder (the comment in     *)
(* download_and_convert_weights).                                          *)
Writing(w) == worker[w] \in {"convert", "mark"}
LoadsWholeWeights ==
    \A w \in DOMAIN worker :
        /\ worker[w] = "load" => folder[Disk(w)] = [content |-> "whole", done |-> TRUE]
        /\ Writing(w) => \A v \in DOMAIN worker \ {w} :
              Disk(v) = Disk(w) => ~Writing(v) /\ worker[v] # "load"
=============================================================================
