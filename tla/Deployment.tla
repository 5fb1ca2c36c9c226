----------------------------- MODULE Deployment -----------------------------
(***************************************************************************)
(* From the search to a running engine: the operator starts DistServe with *)
(* the configuration that simulate.py printed, on the cluster it was asked *)
(* about.  The simulator's vLLM configurations are not for this engine.    *)
(***************************************************************************)
EXTENDS RateSearch, Startup

ASSUME SameModel == NumLayers = Layers

vars == <<searchVars, startVars>>

DeployInit ==
    /\ SearchInit
    /\ nodes = NumNodes /\ gpus = GpusPerNode
    /\ shape = [s \in Stages |-> <<1, 1>>]
    /\ sharedDisk \in BOOLEAN
    /\ StartInit

(* The operator, who also starts the server again after a failure. *)
StartServer ==
    /\ backend = "distserve" /\ Found
    /\ status = "off"
    /\ shape' = [context |-> PrefillShape(best_config),
                 decoding |-> DecodeShape(best_config)]
    /\ status' = "placing"
    /\ UNCHANGED <<searchVars, nodes, gpus, sharedDisk, groups, phase, worker,
                   lock, folder, registered, faults>>

DeployNext ==
    \/ SearchNext /\ UNCHANGED startVars
    \/ StartServer
    \/ StartNext /\ UNCHANGED searchVars

(* The processes run, the main process keeps looking at them, and Ray and  *)
(* the workers get their turns; faults need not happen.                    *)
ServerStep ==
    \/ PlaceGroup \/ RegisterHandles
    \/ \E s \in Stages : InitWorkers(s) \/ InitKVCache(s) \/ InitFails(s)
    \/ \E w \in DOMAIN worker : WorkerStep(w)
DeployFairness ==
    /\ WF_vars(SearchNext /\ UNCHANGED startVars)
    /\ WF_vars(StartServer)
    /\ WF_vars(ServerStep /\ UNCHANGED searchVars)

DeploySpec == DeployInit /\ [][DeployNext]_vars /\ DeployFairness
-----------------------------------------------------------------------------
(* What the search without high affinity recommends can be deployed: every *)
(* placement group finds a node, whichever nodes Ray chose for the earlier *)
(* ones, a conversion that was interrupted is taken up again, and in the   *)
(* end the engine is initialized with every decoding worker on the node of *)
(* the context workers whose K/V it pulls ("the same layer of the context  *)
(* & decoding stage ... on the same node").                                *)
KVReachable == registered = WorkersOf("decoding")
FoundConfigurationStarts ==
    (backend = "distserve" /\ ~high_affinity /\ Found)
        ~> (status = "initialized" /\ KVReachable)
=============================================================================
