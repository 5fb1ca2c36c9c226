------------------------------ MODULE SwapSync ------------------------------
(***************************************************************************)
(* The block manager together with the worker that does the copying:       *)
(* ParaWorker.swap_blocks and wait_for_all_swap_in/out of                  *)
(* distserve/worker.py.                                                    *)
(*                                                                         *)
(* The manager does not await its calls, but a worker executes them in     *)
(* order, and a copy runs on a CUDA stream of its own after the call has   *)
(* returned.  The comments of block_manager.py promise that after a flush, *)
(* which synchronizes with the latest event of the stream, the blocks it   *)
(* takes off the swapping list are no longer read (SourcesNotReused).  But *)
(* the event is recorded before its copy is put on the stream, so the wait *)
(* covers all copies but the last one (FlushLeavesOneCopy).                *)
(*                                                                         *)
(* swap_event_table is left out because it has no effect: its keys are     *)
(* Request objects, unpickled anew for each call, so that no later swap,   *)
(* step or clear_request_resource, which look for an id, finds an entry.   *)
(***************************************************************************)
EXTENDS BlockManager, Sequences

CONSTANT
    MaxRunning  \* bound: the copies on a stream at the same time

VARIABLES
    running,    \* source device -> the copies on its stream, oldest first,
                \*   each as the set of blocks it reads
    ahead       \* source device -> how many of them come before the event
                \*   latest_swap_in_event or latest_swap_out_event

syncVars == <<running, ahead>>

-----------------------------------------------------------------------------
SwapInit ==
    /\ Init
    /\ running = [d \in Devices |-> <<>>]
    /\ ahead = [d \in Devices |-> 0]

(* The manager has flushed the swapping list of d *)
Flushed(d) == swapping[d] # {} /\ swapping'[d] = {}

(* mistake: the wait is for the event of the other stream *)
WaitForOther(d) == IF Flushed(Other(d)) THEN ahead[d] ELSE 0

(* wait_for_all_swap_out for d = "gpu", wait_for_all_swap_in for "cpu":    *)
(* the number of copies that the flush waits for, if there is a flush      *)
WaitForAll(d) == IF Flushed(d) THEN ahead[d] ELSE 0

AfterWait(d) == SubSeq(running[d], WaitForAll(d) + 1, Len(running[d]))
AheadAfterWait(d) == IF Flushed(d) THEN 0 ELSE ahead[d]

(* A call of the manager that copies nothing *)
ManagerStep ==
    /\ \E r \in Requests :
         AllocateNew(r) \/ AllocateAppend(r) \/ FreeBlocks(r) \/ Generate(r)
    /\ running' = [d \in Devices |-> AfterWait(d)]
    /\ ahead' = [d \in Devices |-> AheadAfterWait(d)]

(* swap_blocks after the manager's swap_requests: the event is recorded    *)
(* behind the copies that are on the stream, and then the copy follows.    *)
SwapBlocks(r, d) ==
    /\ SwapRequest(r, d)
    /\ Len(AfterWait(d)) < MaxRunning
    /\ running' = [e \in Devices |->
                     IF e = d THEN Append(AfterWait(e), block_table[r])
                     ELSE AfterWait(e)]
    /\ ahead' = [e \in Devices |->
                   IF e = d THEN Len(AfterWait(e)) ELSE AheadAfterWait(e)]

(* The oldest copy of a stream completes. *)
CopyDone(d) ==
    /\ running[d] # <<>>
    /\ running' = [running EXCEPT ![d] = Tail(@)]
    /\ ahead' = [ahead EXCEPT ![d] = IF @ = 0 THEN 0 ELSE @ - 1]
    /\ UNCHANGED vars

SwapNext ==
    \/ ManagerStep
    \/ \E r \in Requests, d \in Devices : SwapBlocks(r, d)
    \/ \E d \in Devices : CopyDone(d)

SwapSpec == SwapInit /\ [][SwapNext]_<<vars, syncVars>>

-----------------------------------------------------------------------------

(* What the code keeps of it: at any time at most one copy of each stream  *)
(* may still be reading blocks that were taken off the swapping list,      *)
(* however swaps, flushes and the completion of copies interleave.  All    *)
(* other copies that run have their blocks on that list, and so not        *)
(* handed out.                                                             *)
FlushLeavesOneCopy ==
    \A d \in Devices :
        Cardinality({i \in DOMAIN running[d] : ~(running[d][i] \subseteq swapping[d])}) <= 1
=============================================================================
