------------------------------ MODULE KVCounts ------------------------------
(***************************************************************************)
(* What the schedulers rely on when they call the block manager: every     *)
(* request holds a number of K/V blocks on one device, and a device never  *)
(* hands out more blocks than it has.  Block identities, the free lists    *)
(* and the swapping lists are the business of BlockManager, which is       *)
(* checked to implement this specification; the scheduler modules          *)
(* (DecodeFCFS, DecodeKAS) use the operators below on their own `mem'.     *)
(***************************************************************************)
EXTENDS Integers, RequestSums

CONSTANTS
    Requests,      \* request ids
    MaxGpuBlocks,  \* max_num_gpu_blocks
    MaxCpuBlocks,  \* max_num_cpu_blocks
    BlockSize      \* cache_config.block_size: tokens per K/V block

VARIABLE mem       \* [blocks: request -> number of blocks, loc: request -> place]

ASSUME KVCountsAssumption ==
    /\ MaxGpuBlocks \in Nat /\ MaxCpuBlocks \in Nat
    /\ BlockSize \in Nat \ {0}

Places == {"none", "gpu", "cpu"}

(* ceil(tokens / block_size), the _get_block_needed of both schedulers *)
BlocksFor(tokens) == (tokens + BlockSize - 1) \div BlockSize

NoBlocks == [blocks |-> [r \in Requests |-> 0],
             loc    |-> [r \in Requests |-> "none"]]

HeldOn(m, place) ==
    SumOver(m.blocks, {r \in Requests : m.loc[r] = place})

AvailGpu(m) == MaxGpuBlocks - HeldOn(m, "gpu")
AvailCpu(m) == MaxCpuBlocks - HeldOn(m, "cpu")

(* The four effects.  Allocating grows a request to n blocks and never     *)
(* shrinks it; swapping moves all of its blocks.                           *)
Allocated(m, r, n) ==
    [blocks |-> [m.blocks EXCEPT ![r] = IF n > @ THEN n ELSE @],
     loc    |-> [m.loc EXCEPT ![r] = "gpu"]]
Freed(m, r) ==
    [blocks |-> [m.blocks EXCEPT ![r] = 0],
     loc    |-> [m.loc EXCEPT ![r] = "none"]]
Moved(m, r, place) ==
    [blocks |-> m.blocks,
     loc    |-> [m.loc EXCEPT ![r] = place]]

-----------------------------------------------------------------------------
KVInit == mem = NoBlocks

KVAllocate(r, n) ==
    /\ mem.loc[r] # "cpu"
    /\ n > mem.blocks[r]
    /\ n - mem.blocks[r] <= AvailGpu(mem)
    /\ mem' = Allocated(mem, r, n)

KVFree(r) ==
    /\ mem.loc[r] # "none"
    /\ mem' = Freed(mem, r)

KVSwapOut(r) ==
    /\ mem.loc[r] = "gpu"
    /\ mem.blocks[r] <= AvailCpu(mem)
    /\ mem' = Moved(mem, r, "cpu")

KVSwapIn(r) ==
    /\ mem.loc[r] = "cpu"
    /\ mem.blocks[r] <= AvailGpu(mem)
    /\ mem' = Moved(mem, r, "gpu")

KVNext == \E r \in Requests :
    \/ \E n \in 1..MaxGpuBlocks : KVAllocate(r, n)
    \/ KVFree(r)
    \/ KVSwapOut(r)
    \/ KVSwapIn(r)

KVSpec == KVInit /\ [][KVNext]_mem
=============================================================================
