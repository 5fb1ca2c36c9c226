---------------------------- MODULE BlockManager ----------------------------
(***************************************************************************)
(* distserve/block_manager.py: the paged K/V cache of one stage.           *)
(*                                                                         *)
(* Each device has a free list and a swapping list.  The blocks a swap     *)
(* reads from go to the swapping list of their device, since the copy may  *)
(* still be running; they become free only when the manager needs them,    *)
(* which makes it wait for the outstanding swaps first (the flush).        *)
(*                                                                         *)
(* Lists of block ids are sets here: the position of a block in its list   *)
(* decides which block is handed out first and nothing else, and the model *)
(* lets any of them be handed out.  An operation whose assertion would     *)
(* fail is not enabled; that the callers never make such a call is the     *)
(* business of the scheduler modules.                                      *)
(***************************************************************************)
EXTENDS Integers, FiniteSets

CONSTANTS
    Requests,    \* request ids
    GpuBlocks,   \* range(max_num_gpu_blocks)
    CpuBlocks,   \* range(max_num_cpu_blocks)
    BlockSize,   \* cache_config.block_size
    MaxTokens    \* bound: the longest prompt plus output that is explored

VARIABLES
    free,        \* free_gpu_blocks_list, free_cpu_blocks_list
    swapping,    \* swapping_gpu_blocks_list, swapping_cpu_blocks_list
    block_table, \* request -> the set of its block ids
    location,    \* request_location; "none" for a request not in block_table
    tokens       \* prompt plus generated tokens of a request (Request)

vars == <<free, swapping, block_table, location, tokens>>

ASSUME BlockManagerAssumption ==
    /\ IsFiniteSet(GpuBlocks) /\ IsFiniteSet(CpuBlocks)
    /\ BlockSize \in Nat \ {0}
    /\ MaxTokens \in Nat

(* Operators marked "mistake:" are not part of the specification.  Each is *)
(* a slip that the code could have made in the definition that follows it, *)
(* kept to see that the properties notice it.                              *)

Devices == {"gpu", "cpu"}
BlocksOf(d) == IF d = "gpu" THEN GpuBlocks ELSE CpuBlocks
(* mistake: a swap that targets the device it reads from *)
OtherSameDevice(d) == d
Other(d) == IF d = "gpu" THEN "cpu" ELSE "gpu"

Residents(d) == {r \in Requests : location[r] = d}
Owned(d) == UNION {block_table[r] : r \in Residents(d)}

(* get_num_avail_gpu_blocks, get_num_avail_cpu_blocks *)
NumAvail(d) == Cardinality(free[d]) + Cardinality(swapping[d])

(* get_num_blocks_needed *)
NumBlocksNeeded(r) == (tokens[r] + BlockSize - 1) \div BlockSize

(* mistake: the last block of the table taken for a free one *)
NumAppendOffByOne(r) == NumBlocksNeeded(r) + 1 - Cardinality(block_table[r])

(* get_num_append_blocks_needed *)
NumAppendBlocksNeeded(r) == NumBlocksNeeded(r) - Cardinality(block_table[r])

-----------------------------------------------------------------------------
(* _get_free_blocks(n, d) flushes the swapping list when the free list is  *)
(* too short, after the call that waits for the outstanding swaps.         *)
NeedsFlush(n, d) == Cardinality(free[d]) < n

(* _get_free_blocks(n, d) returns the set B: from the free list alone, or, *)
(* when that is too short, all of it and the rest from the flushed list.   *)
GetFreeBlocks(n, d, B) ==
    /\ NumAvail(d) >= n
    /\ Cardinality(B) = n
    /\ IF NeedsFlush(n, d)
       THEN B \subseteq free[d] \cup swapping[d] /\ free[d] \subseteq B
       ELSE B \subseteq free[d]

FreeAfterGet(n, d, B) ==
    (IF NeedsFlush(n, d) THEN free[d] \cup swapping[d] ELSE free[d]) \ B
SwappingAfterGet(n, d) ==
    IF NeedsFlush(n, d) THEN {} ELSE swapping[d]

Candidates(d) == SUBSET (free[d] \cup swapping[d])

-----------------------------------------------------------------------------
(* mistake: an empty prompt is let in *)
InitWithEmptyPrompts ==
    /\ free = [d \in Devices |-> BlocksOf(d)]
    /\ swapping = [d \in Devices |-> {}]
    /\ block_table = [r \in Requests |-> {}]
    /\ location = [r \in Requests |-> "none"]
    /\ tokens \in [Requests -> 0..MaxTokens]

Init ==
    /\ free = [d \in Devices |-> BlocksOf(d)]
    /\ swapping = [d \in Devices |-> {}]
    /\ block_table = [r \in Requests |-> {}]
    /\ location = [r \in Requests |-> "none"]
    /\ tokens \in [Requests -> 1..MaxTokens]

(* allocate_blocks of a request that has no block table yet *)
AllocateNew(r) ==
    /\ location[r] = "none"
    /\ \E B \in Candidates("gpu") :
         LET n == NumBlocksNeeded(r) IN
         /\ GetFreeBlocks(n, "gpu", B)
         /\ free' = [free EXCEPT !["gpu"] = FreeAfterGet(n, "gpu", B)]
         /\ swapping' = [swapping EXCEPT !["gpu"] = SwappingAfterGet(n, "gpu")]
         /\ block_table' = [block_table EXCEPT ![r] = B]
    /\ location' = [location EXCEPT ![r] = "gpu"]
    /\ UNCHANGED tokens

(* allocate_blocks of a request on the GPU that has outgrown its blocks;   *)
(* with enough blocks the call changes nothing.                            *)
AllocateAppend(r) ==
    /\ location[r] = "gpu"
    /\ NumAppendBlocksNeeded(r) > 0
    /\ \E B \in Candidates("gpu") :
         LET n == NumAppendBlocksNeeded(r) IN
         /\ GetFreeBlocks(n, "gpu", B)
         /\ free' = [free EXCEPT !["gpu"] = FreeAfterGet(n, "gpu", B)]
         /\ swapping' = [swapping EXCEPT !["gpu"] = SwappingAfterGet(n, "gpu")]
         /\ block_table' = [block_table EXCEPT ![r] = @ \cup B]
    /\ UNCHANGED <<location, tokens>>

(* mistake: all blocks go back to the GPU's list *)
FreeBlocksToGpu(r) ==
    /\ location[r] \in Devices
    /\ free' = [free EXCEPT !["gpu"] = @ \cup block_table[r]]
    /\ block_table' = [block_table EXCEPT ![r] = {}]
    /\ location' = [location EXCEPT ![r] = "none"]
    /\ UNCHANGED <<swapping, tokens>>

(* mistake: the location of a freed request is not forgotten *)
FreeBlocksKeepsLocation(r) ==
    /\ location[r] \in Devices
    /\ free' = [free EXCEPT ![location[r]] = @ \cup block_table[r]]
    /\ block_table' = [block_table EXCEPT ![r] = {}]
    /\ UNCHANGED <<location, swapping, tokens>>

(* free_blocks: back to the free list of the device the request is on *)
FreeBlocks(r) ==
    /\ location[r] \in Devices
    /\ free' = [free EXCEPT ![location[r]] = @ \cup block_table[r]]
    /\ block_table' = [block_table EXCEPT ![r] = {}]
    /\ location' = [location EXCEPT ![r] = "none"]
    /\ UNCHANGED <<swapping, tokens>>

(* swap_requests([r], is_swap_in) moves r from device d to the other one.  *)
(* Every caller passes a single request.  The blocks left behind go to the *)
(* swapping list, not to the free list.                                    *)
SwapRequest(r, d) ==
    /\ location[r] = d
    /\ \E B \in Candidates(Other(d)) :
         LET n == Cardinality(block_table[r]) IN
         /\ GetFreeBlocks(n, Other(d), B)
         /\ free' = [free EXCEPT ![Other(d)] = FreeAfterGet(n, Other(d), B)]
         /\ swapping' = [swapping EXCEPT
                           ![Other(d)] = SwappingAfterGet(n, Other(d)),
                           ![d] = @ \cup block_table[r]]
         /\ block_table' = [block_table EXCEPT ![r] = B]
    /\ location' = [location EXCEPT ![r] = Other(d)]
    /\ UNCHANGED tokens

SwapOut(r) == SwapRequest(r, "gpu")
SwapIn(r) == SwapRequest(r, "cpu")

(* One forward pass of a batch with r in it, between two calls of          *)
(* allocate_blocks: add_generated_token lengthens r by a token.            *)
Generate(r) ==
    /\ location[r] = "gpu"
    /\ NumAppendBlocksNeeded(r) <= 0
    /\ tokens[r] < MaxTokens
    /\ tokens' = [tokens EXCEPT ![r] = @ + 1]
    /\ UNCHANGED <<free, swapping, block_table, location>>

Next == \E r \in Requests :
    \/ AllocateNew(r)
    \/ AllocateAppend(r)
    \/ FreeBlocks(r)
    \/ SwapOut(r)
    \/ SwapIn(r)
    \/ Generate(r)

Spec == Init /\ [][Next]_vars

-----------------------------------------------------------------------------
(* Every variable has its type. *)
TypeOK ==
    /\ free \in [Devices -> SUBSET (GpuBlocks \cup CpuBlocks)]
    /\ swapping \in [Devices -> SUBSET (GpuBlocks \cup CpuBlocks)]
    /\ block_table \in [Requests -> SUBSET (GpuBlocks \cup CpuBlocks)]
    /\ location \in [Requests -> Devices \cup {"none"}]
    /\ tokens \in [Requests -> 1..MaxTokens]

(* A block is never in two places: free and swapping, in a list and in a   *)
(* request's block table, or in the block tables of two requests.  A block *)
(* written by two requests would corrupt the K/V cache of both.            *)
NoDoubleOwner ==
    /\ \A d \in Devices :
         /\ free[d] \cap swapping[d] = {}
         /\ Owned(d) \cap (free[d] \cup swapping[d]) = {}
    /\ \A r, s \in Requests :
         r # s /\ location[r] = location[s] =>
             block_table[r] \cap block_table[s] = {}

(* No block is ever lost: whatever was allocated, appended, swapped and    *)
(* freed, each block of a device is free, swapping or owned there.         *)
NoLeak ==
    \A d \in Devices : free[d] \cup swapping[d] \cup Owned(d) = BlocksOf(d)

(* A request without a location has no blocks. *)
TableMatchesLocation ==
    \A r \in Requests : location[r] = "none" => block_table[r] = {}

BlocksPartitioned == NoDoubleOwner /\ NoLeak /\ TableMatchesLocation

(* The block table always has room for the K/V of all but the token just   *)
(* generated, and never a block more than the tokens need.                 *)
TableFitsTokens ==
    \A r \in Requests : location[r] # "none" =>
        /\ NumBlocksNeeded(r) - 1 <= Cardinality(block_table[r])
        /\ Cardinality(block_table[r]) <= NumBlocksNeeded(r)

(* While a request is known to the manager its cached K/V survives every   *)
(* operation: its blocks stay where they are, or all of them move to the   *)
(* other device at once and the ones left behind are not free at once.     *)
KVKept ==
    \A r \in Requests : location[r] # "none" /\ location'[r] # "none" =>
        IF location'[r] = location[r]
        THEN block_table[r] \subseteq block_table'[r]
        ELSE /\ Cardinality(block_table'[r]) = Cardinality(block_table[r])
             /\ block_table[r] \subseteq swapping'[location[r]]
KVNeverLost == [][KVKept]_vars

(* The manager implements what the schedulers assume of it: counting.      *)
Counts == INSTANCE KVCounts WITH
    MaxGpuBlocks <- Cardinality(GpuBlocks),
    MaxCpuBlocks <- Cardinality(CpuBlocks),
    mem <- [blocks |-> [r \in Requests |-> Cardinality(block_table[r])],
            loc    |-> location]
ImplementsCounts == Counts!KVSpec
=============================================================================
