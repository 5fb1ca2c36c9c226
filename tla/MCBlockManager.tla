--------------------------- MODULE MCBlockManager ---------------------------
(* A small block manager for TLC.  The three requests, the blocks of each  *)
(* device are interchangeable, so TLC explores them up to permutation.     *)
EXTENDS SwapSync, TLC
MCSymmetry == Permutations(Requests) \cup Permutations(GpuBlocks)
                \cup Permutations(CpuBlocks)
=============================================================================
