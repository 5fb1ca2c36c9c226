-------------------------- MODULE MCPressureBudget --------------------------
(* Small budgets for TLC: one range inside the dead zone of the smoothing, *)
(* three outside of it; and the defaults of the decoding scheduler for one *)
(* swap-in per iteration.                                                  *)
EXTENDS PressureBudget
MCMin == [prefill |-> 4, margin |-> 0, swap |-> 0, scan |-> 6]
MCMax == [prefill |-> 9, margin |-> 4, swap |-> 3, scan |-> 8]
MCDecodeMin == [prefill |-> 0, margin |-> 0, swap |-> 0, scan |-> 6]
MCDecodeMax == [prefill |-> 0, margin |-> 0, swap |-> 1, scan |-> 8]
=============================================================================
