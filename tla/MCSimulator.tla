---------------------------- MODULE MCSimulator -----------------------------
(* "a" fits a batch with either of the others; in a chunk it leaves room   *)
(* for a part of "c" only.  Pipelines of two stages, and several instances *)
(* to choose from.                                                         *)
EXTENDS Simulator
MCPrefillLen == [r \in Requests |-> IF r = "a" THEN 1 ELSE IF r = "b" THEN 2 ELSE 3]
MCOutputLen == [r \in Requests |-> IF r = "a" THEN 2 ELSE 1]
MCClusters ==
    {[prefill |-> 1, ppPrefill |-> 2, decode |-> 0, ppDecode |-> 1],
     [prefill |-> 1, ppPrefill |-> 2, decode |-> 1, ppDecode |-> 2],
     [prefill |-> 2, ppPrefill |-> 1, decode |-> 2, ppDecode |-> 1]}
=============================================================================
