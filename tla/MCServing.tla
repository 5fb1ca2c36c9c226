----------------------------- MODULE MCServing ------------------------------
(* A streaming and a plain request in a decoding stage of four blocks and  *)
(* one CPU block.  They outgrow it: when "b" came first, "a" still has the *)
(* one block that the CPU can take; the other way round the swap-out fails.*)
EXTENDS Serving
MCPromptLen == [r \in Requests |-> IF r = "a" THEN 1 ELSE 2]
MCMaxOutput == [r \in Requests |-> IF r = "a" THEN 3 ELSE 4]
=============================================================================
