--------------------------- MODULE MCContextStage ---------------------------
(* Four requests with one to three blocks of prompt for a stage with four  *)
(* blocks and a pipeline of two: batches are cut by each of the limits.    *)
EXTENDS ContextCC
MCPromptLen == [r \in Requests |-> IF r \in {"a", "b"} THEN 1
                                   ELSE IF r = "c" THEN 3 ELSE 5]
=============================================================================
