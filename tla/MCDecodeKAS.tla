---------------------------- MODULE MCDecodeKAS -----------------------------
(* Small instances of the KV-aware scheduler with blocks of two tokens.    *)
(* Request "a" needs three blocks in the end and the others four, so that  *)
(* a GPU of six blocks holds one of them entirely and another in part.     *)
EXTENDS DecodeKAS
MCPromptLen == [r \in Requests |-> IF r = "a" THEN 1 ELSE 3]
MCMaxOutput == [r \in Requests |-> 4]

(* Three requests whose prompts fit the GPU with one block to spare *)
MCSkipPromptLen == [r \in Requests |->
    IF r = "a" THEN 1 ELSE IF r = "b" THEN 2 ELSE 3]
MCSkipMaxOutput == [r \in Requests |-> IF r = "a" THEN 4 ELSE 3]
=============================================================================
