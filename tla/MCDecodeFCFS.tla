---------------------------- MODULE MCDecodeFCFS ----------------------------
(* Small instances of the FCFS decoding stage.  A request of one prompt    *)
(* block may grow to two, so that three running requests overflow a GPU of *)
(* four blocks.                                                            *)
EXTENDS DecodeFCFS
MCPromptLen == [r \in Requests |-> IF r = "d" THEN 2 ELSE 1]
MCMaxOutput == [r \in Requests |-> IF r = "d" THEN 2 ELSE 3]

(* Two requests whose needs add up to more than the GPU *)
MCLongPrompts == [r \in Requests |-> 4]
MCLongOutput == [r \in Requests |-> 3]
=============================================================================
