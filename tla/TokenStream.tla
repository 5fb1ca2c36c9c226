---------------------------- MODULE TokenStream -----------------------------
(***************************************************************************)
(* What LLMEngine.generate promises to the caller that iterates over it:   *)
(* each request produces its tokens one after the other, the caller gets   *)
(* every one of them, once and in that order, and the iteration ends after *)
(* the last one and never before.  A caller may also stop reading.         *)
(*                                                                         *)
(* How the tokens are made - two stages, batches, migration, swapping - is *)
(* the business of Serving, which is checked to implement this.            *)
(***************************************************************************)
EXTENDS Integers

CONSTANTS
    Requests,  \* request ids
    MaxOutput  \* request -> sampling_params.max_tokens

VARIABLES
    made,      \* request -> tokens produced so far
    over,      \* requests whose last token has been produced
    got,       \* request -> tokens its caller was given
    caller     \* request -> "none", "reads", "served" or "left"

streamVars == <<made, over, got, caller>>

StreamInit ==
    /\ made = [r \in Requests |-> 0]
    /\ over = {}
    /\ got = [r \in Requests |-> 0]
    /\ caller = [r \in Requests |-> "none"]

(* generate is called *)
Ask(r) ==
    /\ caller[r] = "none"
    /\ caller' = [caller EXCEPT ![r] = "reads"]
    /\ UNCHANGED <<made, over, got>>

(* A batch produces a token for each of its requests; the last one of a    *)
(* request comes at its limit if not before.                               *)
Produce(batch) ==
    /\ \A r \in batch : caller[r] # "none" /\ r \notin over
    /\ made' = [r \in Requests |-> IF r \in batch THEN made[r] + 1 ELSE made[r]]
    /\ \E last \in SUBSET batch :
         /\ \A r \in batch : made'[r] >= MaxOutput[r] => r \in last
         /\ over' = over \cup last
    /\ UNCHANGED <<got, caller>>

(* The caller is given its next token. *)
Hand(r) ==
    /\ caller[r] = "reads" /\ got[r] < made[r]
    /\ got' = [got EXCEPT ![r] = @ + 1]
    /\ UNCHANGED <<made, over, caller>>

(* The iteration ends: the caller has every token there will be. *)
End(r) ==
    /\ caller[r] = "reads" /\ r \in over /\ got[r] = made[r]
    /\ caller' = [caller EXCEPT ![r] = "served"]
    /\ UNCHANGED <<made, over, got>>

(* The caller stops reading, perhaps upon the token it is given. *)
GiveUp(r) ==
    /\ caller[r] = "reads"
    /\ caller' = [caller EXCEPT ![r] = "left"]
    /\ UNCHANGED <<made, over, got>>

StreamNext ==
    \/ \E batch \in SUBSET Requests : Produce(batch)
    \/ \E r \in Requests : Ask(r) \/ Hand(r) \/ End(r) \/ GiveUp(r)

StreamSpec == StreamInit /\ [][StreamNext]_streamVars
=============================================================================
