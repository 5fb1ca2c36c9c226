--------------------------- MODULE RequestQueues ----------------------------
(***************************************************************************)
(* The queues and batches of the schedulers are Python lists of requests.  *)
(***************************************************************************)
EXTENDS Integers, Sequences

Members(q) == {q[i] : i \in 1..Len(q)}

(* What is left of a list, in its order, after a loop that goes over it    *)
(* and appends what is not in F to a new one (pop_finished_requests); a    *)
(* recursive function, because nothing can be proved about SelectSeq.      *)
Remaining(q, F) ==
    LET kept[n \in 0..Len(q)] ==
            IF n = 0 THEN <<>>
            ELSE IF q[n] \in F THEN kept[n - 1] ELSE Append(kept[n - 1], q[n])
    IN  kept[Len(q)]
=============================================================================
