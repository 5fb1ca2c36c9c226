---------------------------- MODULE RequestSums -----------------------------
(***************************************************************************)
(* Sums over sets of requests, for the sum([...]) of the schedulers.  The  *)
(* sum of f over S is the number of slots <<r, i>> with r in S and i in    *)
(* 1..f[r]: a cardinality, about which facts can be proved without an      *)
(* induction over the set.                                                 *)
(***************************************************************************)
EXTENDS Integers, FiniteSets

Slots(f, S) == UNION {{r} \X (1..f[r]) : r \in S}
SumOver(f, S) == Cardinality(Slots(f, S))
=============================================================================
