-------------------------------- MODULE Ordered --------------------------------
(* The elements of a finite set of naturals in their order: what a loop    *)
(* over indices keeps of a sequence.  SelectSeq of the standard modules is *)
(* recursive; this is defined by counting, so that it can be proved about. *)
EXTENDS Naturals, FiniteSets

Rank(S, k) == Cardinality({j \in S : j <= k})

Ascending(S) == [n \in 1 .. Cardinality(S) |-> CHOOSE k \in S : Rank(S, k) = n]
================================================================================
