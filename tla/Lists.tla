------------------------------- MODULE Lists -------------------------------
(***************************************************************************)
(* List comprehension: the elements of a sequence at some of its places,   *)
(* in their order.  It says what SelectSeq returns in terms of the places, *)
(* so that the proofs have a definition to go by.                          *)
(***************************************************************************)
EXTENDS Naturals, Sequences, FiniteSets

\* The place of the k-th element picked.
Place(places, k) == CHOOSE i \in places : Cardinality({j \in places : j < i}) = k - 1

Picked(s, places) == [k \in 1 .. Cardinality(places) |-> s[Place(places, k)]]

=============================================================================
