------------------------------- MODULE Listing -------------------------------
(***************************************************************************)
(* Finite sets put in order, as sorted() does: SetToSortSeq in a form the  *)
(* provers can open, each element chosen by its place.                     *)
(***************************************************************************)
EXTENDS Naturals, FiniteSets, Sequences

\* Numbers from the least to the greatest.
Ascending(S) ==
  [n \in 1 .. Cardinality(S) |->
     CHOOSE x \in S : Cardinality({y \in S : y <= x}) = n]

\* The elements of S in the order R, a set of pairs of an element and a later one.
Ranked(S, R) ==
  [n \in 1 .. Cardinality(S) |->
     CHOOSE x \in S : Cardinality({y \in S : y = x \/ <<y, x>> \in R}) = n]
=============================================================================
