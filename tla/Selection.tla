------------------------------ MODULE Selection ------------------------------
(***************************************************************************)
(* The entries of a sequence at some of its positions, in their order: what *)
(* a loop keeps that passes over the others.  (SelectSeq of the library    *)
(* takes an operator, of which the proofs could say nothing.)              *)
(***************************************************************************)
EXTENDS Naturals, FiniteSets

\* The place of a position among the others.
Rank(positions, i) == Cardinality({j \in positions : j <= i})

Selected(seq, positions) ==
  [k \in 1..Cardinality(positions) |-> seq[CHOOSE i \in positions : Rank(positions, i) = k]]
=============================================================================
