----------------------------- MODULE Selection -----------------------------
(***************************************************************************)
(* The elements of a sequence that stand at certain places, in order.      *)
(***************************************************************************)
EXTENDS Naturals, Sequences, FiniteSets

(* The k-th smallest of a finite set of numbers.                           *)
Nth(I, k) == CHOOSE i \in I : Cardinality({j \in I : j <= i}) = k

Select(s, I) == [k \in 1..Cardinality(I) |-> s[Nth(I, k)]]
=============================================================================
