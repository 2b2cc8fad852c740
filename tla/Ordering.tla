------------------------------ MODULE Ordering ------------------------------
(***************************************************************************)
(* sorted() of Python over the elements of a finite set.                   *)
(***************************************************************************)
EXTENDS Integers, FiniteSets

(* The elements of S in the order of the pairs in before: an element stands
   behind as many others as come before it. *)
SortedBy(S, before) ==
    [i \in 1 .. Cardinality(S) |->
       CHOOSE x \in S : Cardinality({y \in S : <<y, x>> \in before}) = i - 1]

(* Numbers in order. *)
SortedNumbers(S) == SortedBy(S, {p \in S \X S : p[1] < p[2]})
=============================================================================
