------------------------------- MODULE Order -------------------------------
(***************************************************************************)
(* The order in which the program's nested loops (over chunks and the      *)
(* slots of a chunk, over models and what belongs to a model) meet what    *)
(* they number or visit: pairs, the outer index first.                     *)
(***************************************************************************)
EXTENDS Integers, FiniteSets

Before(a, b) == a[1] < b[1] \/ (a[1] = b[1] /\ a[2] < b[2])

(* The elements of a finite set of pairs of numbers, in that order.        *)
InOrder(S) == [i \in 1..Cardinality(S) |->
                  CHOOSE x \in S : Cardinality({y \in S : Before(y, x)}) = i - 1]

=============================================================================
