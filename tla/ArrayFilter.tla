------------------------------ MODULE ArrayFilter ------------------------------
(***************************************************************************)
(* Array.prototype.filter(): the elements of an array at some of its       *)
(* indices, in their order.  It is SelectSeq, of which the provers know    *)
(* nothing, written with the number of chosen indices up to each of them.  *)
(***************************************************************************)
EXTENDS Integers, Sequences, FiniteSets

\* The n-th of the indices I.
NthIndex(I, n) == CHOOSE i \in I : Cardinality({k \in I : k <= i}) = n

\* The elements of list at the indices I.
ElementsAt(list, I) == [n \in 1 .. Cardinality(I) |-> list[NthIndex(I, n)]]
===============================================================================
