------------------------------- MODULE Listing -------------------------------
(***************************************************************************)
(* Taking the elements at some positions out of a sequence, in order.  A   *)
(* filter is written with these operators, and not with SelectSeq, where   *)
(* proofs have to say what it returns.                                     *)
(***************************************************************************)
EXTENDS Integers, Sequences, FiniteSets

\* The numbers of a finite set, least first.
Ascending(S) ==
  [k \in 1..Cardinality(S) |->
     CHOOSE i \in S : Cardinality({j \in S : j < i}) = k - 1]

\* The elements of seq at the positions in S.
At(seq, S) == [k \in 1..Cardinality(S) |-> seq[Ascending(S)[k]]]
=============================================================================
