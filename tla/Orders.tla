--------------------------------- MODULE Orders ---------------------------------
(***************************************************************************)
(* Finite sets of numbers in order, and parts of sequences.  SortSeq and   *)
(* SelectSeq say the same, but have no definition the provers can unfold.  *)
(***************************************************************************)
EXTENDS Integers, FiniteSets, Sequences

\* The elements of S in ascending order.
InOrder(S) ==
    CHOOSE s \in [1 .. Cardinality(S) -> S] :
        \A i, j \in 1 .. Cardinality(S) : i < j => s[i] < s[j]

\* What q has at the indices I, in the order of q.
Those(q, I) ==
    LET order == InOrder(I) IN [k \in 1 .. Cardinality(I) |-> q[order[k]]]

=============================================================================
