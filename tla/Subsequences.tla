----------------------------- MODULE Subsequences -----------------------------
(***************************************************************************)
(* The elements of a sequence that belong to a set, in order.  It is       *)
(* SelectSeq(q, LAMBDA e : e \in S), defined by counting places instead of *)
(* by recursion, so that refinements stated with it can be proved.         *)
(***************************************************************************)
EXTENDS Naturals, Sequences, FiniteSets

Places(q, S) == {i \in DOMAIN q : q[i] \in S}

\* The places of q up to i whose elements are in S.
PlacesUpTo(q, S, i) == {j \in Places(q, S) : j <= i}

\* Where the nth of them is: a set with one place, for n up to their number.
Nth(q, S, n) == {i \in Places(q, S) : Cardinality(PlacesUpTo(q, S, i)) = n}

NthPlace(q, S, n) == CHOOSE i \in Nth(q, S, n) : TRUE

Selected(q, S) == [n \in 1 .. Cardinality(Places(q, S)) |-> q[NthPlace(q, S, n)]]
=============================================================================
