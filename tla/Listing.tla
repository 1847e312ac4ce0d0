------------------------------ MODULE Listing -------------------------------
(***************************************************************************)
(* Sets of numbers as sequences in ascending order, and parts of sequences *)
(* in the order they stand: sorted() and comprehensions over lists, without*)
(* operators as arguments, so that proofs can open them.                   *)
(***************************************************************************)
EXTENDS Naturals, Sequences, FiniteSets

\* The first of some places, or none.
First(places) ==
    IF places = {} THEN 0 ELSE CHOOSE n \in places : \A m \in places : n <= m

Rank(S, n) == Cardinality({m \in S : m <= n})

\* sorted(S)
InOrder(S) == [k \in 1..Cardinality(S) |-> CHOOSE n \in S : Rank(S, n) = k]

\* [seq[n] for n in sorted(P)]
AtPlaces(seq, P) == [k \in 1..Cardinality(P) |-> seq[InOrder(P)[k]]]
=============================================================================
