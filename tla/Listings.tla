------------------------------- MODULE Listings ------------------------------
(***************************************************************************)
(* Finite sets written out in order: what sorted(), a filtering            *)
(* comprehension or a nested loop returns, by what is before what.         *)
(***************************************************************************)
EXTENDS Naturals, FiniteSets

\* The members of S, each after those that are before it: before is a set of pairs.
Listed(S, before) ==
    [k \in 1..Cardinality(S) |->
        CHOOSE x \in S : Cardinality({y \in S : <<y, x>> \in before}) = k - 1]

\* The elements of a sequence at the places given, in the sequence's order.
Picked(seq, places) ==
    LET at == Listed(places, {p \in places \X places : p[1] < p[2]})
    IN  [k \in DOMAIN at |-> seq[at[k]]]
=============================================================================
