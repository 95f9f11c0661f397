------------------------------ MODULE MCBuddy ------------------------------
(* A small instance of Buddy *)
EXTENDS Buddy, TLC

\* At most one character at a time has himself for a buddy.
OneBefriendsHimself == Cardinality({p \in Chars : p \in said[p]}) <= 1

Symmetry == Permutations(Chars)
=============================================================================
