------------------------------ MODULE MCTrade ------------------------------
(* A small instance of Trade *)
EXTENDS Trade, TLC

CONSTANTS p1, p2, a, r1, r2, m1, m2

\* getTaxAmount on a scale TLC can enumerate: nothing below 2, then 1.
MCTax(m) == IF m >= 2 THEN 1 ELSE 0

MCSymmetry ==
    {f @@ g @@ h : f \in Permutations(Players), g \in Permutations(Restricted),
                   h \in Permutations(Maps)}
=============================================================================
