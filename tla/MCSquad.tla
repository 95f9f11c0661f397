------------------------------ MODULE MCSquad ------------------------------
(* Two characters and one fight at a time.                                 *)
EXTENDS Squad, TLC

CONSTANTS c1, c2, s1, s2, s3, s4, f1

(* Nothing is claimed past an overlap.  The waiting list has one place, for *)
(* c2; c1 is on other maps without a menu, and he alone is let back into a  *)
(* fight.                                                                   *)
Bounds ==
    /\ ~clash
    /\ talk[c1] # "queue"
    /\ Len(queue) <= 1
    /\ where[c1] = "away" => talk[c1] = "none"
    /\ \A e \in Fights : c2 \notin fight[e].dced
=============================================================================
