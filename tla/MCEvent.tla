----------------------------- MODULE MCEvent -----------------------------
(* Small instances of EventInstance for TLC.                               *)
EXTENDS EventInstance, TLC

CONSTANTS p1, p2, p3, p1b

OneLeader == {p1}
OneInstance == 1 .. 1
TwoInstances == 1 .. 2

(* Two leaders, each with a party of its own.                              *)
ThreePlayers == {p1, p2, p3}
ThreeChar == [p \in ThreePlayers |-> p]
PairLeaders == {p1, p2}
PairParty == [l \in PairLeaders |-> IF l = p1 THEN {p1, p3} ELSE {p2}]

(* A party of two, and a second login of the leader.                       *)
Relogged == {p1, p2, p1b}
RelogChar == [p \in Relogged |-> IF p = p1b THEN p1 ELSE p]
RelogParty == [l \in OneLeader |-> {p1, p2}]

(* A party of two.                                                         *)
TwoPlayers == {p1, p2}
TwoChar == [p \in TwoPlayers |-> p]
TwoParty == [l \in OneLeader |-> TwoPlayers]

PairQuests == {Ellin, BossFairyQueen}
Ludi == {LudiPQ}
=============================================================================
