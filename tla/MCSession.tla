----------------------------- MODULE MCSession -----------------------------
(* Instances of Session for TLC. *)
EXTENDS Session, FiniteSets, TLC

CONSTANTS s1, s2, s3, c1, c2, d1

MCSymmetry == Permutations(Sessions) \cup Permutations(Channels)

\* Bound: one client at a time has been sent to a place and not arrived there.
OneClientUnderWay == \A x, y \in redirect : x = y

\* Bound: the minute timer has no copy in hand while the cash shop is in use.
SweptAwayFromShop ==
    swept = None \/ (pending[Shop] = None /\ \A s \in Sessions : kind[s] # "shop")

\* Bound: the minute timer is left out.
NothingSwept == swept = None
=============================================================================
