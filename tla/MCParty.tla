------------------------------- MODULE MCParty -------------------------------
(* Small instances of Party *)
EXTENDS Party, TLC

Symmetry == Permutations(Travellers) \cup Permutations(Parties)
=============================================================================
