------------------------------- MODULE Barter -------------------------------
(***************************************************************************)
(* What a trade promises, without windows, inventories or mesos: an item   *)
(* belongs to one player or to the world, and passes from one player to    *)
(* another only in an exchange that hands over both offers at once, one of *)
(* them sealed before the other was accepted.                              *)
(***************************************************************************)
CONSTANTS Players, Items, World

VARIABLES
    owner, \* owner[i]: the player who owns i, or World
    offer, \* offer[p]: the items p offers
    sealed \* sealed[p]: p has accepted, and may not touch his offer any more

vars == <<owner, offer, sealed>>

Init ==
    /\ owner \in [Items -> Players \cup {World}]
    /\ offer = [p \in Players |-> {}]
    /\ sealed = [p \in Players |-> FALSE]

\* The offers of p and q end; an item that no one has room for falls to the
\* world.
Close(p, q) ==
    /\ offer' = [offer EXCEPT ![p] = {}, ![q] = {}]
    /\ sealed' = [sealed EXCEPT ![p] = FALSE, ![q] = FALSE]

Offer(p, i) ==
    /\ ~sealed[p] /\ owner[i] = p /\ i \notin offer[p]
    /\ offer' = [offer EXCEPT ![p] = @ \cup {i}]
    /\ UNCHANGED <<owner, sealed>>

\* Something of the world is offered the moment p gets it.
Bring(p, i) ==
    /\ ~sealed[p] /\ owner[i] = World
    /\ owner' = [owner EXCEPT ![i] = p]
    /\ offer' = [offer EXCEPT ![p] = @ \cup {i}]
    /\ UNCHANGED sealed

Seal(p) ==
    /\ ~sealed[p]
    /\ sealed' = [sealed EXCEPT ![p] = TRUE]
    /\ UNCHANGED <<owner, offer>>

\* p accepts q's sealed offer: each of the two offers goes to the other side
\* as a whole, or to the world.
Exchange(p, q) ==
    /\ p # q /\ sealed[q] /\ ~sealed[p]
    /\ \E fallen \in SUBSET (offer[p] \cup offer[q]) :
          owner' = [i \in Items |->
                      IF i \in fallen THEN World
                      ELSE IF i \in offer[p] THEN q
                      ELSE IF i \in offer[q] THEN p ELSE owner[i]]
    /\ Close(p, q)

\* The trade ends without an exchange: no offered item reaches the other side.
Withdraw(p, q) ==
    /\ \E fallen \in SUBSET (offer[p] \cup offer[q]) :
          owner' = [i \in Items |-> IF i \in fallen THEN World ELSE owner[i]]
    /\ Close(p, q)

Find(p, i) ==
    /\ owner[i] = World
    /\ owner' = [owner EXCEPT ![i] = p]
    /\ UNCHANGED <<offer, sealed>>

Discard(p, i) ==
    /\ owner[i] = p /\ i \notin offer[p]
    /\ owner' = [owner EXCEPT ![i] = World]
    /\ UNCHANGED <<offer, sealed>>

Next ==
    \E p \in Players :
        \/ Seal(p)
        \/ \E i \in Items : Offer(p, i) \/ Bring(p, i) \/ Find(p, i) \/ Discard(p, i)
        \/ \E q \in Players : Exchange(p, q) \/ Withdraw(p, q)

Spec == Init /\ [][Next]_vars
=============================================================================
