------------------------------- MODULE Trade -------------------------------
(***************************************************************************)
(* The player-to-player trade window: server/MapleTrade.java and the trade *)
(* cases of handling/channel/handler/PlayerInteractionHandler.java.        *)
(*                                                                         *)
(* A player who opens a trade owns a MapleTrade object; inviting a second  *)
(* player gives him one too and links the two through "partner".  Items    *)
(* and mesos put in the window leave the owner's inventory at once, so the *)
(* window is the only place that holds them until the trade ends.          *)
(*                                                                         *)
(* Each action is one whole packet handler.  Two handlers of different     *)
(* players that overlap inside MapleTrade are not modelled here.           *)
(***************************************************************************)
EXTENDS Integers, FiniteSets, Functions

CONSTANTS
    Players,    \* characters
    Items,      \* tradeable item objects that fill one slot each, copies to be made too
    Restricted, \* the items of one pickup-restricted kind: a player holds one at most
    Maps,       \* the maps a character can stand on
    Nobody,     \* null
    Slots,      \* MapleInventory.slotLimit
    WindowSlots,\* items a trade window takes: 9
    MaxMeso,    \* the largest int: a larger sum is negative
    Tax(_)      \* GameConstants.getTaxAmount

ASSUME PlayersAssumption == IsFiniteSet(Players)
ASSUME ItemAssumption == Restricted \subseteq Items /\ IsFiniteSet(Items)
ASSUME NobodyAssumption == Nobody \notin Players /\ Nobody \notin Maps
ASSUME BoundAssumption == Slots \in Nat /\ WindowSlots \in Nat /\ MaxMeso \in Nat
ASSUME TaxAssumption == \A m \in 0..MaxMeso : Tax(m) \in 0..m

VARIABLES
    inv,      \* inv[p]: the items in p's inventory
    meso,     \* meso[p]: p's purse
    map,      \* map[p]: the map p is on, or Nobody between maps
    ground,   \* items lying on the ground
    open,     \* open[p]: MapleCharacter.trade # null
    partner,  \* partner[p]: the character of MapleTrade.partner, or Nobody
    win,      \* win[p]: MapleTrade.items
    winMeso,  \* winMeso[p]: MapleTrade.meso
    exch,     \* exch[p]: MapleTrade.exchangeItems
    exchMeso, \* exchMeso[p]: MapleTrade.exchangeMeso
    locked,   \* locked[p]: MapleTrade.locked
    inTrade   \* inTrade[p]: MapleTrade.inTrade

holdings == <<inv, meso>>
window == <<open, partner, win, winMeso, exch, exchMeso, locked, inTrade>>
vars == <<inv, meso, map, ground, open, partner, win, winMeso, exch, exchMeso,
          locked, inTrade>>

\* The item objects that are somewhere; the equipment worn is not among them.
Everything == ground \cup UNION {inv[p] \cup win[p] : p \in Players}

Init ==
    /\ \E there \in SUBSET Items : \E hold \in [there -> Players \cup {Nobody}] :
          /\ inv = [p \in Players |-> {i \in there : hold[i] = p}]
          /\ ground = {i \in there : hold[i] = Nobody}
    /\ \A p \in Players : /\ Cardinality(inv[p]) <= Slots
                          /\ Cardinality(inv[p] \cap Restricted) <= 1
    /\ meso \in [Players -> 0..MaxMeso]
    /\ map \in [Players -> Maps]
    /\ open = [p \in Players |-> FALSE]
    /\ partner = [p \in Players |-> Nobody]
    /\ win = [p \in Players |-> {}]
    /\ winMeso = [p \in Players |-> 0]
    /\ exch = [p \in Players |-> {}]
    /\ exchMeso = [p \in Players |-> 0]
    /\ locked = [p \in Players |-> FALSE]
    /\ inTrade = [p \in Players |-> FALSE]

(***************************************************************************)
(* Adding to an inventory and to a purse.                                  *)
(***************************************************************************)

\* addFromDrop refuses an item when no slot is free, or when it is
\* pickup-restricted and its kind is already held.
Refuses(have, i) ==
    \/ Cardinality(have) >= Slots
    \/ i \in Restricted /\ have \cap Restricted # {}

\* What remains in the hands of a player who had "have" and to whom the items
\* "in" are added one at a time.  The window's order is abstracted: the items
\* taken are any maximal set that addFromDrop accepts.
Taken(have, in) ==
    {got \in SUBSET in :
        /\ Cardinality(have) + Cardinality(got) <= Slots
        /\ got \cap Restricted # {} =>
              have \cap Restricted = {} /\ Cardinality(got \cap Restricted) = 1
        /\ \A i \in in \ got : Refuses(have \cup got, i)}

\* Mutant: the purse takes any gain.
GainedUnchecked(purse, gain) == purse + gain

\* gainMeso: the whole gain is refused when the purse would overflow.
Gained(purse, gain) == IF purse + gain > MaxMeso THEN purse ELSE purse + gain

\* MapleTrade.check: the mesos fit, every item has a slot, no restricted item
\* is already held.
Fits(p, in, mesos) ==
    /\ meso[p] + mesos <= MaxMeso
    /\ ~(in \cap Restricted # {} /\ inv[p] \cap Restricted # {})
    /\ Cardinality(inv[p]) + Cardinality(in) <= Slots

\* Mutants: cancel hands out what the other side offered as well, or instead.
GivenBackAndExchanged(p, check) ==
    [items |-> win[p] \cup exch[p], meso |-> winMeso[p] + exchMeso[p]]
GivenBackToOther(p, check) ==
    LET q == IF partner[p] = Nobody THEN p ELSE partner[p]
    IN [items |-> win[q], meso |-> winMeso[q]]

\* MapleTrade.cancel: what a window gives back to its owner.  Once both sides
\* are locked the offers count as handed over, unless the completion itself
\* cancels ("check").
GivenBack(p, check) ==
    IF partner[p] # Nobody /\ locked[p] /\ locked[partner[p]] /\ ~check
    THEN [items |-> {}, meso |-> 0]
    ELSE [items |-> win[p], meso |-> winMeso[p]]

\* MapleCharacter.setTrade(null) for every player of "who".
Discard(who) ==
    /\ open' = [p \in Players |-> open[p] /\ p \notin who]
    /\ partner' = [p \in Players |-> IF p \in who THEN Nobody ELSE partner[p]]
    /\ win' = [p \in Players |-> IF p \in who THEN {} ELSE win[p]]
    /\ winMeso' = [p \in Players |-> IF p \in who THEN 0 ELSE winMeso[p]]
    /\ exch' = [p \in Players |-> IF p \in who THEN {} ELSE exch[p]]
    /\ exchMeso' = [p \in Players |-> IF p \in who THEN 0 ELSE exchMeso[p]]
    /\ locked' = [p \in Players |-> locked[p] /\ p \notin who]
    /\ inTrade' = [p \in Players |-> inTrade[p] /\ p \notin who]

\* Mutant: only the caller's own end.
OwnEnd(p) == {p}

\* The two ends of p's trade, or p alone while it has no partner.
Ends(p) == {p, partner[p]} \ {Nobody}

\* cancel on both ends, then setTrade(null) on both.
CancelTrade(p, check) ==
    /\ \E got \in [Ends(p) -> SUBSET Items] :
          /\ \A e \in Ends(p) : got[e] \in Taken(inv[e], GivenBack(e, check).items)
          /\ inv' = [e \in Players |-> IF e \in Ends(p) THEN inv[e] \cup got[e]
                                                        ELSE inv[e]]
    /\ meso' = [e \in Players |->
                  IF e \in Ends(p) THEN Gained(meso[e], GivenBack(e, check).meso)
                                   ELSE meso[e]]
    /\ Discard(Ends(p))
    /\ UNCHANGED ground

(***************************************************************************)
(* The handlers.                                                           *)
(***************************************************************************)

\* CREATE with type 3: startTrade.
StartTrade(p) ==
    /\ map[p] # Nobody
    /\ ~open[p]
    /\ open' = [open EXCEPT ![p] = TRUE]
    /\ UNCHANGED <<holdings, map, ground, partner, win, winMeso, exch, exchMeso,
                   locked, inTrade>>

\* INVITE_TRADE: q is looked up on p's map and must not be busy
\* (hasBlockedInventory, which covers a trade of his own); then inviteTrade.
InviteTrade(p, q) ==
    /\ map[p] # Nobody /\ map[q] = map[p]
    /\ ~open[q]
    /\ open[p] /\ partner[p] = Nobody
    /\ open' = [open EXCEPT ![q] = TRUE]
    /\ partner' = [partner EXCEPT ![q] = p, ![p] = q]
    /\ UNCHANGED <<holdings, map, ground, win, winMeso, exch, exchMeso, locked,
                   inTrade>>

\* VISIT and MAINTAIN by a player whose trade has a partner: visitTrade.
VisitTrade(p) ==
    LET q == partner[p] IN
    /\ open[p] /\ q # Nobody /\ ~inTrade[p]
    /\ open[q] /\ partner[q] = p
    /\ inTrade' = [inTrade EXCEPT ![p] = TRUE]
    /\ UNCHANGED <<holdings, map, ground, open, partner, win, winMeso, exch,
                   exchMeso, locked>>

\* What setItems asks of the trade: a partner, no lock, a free target slot.
Offerable(p) ==
    /\ open[p] /\ partner[p] # Nobody /\ ~locked[p]
    /\ Cardinality(win[p]) < WindowSlots

\* SET_ITEMS: setItems takes the item out of the inventory, addItem puts it in
\* the window.
SetItems(p, i) ==
    /\ Offerable(p) /\ i \in inv[p]
    /\ inv' = [inv EXCEPT ![p] = @ \ {i}]
    /\ win' = [win EXCEPT ![p] = @ \cup {i}]
    /\ UNCHANGED <<meso, map, ground, open, partner, winMeso, exch, exchMeso,
                   locked, inTrade>>

\* SET_ITEMS of equipment that is worn.  setItems removes from the inventory of
\* the item's kind, where nothing lies at that position, and does not look at
\* the result: the original stays worn, and the window gets a copy, an object
\* that was nowhere before.
OfferWorn(p, i) ==
    /\ Offerable(p) /\ i \notin Everything
    /\ win' = [win EXCEPT ![p] = @ \cup {i}]
    /\ UNCHANGED <<holdings, map, ground, open, partner, winMeso, exch, exchMeso,
                   locked, inTrade>>

\* SET_MESO: setMeso.
SetMeso(p, m) ==
    /\ open[p] /\ partner[p] # Nobody /\ ~locked[p]
    /\ m > 0 /\ winMeso[p] + m <= MaxMeso
    /\ meso[p] >= m
    /\ meso' = [meso EXCEPT ![p] = @ - m]
    /\ winMeso' = [winMeso EXCEPT ![p] = @ + m]
    /\ UNCHANGED <<inv, map, ground, open, partner, win, exch, exchMeso, locked,
                   inTrade>>

\* Mutants: completeTrade does not copy the window.
HandedStale(p) == exch
HandedMesoStale(p) == exchMeso

\* completeTrade copies the window of p to the partner.
Handed(p) == [exch EXCEPT ![partner[p]] = win[p]]
HandedMeso(p) == [exchMeso EXCEPT ![partner[p]] = winMeso[p]]

\* CONFIRM_TRADE by the first of the two: completeTrade locks the window.
Confirm(p) ==
    LET q == partner[p] IN
    /\ open[p] /\ q # Nobody /\ ~locked[p] /\ ~locked[q]
    /\ locked' = [locked EXCEPT ![p] = TRUE]
    /\ exch' = Handed(p)
    /\ exchMeso' = HandedMeso(p)
    /\ UNCHANGED <<holdings, map, ground, open, partner, win, winMeso, inTrade>>

\* What completeTrade checks once the second side has locked too.
BothFit(p, q) ==
    \A e \in {p, q} : Fits(e, Handed(p)[e], HandedMeso(p)[e])

\* CONFIRM_TRADE by the second of the two, when what each gets fits:
\* CompleteTrade on both ends.
Complete(p) ==
    LET q == partner[p]
        due == HandedMeso(p)
        gets == Handed(p)
    IN
    /\ open[p] /\ q # Nobody /\ ~locked[p] /\ locked[q]
    /\ BothFit(p, q)
    /\ \E gotp \in Taken(inv[p], gets[p]), gotq \in Taken(inv[q], gets[q]) :
          inv' = [inv EXCEPT ![p] = @ \cup gotp, ![q] = @ \cup gotq]
    /\ meso' = [e \in Players |->
                  IF e \in {p, q} THEN Gained(meso[e], due[e] - Tax(due[e]))
                                  ELSE meso[e]]
    /\ Discard({p, q})
    /\ UNCHANGED <<map, ground>>

\* CONFIRM_TRADE by the second of the two, when something does not fit: both
\* ends are cancelled with check = true.
Bounce(p) ==
    LET q == partner[p] IN
    /\ open[p] /\ q # Nobody /\ ~locked[p] /\ locked[q]
    /\ ~BothFit(p, q)
    /\ CancelTrade(p, TRUE)
    /\ UNCHANGED map

\* EXIT, refused once both sides are locked, and DENY_TRADE (declineTrade).
Exit(p) ==
    /\ open[p]
    /\ partner[p] # Nobody => ~(locked[p] /\ locked[partner[p]])
    /\ CancelTrade(p, FALSE)
    /\ UNCHANGED map

\* A warp, a channel change or a disconnection: MapleMap.removePlayer calls
\* leaveMap, which cancels an open trade.
LeaveMap(p) ==
    /\ map[p] # Nobody
    /\ map' = [map EXCEPT ![p] = Nobody]
    /\ IF open[p] THEN CancelTrade(p, FALSE)
                  ELSE UNCHANGED <<holdings, ground, window>>

EnterMap(p, m) ==
    /\ map[p] = Nobody
    /\ map' = [map EXCEPT ![p] = m]
    /\ UNCHANGED <<holdings, ground, window>>

(***************************************************************************)
(* The rest of the game, which fills and empties inventories while a trade *)
(* is open: nothing stops a trading player from picking things up.         *)
(***************************************************************************)

PickUp(p, i) ==
    /\ map[p] # Nobody /\ i \in ground /\ ~Refuses(inv[p], i)
    /\ inv' = [inv EXCEPT ![p] = @ \cup {i}]
    /\ ground' = ground \ {i}
    /\ UNCHANGED <<meso, map, window>>

Drop(p, i) ==
    /\ map[p] # Nobody /\ i \in inv[p]
    /\ inv' = [inv EXCEPT ![p] = @ \ {i}]
    /\ ground' = ground \cup {i}
    /\ UNCHANGED <<meso, map, window>>

Earn(p, m) ==
    /\ map[p] # Nobody /\ m > 0 /\ meso[p] + m <= MaxMeso
    /\ meso' = [meso EXCEPT ![p] = @ + m]
    /\ UNCHANGED <<inv, map, ground, window>>

TradeStep(p) ==
    \/ StartTrade(p)
    \/ \E q \in Players : InviteTrade(p, q)
    \/ VisitTrade(p)
    \/ \E i \in Items : SetItems(p, i) \/ OfferWorn(p, i)
    \/ \E m \in 1..MaxMeso : SetMeso(p, m)
    \/ Confirm(p)
    \/ Complete(p)
    \/ Bounce(p)
    \/ Exit(p)
    \/ LeaveMap(p)
    \/ \E m \in Maps : EnterMap(p, m)

WorldStep(p) ==
    \/ \E i \in Items : PickUp(p, i) \/ Drop(p, i)
    \/ \E m \in 1..MaxMeso : Earn(p, m)

Next == \E p \in Players : TradeStep(p) \/ WorldStep(p)

Spec == Init /\ [][Next]_vars

(***************************************************************************)
(* Properties.                                                             *)
(***************************************************************************)

\* Every variable has its type.
TypeOK ==
    /\ inv \in [Players -> SUBSET Items]
    /\ meso \in [Players -> 0..MaxMeso]
    /\ map \in [Players -> Maps \cup {Nobody}]
    /\ ground \in SUBSET Items
    /\ open \in [Players -> BOOLEAN]
    /\ partner \in [Players -> Players \cup {Nobody}]
    /\ win \in [Players -> SUBSET Items]
    /\ winMeso \in [Players -> 0..MaxMeso]
    /\ exch \in [Players -> SUBSET Items]
    /\ exchMeso \in [Players -> 0..MaxMeso]
    /\ locked \in [Players -> BOOLEAN]
    /\ inTrade \in [Players -> BOOLEAN]

OnePlace ==
    /\ \A p \in Players : inv[p] \cap win[p] = {}
    /\ \A p \in Players : (inv[p] \cup win[p]) \cap ground = {}
    /\ \A p, q \in Players :
          p # q => (inv[p] \cup win[p]) \cap (inv[q] \cup win[q]) = {}

\* An item object is in one place only: on the ground, in one inventory or in
\* one trade window; ending a trade by any route, with inventories that filled
\* up in the meantime, must not leave a copy behind.  The one way an object comes
\* into being is the copy of worn equipment, in an unlocked window.
NoItemDuplicated ==
    [][/\ OnePlace'
       /\ \A i \in Everything' \ Everything :
             \E p \in Players : /\ i \in win'[p] /\ ~locked[p]
                                /\ UNCHANGED <<inv, ground>>]_vars

\* The two ends of a trade point at each other and stand on the same map, as
\* the comment in visitTrade relies on, and are never both left locked; who
\* has no partner has nothing in the window.
Paired ==
    \A p \in Players :
        IF partner[p] = Nobody
        THEN win[p] = {} /\ winMeso[p] = 0 /\ ~locked[p]
        ELSE /\ open[p] /\ partner[p] # p
             /\ partner[partner[p]] = p
             /\ map[p] = map[partner[p]] /\ map[p] # Nobody
             /\ ~(locked[p] /\ locked[partner[p]])

\* What a locked side handed to its partner is still exactly what its window
\* holds, so completing the trade moves the window and nothing else.
LockedOfferStands ==
    \A p \in Players : locked[p] => /\ exch[partner[p]] = win[p]
                                    /\ exchMeso[partner[p]] = winMeso[p]

\* Who is due what p's window holds when the trade ends: the partner if the
\* trade is completed, p if not.
Due(p) == IF \E e \in Ends(p) : Complete(e) THEN partner[p] ELSE p

\* A trade loses an item only when the player it was due to has no room for it
\* at the end: either the inventory filled up while the window was open, or a
\* second item of a restricted kind was offered.
LostOnlyIfRefused ==
    [][\A p \in Players : \A i \in win[p] \ Everything' :
          Refuses(inv'[Due(p)], i)]_vars

Mesos == [p \in Players |-> meso[p] + winMeso[p]]

TotalMeso == SumFunction(Mesos)

\* No step of a trade creates mesos, and it destroys some only as the tax of a
\* completed trade or when a cancelled window does not fit the purse it came
\* from.
MesoAccounted ==
    [][window' # window =>
          /\ TotalMeso' <= TotalMeso
          /\ TotalMeso' < TotalMeso =>
                \E p \in Players :
                    \/ winMeso[p] > 0 /\ meso[p] + winMeso[p] > MaxMeso
                    \/ /\ open[p] /\ ~open'[p] /\ partner[p] # Nobody
                       /\ LET q == partner[p] IN
                          TotalMeso - TotalMeso' =
                             Tax(winMeso[p]) + Tax(winMeso[q])]_vars

\* The abstract barter this trade implements.
Owner == [i \in Items |->
            IF \E p \in Players : i \in inv[p] \cup win[p]
            THEN CHOOSE p \in Players : i \in inv[p] \cup win[p]
            ELSE Nobody]

B == INSTANCE Barter WITH World <- Nobody, owner <- Owner, offer <- win,
                          sealed <- locked

\* The trade implements Barter: items change hands only together, by the
\* completion of a trade whose other side was locked first.
ImplementsBarter == B!Spec
=============================================================================
