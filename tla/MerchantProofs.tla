--------------------------- MODULE MerchantProofs ---------------------------
(***************************************************************************)
(* For any players, shops and lots:                                        *)
(*   - who sits in which shop: the visitors a shop lists are those whose   *)
(*     playerShop it is, none is there while the owner rearranges, and     *)
(*     none in a shop off its map before a shutdown, except those whom a   *)
(*     closing or a full shop overtook as they came in;                    *)
(*   - amounts stay ints and goods stay counts;                            *)
(*   - goods and mesos are neither made nor lost but in the few ways that  *)
(*     the properties name.  ShopsSound is the invariant this needs: where *)
(*     the shops are (ShopsInv), that the owner has room for what a        *)
(*     personal shop gives back (RoomInv) and got it (GivenBack), and that *)
(*     the package holds what the merchant that wrote it had (Collected).  *)
(*     The counting is done with the lemmas of SumLemmas, one place where  *)
(*     goods are at a time.                                                *)
(***************************************************************************)
EXTENDS Merchant, SumLemmas

\* The state the three invariants are about.
seats == <<online, window, entering, late, visitors, open, available, onMap, server>>

SeatsType ==
    /\ window \in [Players -> Shops \cup {None}]
    /\ entering \in [Players -> Shops \cup {None}]
    /\ visitors \in [Shops -> SUBSET (Players \ {Owner})]

\* Who is gone has no shop open and enters none.
OfflineSeatless == \A p \in Players \ online : window[p] = None /\ entering[p] = None

\* Who enters a shop is in none.
FromOutside == \A p \in Players : entering[p] = None \/ window[p] = None

\* Nobody visits a shop that was never opened, nor was let into one; it may be
\* closed without a look at its visitors.
OpenedToVisitors ==
    /\ \A s \in Shops \ available : visitors[s] = {}
    /\ \A p \in Players \ {Owner} : {window[p], entering[p]} \subseteq available \cup {None}

SeatsInv ==
    /\ SeatsType
    /\ OfflineSeatless /\ FromOutside
    /\ SeatsMatch
    /\ OpenedToVisitors
    /\ ClosedToVisitors
    /\ ServedFromTheMap

-----------------------------------------------------------------------------
\* At the start nobody is in a shop.
LEMMA InitSeats == Init => SeatsInv
  BY OwnerAssumption, NoneAssumption
     DEF Init, SeatsInv, SeatsType, OfflineSeatless, FromOutside, SeatsMatch, OpenedToVisitors,
         ClosedToVisitors, ServedFromTheMap

\* A step that only moves goods and mesos leaves the seats as they are.
LEMMA SameSeats == SeatsInv /\ UNCHANGED seats => SeatsInv'
  BY DEF seats, SeatsInv, SeatsType, OfflineSeatless, FromOutside, SeatsMatch,
     OpenedToVisitors,
         ClosedToVisitors, ServedFromTheMap

\* removeAllVisitors: the shop is emptied and its visitors' playerShop is null.
\* The owner may enter, get up or leave the server in the same handler, and the
\* shop may open, close or go off the map.
LEMMA Emptied ==
  ASSUME SeatsInv, NEW s \in Shops, NEW P \in SUBSET {Owner}, ClearOut(s, P),
         entering' \in [Players -> Shops \cup {None}],
         \A p \in Players \ {Owner} : entering'[p] = entering[p],
         Owner \in online' \/ entering'[Owner] = None,
         Owner \in online' \/ Owner \in P \/ window[Owner] = None,
         entering'[Owner] = None \/ Owner \in P \/ window[Owner] = None,
         open \ {s} \subseteq open', available \subseteq available',
         onMap \ {s} \subseteq onMap',
         online \ {Owner} \subseteq online', server' = server
  PROVE  SeatsInv'
  <1> USE OwnerAssumption, NoneAssumption
  <1> USE DEF ClearOut, Leave, SeatsInv
  <1>1. SeatsType'
    BY DEF SeatsType
  <1>2. OfflineSeatless' /\ FromOutside'
    BY DEF SeatsType, OfflineSeatless, FromOutside
  <1>3. SeatsMatch'
    BY DEF SeatsType, SeatsMatch
  <1>4. OpenedToVisitors'
    BY DEF SeatsType, OpenedToVisitors
  <1>5. ClosedToVisitors'
    BY DEF SeatsType, SeatsMatch, ClosedToVisitors
  <1>6. ServedFromTheMap'
    BY DEF SeatsType, SeatsMatch, ServedFromTheMap
  <1> QED
    BY <1>1, <1>2, <1>3, <1>4, <1>5, <1>6

\* The same where the owner stays online or away, and enters nothing.
LEMMA Cleared ==
  ASSUME SeatsInv, NEW s \in Shops, NEW P \in SUBSET {Owner}, ClearOut(s, P),
         open \subseteq open', available \subseteq available', onMap \ {s} \subseteq onMap',
         online' = online, entering' = entering, server' = server
  PROVE  SeatsInv'
  <1>1. /\ Owner \in online' \/ (window[Owner] = None /\ entering'[Owner] = None)
        /\ entering'[Owner] = None \/ window[Owner] = None
    BY OwnerAssumption DEF SeatsInv, OfflineSeatless, FromOutside
  <1>2. entering' \in [Players -> Shops \cup {None}]
    BY DEF SeatsInv, SeatsType
  <1> QED
    BY <1>1, <1>2, Emptied

\* MaplePlayerShop.closeShop, called by a handler or as the owner disconnects
LEMMA ClosePersonalSeats ==
  ASSUME SeatsInv, NEW s \in Shops, NEW left, NEW invs, ClosePersonal(s, left, invs)
  PROVE  /\ UNCHANGED <<online, entering>> => SeatsInv'
         /\ online' = online \ {Owner} /\ entering' = [entering EXCEPT ![Owner] = None]
              => SeatsInv'
  <1>1. /\ ClearOut(s, {Owner}) /\ {Owner} \in SUBSET {Owner}
        /\ onMap' = onMap \ {s}
        /\ open' = open /\ available' = available /\ server' = server
    BY DEF ClosePersonal
  <1>2. CASE UNCHANGED <<online, entering>>
    BY <1>1, <1>2, Cleared
  <1>3. CASE online' = online \ {Owner} /\ entering' = [entering EXCEPT ![Owner] = None]
    <2>1. /\ entering' \in [Players -> Shops \cup {None}]
          /\ \A p \in Players \ {Owner} : entering'[p] = entering[p]
          /\ entering'[Owner] = None
      BY <1>3, OwnerAssumption DEF SeatsInv, SeatsType
    <2> QED
      BY <1>1, <1>3, <2>1, Emptied
  <1> QED
    BY <1>2, <1>3

-----------------------------------------------------------------------------
\* The owner's handlers.
LEMMA OwnerSeats ==
  ASSUME SeatsInv, NEW s \in Shops, OwnerStep(s)
  PROVE  SeatsInv'
  <1> USE OwnerAssumption, NoneAssumption
  <1>1. ASSUME NEW k \in {"hired", "personal"}, Create(s, k) PROVE SeatsInv'
    BY <1>1
       DEF Create, Free, doors, SeatsInv, SeatsType, OfflineSeatless, FromOutside, SeatsMatch,
       OpenedToVisitors, ClosedToVisitors, ServedFromTheMap
  <1>2. ASSUME NEW l \in Lots, RemoveItem(s, l) PROVE SeatsInv'
    BY <1>2, SameSeats DEF RemoveItem, seats, walk, doors, places
  <1>3. ASSUME NEW l \in Lots, NEW n, AddItem(s, l, n) PROVE SeatsInv'
    BY <1>3, SameSeats DEF AddItem, seats, walk, doors, places
  <1>4. CASE OpenHired(s)
    BY <1>4
       DEF OpenHired, Leave, SeatsInv, SeatsType, OfflineSeatless, FromOutside, SeatsMatch,
       OpenedToVisitors, ClosedToVisitors, ServedFromTheMap
  <1>5. CASE OpenPersonal(s)
    BY <1>5 DEF OpenPersonal, walk, places, SeatsInv, SeatsType, OfflineSeatless, FromOutside,
       SeatsMatch, OpenedToVisitors, ClosedToVisitors, ServedFromTheMap
  <1>6. CASE OpenRefused(s)
    <2>1. CASE CloseHired(s, FALSE) /\ UNCHANGED <<online, walk, open, visitors>>
      <3>1. visitors[s] = {}
        BY <1>6 DEF OpenRefused, SeatsInv, OpenedToVisitors
      <3> QED
        BY <2>1, <3>1 DEF CloseHired, walk, SeatsInv, SeatsType, OfflineSeatless, FromOutside,
           SeatsMatch, OpenedToVisitors, ClosedToVisitors, ServedFromTheMap
    <2>2. CASE ClosePersonal(s, stock[s], inv) /\ UNCHANGED <<online, entering>>
      BY <2>2, ClosePersonalSeats
    <2> QED
      BY <1>6, <2>1, <2>2 DEF OpenRefused
  <1>7. ASSUME Owner \in online, ClearOut(s, {}),
               entering' = [entering EXCEPT ![Owner] = s], open' = open \ {s},
               window[Owner] = None, UNCHANGED <<online, available, places, server>>
        PROVE SeatsInv'
    <2>1. /\ entering' \in [Players -> Shops \cup {None}]
          /\ \A p \in Players \ {Owner} : entering'[p] = entering[p]
      BY <1>7 DEF SeatsInv, SeatsType
    <2> QED
      BY <1>7, <2>1, Emptied DEF places
  <1>8. CASE Maintain(s)
    BY <1>7, <1>8 DEF Maintain, Free
  <1>9. CASE OwlToOwn(s)
    BY <1>7, <1>9 DEF OwlToOwn, Free
  <1>10. CASE TakeOver(s)
    <2>1. Owner \in online
      BY <1>10 DEF TakeOver, SeatsInv, OfflineSeatless
    <2> QED
      BY <1>10, <2>1
         DEF TakeOver, doors, places, SeatsInv, SeatsType, OfflineSeatless, FromOutside,
         SeatsMatch, OpenedToVisitors, ClosedToVisitors, ServedFromTheMap
  <1>11. CASE MaintenanceOff(s)
    BY <1>11, Cleared DEF MaintenanceOff, places
  <1>12. CASE Organise(s)
    BY <1>12, SameSeats DEF Organise, seats, walk, doors, places
  <1>13. CASE CloseMerchant(s)
    BY <1>13, Cleared DEF CloseMerchant, CloseHired
  <1>14. CASE OwnerExit(s)
    <2>1. CASE ClosePersonal(s, stock[s], inv) /\ UNCHANGED <<online, entering>>
      BY <2>1, ClosePersonalSeats
    <2>2. CASE Leave({Owner}) /\ UNCHANGED <<online, entering, doors, places, server>>
      BY <2>2 DEF Leave, doors, places, SeatsInv, SeatsType, OfflineSeatless, FromOutside,
         SeatsMatch,
         OpenedToVisitors, ClosedToVisitors, ServedFromTheMap
    <2> QED
      BY <1>14, <2>1, <2>2 DEF OwnerExit
  <1> QED
    BY <1>1, <1>2, <1>3, <1>4, <1>5, <1>6, <1>8, <1>9, <1>10, <1>11, <1>12, <1>13, <1>14
       DEF OwnerStep

\* The visitors' handlers.
LEMMA VisitorSeats ==
  ASSUME SeatsInv, NEW p \in Players, NEW s \in Shops, VisitorStep(p, s)
  PROVE  SeatsInv'
  <1> USE OwnerAssumption, NoneAssumption
  <1>1. CASE Visit(p, s)
    BY <1>1 DEF Visit, Free, doors, places, SeatsInv, SeatsType, OfflineSeatless, FromOutside,
       SeatsMatch, OpenedToVisitors, ClosedToVisitors, ServedFromTheMap
  <1>2. CASE Sit(p, s)
    <2> DEFINE seated == Cardinality(visitors[s]) < Seats
    <2> HIDE DEF seated
    <2>1. /\ p # Owner /\ entering[p] = s
          /\ entering' = [entering EXCEPT ![p] = None]
          /\ window' = [window EXCEPT ![p] = s]
          /\ visitors' = IF seated THEN [visitors EXCEPT ![s] = @ \cup {p}] ELSE visitors
          /\ late' = IF seated /\ s \in onMap \cap open \cap available
                     THEN late ELSE late \cup {p}
          /\ UNCHANGED <<online, open, available, onMap, server>>
      BY <1>2 DEF Sit, places, seated
    <2>2. p \in online /\ s \in available /\ s # None
      BY <2>1 DEF SeatsInv, OfflineSeatless, OpenedToVisitors
    <2>3. SeatsType' /\ OfflineSeatless' /\ FromOutside' /\ OpenedToVisitors'
      BY <2>1, <2>2 DEF SeatsInv, SeatsType, OfflineSeatless, FromOutside, OpenedToVisitors
    <2>4. window[p] = None
      BY <2>1, <2>2 DEF SeatsInv, FromOutside
    <2>5. SeatsMatch'
      BY <2>1, <2>2, <2>4 DEF SeatsInv, SeatsType, SeatsMatch
    <2>6. ClosedToVisitors'
      BY <2>1, <2>2 DEF SeatsInv, SeatsType, ClosedToVisitors
    <2>7. ServedFromTheMap'
      BY <2>1, <2>2 DEF SeatsInv, SeatsType, ServedFromTheMap
    <2> QED
      BY <2>3, <2>5, <2>6, <2>7 DEF SeatsInv
  <1>3. CASE VisitorExit(p, s)
    BY <1>3 DEF VisitorExit, Leave, places, SeatsInv, SeatsType, OfflineSeatless, FromOutside,
       SeatsMatch, OpenedToVisitors, ClosedToVisitors, ServedFromTheMap
  <1>4. ASSUME NEW l, NEW n, BuyHired(p, s, l, n) PROVE SeatsInv'
    BY <1>4, SameSeats DEF BuyHired, seats, walk, doors, places
  <1>5. ASSUME NEW l, NEW n, BuyPersonal(p, s, l, n) PROVE SeatsInv'
    <2>1. UNCHANGED <<online, entering>>
      BY <1>5 DEF BuyPersonal
    <2>2. ASSUME NEW left, NEW bought, ClosePersonal(s, left, bought) PROVE SeatsInv'
      BY <2>1, <2>2, ClosePersonalSeats
    <2>3. CASE UNCHANGED <<window, late, doors, places, server>>
      BY <2>1, <2>3, SameSeats DEF seats, doors, places
    <2> QED
      BY <1>5, <2>2, <2>3 DEF BuyPersonal
  <1> QED
    BY <1>1, <1>2, <1>3, <1>4, <1>5 DEF VisitorStep

-----------------------------------------------------------------------------
\* The timer, which may find the owner in the shop.
LEMMA TimerSeats ==
  ASSUME SeatsInv, NEW s \in Shops, TimerExpires(s)
  PROVE  SeatsInv'
  <1> DEFINE P == IF window[Owner] = s THEN {Owner} ELSE {}
  <1>1. /\ ClearOut(s, P) /\ P \in SUBSET {Owner}
        /\ open' = open /\ available' = available /\ onMap' = onMap \ {s}
        /\ online' = online /\ entering' = entering /\ server' = server
    BY DEF TimerExpires, CloseHired
  <1> HIDE DEF P
  <1> QED
    BY <1>1, Cleared

\* A connection that ends.  The shutdown saves what the first stage left, so
\* only then does a merchant that was open go with its visitors still in it.
LEMMA DisconnectSeats ==
  ASSUME SeatsInv, NEW p \in Players, NEW final \in BOOLEAN,
         final => server = "closing", Disconnect(p, final)
  PROVE  SeatsInv'
  <1> USE OwnerAssumption, NoneAssumption
  <1> DEFINE s == window[p]
  <1>1. online' = online \ {p} /\ entering' = [entering EXCEPT ![p] = None]
    BY DEF Disconnect
  <1>2. CASE p = Owner /\ s # None
    <2>0. s \in Shops
      BY <1>2 DEF SeatsInv, SeatsType
    <2>1. CASE /\ open' = open \cup {s} /\ s \in available
               /\ Leave({p})
               /\ UNCHANGED <<available, visitors, onMap, server>>
      BY <1>1, <1>2, <2>0, <2>1
         DEF Leave, SeatsInv, SeatsType, OfflineSeatless, FromOutside, SeatsMatch,
             OpenedToVisitors, ClosedToVisitors, ServedFromTheMap
    <2>2. CASE /\ s \notin available \/ final
               /\ onMap' = onMap \ {s}
               /\ Leave({p})
               /\ UNCHANGED <<open, available, visitors, server>>
      <3>1. SeatsType' /\ OfflineSeatless' /\ FromOutside' /\ SeatsMatch' /\ OpenedToVisitors'
              /\ ClosedToVisitors'
        BY <1>1, <1>2, <2>2
           DEF Leave, SeatsInv, SeatsType, OfflineSeatless, FromOutside, SeatsMatch,
               OpenedToVisitors, ClosedToVisitors
      <3>2. CASE final
        BY <2>2, <3>1, <3>2 DEF SeatsInv, ServedFromTheMap
      <3>3. CASE s \notin available
        <4>1. visitors[s] = {}
          BY <2>0, <3>3 DEF SeatsInv, OpenedToVisitors
        <4> QED
          BY <1>2, <2>0, <2>2, <3>1, <4>1
             DEF Leave, SeatsInv, SeatsType, SeatsMatch, ServedFromTheMap
      <3> QED
        BY <2>2, <3>2, <3>3
    <2>3. CASE ClosePersonal(s, stock[s], inv)
      BY <1>1, <1>2, <2>0, <2>3, ClosePersonalSeats
    <2> QED
      BY <1>2, <2>1, <2>2, <2>3 DEF Disconnect, CloseHired, places
  <1>3. CASE ~(p = Owner /\ s # None)
    <2>1. /\ visitors' = [t \in Shops |-> IF t = window[p] THEN visitors[t] \ {p}
                                                        ELSE visitors[t]]
          /\ Leave({p})
          /\ UNCHANGED <<open, available, onMap, server>>
      BY <1>3 DEF Disconnect, places
    <2> QED
      BY <1>1, <1>3, <2>1
         DEF Leave, SeatsInv, SeatsType, OfflineSeatless, FromOutside, SeatsMatch,
             OpenedToVisitors, ClosedToVisitors, ServedFromTheMap
  <1> QED
    BY <1>2, <1>3

\* What the players do besides trading.
LEMMA PlayerSeats ==
  ASSUME SeatsInv, NEW p \in Players, PlayerStep(p)
  PROVE  SeatsInv'
  <1>1. ASSUME NEW l \in Lots, PickUp(p, l) PROVE SeatsInv'
    BY <1>1, SameSeats DEF PickUp, seats, walk, doors, places
  <1>2. ASSUME NEW l \in Lots, Drop(p, l) PROVE SeatsInv'
    BY <1>2, SameSeats DEF Drop, seats, walk, doors, places
  <1>3. ASSUME Disconnect(p, FALSE) PROVE SeatsInv'
    BY <1>3, DisconnectSeats
  <1>4. ASSUME server = "closing", Disconnect(p, TRUE) PROVE SeatsInv'
    BY <1>4, DisconnectSeats
  <1>5. CASE Reconnect(p)
    BY <1>5
       DEF Reconnect, walk, doors, places, SeatsInv, SeatsType, OfflineSeatless, FromOutside,
       SeatsMatch, OpenedToVisitors, ClosedToVisitors, ServedFromTheMap
  <1> QED
    BY <1>1, <1>2, <1>3, <1>4, <1>5 DEF PlayerStep

\* The package, the GM's switch, the shutdown and the next start.
LEMMA ServerSeats ==
  ASSUME SeatsInv, Collect \/ ToggleShops \/ CloseAllMerchants \/ Restart
  PROVE  SeatsInv'
  <1> USE OwnerAssumption, NoneAssumption
  <1>1. CASE Collect
    BY <1>1, SameSeats DEF Collect, seats, walk, doors, places
  <1>2. CASE ToggleShops
    BY <1>2
       DEF ToggleShops, walk, doors, places, SeatsInv, SeatsType, OfflineSeatless, FromOutside,
       SeatsMatch, OpenedToVisitors, ClosedToVisitors, ServedFromTheMap
  <1>3. CASE CloseAllMerchants
    <2>1. /\ server' = "closing"
          /\ UNCHANGED <<online, window, entering, late, open, available, visitors>>
      BY <1>3 DEF CloseAllMerchants, walk, doors
    <2> QED
      BY <2>1 DEF SeatsInv, SeatsType, OfflineSeatless, FromOutside,
         SeatsMatch, OpenedToVisitors, ClosedToVisitors, ServedFromTheMap
  <1>4. CASE Restart
    BY <1>4 DEF Restart, walk, SeatsInv, SeatsType, OfflineSeatless, FromOutside,
       SeatsMatch, OpenedToVisitors, ClosedToVisitors, ServedFromTheMap
  <1> QED
    BY <1>1, <1>2, <1>3, <1>4

LEMMA SeatsStep == SeatsInv /\ [Next]_vars => SeatsInv'
  <1> SUFFICES ASSUME SeatsInv, [Next]_vars PROVE SeatsInv'
    OBVIOUS
  <1>1. ASSUME NEW s \in Shops, OwnerStep(s) PROVE SeatsInv'
    BY <1>1, OwnerSeats
  <1>2. ASSUME NEW s \in Shops, Kick(s) PROVE SeatsInv'
    BY <1>2, Cleared DEF Kick, places
  <1>3. ASSUME NEW s \in Shops, TimerExpires(s) PROVE SeatsInv'
    BY <1>3, TimerSeats
  <1>4. ASSUME NEW p \in Players, NEW s \in Shops, VisitorStep(p, s) PROVE SeatsInv'
    BY <1>4, VisitorSeats
  <1>5. ASSUME NEW p \in Players, PlayerStep(p) PROVE SeatsInv'
    BY <1>5, PlayerSeats
  <1>6. CASE Collect \/ ToggleShops \/ CloseAllMerchants \/ Restart
    BY <1>6, ServerSeats
  <1>7. CASE UNCHANGED vars
    BY <1>7, SameSeats DEF vars, seats
  <1> QED
    BY <1>1, <1>2, <1>3, <1>4, <1>5, <1>6, <1>7 DEF Next

-----------------------------------------------------------------------------
\* The strengthening that holds the three invariants together: ServedFromTheMap
\* needs SeatsMatch where a shop goes off the map, and a merchant that was never
\* opened goes without a look at its visitors because it cannot have any.
THEOREM SeatsInvariant == Spec => []SeatsInv
  BY InitSeats, SeatsStep, PTL DEF Spec

\* A visitor's playerShop and the shop's list of visitors agree, whichever of
\* exit, kick, maintenance, closing, expiry, sale of the last entry or
\* disconnection ends the visit, and in whatever order these and the steps of
\* entering come; only one who found the shop full is in it without a seat.
THEOREM SeatsMatchAlways == Spec => []SeatsMatch
  <1>1. SeatsInv => SeatsMatch
    BY DEF SeatsInv
  <1> QED
    BY <1>1, SeatsInvariant, PTL

\* The owner's removeAllVisitors leaves nobody in the shop whose goods he
\* rearranges, except whom he overtook between the test of open and the seat.
THEOREM ClosedToVisitorsAlways == Spec => []ClosedToVisitors
  <1>1. SeatsInv => ClosedToVisitors
    BY DEF SeatsInv
  <1> QED
    BY <1>1, SeatsInvariant, PTL

\* Before the shutdown no visitor sits in a shop that is off its map, except
\* whom its closing overtook as he came in.
THEOREM ServedFromTheMapAlways == Spec => []ServedFromTheMap
  <1>1. SeatsInv => ServedFromTheMap
    BY DEF SeatsInv
  <1> QED
    BY <1>1, SeatsInvariant, PTL

-----------------------------------------------------------------------------
(* Types and amounts *)

\* What is added to goods, and what is written of them, is of their type.
LEMMA GoodsTypes ==
  ASSUME NEW hold \in [Lots -> Nat], NEW from \in [Lots -> Nat], NEW S
  PROVE  /\ With(hold, from, S) \in [Lots -> Nat]
         /\ Empty \in [Lots -> Nat]
         /\ \A l \in Lots, n \in Nat : Plus(hold, l, n) \in [Lots -> Nat]
  BY DEF With, Empty, Plus

\* What is saved of a shop is a package.
LEMMA SavedType ==
  ASSUME TypeOK, NEW s \in Shops
  PROVE  Saved(s) \in Packages
  BY DEF TypeOK, Saved, Packages

\* A price that a buyer can pay is an int, and its tax no more than that.
LEMMA PriceIsInt ==
  ASSUME TypeOK, NEW p \in Players, NEW s \in Shops, NEW l \in Lots, NEW n, NEW cost,
         cost = ToInt(Price[l] * n), MayBuy(p, s, l, n, cost)
  PROVE  /\ cost \in 1..IntMax /\ Tax(cost) \in 0..cost
         /\ n \in Nat /\ stock[s][l] - n \in Nat
         /\ purse[p] - cost \in 0..IntMax
         /\ till[s] + cost \in 0..IntMax
  <1>1. stock[s][l] \in Nat /\ n \in 1..stock[s][l] /\ purse[p] \in 0..IntMax
        /\ till[s] \in 0..IntMax
    BY DEF TypeOK, MayBuy
  <1>2. n \in Nat /\ stock[s][l] - n \in Nat
    BY <1>1
  <1> DEFINE product == Price[l] * n
  <1>3. product \in Nat
    <2>1. Price[l] \in Nat
      BY LotAssumption
    <2> QED
      BY <1>2, <2>1
  <1>4. cost \in Int
    <2> HIDE DEF product
    <2>1. IntMax \in Nat
      BY BoundAssumption
    <2> DEFINE a == product + IntMax + 1
               b == 2 * (IntMax + 1)
    <2>2. a \in Int /\ b \in Int /\ b > 0
      BY <1>3, <2>1
    <2>3. a % b \in Int
      <3> HIDE DEF a, b
      <3> QED
        BY <2>2
    <2> QED
      BY <2>1, <2>3 DEF ToInt, product
  <1>5. cost \in 1..IntMax
    BY <1>1, <1>4, BoundAssumption DEF MayBuy
  <1>6. Tax(cost) \in 0..cost
    BY <1>5, BoundAssumption, TaxAssumption
  <1> QED
    BY <1>1, <1>2, <1>5, <1>6, BoundAssumption DEF MayBuy

\* The fields that only goods and mesos change
Traded ==
    /\ inv \in [Players -> [Lots -> Nat]] /\ ground \in [Lots -> Nat]
    /\ purse \in [Players -> 0..IntMax]
    /\ stock \in [Shops -> [Lots -> Nat]]
    /\ shelf \in [Shops -> SUBSET Lots] /\ soldOut \in [Shops -> Nat]
    /\ till \in [Shops -> 0..IntMax]
    /\ package \in Packages \cup {None}

\* The fields that say where the shops and the players are
Standing ==
    /\ online \subseteq Players
    /\ window \in [Players -> Shops \cup {None}]
    /\ entering \in [Players -> Shops \cup {None}] /\ late \subseteq Players
    /\ kind \in [Shops -> {"none", "hired", "personal"}]
    /\ open \subseteq Shops /\ available \subseteq Shops
    /\ visitors \in [Shops -> SUBSET Players]
    /\ timer \subseteq Shops /\ onMap \subseteq Shops /\ listed \subseteq Shops
    /\ server \in {"up", "shopsShut", "closing"}

\* TypeOK in two parts.
LEMMA TypesParted == TypeOK <=> Traded /\ Standing
  BY DEF TypeOK, Traded, Standing

\* closeShop of either kind, whoever calls it
LEMMA CloseHiredTypes ==
  ASSUME TypeOK, NEW s \in Shops, NEW remove, CloseHired(s, remove)
  PROVE  /\ Traded'
         /\ timer' \subseteq Shops /\ onMap' \subseteq Shops /\ listed' \subseteq Shops
         /\ UNCHANGED <<kind, available, server>>
  <1>1. Saved(s) \in Packages
    BY SavedType
  <1> QED
    BY <1>1 DEF CloseHired, TypeOK, Traded, goods, Empty

LEMMA ClosePersonalTypes ==
  ASSUME TypeOK, NEW s \in Shops, NEW left \in [Lots -> Nat],
         NEW invs \in [Players -> [Lots -> Nat]], ClosePersonal(s, left, invs)
  PROVE  /\ inv' \in [Players -> [Lots -> Nat]]
         /\ stock' \in [Shops -> [Lots -> Nat]]
         /\ window' \in [Players -> Shops \cup {None}] /\ late' \subseteq Players
         /\ visitors' \in [Shops -> SUBSET Players]
         /\ onMap' \subseteq Shops
         /\ UNCHANGED <<ground, kind, shelf, till, open, available, timer, listed,
                        package, server>>
  <1>1. PICK back \in SUBSET Carried(left) :
           /\ stock' = [stock EXCEPT ![s] = With(Empty, left, Carried(left) \ back)]
           /\ inv' = [invs EXCEPT ![Owner] = With(invs[Owner], left, back)]
    BY DEF ClosePersonal
  <1>2. /\ With(Empty, left, Carried(left) \ back) \in [Lots -> Nat]
        /\ With(invs[Owner], left, back) \in [Lots -> Nat]
    BY OwnerAssumption DEF With, Empty
  <1> QED
    BY <1>1, <1>2 DEF ClosePersonal, TypeOK, Leave, ClearOut

LEMMA ClosedPersonally ==
  ASSUME TypeOK, NEW s \in Shops, ClosePersonal(s, stock[s], inv),
         UNCHANGED <<purse, soldOut>>, online' \subseteq online,
         entering' \in [Players -> Shops \cup {None}]
  PROVE  TypeOK'
  <1>1. stock[s] \in [Lots -> Nat] /\ inv \in [Players -> [Lots -> Nat]]
    BY DEF TypeOK
  <1> QED
    BY <1>1, ClosePersonalTypes DEF TypeOK

\* The owner's handlers.
LEMMA OwnerTypes ==
  ASSUME TypeOK, NEW s \in Shops, OwnerStep(s)
  PROVE  TypeOK'
  <1> USE OwnerAssumption
  <1>1. ASSUME NEW k \in {"hired", "personal"}, Create(s, k) PROVE TypeOK'
    BY <1>1 DEF Create, goods, entries, doors, TypeOK
  <1>2. ASSUME NEW l \in Lots, RemoveItem(s, l) PROVE TypeOK'
    <2>1. Plus(inv[Owner], l, stock[s][l]) \in [Lots -> Nat]
      BY DEF Plus, TypeOK
    <2> QED
      BY <1>2, <2>1 DEF RemoveItem, walk, doors, places, TypeOK
  <1>3. ASSUME NEW l \in Lots, NEW n, AddItem(s, l, n) PROVE TypeOK'
    <2>1. n \in Nat /\ inv[Owner][l] - n \in Nat
      BY <1>3 DEF AddItem, walk, TypeOK
    <2> QED
      BY <1>3, <2>1 DEF AddItem, walk, doors, places, TypeOK
  <1>4. CASE OpenHired(s)
    BY <1>4 DEF OpenHired, Leave, goods, entries, TypeOK
  <1>5. CASE OpenPersonal(s)
    BY <1>5 DEF OpenPersonal, walk, goods, entries, places, TypeOK
  <1>6. CASE OpenRefused(s)
    <2>1. CASE CloseHired(s, FALSE) /\ UNCHANGED <<online, walk, open, visitors>>
      BY <2>1, CloseHiredTypes, TypesParted DEF walk, TypeOK, Traded
    <2>2. CASE /\ ClosePersonal(s, stock[s], inv)
               /\ UNCHANGED <<purse, online, entering, soldOut>>
      BY <2>2, ClosedPersonally DEF TypeOK
    <2> QED
      BY <1>6, <2>1, <2>2 DEF OpenRefused, walk
  <1>7. CASE Maintain(s)
    BY <1>7 DEF Maintain, Leave, ClearOut, goods, entries, places, TypeOK
  <1>8. CASE OwlToOwn(s)
    BY <1>8 DEF OwlToOwn, Leave, ClearOut, goods, entries, places, TypeOK
  <1>9. CASE TakeOver(s)
    BY <1>9 DEF TakeOver, goods, entries, doors, places, TypeOK
  <1>10. CASE MaintenanceOff(s)
    BY <1>10 DEF MaintenanceOff, Leave, ClearOut, goods, entries, places, TypeOK
  <1>11. CASE Organise(s)
    <2>1. purse[Owner] + till[s] \in 0..IntMax /\ 0 \in 0..IntMax
      BY <1>11, BoundAssumption DEF Organise, TooMuch, TypeOK
    <2>2. shelf' \in [Shops -> SUBSET Lots]
      BY <1>11 DEF Organise, TypeOK
    <2> QED
      BY <1>11, <2>1, <2>2 DEF Organise, walk, goods, doors, places, TypeOK
  <1>12. CASE CloseMerchant(s)
    BY <1>12, CloseHiredTypes DEF CloseMerchant, Leave, ClearOut, TypeOK, Traded
  <1>13. CASE OwnerExit(s)
    <2>1. CASE /\ ClosePersonal(s, stock[s], inv)
               /\ UNCHANGED <<purse, online, entering, soldOut>>
      BY <2>1, ClosedPersonally DEF TypeOK
    <2>2. CASE /\ Leave({Owner})
               /\ UNCHANGED <<goods, purse, online, entering, kind, entries, till, doors,
                              places, package, server>>
      BY <2>2 DEF Leave, goods, entries, doors, places, TypeOK
    <2> QED
      BY <1>13, <2>1, <2>2 DEF OwnerExit
  <1> QED
    BY <1>1, <1>2, <1>3, <1>4, <1>5, <1>6, <1>7, <1>8, <1>9, <1>10, <1>11, <1>12, <1>13
       DEF OwnerStep

\* The visitors' handlers; a sale neither overdraws the buyer nor overflows the till.
LEMMA VisitorTypes ==
  ASSUME TypeOK, NEW p \in Players, NEW s \in Shops, VisitorStep(p, s)
  PROVE  TypeOK'
  <1> USE OwnerAssumption
  <1>1. CASE Visit(p, s)
    BY <1>1 DEF Visit, goods, entries, doors, places, TypeOK
  <1>2. CASE VisitorExit(p, s)
    BY <1>2 DEF VisitorExit, Leave, goods, entries, places, TypeOK
  <1>3. ASSUME NEW l \in Lots, NEW n, BuyHired(p, s, l, n) PROVE TypeOK'
    <2> DEFINE cost == ToInt(Price[l] * n)
    <2>1. /\ cost \in 1..IntMax /\ Tax(cost) \in 0..cost
          /\ n \in Nat /\ stock[s][l] - n \in Nat
          /\ purse[p] - cost \in 0..IntMax
          /\ till[s] + cost \in 0..IntMax
      BY <1>3, PriceIsInt DEF BuyHired, walk
    <2>2. till[s] \in 0..IntMax /\ till[s] + cost - Tax(cost) > 0
      BY <1>3 DEF BuyHired, walk, TypeOK
    <2> HIDE DEF cost
    <2>3. till[s] + cost - Tax(cost) \in 0..IntMax
      BY <2>1, <2>2, BoundAssumption
    <2>4. Plus(inv[p], l, n) \in [Lots -> Nat]
      BY <2>1 DEF Plus, TypeOK
    <2>5. /\ inv' = [inv EXCEPT ![p] = Plus(@, l, n)]
          /\ stock' = [stock EXCEPT ![s][l] = @ - n]
          /\ till' = [till EXCEPT ![s] = @ + cost - Tax(cost)]
          /\ purse' = [purse EXCEPT ![p] = @ - cost]
          /\ package' = [goods |-> stock'[s], meso |-> till'[s], by |-> s]
          /\ UNCHANGED <<ground, online, walk, kind, shelf, soldOut, doors, places, server>>
      BY <1>3 DEF BuyHired, cost
    <2>6. /\ stock' \in [Shops -> [Lots -> Nat]]
          /\ till' \in [Shops -> 0..IntMax]
          /\ purse' \in [Players -> 0..IntMax]
          /\ inv' \in [Players -> [Lots -> Nat]]
      BY <2>1, <2>3, <2>4, <2>5 DEF TypeOK
    <2>7. package' \in Packages
      BY <2>5, <2>6 DEF Packages
    <2> QED
      BY <2>5, <2>6, <2>7 DEF walk, doors, places, TypeOK
  <1>4. ASSUME NEW l \in Lots, NEW n, BuyPersonal(p, s, l, n) PROVE TypeOK'
    <2> DEFINE cost == ToInt(Price[l] * n)
               left == [stock[s] EXCEPT ![l] = @ - n]
               bought == [inv EXCEPT ![p] = Plus(@, l, n)]
               sold == soldOut[s] + IF left[l] = 0 THEN 1 ELSE 0
    <2>1. /\ cost \in 1..IntMax /\ n \in Nat /\ stock[s][l] - n \in Nat
          /\ purse[p] - cost \in 0..IntMax
      BY <1>4, PriceIsInt DEF BuyPersonal
    <2>2. left \in [Lots -> Nat] /\ bought \in [Players -> [Lots -> Nat]]
      BY <2>1 DEF Plus, TypeOK
    <2>3. soldOut' = [soldOut EXCEPT ![s] = sold] /\ sold \in Nat
      BY <1>4 DEF BuyPersonal, TypeOK
    <2>4. /\ purse' = [purse EXCEPT ![p] = @ - cost, ![Owner] = @ + cost]
          /\ p # Owner
          /\ purse[Owner] + cost <= IntMax
          /\ UNCHANGED <<online, entering>>
          /\ \/ ClosePersonal(s, left, bought)
             \/ /\ inv' = bought
                /\ stock' = [stock EXCEPT ![s] = left]
                /\ UNCHANGED <<ground, window, late, kind, shelf, till, doors, places,
                               package, server>>
      <3>1. /\ ~TooMuch(purse[Owner], cost) /\ p # Owner
        BY <1>4 DEF BuyPersonal, MayBuy
      <3>2. purse[Owner] \in 0..IntMax
        BY DEF TypeOK
      <3>3. purse[Owner] + cost <= IntMax
        <4> HIDE DEF cost
        <4> QED
          BY <2>1, <3>1, <3>2, BoundAssumption DEF TooMuch
      <3> QED
        BY <1>4, <3>1, <3>3 DEF BuyPersonal
    <2> HIDE DEF cost, left, bought, sold
    <2>5. purse' \in [Players -> 0..IntMax] /\ soldOut' \in [Shops -> Nat]
      <3>1. purse[Owner] + cost \in 0..IntMax
        BY <2>1, <2>4, BoundAssumption DEF TypeOK
      <3> QED
        BY <2>1, <2>3, <2>4, <3>1 DEF TypeOK
    <2>6. CASE ClosePersonal(s, left, bought)
      BY <2>2, <2>4, <2>5, <2>6, ClosePersonalTypes DEF TypeOK
    <2>7. CASE /\ inv' = bought
               /\ stock' = [stock EXCEPT ![s] = left]
               /\ UNCHANGED <<ground, window, late, kind, shelf, till, doors, places,
                              package, server>>
      BY <2>2, <2>4, <2>5, <2>7 DEF doors, places, TypeOK
    <2> QED
      BY <2>4, <2>6, <2>7
  <1>5. CASE Sit(p, s)
    BY <1>5 DEF Sit, goods, entries, places, TypeOK
  <1> QED
    BY <1>1, <1>2, <1>3, <1>4, <1>5 DEF VisitorStep

\* What the players do besides trading.
LEMMA PlayerTypes ==
  ASSUME TypeOK, NEW p \in Players, PlayerStep(p)
  PROVE  TypeOK'
  <1> USE OwnerAssumption
  <1>1. ASSUME NEW l \in Lots, PickUp(p, l) PROVE TypeOK'
    <2>1. Heap(l) \in Nat /\ ground[l] - Heap(l) \in Nat
      BY DEF Heap, TypeOK
    <2>2. Plus(inv[p], l, Heap(l)) \in [Lots -> Nat]
      BY <2>1 DEF Plus, TypeOK
    <2> QED
      BY <1>1, <2>1, <2>2 DEF PickUp, walk, entries, doors, places, TypeOK
  <1>2. ASSUME NEW l \in Lots, Drop(p, l) PROVE TypeOK'
    BY <1>2 DEF Drop, walk, Plus, entries, doors, places, TypeOK
  <1>3. ASSUME NEW final, Disconnect(p, final) PROVE TypeOK'
    <2> DEFINE s == window[p]
    <2>1. /\ online' = online \ {p} /\ s \in Shops \cup {None}
          /\ entering' \in [Players -> Shops \cup {None}]
      BY <1>3 DEF Disconnect, TypeOK
    <2>2. CASE p = Owner /\ s # None
      <3>0. s \in Shops
        BY <2>1, <2>2
      <3>1. CASE /\ open' = open \cup {s}
                 /\ Leave({p})
                 /\ UNCHANGED <<goods, purse, kind, entries, till, available, visitors,
                                places, package, server>>
        BY <2>1, <3>0, <3>1 DEF Leave, goods, entries, places, TypeOK
      <3>2. CASE /\ CloseHired(s, ~final)
                 /\ Leave({p})
                 /\ UNCHANGED <<open, visitors>>
        BY <2>1, <3>0, <3>2, CloseHiredTypes DEF Leave, TypeOK, Traded
      <3>3. CASE ClosePersonal(s, stock[s], inv) /\ UNCHANGED <<purse, soldOut>>
        BY <2>1, <3>0, <3>3, ClosedPersonally
      <3> QED
        BY <1>3, <2>2, <3>1, <3>2, <3>3 DEF Disconnect
    <2>3. CASE ~(p = Owner /\ s # None)
      <3>1. /\ visitors' = [t \in Shops |-> IF t = s THEN visitors[t] \ {p} ELSE visitors[t]]
            /\ Leave({p})
            /\ UNCHANGED <<goods, purse, kind, entries, till, open, available, places,
                           package, server>>
        BY <1>3, <2>3 DEF Disconnect
      <3> QED
        BY <2>1, <3>1 DEF Leave, goods, entries, places, TypeOK
    <2> QED
      BY <2>2, <2>3
  <1>4. CASE Reconnect(p)
    BY <1>4 DEF Reconnect, walk, goods, entries, doors, places, TypeOK
  <1> QED
    BY <1>1, <1>2, <1>3, <1>4 DEF PlayerStep

\* The package, the GM's switch, the shutdown and the next start.
LEMMA ServerTypes ==
  ASSUME TypeOK, Collect \/ ToggleShops \/ CloseAllMerchants \/ Restart
  PROVE  TypeOK'
  <1> USE OwnerAssumption
  <1>1. CASE Collect
    <2>1. /\ package.goods \in [Lots -> Nat] /\ package.meso \in 0..IntMax
          /\ purse[Owner] \in 0..IntMax /\ inv[Owner] \in [Lots -> Nat]
      BY <1>1 DEF Collect, walk, TypeOK, Packages
    <2>2. purse[Owner] + package.meso \in 0..IntMax
      BY <1>1, <2>1, BoundAssumption DEF Collect, walk, TooMuch
    <2>3. PICK S : inv' = [inv EXCEPT ![Owner] = With(@, package.goods, S)]
      BY <1>1 DEF Collect, walk
    <2>4. With(inv[Owner], package.goods, S) \in [Lots -> Nat]
      BY <2>1, GoodsTypes
    <2> QED
      BY <1>1, <2>2, <2>3, <2>4 DEF Collect, walk, entries, doors, places, TypeOK
  <1>2. CASE ToggleShops
    BY <1>2 DEF ToggleShops, walk, goods, entries, doors, places, TypeOK
  <1>3. CASE CloseAllMerchants
    <2> DEFINE unlisted == {s \in onMap \ listed : kind[s] = "hired"}
               closed == listed \cup unlisted
    <2>1. closed \subseteq Shops
      BY DEF TypeOK
    <2>2. /\ \/ UNCHANGED package
             \/ \E last \in closed : package' = Saved(last)
          /\ server' = "closing"
          /\ stock' = [s \in Shops |-> IF s \in closed THEN Empty ELSE stock[s]]
          /\ shelf' = [s \in Shops |-> IF s \in closed THEN {} ELSE shelf[s]]
          /\ listed' = {}
          /\ timer' = timer \ closed
          /\ onMap' = onMap \ closed
          /\ UNCHANGED <<goods, purse, online, walk, kind, soldOut, till, doors>>
      BY <1>3 DEF CloseAllMerchants
    <2> HIDE DEF closed, unlisted
    <2>3. package' \in Packages \cup {None}
      BY <2>1, <2>2, SavedType DEF TypeOK
    <2> QED
      BY <2>2, <2>3 DEF Empty, goods, walk, doors, TypeOK
  <1>4. CASE Restart
    BY <1>4, BoundAssumption DEF Restart, walk, Empty, goods, TypeOK
  <1> QED
    BY <1>1, <1>2, <1>3, <1>4

LEMMA TypesStep == TypeOK /\ [Next]_vars => TypeOK'
  <1> SUFFICES ASSUME TypeOK, [Next]_vars PROVE TypeOK'
    OBVIOUS
  <1>1. ASSUME NEW s \in Shops, Kick(s) PROVE TypeOK'
    BY <1>1 DEF Kick, Leave, ClearOut, goods, entries, places, TypeOK
  <1>2. ASSUME NEW s \in Shops, TimerExpires(s) PROVE TypeOK'
    BY <1>2, CloseHiredTypes DEF TimerExpires, Leave, ClearOut, TypeOK, Traded
  <1>3. CASE UNCHANGED vars
    BY <1>3 DEF vars, TypeOK
  <1> QED
    BY <1>1, <1>2, <1>3, OwnerTypes, VisitorTypes, PlayerTypes, ServerTypes DEF Next

\* Goods that have a home at the start are counts.
LEMMA InitTypes == Init => TypeOK
  <1> SUFFICES ASSUME Init PROVE TypeOK
    OBVIOUS
  <1>1. PICK home \in [Lots -> Players \cup {None}] :
           /\ inv = [p \in Players |-> [l \in Lots |-> IF home[l] = p THEN Bundles[l] ELSE 0]]
           /\ ground = [l \in Lots |-> IF home[l] = None THEN Bundles[l] ELSE 0]
    BY DEF Init
  <1>2. inv \in [Players -> [Lots -> Nat]] /\ ground \in [Lots -> Nat]
    BY <1>1, LotAssumption
  <1> QED
    BY <1>2, BoundAssumption DEF Init, Empty, TypeOK

\* Amounts stay ints and goods stay counts: no sale takes more than the shop has,
\* overdraws the buyer or overflows the till, although the price is an int product that
\* wraps round, and no handler that pays the owner overflows his purse.
THEOREM TypeCorrect == Spec => []TypeOK
  BY InitTypes, TypesStep, PTL DEF Spec

-----------------------------------------------------------------------------
(* Where the shops are *)

\* A merchant, which goes on without its owner
Hired(s) == kind[s] = "hired"

\* The owner is in s, or was let in by MAINTAIN, VISIT or OwlWarp.
Inside(s) == window[Owner] = s \/ entering[Owner] = s

\* A shop that does not exist yet holds nothing and is nowhere.
Unborn ==
    \A s \in Shops : kind[s] = "none" =>
        /\ \A l \in Lots : stock[s][l] = 0
        /\ till[s] = 0
        /\ s \notin onMap /\ s \notin available
        /\ ~Inside(s)

\* What a shop holds has an entry.
Shelved == \A s \in Shops, l \in Lots : stock[s][l] > 0 => l \in shelf[s]

\* The channel lists the hired merchants that are open for business on their map.
ListedAre == \A s \in Shops : s \in listed <=> s \in onMap /\ s \in available /\ Hired(s)

\* A pending timer belongs to a merchant on its map.
Timed == \A s \in timer : s \in onMap /\ Hired(s)

\* The first stage of a shutdown leaves no merchant.
Shut == server = "closing" => \A s \in onMap : ~Hired(s)

\* The owner stays in his personal shop as long as it exists.
Tended == \A s \in onMap : kind[s] = "personal" => window[Owner] = s

\* What the owner comes back to is a merchant; closed before he is in, it is empty.
Returning ==
    \A s \in Shops : entering[Owner] = s =>
        Hired(s) /\ (s \in onMap \/ \A l \in Lots : stock[s][l] = 0)

\* A merchant that was closed around its owner was saved, and he collects nothing
\* before he leaves it.
ClosedLast == \A s \in Shops \ onMap : Hired(s) /\ Inside(s) => package # None

ShopsInv ==
    /\ Unborn /\ Shelved /\ ListedAre /\ Timed /\ Shut /\ Tended /\ Returning /\ ClosedLast

\* A personal shop that was closed has given everything back to its owner, who left
\* it: a visitor who comes in late finds nothing to buy.  RoomInv is why.
GivenBack ==
    \A s \in Shops \ onMap : kind[s] = "personal" =>
        window[Owner] # s /\ \A l \in Lots : stock[s][l] = 0

\* Where the owner is when others leave, and when he does
LEMMA OwnerStays ==
  ASSUME SeatsInv, NEW s \in Shops, NEW P
  PROVE  /\ ClearOut(s, P) =>
              window'[Owner] = IF Owner \in P THEN None ELSE window[Owner]
         /\ Leave(P) =>
              window'[Owner] = IF Owner \in P THEN None ELSE window[Owner]
  BY OwnerAssumption DEF SeatsInv, SeatsType, Leave, ClearOut

\* The timer sends the owner out of the merchant it closes and of no other.
LEMMA TimerSendsOut ==
  ASSUME SeatsInv, NEW s \in Shops, TimerExpires(s)
  PROVE  window'[Owner] = window[Owner] \/ (window[Owner] = s /\ window'[Owner] = None)
  <1> DEFINE P == IF window[Owner] = s THEN {Owner} ELSE {}
  <1>1. ClearOut(s, P)
    BY DEF TimerExpires
  <1>2. Owner \in P <=> window[Owner] = s
    OBVIOUS
  <1> HIDE DEF P
  <1> QED
    BY <1>1, <1>2, OwnerStays

\* A step that moves neither a shop nor the owner.
LEMMA ShopsKept ==
  ASSUME ShopsInv,
         UNCHANGED <<kind, stock, shelf, till, onMap, available, listed, timer, server,
                     package>>,
         window'[Owner] = window[Owner], entering'[Owner] = entering[Owner]
  PROVE  ShopsInv'
  BY DEF ShopsInv, Unborn, Shelved, ListedAre, Timed, Shut, Tended, Returning, ClosedLast,
     Hired, Inside

\* HiredMerchant.closeShop of a merchant that is taken off the list or is not on it
SavedAndClosed(s) ==
    /\ package' = Saved(s)
    /\ stock' = [stock EXCEPT ![s] = Empty]
    /\ shelf' = [shelf EXCEPT ![s] = {}]
    /\ timer' = timer \ {s}
    /\ listed' = listed \ {s}
    /\ onMap' = onMap \ {s}
    /\ UNCHANGED <<goods, purse, kind, soldOut, till, available, server>>

\* closeShop in the words of SavedAndClosed.
LEMMA CloseHiredIs ==
  ASSUME NEW s \in Shops
  PROVE  /\ CloseHired(s, TRUE) => SavedAndClosed(s)
         /\ CloseHired(s, FALSE) /\ s \notin listed => SavedAndClosed(s)
  BY DEF CloseHired, SavedAndClosed

\* A merchant that is closed was on its map, or is closed around its owner.
LEMMA CloseHiredShops ==
  ASSUME TypeOK, SeatsInv, ShopsInv, NEW s \in Shops, Hired(s),
         SavedAndClosed(s),
         window'[Owner] = window[Owner] \/ (window[Owner] = s /\ window'[Owner] = None),
         entering'[Owner] \in {entering[Owner], None}
  PROVE  ShopsInv'
  <1>1. /\ stock' = [stock EXCEPT ![s] = Empty]
        /\ shelf' = [shelf EXCEPT ![s] = {}]
        /\ timer' = timer \ {s} /\ listed' = listed \ {s} /\ onMap' = onMap \ {s}
        /\ UNCHANGED <<kind, till, available, server>>
    BY DEF SavedAndClosed
  <1>2. /\ \A t \in Shops \ {s} : stock'[t] = stock[t] /\ shelf'[t] = shelf[t]
        /\ \A l \in Lots : stock'[s][l] = 0
        /\ package' # None
    BY <1>1, NoneAssumption, SavedType DEF SavedAndClosed, TypeOK, Empty
  <1>3. Unborn' /\ Shelved'
    BY <1>1, <1>2, NoneAssumption DEF TypeOK, ShopsInv, Unborn, Shelved, Hired, Inside
  <1>4. ListedAre' /\ Timed' /\ Shut'
    BY <1>1 DEF ShopsInv, ListedAre, Timed, Shut, Hired
  <1>5. Tended' /\ Returning' /\ ClosedLast'
    BY <1>1, <1>2, NoneAssumption DEF ShopsInv, Tended, Returning, ClosedLast, Hired, Inside
  <1> QED
    BY <1>3, <1>4, <1>5 DEF ShopsInv

\* A personal shop is closed together with its owner's visit.
LEMMA ClosePersonalShops ==
  ASSUME TypeOK, SeatsInv, ShopsInv, NEW s \in Shops, kind[s] = "personal",
         NEW left \in [Lots -> Nat], \A l \in Lots : left[l] <= stock[s][l],
         NEW invs, ClosePersonal(s, left, invs), s \in onMap \/ window[Owner] = s,
         entering'[Owner] \in {entering[Owner], None}
  PROVE  ShopsInv'
  <1>1. PICK rest \in SUBSET Lots : stock' = [stock EXCEPT ![s] = With(Empty, left, rest)]
    BY DEF ClosePersonal, Carried
  <1>2. \A l \in Lots : With(Empty, left, rest)[l] > 0 => stock[s][l] > 0
    BY DEF With, Empty, TypeOK
  <1>3. window'[Owner] = None
    BY OwnerStays DEF ClosePersonal
  <1>4. /\ onMap' = onMap \ {s}
        /\ UNCHANGED <<kind, shelf, till, available, timer, listed, package, server>>
    BY DEF ClosePersonal
  <1>5. window[Owner] = s
    BY DEF ShopsInv, Tended
  <1> HIDE DEF With
  <1>6. \A t \in Shops, l \in Lots : stock'[t][l] > 0 => stock[t][l] > 0
    BY <1>1, <1>2 DEF TypeOK
  <1>7. \A t \in Shops \ {s} : stock'[t] = stock[t]
    BY <1>1 DEF TypeOK
  <1>8. Unborn'
    BY <1>3, <1>4, <1>7, NoneAssumption DEF ShopsInv, Unborn, Inside
  <1>9. Shelved'
    BY <1>4, <1>6 DEF ShopsInv, Shelved
  <1>10. Tended'
    BY <1>3, <1>4, <1>5 DEF ShopsInv, Tended
  <1>11. ListedAre' /\ Timed' /\ Shut'
    BY <1>4 DEF ShopsInv, ListedAre, Timed, Shut, Hired
  <1>12. Returning' /\ ClosedLast'
    BY <1>3, <1>4, <1>5, <1>7, NoneAssumption
       DEF TypeOK, ShopsInv, Returning, ClosedLast, Hired, Inside
  <1> QED
    BY <1>8, <1>9, <1>10, <1>11, <1>12 DEF ShopsInv

\* The owner's handlers, a visitor's, a player's and the server's.
LEMMA OwnerShops ==
  ASSUME TypeOK, SeatsInv, ShopsInv, NEW s \in Shops, OwnerStep(s)
  PROVE  ShopsInv'
  <1> USE OwnerAssumption, NoneAssumption
  <1>1. ASSUME NEW k \in {"hired", "personal"}, Create(s, k) PROVE ShopsInv'
    BY <1>1 DEF Create, Free, entries, doors, TypeOK, ShopsInv, Unborn, Shelved, ListedAre,
       Timed, Shut, Tended, Returning, ClosedLast, Hired, Inside
  <1>2. ASSUME NEW l \in Lots, RemoveItem(s, l) PROVE ShopsInv'
    <2>1. entering[Owner] = None
      BY <1>2 DEF RemoveItem, SeatsInv, FromOutside
    <2> QED
      BY <1>2, <2>1 DEF RemoveItem, walk, doors, places, TypeOK, ShopsInv, Unborn, Shelved,
         ListedAre, Timed, Shut, Tended, Returning, ClosedLast, Hired, Inside
  <1>3. ASSUME NEW l \in Lots, NEW n, AddItem(s, l, n) PROVE ShopsInv'
    <2>1. entering[Owner] = None
      BY <1>3 DEF AddItem, SeatsInv, FromOutside
    <2> QED
      BY <1>3, <2>1 DEF AddItem, walk, doors, places, TypeOK, ShopsInv, Unborn, Shelved,
         ListedAre, Timed, Shut, Tended, Returning, ClosedLast, Hired, Inside
  <1>4. CASE OpenHired(s)
    <2>1. window'[Owner] = None /\ window[Owner] = s /\ kind[s] = "hired" /\ s \in onMap
      BY <1>4, OwnerStays DEF OpenHired, ShopsInv, ClosedLast, Hired, Inside
    <2>2. /\ listed' = listed \cup {s} /\ available' = available \cup {s}
          /\ UNCHANGED <<entering, kind, stock, shelf, till, timer, onMap, package, server>>
      BY <1>4 DEF OpenHired, entries
    <2>3. Unborn' /\ Tended' /\ ClosedLast'
      BY <2>1, <2>2 DEF ShopsInv, Unborn, Tended, ClosedLast, Hired, Inside
    <2>4. Shelved' /\ ListedAre' /\ Timed' /\ Shut' /\ Returning'
      BY <2>1, <2>2 DEF ShopsInv, Shelved, ListedAre, Timed, Shut, Returning, Hired
    <2> QED
      BY <2>3, <2>4 DEF ShopsInv
  <1>5. CASE OpenPersonal(s)
    BY <1>5
       DEF OpenPersonal, walk, entries, places, TypeOK, ShopsInv, Unborn, Shelved, ListedAre,
       Timed, Shut, Tended, Returning, ClosedLast, Hired, Inside
  <1>6. CASE OpenRefused(s)
    <2>1. CASE kind[s] = "hired" /\ CloseHired(s, FALSE) /\ UNCHANGED walk
      <3>1. s \notin listed
        BY <1>6 DEF OpenRefused, ShopsInv, ListedAre
      <3>2. window'[Owner] = window[Owner] /\ entering'[Owner] = entering[Owner]
        BY <2>1 DEF walk
      <3> QED
        BY <2>1, <3>1, <3>2, CloseHiredIs, CloseHiredShops DEF Hired
    <2>2. CASE kind[s] = "personal" /\ ClosePersonal(s, stock[s], inv) /\ UNCHANGED entering
      <3>1. stock[s] \in [Lots -> Nat] /\ \A l \in Lots : stock[s][l] <= stock[s][l]
        BY DEF TypeOK
      <3>2. window[Owner] = s
        BY <1>6 DEF OpenRefused
      <3> QED
        BY <2>2, <3>1, <3>2, ClosePersonalShops
    <2> QED
      BY <1>6, <2>1, <2>2 DEF OpenRefused
  <1>7. ASSUME ClearOut(s, {}), entering' = [entering EXCEPT ![Owner] = s],
               window[Owner] = None, kind[s] = "hired", s \in onMap,
               UNCHANGED <<kind, entries, till, available, places, package, server>>
        PROVE  ShopsInv'
    <2>1. window'[Owner] = None /\ entering'[Owner] = s
      BY <1>7, OwnerStays DEF TypeOK
    <2>2. Unborn' /\ Shelved' /\ Tended' /\ Returning' /\ ClosedLast'
      BY <1>7, <2>1 DEF entries, places, ShopsInv, Unborn, Shelved, Tended, Returning,
         ClosedLast, Hired, Inside
    <2>3. ListedAre' /\ Timed' /\ Shut'
      BY <1>7 DEF places, ShopsInv, ListedAre, Timed, Shut, Hired
    <2> QED
      BY <2>2, <2>3 DEF ShopsInv
  <1>8. CASE Maintain(s)
    BY <1>7, <1>8 DEF Maintain, Free
  <1>9. CASE OwlToOwn(s)
    BY <1>7, <1>9 DEF OwlToOwn, Free
  <1>10. CASE TakeOver(s)
    <2>1. window'[Owner] = s /\ entering'[Owner] = None /\ entering[Owner] = s
      BY <1>10 DEF TakeOver, TypeOK
    <2>2. window[Owner] = None
      BY <2>1 DEF SeatsInv, FromOutside
    <2>3. UNCHANGED <<kind, entries, till, doors, places, package, server>>
      BY <1>10 DEF TakeOver
    <2>4. Unborn' /\ Shelved'
      BY <2>1, <2>2, <2>3 DEF entries, doors, places, ShopsInv, Unborn, Shelved, Returning,
         Hired, Inside
    <2>6. Tended' /\ Returning' /\ ClosedLast'
      BY <2>1, <2>2, <2>3 DEF entries, places, TypeOK, ShopsInv, Tended, Returning,
         ClosedLast, Hired, Inside
    <2>5. ListedAre' /\ Timed' /\ Shut'
      BY <2>3 DEF doors, places, ShopsInv, ListedAre, Timed, Shut, Hired
    <2> QED
      BY <2>4, <2>5, <2>6 DEF ShopsInv
  <1>11. CASE MaintenanceOff(s)
    BY <1>11, OwnerStays, ShopsKept DEF MaintenanceOff, entries, places
  <1>12. CASE Organise(s)
    BY <1>12 DEF Organise, walk, doors, places, TypeOK, ShopsInv, Unborn, Shelved,
         ListedAre, Timed, Shut, Tended, Returning, ClosedLast, Hired, Inside
  <1>13. CASE CloseMerchant(s)
    <2>1. window'[Owner] = None /\ window[Owner] = s
      BY <1>13, OwnerStays DEF CloseMerchant
    <2> QED
      BY <1>13, <2>1, CloseHiredIs, CloseHiredShops DEF CloseMerchant, Hired
  <1>14. CASE OwnerExit(s)
    <2>1. CASE kind[s] = "personal" /\ ClosePersonal(s, stock[s], inv) /\ UNCHANGED entering
      <3>1. stock[s] \in [Lots -> Nat] /\ \A l \in Lots : stock[s][l] <= stock[s][l]
        BY DEF TypeOK
      <3>2. window[Owner] = s
        BY <1>14 DEF OwnerExit
      <3> QED
        BY <2>1, <3>1, <3>2, ClosePersonalShops
    <2>2. CASE /\ kind[s] = "hired"
               /\ Leave({Owner})
               /\ UNCHANGED <<entering, kind, entries, till, doors, places, package, server>>
      <3>1. window'[Owner] = None /\ window[Owner] = s
        BY <1>14, <2>2, OwnerStays DEF OwnerExit
      <3> QED
        BY <2>2, <3>1 DEF entries, doors, places, ShopsInv, Unborn, Shelved,
           ListedAre, Timed, Shut, Tended, Returning, ClosedLast, Hired, Inside
    <2> QED
      BY <1>14, <2>1, <2>2 DEF OwnerExit
  <1> QED
    BY <1>1, <1>2, <1>3, <1>4, <1>5, <1>6, <1>8, <1>9, <1>10, <1>11, <1>12, <1>13, <1>14
       DEF OwnerStep

LEMMA VisitorShops ==
  ASSUME TypeOK, SeatsInv, ShopsInv, GivenBack, NEW p \in Players, NEW s \in Shops,
         VisitorStep(p, s)
  PROVE  ShopsInv'
  <1> USE OwnerAssumption, NoneAssumption
  <1>1. CASE Visit(p, s)
    <2>1. UNCHANGED window /\ entering'[Owner] = entering[Owner]
      BY <1>1 DEF Visit, TypeOK
    <2> QED
      BY <1>1, <2>1, ShopsKept DEF Visit, entries, doors, places
  <1>2. CASE VisitorExit(p, s)
    <2>1. window'[Owner] = window[Owner]
      BY <1>2, OwnerStays DEF VisitorExit
    <2> QED
      BY <1>2, <2>1, ShopsKept DEF VisitorExit, entries, places
  <1>3. ASSUME NEW l \in Lots, NEW n, BuyHired(p, s, l, n) PROVE ShopsInv'
    <2>1. /\ s \in available /\ n \in Nat /\ stock[s][l] - n \in Nat /\ stock[s][l] > 0
      BY <1>3, PriceIsInt DEF BuyHired, MayBuy, SeatsInv, OpenedToVisitors, TypeOK
    <2>2. /\ stock' = [stock EXCEPT ![s][l] = @ - n]
          /\ \A t \in Shops \ {s} : till'[t] = till[t]
          /\ kind[s] = "hired"
          /\ UNCHANGED <<window, entering, kind, shelf, doors, places, server>>
      BY <1>3 DEF BuyHired, walk, TypeOK
    <2>3. package' # None
      <3>1. TypeOK'
        BY VisitorTypes
      <3>2. package' = [goods |-> stock'[s], meso |-> till'[s], by |-> s]
        BY <1>3 DEF BuyHired
      <3>3. package' \in Packages
        BY <3>1, <3>2 DEF TypeOK, Packages
      <3> QED
        BY <3>3
    <2>4. Unborn' /\ Shelved'
      BY <2>1, <2>2 DEF doors, places, TypeOK, ShopsInv, Unborn, Shelved, Inside
    <2>5. Returning'
      BY <2>1, <2>2 DEF places, TypeOK, ShopsInv, Returning, Hired
    <2> QED
      BY <2>2, <2>3, <2>4, <2>5 DEF doors, places, ShopsInv, ListedAre, Timed,
         Shut, Tended, ClosedLast, Hired, Inside
  <1>4. ASSUME NEW l \in Lots, NEW n, BuyPersonal(p, s, l, n) PROVE ShopsInv'
    <2> DEFINE left == [stock[s] EXCEPT ![l] = @ - n]
    <2>1. n \in Nat /\ stock[s][l] - n \in Nat /\ stock[s][l] > 0
      BY <1>4, PriceIsInt DEF BuyPersonal, MayBuy, TypeOK
    <2>2. left \in [Lots -> Nat] /\ \A k \in Lots : left[k] <= stock[s][k]
      BY <2>1 DEF TypeOK
    <2>3. kind[s] = "personal" /\ UNCHANGED entering
      BY <1>4 DEF BuyPersonal
    <2>4. ASSUME NEW bought, ClosePersonal(s, left, bought) PROVE ShopsInv'
      <3> HIDE DEF left
      <3>1. s \in onMap
        BY <2>1, <2>3 DEF GivenBack
      <3> QED
        BY <2>2, <2>3, <2>4, <3>1, ClosePersonalShops
    <2>5. CASE /\ stock' = [stock EXCEPT ![s] = left]
               /\ UNCHANGED <<window, kind, shelf, till, doors, places, package, server>>
      BY <2>1, <2>3, <2>5 DEF doors, places, TypeOK, ShopsInv, Unborn, Shelved, ListedAre,
         Timed, Shut, Tended, Returning, ClosedLast, Hired, Inside
    <2> QED
      BY <1>4, <2>4, <2>5 DEF BuyPersonal
  <1>5. CASE Sit(p, s)
    <2>1. window'[Owner] = window[Owner] /\ entering'[Owner] = entering[Owner]
      BY <1>5 DEF Sit, TypeOK
    <2> QED
      BY <1>5, <2>1, ShopsKept DEF Sit, entries, places
  <1> QED
    BY <1>1, <1>2, <1>3, <1>4, <1>5 DEF VisitorStep

LEMMA PlayerShops ==
  ASSUME TypeOK, SeatsInv, ShopsInv, NEW p \in Players, PlayerStep(p)
  PROVE  ShopsInv'
  <1> USE OwnerAssumption, NoneAssumption
  <1>1. ASSUME NEW l \in Lots, PickUp(p, l) \/ Drop(p, l) PROVE ShopsInv'
    BY <1>1, ShopsKept DEF PickUp, walk, Drop, entries, doors, places
  <1>2. ASSUME NEW final \in BOOLEAN, Disconnect(p, final), final => server = "closing"
        PROVE  ShopsInv'
    <2> DEFINE s == window[p]
    <2>0. entering'[Owner] = IF p = Owner THEN None ELSE entering[Owner]
      BY <1>2 DEF Disconnect, TypeOK
    <2>1. CASE p = Owner /\ s # None
      <3>1. s \in Shops /\ window[Owner] = s /\ entering'[Owner] = None
        BY <2>0, <2>1 DEF TypeOK
      <3>2. CASE /\ kind[s] = "hired"
                 /\ Leave({p})
                 /\ UNCHANGED <<kind, entries, till, available, places, package, server>>
        <4>1. window'[Owner] = None
          BY <2>1, <3>1, <3>2, OwnerStays
        <4> QED
          BY <3>1, <3>2, <4>1 DEF entries, places, ShopsInv, Unborn, Shelved, ListedAre,
             Timed, Shut, Tended, Returning, ClosedLast, Hired, Inside
      <3>3. CASE /\ kind[s] = "hired" /\ (s \notin available \/ final)
                 /\ CloseHired(s, ~final)
                 /\ Leave({p})
        <4>1. window'[Owner] = None
          BY <2>1, <3>1, <3>3, OwnerStays
        <4>2. final => s \notin listed
          BY <1>2, <3>1, <3>3 DEF ShopsInv, Shut, ListedAre, Hired
        <4>3. SavedAndClosed(s)
          BY <3>3, <4>2 DEF CloseHired, SavedAndClosed
        <4>4. Hired(s)
          BY <3>3 DEF Hired
        <4> QED
          BY <3>1, <4>1, <4>3, <4>4, CloseHiredShops
      <3>4. CASE kind[s] = "personal" /\ ClosePersonal(s, stock[s], inv)
        <4>1. stock[s] \in [Lots -> Nat] /\ \A l \in Lots : stock[s][l] <= stock[s][l]
          BY <3>1 DEF TypeOK
        <4> QED
          BY <3>1, <3>4, <4>1, ClosePersonalShops
      <3> QED
        BY <1>2, <2>1, <3>2, <3>3, <3>4 DEF Disconnect
    <2>2. CASE ~(p = Owner /\ s # None)
      <3>1. /\ Leave({p})
            /\ UNCHANGED <<kind, entries, till, available, places, package, server>>
        BY <1>2, <2>2 DEF Disconnect
      <3>2. window'[Owner] = window[Owner]
        BY <2>2, <3>1, OwnerAssumption DEF Leave, TypeOK
      <3>3. CASE p # Owner
        BY <2>0, <3>1, <3>2, <3>3, ShopsKept DEF entries, places
      <3>4. CASE p = Owner
        <4>1. window'[Owner] = None /\ entering'[Owner] = None
          BY <2>0, <2>2, <3>2, <3>4
        <4> QED
          BY <3>1, <4>1, <2>2, <3>4 DEF entries, places, ShopsInv, Unborn, Shelved, ListedAre,
             Timed, Shut, Tended, Returning, ClosedLast, Hired, Inside
      <3> QED
        BY <3>3, <3>4
    <2> QED
      BY <2>1, <2>2
  <1>3. ASSUME Disconnect(p, FALSE) PROVE ShopsInv'
    BY <1>2, <1>3
  <1>4. ASSUME server = "closing", Disconnect(p, TRUE) PROVE ShopsInv'
    BY <1>2, <1>4
  <1>5. CASE Reconnect(p)
    BY <1>5, ShopsKept DEF Reconnect, walk, entries, doors, places
  <1> QED
    BY <1>1, <1>3, <1>4, <1>5 DEF PlayerStep

LEMMA ServerShops ==
  ASSUME TypeOK, SeatsInv, ShopsInv, Collect \/ ToggleShops \/ CloseAllMerchants \/ Restart
  PROVE  ShopsInv'
  <1> USE OwnerAssumption, NoneAssumption
  <1>1. CASE Collect
    <2>1. /\ window[Owner] = None /\ entering[Owner] = None
          /\ UNCHANGED <<walk, kind, entries, till, doors, places, server>>
      BY <1>1 DEF Collect, Free
    <2> QED
      BY <2>1 DEF walk, entries, doors, places, ShopsInv, Unborn, Shelved, ListedAre,
         Timed, Shut, Tended, Returning, ClosedLast, Hired, Inside
  <1>2. CASE ToggleShops
    BY <1>2
       DEF ToggleShops, walk, entries, doors, places, ShopsInv, Unborn, Shelved, ListedAre,
       Timed, Shut, Tended, Returning, ClosedLast, Hired, Inside
  <1>3. CASE CloseAllMerchants
    <2> DEFINE closed == listed \cup {s \in onMap \ listed : kind[s] = "hired"}
    <2>1. closed = {s \in onMap : Hired(s)}
      BY DEF ShopsInv, ListedAre, TypeOK, Hired
    <2>2. /\ server' = "closing"
          /\ closed # {} => \E last \in closed : package' = Saved(last)
          /\ closed = {} => package' = package
          /\ stock' = [s \in Shops |-> IF s \in closed THEN Empty ELSE stock[s]]
          /\ shelf' = [s \in Shops |-> IF s \in closed THEN {} ELSE shelf[s]]
          /\ listed' = {}
          /\ timer' = timer \ closed
          /\ onMap' = onMap \ closed
          /\ UNCHANGED <<window, entering, kind, till, doors>>
      BY <1>3 DEF CloseAllMerchants, walk
    <2> HIDE DEF closed
    <2>3. closed \subseteq Shops
      BY <2>1 DEF TypeOK
    <2>4. closed # {} => package' # None
      BY <2>2, <2>3, SavedType
    <2>5. Unborn' /\ Shelved'
      BY <2>1, <2>2, <2>3 DEF Empty, doors, ShopsInv, Unborn, Shelved, Hired, Inside
    <2>6. ListedAre' /\ Timed' /\ Shut'
      BY <2>1, <2>2 DEF ShopsInv, Timed, ListedAre, Shut, Hired
    <2>7. Tended' /\ Returning' /\ ClosedLast'
      BY <2>1, <2>2, <2>4
         DEF Empty, doors, ShopsInv, Tended, Returning, ClosedLast, Hired, Inside
    <2> QED
      BY <2>5, <2>6, <2>7 DEF ShopsInv
  <1>4. CASE Restart
    <2>1. window'[Owner] = None /\ entering'[Owner] = None
      BY <1>4 DEF Restart, walk, SeatsInv, OfflineSeatless
    <2>2. listed = {}
      BY <1>4 DEF Restart, ShopsInv, Shut, ListedAre, TypeOK
    <2>3. /\ server' = "up" /\ listed' = {} /\ onMap' = {} /\ timer' = {} /\ available' = {}
          /\ \A s \in Shops : /\ kind'[s] = "none" /\ till'[s] = 0
                              /\ \A l \in Lots : stock'[s][l] = 0
      BY <1>4, <2>2 DEF Restart, Empty
    <2> QED
      BY <2>1, <2>3 DEF ShopsInv, Unborn, Shelved, ListedAre,
         Timed, Shut, Tended, Returning, ClosedLast, Hired, Inside
  <1> QED
    BY <1>1, <1>2, <1>3, <1>4

LEMMA ShopsStep ==
  ASSUME TypeOK, SeatsInv, ShopsInv, GivenBack, [Next]_vars
  PROVE  ShopsInv'
  <1> USE NoneAssumption
  <1>1. ASSUME NEW s \in Shops, Kick(s) PROVE ShopsInv'
    BY <1>1, OwnerStays, ShopsKept DEF Kick, entries, places
  <1>2. ASSUME NEW s \in Shops, TimerExpires(s) PROVE ShopsInv'
    <2>1. SavedAndClosed(s) /\ Hired(s) /\ entering'[Owner] = entering[Owner]
      BY <1>2, CloseHiredIs DEF TimerExpires, ShopsInv, Timed
    <2>2. window'[Owner] = window[Owner] \/ (window[Owner] = s /\ window'[Owner] = None)
      BY <1>2, TimerSendsOut
    <2> QED
      BY <2>1, <2>2, CloseHiredShops
  <1>3. CASE UNCHANGED vars
    BY <1>3, ShopsKept DEF vars
  <1> QED
    BY <1>1, <1>2, <1>3, OwnerShops, VisitorShops, PlayerShops, ServerShops DEF Next

\* At the start there is no shop.
LEMMA InitShops == Init => ShopsInv
  BY OwnerAssumption, NoneAssumption DEF Init, Empty, ShopsInv, Unborn, Shelved, ListedAre,
     Timed, Shut, Tended, Returning, ClosedLast, Hired, Inside

-----------------------------------------------------------------------------
(* Room for what a personal shop gives back *)

\* An inventory keeps within its slots and holds one restricted item at most.
Roomy(hold) ==
    /\ Cardinality(Carried(hold)) <= Slots
    /\ \A k, l \in Restricted : hold[k] > 0 /\ hold[l] > 0 => k = l
    /\ \A l \in Restricted : hold[l] <= 1

\* What the owner has when his personal shop has given everything back
InPersonalShop == window[Owner] \in Shops /\ kind[window[Owner]] = "personal"
OwnersGoods ==
    [l \in Lots |-> inv[Owner][l] + IF InPersonalShop THEN stock[window[Owner]][l] ELSE 0]

RoomLeft == Roomy(OwnersGoods)

\* No shop and no package holds two bundles of a restricted lot.
Singles ==
    \A l \in Restricted : /\ \A s \in Shops : stock[s][l] <= 1
                          /\ package # None => package.goods[l] <= 1

\* What somebody carries is finite, as the kinds of goods are.
LEMMA CarriedFinite ==
  ASSUME NEW hold
  PROVE  Carried(hold) \subseteq Lots /\ IsFiniteSet(Carried(hold))
  <1>1. Carried(hold) \subseteq Lots
    BY DEF Carried
  <1> QED
    BY <1>1, LotAssumption, FS_Subset

\* Who carries less has room.
LEMMA RoomyLess ==
  ASSUME NEW hold \in [Lots -> Nat], NEW less \in [Lots -> Nat], Roomy(hold),
         \A l \in Lots : less[l] <= hold[l]
  PROVE  Roomy(less)
  <1>1. Carried(less) \subseteq Carried(hold)
    BY DEF Carried
  <1>2. Cardinality(Carried(less)) <= Cardinality(Carried(hold))
    BY <1>1, CarriedFinite, FS_Subset
  <1>3. Cardinality(Carried(less)) \in Nat /\ Cardinality(Carried(hold)) \in Nat
    BY CarriedFinite, FS_CardinalityType
  <1>4. \A l \in Restricted : l \in Lots
    BY LotAssumption
  <1> QED
    BY <1>2, <1>3, <1>4, BoundAssumption DEF Roomy

\* A lot that fits leaves the inventory within its slots.
LEMMA RoomyMore ==
  ASSUME NEW hold \in [Lots -> Nat], NEW more \in [Lots -> Nat], Roomy(hold),
         NEW l \in Lots, Fits(hold, l), l \in Restricted => more[l] <= 1,
         \A k \in Lots \ {l} : more[k] = hold[k]
  PROVE  Roomy(more)
  <1>1. Cardinality(Carried(more)) <= Slots
    <2>1. Carried(more) \subseteq Carried(hold) \cup {l}
      BY DEF Carried
    <2>2. IsFiniteSet(Carried(hold)) /\ IsFiniteSet(Carried(hold) \cup {l})
      BY CarriedFinite, FS_AddElement
    <2>3. Cardinality(Carried(more)) <= Cardinality(Carried(hold) \cup {l})
      BY <2>1, <2>2, FS_Subset
    <2>4. Cardinality(Carried(hold) \cup {l}) <= Slots
      <3>1. CASE l \in Carried(hold)
        <4>1. Carried(hold) \cup {l} = Carried(hold)
          BY <3>1
        <4> QED
          BY <4>1 DEF Roomy
      <3>2. CASE l \notin Carried(hold)
        <4>1. Cardinality(Carried(hold) \cup {l}) = Cardinality(Carried(hold)) + 1
          BY <2>2, <3>2, FS_AddElement
        <4>2. Cardinality(Carried(hold)) < Slots
          BY <3>2 DEF Fits, FreeSlot, Carried
        <4>3. Cardinality(Carried(hold)) \in Nat
          BY <2>2, FS_CardinalityType
        <4> QED
          BY <4>1, <4>2, <4>3, BoundAssumption
      <3> QED
        BY <3>1, <3>2
    <2>5. /\ Cardinality(Carried(more)) \in Nat
          /\ Cardinality(Carried(hold) \cup {l}) \in Nat
      BY <2>2, CarriedFinite, FS_CardinalityType
    <2> QED
      BY <2>3, <2>4, <2>5, BoundAssumption
  <1>2. l \in Restricted => \A k \in Restricted : hold[k] = 0
    BY LotAssumption DEF Fits, Carried
  <1>3. \A k \in Restricted : k \in Lots
    BY LotAssumption
  <1> QED
    BY <1>1, <1>2, <1>3 DEF Roomy

\* A personal shop finds room for all it has left.
LEMMA AllGivenBack ==
  ASSUME TypeOK, NEW s \in Shops, NEW left \in [Lots -> Nat],
         NEW invs \in [Players -> [Lots -> Nat]], ClosePersonal(s, left, invs),
         NEW all \in [Lots -> Nat], \A l \in Lots : all[l] = invs[Owner][l] + left[l],
         Roomy(all)
  PROVE  /\ inv' = [invs EXCEPT ![Owner] = all]
         /\ stock' = [stock EXCEPT ![s] = Empty]
  <1> DEFINE rest(back) == Carried(left) \ back
             hold(back) == With(invs[Owner], left, back)
  <1>1. PICK back \in SUBSET Carried(left) :
           /\ rest(back) = {} \/ \E l \in rest(back) : ~Fits(hold(back), l)
           /\ stock' = [stock EXCEPT ![s] = With(Empty, left, rest(back))]
           /\ inv' = [invs EXCEPT ![Owner] = hold(back)]
    BY DEF ClosePersonal
  <1>2. invs[Owner] \in [Lots -> Nat]
    BY OwnerAssumption
  <1>3. /\ hold(back) \in [Lots -> Nat]
        /\ \A l \in Lots : hold(back)[l] = invs[Owner][l] + IF l \in back THEN left[l] ELSE 0
    BY <1>2 DEF With
  <1> HIDE DEF hold
  <1>4. ASSUME NEW l \in rest(back)
        PROVE  Fits(hold(back), l)
    <2>1. l \in Lots /\ left[l] > 0 /\ l \notin back /\ hold(back)[l] = invs[Owner][l]
      BY <1>3, <1>2 DEF Carried
    <2>2. \A k \in Lots : hold(back)[k] <= all[k]
      BY <1>2, <1>3
    <2>3. Roomy(hold(back))
      BY <1>3, <2>2, RoomyLess
    <2>4. hold(back)[l] > 0 \/ FreeSlot(hold(back))
      <3> SUFFICES ASSUME hold(back)[l] = 0 PROVE FreeSlot(hold(back))
        BY <1>3, <2>1
      <3>1. l \notin Carried(hold(back)) /\ Carried(hold(back)) \cup {l} \subseteq Carried(all)
        BY <1>2, <1>3, <2>1, <2>2 DEF Carried
      <3>2. Cardinality(Carried(hold(back)) \cup {l}) = Cardinality(Carried(hold(back))) + 1
        BY <3>1, CarriedFinite, FS_AddElement
      <3>3. Cardinality(Carried(hold(back)) \cup {l}) <= Cardinality(Carried(all))
        BY <3>1, CarriedFinite, FS_Subset
      <3>4. Cardinality(Carried(hold(back))) \in Nat /\ Cardinality(Carried(all)) \in Nat
        BY CarriedFinite, FS_CardinalityType
      <3>5. Cardinality(Carried(all)) <= Slots
        BY DEF Roomy
      <3> QED
        BY <3>2, <3>3, <3>4, <3>5, BoundAssumption DEF FreeSlot
    <2>5. ASSUME l \in Restricted, NEW k \in Carried(hold(back)) \cap Restricted
          PROVE  FALSE
      <3>1. k \in Lots /\ hold(back)[k] > 0 /\ all[k] > 0
        BY <1>3, <2>2, <2>5 DEF Carried
      <3>2. all[l] > 0
        BY <1>2, <2>1
      <3>3. k = l
        BY <2>5, <3>1, <3>2 DEF Roomy
      <3>4. invs[Owner][l] > 0 /\ all[l] >= 2
        BY <1>2, <2>1, <3>1, <3>3
      <3> QED
        BY <2>1, <2>5, <3>4 DEF Roomy
    <2> QED
      BY <2>4, <2>5 DEF Fits
  <1>5. rest(back) = {} /\ Carried(left) = back
    BY <1>1, <1>4
  <1>6. hold(back) = all
    <2>1. \A l \in Lots : hold(back)[l] = all[l]
      BY <1>2, <1>3, <1>5 DEF Carried
    <2> QED
      BY <1>3, <2>1
  <1>7. With(Empty, left, {}) = Empty
    BY DEF With, Empty
  <1> QED
    BY <1>1, <1>5, <1>6, <1>7

\* The invariant about room
RoomInv == RoomLeft /\ Singles

\* What the owner has, before a step and after it.
LEMMA OwnersGoodsIs ==
  ASSUME TypeOK
  PROVE  /\ OwnersGoods \in [Lots -> Nat]
         /\ InPersonalShop =>
               \A l \in Lots : OwnersGoods[l] = inv[Owner][l] + stock[window[Owner]][l]
         /\ ~InPersonalShop => \A l \in Lots : OwnersGoods[l] = inv[Owner][l]
  BY OwnerAssumption DEF TypeOK, OwnersGoods, InPersonalShop

LEMMA OwnersGoodsIsNext ==
  ASSUME TypeOK'
  PROVE  /\ OwnersGoods' \in [Lots -> Nat]
         /\ InPersonalShop' =>
               \A l \in Lots : OwnersGoods'[l] = inv'[Owner][l] + stock'[window'[Owner]][l]
         /\ ~InPersonalShop' => \A l \in Lots : OwnersGoods'[l] = inv'[Owner][l]
  BY OwnerAssumption DEF TypeOK, OwnersGoods, InPersonalShop

\* The owner's goods grow by nothing: what is left is room enough.
LEMMA RoomKept ==
  ASSUME TypeOK, TypeOK', RoomLeft, \A l \in Lots : OwnersGoods'[l] <= OwnersGoods[l]
  PROVE  RoomLeft'
  BY OwnersGoodsIs, OwnersGoodsIsNext, RoomyLess DEF RoomLeft

\* The same where the owner's shop, if it is a personal one, stays his window.
LEMMA RoomKeptHere ==
  ASSUME TypeOK, TypeOK', RoomLeft, window'[Owner] = window[Owner], kind' = kind,
         \A l \in Lots : inv'[Owner][l] <= inv[Owner][l],
         \A s \in Shops, l \in Lots : stock'[s][l] <= stock[s][l]
  PROVE  RoomLeft'
  <1>1. InPersonalShop' <=> InPersonalShop
    BY DEF InPersonalShop
  <1>2. /\ \A l \in Lots : inv'[Owner][l] \in Nat /\ inv[Owner][l] \in Nat
        /\ \A s \in Shops, l \in Lots : stock'[s][l] \in Nat /\ stock[s][l] \in Nat
    BY OwnerAssumption DEF TypeOK
  <1>3. \A l \in Lots : OwnersGoods'[l] <= OwnersGoods[l]
    <2>1. CASE InPersonalShop
      <3>1. window[Owner] \in Shops
        BY <2>1 DEF InPersonalShop
      <3> QED
        BY <1>1, <1>2, <2>1, <3>1, OwnersGoodsIs, OwnersGoodsIsNext
    <2>2. CASE ~InPersonalShop
      BY <1>1, <1>2, <2>2, OwnersGoodsIs, OwnersGoodsIsNext
    <2> QED
      BY <2>1, <2>2
  <1> QED
    BY <1>3, RoomKept

\* The same where he is in no personal shop afterwards.
LEMMA RoomKeptOutside ==
  ASSUME TypeOK, TypeOK', RoomLeft, ~InPersonalShop',
         \A l \in Lots : inv'[Owner][l] <= OwnersGoods[l]
  PROVE  RoomLeft'
  BY RoomKept, OwnersGoodsIsNext

\* What the owner has without his shop
LEMMA RoomInHand ==
  ASSUME TypeOK
  PROVE  /\ inv[Owner] \in [Lots -> Nat]
         /\ \A l \in Lots : inv[Owner][l] <= OwnersGoods[l]
         /\ RoomLeft => Roomy(inv[Owner])
  <1>1. inv[Owner] \in [Lots -> Nat]
    BY OwnerAssumption DEF TypeOK
  <1>2. \A l \in Lots : inv[Owner][l] <= OwnersGoods[l]
    <2>1. CASE InPersonalShop
      <3>1. \A l \in Lots : stock[window[Owner]][l] \in Nat
        BY <2>1 DEF InPersonalShop, TypeOK
      <3> QED
        BY <1>1, <2>1, <3>1, OwnersGoodsIs
    <2>2. CASE ~InPersonalShop
      BY <1>1, <2>2, OwnersGoodsIs
    <2> QED
      BY <2>1, <2>2
  <1> QED
    BY <1>1, <1>2, OwnersGoodsIs, RoomyLess DEF RoomLeft

\* closeShop of a personal shop, whoever calls it: the goods go back.
LEMMA ClosedUp ==
  ASSUME TypeOK, SeatsInv, RoomLeft, NEW s \in Shops,
         kind[s] = "personal", window[Owner] = s,
         NEW left \in [Lots -> Nat], \A l \in Lots : left[l] <= stock[s][l],
         NEW invs \in [Players -> [Lots -> Nat]], invs[Owner] = inv[Owner],
         ClosePersonal(s, left, invs)
  PROVE  /\ \A l \in Lots : inv'[Owner][l] = inv[Owner][l] + left[l]
         /\ \A p \in Players \ {Owner} : inv'[p] = invs[p]
         /\ stock' = [stock EXCEPT ![s] = Empty]
         /\ window'[Owner] = None
  <1> DEFINE all == [l \in Lots |-> inv[Owner][l] + left[l]]
  <1>1. inv[Owner] \in [Lots -> Nat] /\ stock[s] \in [Lots -> Nat]
    BY OwnerAssumption DEF TypeOK
  <1>2. all \in [Lots -> Nat] /\ \A l \in Lots : all[l] = invs[Owner][l] + left[l]
    BY <1>1
  <1>3. \A l \in Lots : all[l] <= OwnersGoods[l]
    BY <1>1, OwnersGoodsIs DEF InPersonalShop
  <1> HIDE DEF all
  <1>4. Roomy(all)
    BY <1>2, <1>3, OwnersGoodsIs, RoomyLess DEF RoomLeft
  <1>5. /\ inv' = [invs EXCEPT ![Owner] = all]
        /\ stock' = [stock EXCEPT ![s] = Empty]
    BY <1>2, <1>4, AllGivenBack
  <1>6. window'[Owner] = None
    BY OwnerStays DEF ClosePersonal
  <1> QED
    BY <1>2, <1>5, <1>6, OwnerAssumption

\* closeShop of a personal shop: what was in it is in the inventory.
LEMMA ClosePersonalRoom ==
  ASSUME TypeOK, TypeOK', SeatsInv, RoomInv, NEW s \in Shops,
         kind[s] = "personal", window[Owner] = s,
         NEW left \in [Lots -> Nat], \A l \in Lots : left[l] <= stock[s][l],
         NEW invs \in [Players -> [Lots -> Nat]], invs[Owner] = inv[Owner],
         ClosePersonal(s, left, invs)
  PROVE  RoomInv'
  <1>1. /\ \A l \in Lots : inv'[Owner][l] = inv[Owner][l] + left[l]
        /\ stock' = [stock EXCEPT ![s] = Empty]
        /\ window'[Owner] = None
    BY ClosedUp DEF RoomInv
  <1>2. \A l \in Lots : inv[Owner][l] \in Nat /\ stock[s][l] \in Nat
    BY OwnerAssumption DEF TypeOK
  <1>3. \A l \in Lots : inv'[Owner][l] <= OwnersGoods[l]
    BY <1>1, <1>2, OwnersGoodsIs DEF InPersonalShop
  <1>4. RoomLeft'
    BY <1>1, <1>3, NoneAssumption, RoomKeptOutside DEF RoomInv, InPersonalShop
  <1>5. Singles'
    <2>1. package' = package
      BY DEF ClosePersonal
    <2>2. \A l \in Restricted : l \in Lots
      BY LotAssumption
    <2>3. \A t \in Shops, l \in Lots : stock'[t][l] = IF t = s THEN 0 ELSE stock[t][l]
      BY <1>1 DEF Empty, TypeOK
    <2> QED
      BY <2>1, <2>2, <2>3 DEF RoomInv, Singles
  <1> QED
    BY <1>4, <1>5 DEF RoomInv

\* closeShop of a merchant, in which the owner loses sight of goods.
LEMMA CloseHiredRoom ==
  ASSUME TypeOK, TypeOK', RoomInv, NEW s \in Shops, Hired(s), SavedAndClosed(s),
         window'[Owner] = window[Owner] \/ (window[Owner] = s /\ window'[Owner] = None)
  PROVE  RoomInv'
  <1>1. /\ inv' = inv /\ kind' = kind
        /\ stock' = [stock EXCEPT ![s] = Empty]
        /\ package' = Saved(s)
    BY DEF SavedAndClosed, goods
  <1>0. stock \in [Shops -> [Lots -> Nat]]
    BY DEF TypeOK
  <1>2. \A t \in Shops, l \in Lots : stock'[t][l] = IF t = s THEN 0 ELSE stock[t][l]
    BY <1>0, <1>1 DEF Empty
  <1>3. \A t \in Shops, l \in Lots : stock'[t][l] <= stock[t][l]
    <2>1. \A t \in Shops, l \in Lots : stock[t][l] \in Nat
      BY <1>0
    <2> QED
      BY <1>2, <2>1
  <1>4. Singles'
    <2>1. \A l \in Restricted : l \in Lots
      BY LotAssumption
    <2> QED
      BY <1>1, <1>2, <2>1 DEF RoomInv, Singles, Saved
  <1>5. inv[Owner] \in [Lots -> Nat]
    BY OwnerAssumption DEF TypeOK
  <1>6. CASE window'[Owner] = window[Owner]
    <2>1. RoomLeft'
      BY <1>1, <1>3, <1>5, <1>6, RoomKeptHere DEF RoomInv
    <2> QED
      BY <1>4, <2>1 DEF RoomInv
  <1>7. CASE window[Owner] = s /\ window'[Owner] = None
    <2>1. RoomLeft'
      BY <1>1, <1>7, RoomInHand, NoneAssumption, RoomKeptOutside DEF RoomInv, InPersonalShop
    <2> QED
      BY <1>4, <2>1 DEF RoomInv
  <1> QED
    BY <1>6, <1>7

\* Goods and shops as they were
LEMMA SameRoom ==
  ASSUME TypeOK, TypeOK', RoomInv, UNCHANGED <<stock, package>>,
         inv'[Owner] = inv[Owner],
         \/ window'[Owner] = window[Owner] /\ kind' = kind
         \/ ~InPersonalShop'
  PROVE  RoomInv'
  <1>1. Singles'
    BY DEF RoomInv, Singles
  <1>2. /\ \A l \in Lots : inv'[Owner][l] <= inv[Owner][l]
        /\ \A s \in Shops, l \in Lots : stock'[s][l] <= stock[s][l]
    BY OwnerAssumption DEF TypeOK
  <1>3. CASE window'[Owner] = window[Owner] /\ kind' = kind
    BY <1>1, <1>2, <1>3, RoomKeptHere DEF RoomInv
  <1>4. CASE ~InPersonalShop'
    BY <1>1, <1>2, <1>4, RoomInHand, RoomKeptOutside DEF RoomInv
  <1> QED
    BY <1>3, <1>4

\* The owner moves goods between his shop and his inventory.
LEMMA OwnerRoom ==
  ASSUME TypeOK, TypeOK', SeatsInv, ShopsInv, RoomInv, NEW s \in Shops, OwnerStep(s)
  PROVE  RoomInv'
  <1> USE OwnerAssumption, NoneAssumption
  <1>a. /\ inv[Owner] \in [Lots -> Nat]
        /\ \A t \in Shops : stock[t] \in [Lots -> Nat]
        /\ \A l \in Restricted : l \in Lots
    BY LotAssumption DEF TypeOK
  <1>b. inv'[Owner] \in [Lots -> Nat]
    BY DEF TypeOK
  <1>1. ASSUME NEW k \in {"hired", "personal"}, Create(s, k) PROVE RoomInv'
    <2>1. /\ window'[Owner] = s /\ \A l \in Lots : stock[s][l] = 0
          /\ UNCHANGED <<inv, stock, package>>
      BY <1>1 DEF Create, goods, entries, TypeOK, ShopsInv, Unborn
    <2>2. \A l \in Lots : OwnersGoods'[l] <= OwnersGoods[l]
      <3>1. \A l \in Lots : OwnersGoods'[l] = inv[Owner][l]
        <4>1. CASE InPersonalShop'
          BY <1>a, <2>1, <4>1, OwnersGoodsIsNext
        <4>2. CASE ~InPersonalShop'
          BY <2>1, <4>2, OwnersGoodsIsNext
        <4> QED
          BY <4>1, <4>2
      <3> QED
        BY <3>1, RoomInHand
    <2> QED
      BY <2>1, <2>2, RoomKept DEF RoomInv, Singles
  <1>2. ASSUME NEW l \in Lots, RemoveItem(s, l) PROVE RoomInv'
    <2>1. /\ window[Owner] = s /\ window' = window /\ kind' = kind /\ package' = package
          /\ Fits(inv[Owner], l)
          /\ inv'[Owner] = Plus(inv[Owner], l, stock[s][l])
          /\ stock' = [stock EXCEPT ![s][l] = 0]
      BY <1>2 DEF RemoveItem, walk, TypeOK
    <2>2. /\ stock'[s][l] = 0
          /\ \A t \in Shops, k \in Lots : t # s \/ k # l => stock'[t][k] = stock[t][k]
      BY <1>a, <2>1 DEF TypeOK
    <2>3. /\ inv'[Owner][l] = inv[Owner][l] + stock[s][l]
          /\ \A k \in Lots \ {l} : inv'[Owner][k] = inv[Owner][k]
      BY <1>a, <2>1 DEF Plus
    <2>4. RoomLeft'
      <3>1. CASE InPersonalShop
        <4>1. InPersonalShop'
          BY <2>1, <3>1 DEF InPersonalShop
        <4>2. \A k \in Lots : OwnersGoods'[k] <= OwnersGoods[k]
          BY <1>a, <2>1, <2>2, <2>3, <3>1, <4>1, OwnersGoodsIs, OwnersGoodsIsNext
        <4> QED
          BY <4>2, RoomKept DEF RoomInv
      <3>2. CASE ~InPersonalShop
        <4>1. ~InPersonalShop'
          BY <2>1, <3>2 DEF InPersonalShop
        <4>2. /\ OwnersGoods' \in [Lots -> Nat]
              /\ \A k \in Lots : OwnersGoods'[k] = inv'[Owner][k]
          BY <4>1, OwnersGoodsIsNext
        <4>3. Roomy(inv[Owner])
          BY RoomInHand DEF RoomInv
        <4>4. l \in Restricted => OwnersGoods'[l] <= 1
          <5> SUFFICES ASSUME l \in Restricted PROVE OwnersGoods'[l] <= 1
            OBVIOUS
          <5>1. inv[Owner][l] = 0
            BY <1>a, <2>1 DEF Fits, Carried
          <5>2. stock[s][l] <= 1
            BY DEF RoomInv, Singles
          <5> QED
            BY <1>a, <2>3, <4>2, <5>1, <5>2
        <4>5. \A k \in Lots \ {l} : OwnersGoods'[k] = inv[Owner][k]
          BY <2>3, <4>2
        <4>6. Roomy(OwnersGoods')
          BY <1>a, <2>1, <4>2, <4>3, <4>4, <4>5, RoomyMore
        <4> QED
          BY <4>6 DEF RoomLeft
      <3> QED
        BY <3>1, <3>2
    <2>5. Singles'
      BY <1>a, <2>1, <2>2 DEF RoomInv, Singles
    <2> QED
      BY <2>4, <2>5 DEF RoomInv
  <1>3. ASSUME NEW l \in Lots, NEW n, AddItem(s, l, n) PROVE RoomInv'
    <2>1. /\ window[Owner] = s /\ window' = window /\ kind' = kind /\ package' = package
          /\ l \notin shelf[s] /\ n \in 1..inv[Owner][l]
          /\ inv' = [inv EXCEPT ![Owner][l] = @ - n]
          /\ stock' = [stock EXCEPT ![s][l] = n]
      BY <1>3 DEF AddItem, walk
    <2>2. n \in Nat /\ inv[Owner][l] - n \in Nat /\ stock[s][l] = 0
      BY <1>a, <2>1 DEF ShopsInv, Shelved
    <2>3. /\ stock'[s][l] = n
          /\ \A t \in Shops, k \in Lots : t # s \/ k # l => stock'[t][k] = stock[t][k]
      BY <1>a, <2>1 DEF TypeOK
    <2>4. /\ inv'[Owner][l] = inv[Owner][l] - n
          /\ \A k \in Lots \ {l} : inv'[Owner][k] = inv[Owner][k]
      BY <1>a, <2>1 DEF TypeOK
    <2>5. RoomLeft'
      <3>1. CASE InPersonalShop
        <4>1. InPersonalShop'
          BY <2>1, <3>1 DEF InPersonalShop
        <4>2. \A k \in Lots : OwnersGoods'[k] <= OwnersGoods[k]
          <5>1. \A k \in Lots : /\ OwnersGoods[k] = inv[Owner][k] + stock[s][k]
                                /\ OwnersGoods'[k] = inv'[Owner][k] + stock'[s][k]
            BY <2>1, <3>1, <4>1, OwnersGoodsIs, OwnersGoodsIsNext
          <5>2. OwnersGoods'[l] <= OwnersGoods[l]
            BY <1>a, <2>2, <2>3, <2>4, <5>1
          <5>3. \A k \in Lots \ {l} : OwnersGoods'[k] <= OwnersGoods[k]
            BY <1>a, <2>3, <2>4, <5>1
          <5> QED
            BY <5>2, <5>3
        <4> QED
          BY <4>2, RoomKept DEF RoomInv
      <3>2. CASE ~InPersonalShop
        <4>1. ~InPersonalShop'
          BY <2>1, <3>2 DEF InPersonalShop
        <4>2. \A k \in Lots : inv'[Owner][k] <= OwnersGoods[k]
          BY <1>a, <2>2, <2>4, <3>2, OwnersGoodsIs
        <4> QED
          BY <4>1, <4>2, RoomKeptOutside DEF RoomInv
      <3> QED
        BY <3>1, <3>2
    <2>6. Singles'
      <3>1. l \in Restricted => n <= 1
        <4>1. l \in Restricted => inv[Owner][l] <= 1
          BY RoomInHand DEF RoomInv, Roomy
        <4> QED
          BY <1>a, <2>1, <2>2, <4>1
      <3> QED
        BY <1>a, <2>1, <2>3, <3>1 DEF RoomInv, Singles
    <2> QED
      BY <2>5, <2>6 DEF RoomInv
  <1>4. CASE OpenHired(s)
    <2>1. window'[Owner] = None
      BY <1>4, OwnerStays DEF OpenHired
    <2> QED
      BY <1>4, <2>1, SameRoom DEF OpenHired, goods, entries, InPersonalShop
  <1>5. CASE OpenPersonal(s)
    BY <1>5, SameRoom DEF OpenPersonal, walk, goods, entries
  <1>6. CASE OpenRefused(s)
    <2>1. CASE kind[s] = "hired" /\ CloseHired(s, FALSE) /\ UNCHANGED walk
      <3>1. s \notin listed
        BY <1>6 DEF OpenRefused, ShopsInv, ListedAre
      <3> QED
        BY <2>1, <3>1, CloseHiredIs, CloseHiredRoom DEF walk, Hired
    <2>2. CASE kind[s] = "personal" /\ ClosePersonal(s, stock[s], inv)
      <3>1. stock[s] \in [Lots -> Nat] /\ \A l \in Lots : stock[s][l] <= stock[s][l]
        BY DEF TypeOK
      <3>2. window[Owner] = s
        BY <1>6 DEF OpenRefused
      <3>3. inv \in [Players -> [Lots -> Nat]]
        BY DEF TypeOK
      <3> QED
        BY <2>2, <3>1, <3>2, <3>3, ClosePersonalRoom
    <2> QED
      BY <1>6, <2>1, <2>2 DEF OpenRefused
  <1>7. CASE Maintain(s)
    BY <1>7, OwnerStays, SameRoom DEF Maintain, goods, entries
  <1>8. CASE OwlToOwn(s)
    BY <1>8, OwnerStays, SameRoom DEF OwlToOwn, goods, entries
  <1>9. CASE TakeOver(s)
    <2>1. window'[Owner] = s /\ entering[Owner] = s /\ kind' = kind
      BY <1>9 DEF TakeOver, TypeOK
    <2>2. ~InPersonalShop'
      BY <2>1 DEF InPersonalShop, ShopsInv, Returning, Hired
    <2> QED
      BY <1>9, <2>2, SameRoom DEF TakeOver, goods, entries
  <1>10. CASE MaintenanceOff(s)
    BY <1>10, OwnerStays, SameRoom DEF MaintenanceOff, goods, entries
  <1>11. CASE Organise(s)
    BY <1>11, SameRoom DEF Organise, walk, goods
  <1>12. CASE CloseMerchant(s)
    BY <1>12, OwnerStays, CloseHiredIs, CloseHiredRoom DEF CloseMerchant, Hired
  <1>13. CASE OwnerExit(s)
    <2>1. CASE kind[s] = "personal" /\ ClosePersonal(s, stock[s], inv)
      <3>1. stock[s] \in [Lots -> Nat] /\ \A l \in Lots : stock[s][l] <= stock[s][l]
        BY DEF TypeOK
      <3>2. window[Owner] = s
        BY <1>13 DEF OwnerExit
      <3>3. inv \in [Players -> [Lots -> Nat]]
        BY DEF TypeOK
      <3> QED
        BY <2>1, <3>1, <3>2, <3>3, ClosePersonalRoom
    <2>2. CASE Leave({Owner}) /\ UNCHANGED <<goods, kind, entries, package>>
      <3>1. window'[Owner] = None
        BY <2>2, OwnerStays
      <3> QED
        BY <2>2, <3>1, SameRoom DEF goods, entries, InPersonalShop
    <2> QED
      BY <1>13, <2>1, <2>2 DEF OwnerExit
  <1> QED
    BY <1>1, <1>2, <1>3, <1>4, <1>5, <1>6, <1>7, <1>8, <1>9, <1>10, <1>11, <1>12, <1>13
       DEF OwnerStep

\* A visitor takes goods out of the shop and brings none.
LEMMA VisitorRoom ==
  ASSUME TypeOK, TypeOK', SeatsInv, ShopsInv, GivenBack, RoomInv, NEW p \in Players,
         NEW s \in Shops, VisitorStep(p, s)
  PROVE  RoomInv'
  <1> USE OwnerAssumption, NoneAssumption
  <1>a. /\ inv[Owner] \in [Lots -> Nat]
        /\ \A t \in Shops : stock[t] \in [Lots -> Nat]
        /\ \A l \in Restricted : l \in Lots
    BY LotAssumption DEF TypeOK
  <1>1. CASE Visit(p, s)
    BY <1>1, SameRoom DEF Visit, goods, entries
  <1>2. CASE VisitorExit(p, s)
    BY <1>2, OwnerStays, SameRoom DEF VisitorExit, goods, entries
  <1>3. ASSUME NEW l \in Lots, NEW n, BuyHired(p, s, l, n) PROVE RoomInv'
    <2>1. n \in Nat /\ stock[s][l] - n \in Nat
      BY <1>3, PriceIsInt DEF BuyHired
    <2>2. /\ p # Owner
          /\ inv' = [inv EXCEPT ![p] = Plus(@, l, n)]
          /\ stock' = [stock EXCEPT ![s][l] = @ - n]
          /\ package' = [goods |-> stock'[s], meso |-> till'[s], by |-> s]
          /\ UNCHANGED <<window, kind>>
      BY <1>3 DEF BuyHired, walk, MayBuy
    <2>3. \A t \in Shops, k \in Lots : stock'[t][k] <= stock[t][k]
      BY <1>a, <2>1, <2>2 DEF TypeOK
    <2>4. inv'[Owner] = inv[Owner]
      BY <2>2 DEF TypeOK
    <2>5. RoomLeft'
      BY <1>a, <2>2, <2>3, <2>4, RoomKeptHere DEF RoomInv
    <2>6. Singles'
      <3>1. \A t \in Shops, k \in Lots : stock'[t][k] \in Nat /\ stock[t][k] \in Nat
        BY DEF TypeOK
      <3>2. \A k \in Restricted : \A t \in Shops : stock'[t][k] <= 1
        BY <1>a, <2>3, <3>1 DEF RoomInv, Singles
      <3> QED
        BY <2>2, <3>2 DEF Singles
    <2> QED
      BY <2>5, <2>6 DEF RoomInv
  <1>4. ASSUME NEW l \in Lots, NEW n, BuyPersonal(p, s, l, n) PROVE RoomInv'
    <2> DEFINE left == [stock[s] EXCEPT ![l] = @ - n]
               bought == [inv EXCEPT ![p] = Plus(@, l, n)]
    <2>1. n \in Nat /\ stock[s][l] - n \in Nat
      BY <1>4, PriceIsInt DEF BuyPersonal
    <2>2. left \in [Lots -> Nat] /\ \A k \in Lots : left[k] <= stock[s][k]
      BY <1>a, <2>1
    <2>3. /\ kind[s] = "personal" /\ p # Owner /\ s \in onMap
      <3>1. kind[s] = "personal" /\ p # Owner /\ n \in 1..stock[s][l]
        BY <1>4 DEF BuyPersonal, MayBuy
      <3> QED
        BY <1>a, <3>1 DEF GivenBack
    <2>4. window[Owner] = s
      BY <2>3 DEF ShopsInv, Tended
    <2>5. bought \in [Players -> [Lots -> Nat]] /\ bought[Owner] = inv[Owner]
      BY <2>1, <2>3 DEF Plus, TypeOK
    <2>6. \/ ClosePersonal(s, left, bought)
          \/ /\ inv' = bought
             /\ stock' = [stock EXCEPT ![s] = left]
             /\ UNCHANGED <<window, kind, package>>
      BY <1>4 DEF BuyPersonal
    <2> HIDE DEF left, bought
    <2>7. CASE ClosePersonal(s, left, bought)
      BY <2>2, <2>3, <2>4, <2>5, <2>7, ClosePersonalRoom
    <2>8. CASE /\ inv' = bought
               /\ stock' = [stock EXCEPT ![s] = left]
               /\ UNCHANGED <<window, kind, package>>
      <3>1. \A t \in Shops, k \in Lots : stock'[t][k] <= stock[t][k]
        BY <1>a, <2>2, <2>8 DEF TypeOK
      <3>2. RoomLeft'
        BY <1>a, <2>5, <2>8, <3>1, RoomKeptHere DEF RoomInv
      <3>3. \A t \in Shops, k \in Lots : stock'[t][k] \in Nat /\ stock[t][k] \in Nat
        BY DEF TypeOK
      <3>4. \A k \in Restricted : \A t \in Shops : stock'[t][k] <= 1
        BY <1>a, <3>1, <3>3 DEF RoomInv, Singles
      <3> QED
        BY <2>8, <3>2, <3>4 DEF RoomInv, Singles
    <2> QED
      BY <2>6, <2>7, <2>8
  <1>5. CASE Sit(p, s)
    <2>1. window'[Owner] = window[Owner]
      BY <1>5 DEF Sit, TypeOK
    <2> QED
      BY <1>5, <2>1, SameRoom DEF Sit, goods, entries
  <1> QED
    BY <1>1, <1>2, <1>3, <1>4, <1>5 DEF VisitorStep

\* One element at most
LEMMA AtMostOne ==
  ASSUME NEW S, IsFiniteSet(S), Cardinality(S) <= 1
  PROVE  \A k, l \in S : k = l
  <1> SUFFICES ASSUME NEW k \in S, NEW l \in S, k # l PROVE FALSE
    OBVIOUS
  <1>1. IsFiniteSet({k}) /\ Cardinality({k}) = 1
    BY FS_Singleton
  <1>2. Cardinality({k} \cup {l}) = 2
    <2>1. Cardinality({k} \cup {l}) = Cardinality({k}) + 1
      BY <1>1, FS_AddElement
    <2> QED
      BY <1>1, <2>1
  <1>3. Cardinality({k} \cup {l}) <= Cardinality(S)
    BY FS_Subset
  <1>4. Cardinality(S) \in Nat
    BY FS_CardinalityType
  <1> QED
    BY <1>2, <1>3, <1>4

\* addFromDrop keeps to the slots, and to one restricted item.
LEMMA CollectRoom ==
  ASSUME TypeOK, TypeOK', RoomInv, Collect
  PROVE  RoomInv'
  <1> USE OwnerAssumption, NoneAssumption
  <1> DEFINE due == package.goods
             hold == inv[Owner]
  <1>1. /\ package # None /\ package' = None
        /\ window[Owner] = None
        /\ UNCHANGED <<window, kind, stock>>
    BY DEF Collect, Free, walk, entries
  <1>2. due \in [Lots -> Nat] /\ hold \in [Lots -> Nat]
    BY <1>1 DEF TypeOK, Packages
  <1>3. PICK S \in Accepted(hold, due) :
           inv' = [inv EXCEPT ![Owner] = With(@, package.goods, S)]
    BY DEF Collect
  <1>4. inv'[Owner] = With(hold, due, S)
    BY <1>3 DEF TypeOK
  <1>5. /\ With(hold, due, S) \in [Lots -> Nat]
        /\ \A l \in Lots : With(hold, due, S)[l] = hold[l] + IF l \in S THEN due[l] ELSE 0
    BY <1>2 DEF With
  <1>6. /\ S \subseteq Carried(due)
        /\ Cardinality(S \cap Restricted) <= IF Carried(hold) \cap Restricted = {} THEN 1 ELSE 0
        /\ Cardinality(Carried(With(hold, due, S))) <= Slots
    BY <1>3 DEF Accepted
  <1>7. IsFiniteSet(S \cap Restricted) /\ Cardinality(S \cap Restricted) \in Nat
    BY <1>6, CarriedFinite, FS_Subset, FS_CardinalityType
  <1>8. Carried(hold) \cap Restricted # {} => S \cap Restricted = {}
    BY <1>6, <1>7, FS_EmptySet
  <1>9. \A k, l \in S \cap Restricted : k = l
    <2>1. Cardinality(S \cap Restricted) <= 1
      BY <1>6, <1>7
    <2> QED
      BY <1>7, <2>1, AtMostOne
  <1>10. Roomy(hold)
    BY RoomInHand DEF RoomInv
  <1>11. \A l \in Restricted : l \in Lots /\ due[l] <= 1
    BY <1>1, LotAssumption DEF RoomInv, Singles
  <1> HIDE DEF due, hold
  <1> DEFINE more == With(hold, due, S)
  <1>12. more \in [Lots -> Nat] /\ Cardinality(Carried(more)) <= Slots
    BY <1>5, <1>6
  <1>13. \A l \in Lots : more[l] = hold[l] + IF l \in S THEN due[l] ELSE 0
    BY <1>5
  <1> HIDE DEF more
  <1>14. ASSUME NEW k \in Restricted, NEW l \in Restricted, more[k] > 0, more[l] > 0
         PROVE  k = l
    <2>1. \A j \in {k, l} : j \in S \/ hold[j] > 0
      BY <1>2, <1>11, <1>13, <1>14
    <2>2. CASE hold[k] > 0 \/ hold[l] > 0
      <3>1. S \cap Restricted = {}
        BY <1>8, <1>11, <1>14, <2>2 DEF Carried
      <3> QED
        BY <1>10, <1>14, <2>1, <3>1 DEF Roomy
    <2>3. CASE ~(hold[k] > 0 \/ hold[l] > 0)
      BY <1>9, <1>14, <2>1, <2>3
    <2> QED
      BY <2>2, <2>3
  <1>15. ASSUME NEW l \in Restricted PROVE more[l] <= 1
    <2>1. hold[l] \in Nat /\ due[l] \in Nat /\ hold[l] <= 1 /\ due[l] <= 1
      BY <1>2, <1>10, <1>11 DEF Roomy
    <2>2. l \in S => hold[l] = 0
      BY <1>8, <1>11, <2>1 DEF Carried
    <2> QED
      BY <1>11, <1>13, <2>1, <2>2
  <1>16. Roomy(more)
    BY <1>12, <1>14, <1>15 DEF Roomy
  <1>17. ~InPersonalShop'
    BY <1>1 DEF InPersonalShop
  <1>18. \A l \in Lots : OwnersGoods'[l] <= more[l]
    BY <1>4, <1>12, <1>17, OwnersGoodsIsNext DEF more, due, hold
  <1>19. RoomLeft'
    BY <1>12, <1>16, <1>18, OwnersGoodsIsNext, RoomyLess DEF RoomLeft
  <1> QED
    BY <1>1, <1>19 DEF RoomInv, Singles

\* Picking things up happens outside shops.
LEMMA PlayerRoom ==
  ASSUME TypeOK, TypeOK', SeatsInv, ShopsInv, RoomInv, NEW p \in Players, PlayerStep(p)
  PROVE  RoomInv'
  <1> USE OwnerAssumption, NoneAssumption
  <1>a. inv[Owner] \in [Lots -> Nat] /\ \A l \in Restricted : l \in Lots
    BY LotAssumption DEF TypeOK
  <1>1. ASSUME NEW l \in Lots, PickUp(p, l) PROVE RoomInv'
    <2>1. /\ window[p] = None /\ Fits(inv[p], l)
          /\ inv' = [inv EXCEPT ![p] = Plus(@, l, Heap(l))]
          /\ UNCHANGED <<window, kind, stock, package>>
      BY <1>1 DEF PickUp, Free, walk, entries
    <2>2. CASE p # Owner
      <3>1. inv'[Owner] = inv[Owner]
        BY <2>1, <2>2 DEF TypeOK
      <3> QED
        BY <2>1, <3>1, SameRoom
    <2>3. CASE p = Owner
      <3>1. ~InPersonalShop'
        BY <2>1, <2>3 DEF InPersonalShop
      <3>2. Heap(l) \in Nat /\ (l \in Restricted => Heap(l) <= 1)
        BY DEF Heap, TypeOK
      <3>3. /\ inv'[Owner][l] = inv[Owner][l] + Heap(l)
            /\ \A k \in Lots \ {l} : inv'[Owner][k] = inv[Owner][k]
        BY <1>a, <2>1, <2>3 DEF Plus, TypeOK
      <3>4. inv'[Owner] \in [Lots -> Nat]
        BY DEF TypeOK
      <3>5. l \in Restricted => inv'[Owner][l] <= 1
        <4>1. l \in Restricted => inv[Owner][l] = 0
          BY <1>a, <2>1, <2>3 DEF Fits, Carried
        <4> QED
          BY <3>2, <3>3, <4>1
      <3>6. Roomy(inv'[Owner])
        BY <1>a, <2>1, <2>3, <3>3, <3>4, <3>5, RoomInHand, RoomyMore DEF RoomInv
      <3>7. \A k \in Lots : OwnersGoods'[k] <= inv'[Owner][k]
        BY <3>1, <3>4, OwnersGoodsIsNext
      <3>8. RoomLeft'
        BY <3>4, <3>6, <3>7, OwnersGoodsIsNext, RoomyLess DEF RoomLeft
      <3> QED
        BY <2>1, <3>8 DEF RoomInv, Singles
    <2> QED
      BY <2>2, <2>3
  <1>2. ASSUME NEW l \in Lots, Drop(p, l) PROVE RoomInv'
    <2>1. /\ window[p] = None
          /\ inv' = [inv EXCEPT ![p][l] = 0]
          /\ UNCHANGED <<window, kind, stock, package>>
      BY <1>2 DEF Drop, Free, walk, entries
    <2>2. \A k \in Lots : inv'[Owner][k] <= inv[Owner][k]
      BY <1>a, <2>1 DEF TypeOK
    <2>3. \A t \in Shops, k \in Lots : stock'[t][k] <= stock[t][k]
      BY <2>1 DEF TypeOK
    <2>4. RoomLeft'
      BY <2>1, <2>2, <2>3, RoomKeptHere DEF RoomInv
    <2> QED
      BY <2>1, <2>4 DEF RoomInv, Singles
  <1>3. ASSUME NEW final \in BOOLEAN, Disconnect(p, final), final => server = "closing"
        PROVE  RoomInv'
    <2> DEFINE s == window[p]
    <2>1. CASE p = Owner /\ s # None
      <3>1. s \in Shops /\ window[Owner] = s
        BY <2>1 DEF TypeOK
      <3>2. CASE Leave({p}) /\ UNCHANGED <<goods, kind, entries, package>>
        <4>1. window'[Owner] = None
          BY <2>1, <3>1, <3>2, OwnerStays
        <4> QED
          BY <3>2, <4>1, SameRoom DEF goods, entries, InPersonalShop
      <3>3. CASE /\ kind[s] = "hired"
                 /\ CloseHired(s, ~final)
                 /\ Leave({p})
        <4>1. window'[Owner] = None
          BY <2>1, <3>1, <3>3, OwnerStays
        <4>2. final => s \notin listed
          BY <1>3, <3>1, <3>3 DEF ShopsInv, Shut, ListedAre, Hired
        <4>3. SavedAndClosed(s)
          BY <3>3, <4>2 DEF CloseHired, SavedAndClosed
        <4>4. Hired(s)
          BY <3>3 DEF Hired
        <4> QED
          BY <3>1, <4>1, <4>3, <4>4, CloseHiredRoom
      <3>4. CASE kind[s] = "personal" /\ ClosePersonal(s, stock[s], inv)
        <4>1. stock[s] \in [Lots -> Nat] /\ \A l \in Lots : stock[s][l] <= stock[s][l]
          BY <3>1 DEF TypeOK
        <4>2. inv \in [Players -> [Lots -> Nat]]
          BY DEF TypeOK
        <4> QED
          BY <3>1, <3>4, <4>1, <4>2, ClosePersonalRoom
      <3> QED
        BY <1>3, <2>1, <3>2, <3>3, <3>4 DEF Disconnect
    <2>2. CASE ~(p = Owner /\ s # None)
      <3>1. Leave({p}) /\ UNCHANGED <<goods, kind, entries, package>>
        BY <1>3, <2>2 DEF Disconnect
      <3>2. window'[Owner] = window[Owner]
        BY <2>2, <3>1, OwnerStays DEF TypeOK
      <3> QED
        BY <3>1, <3>2, SameRoom DEF goods, entries
    <2> QED
      BY <2>1, <2>2
  <1>4. ASSUME Disconnect(p, FALSE) PROVE RoomInv'
    BY <1>3, <1>4
  <1>5. ASSUME server = "closing", Disconnect(p, TRUE) PROVE RoomInv'
    BY <1>3, <1>5
  <1>6. CASE Reconnect(p)
    BY <1>6, SameRoom DEF Reconnect, walk, goods, entries
  <1> QED
    BY <1>1, <1>2, <1>4, <1>5, <1>6 DEF PlayerStep

\* A shutdown takes goods out of shops.
LEMMA ServerRoom ==
  ASSUME TypeOK, TypeOK', SeatsInv, ShopsInv, RoomInv,
         ToggleShops \/ CloseAllMerchants \/ Restart
  PROVE  RoomInv'
  <1> USE OwnerAssumption, NoneAssumption
  <1>a. inv[Owner] \in [Lots -> Nat] /\ \A l \in Restricted : l \in Lots
    BY LotAssumption DEF TypeOK
  <1>1. CASE ToggleShops
    BY <1>1, SameRoom DEF ToggleShops, walk, goods, entries
  <1>2. CASE CloseAllMerchants
    <2> DEFINE closed == listed \cup {s \in onMap \ listed : kind[s] = "hired"}
    <2>1. closed \subseteq Shops
      BY DEF TypeOK
    <2>2. /\ closed # {} => \E last \in closed : package' = Saved(last)
          /\ closed = {} => package' = package
          /\ stock' = [s \in Shops |-> IF s \in closed THEN Empty ELSE stock[s]]
          /\ UNCHANGED <<inv, window, kind>>
      BY <1>2 DEF CloseAllMerchants, walk, goods
    <2> HIDE DEF closed
    <2>3. \A s \in Shops, l \in Lots : stock'[s][l] <= stock[s][l]
      BY <2>2 DEF TypeOK, Empty
    <2>4. RoomLeft'
      BY <1>a, <2>2, <2>3, RoomKeptHere DEF RoomInv
    <2>5. \A s \in Shops, l \in Lots : stock'[s][l] = stock[s][l] \/ stock'[s][l] = 0
      BY <2>2 DEF Empty
    <2>6. Singles'
      BY <1>a, <2>1, <2>2, <2>5 DEF RoomInv, Singles, Saved
    <2> QED
      BY <2>4, <2>6 DEF RoomInv
  <1>3. CASE Restart
    <2>1. window'[Owner] = None /\ inv' = inv /\ package' = package
      BY <1>3 DEF Restart, walk, goods, SeatsInv, OfflineSeatless
    <2>2. \A s \in Shops, l \in Lots : stock'[s][l] = 0
      BY <1>3 DEF Restart, Empty
    <2>3. RoomLeft'
      BY <1>a, <2>1, RoomInHand, RoomKeptOutside DEF RoomInv, InPersonalShop
    <2> QED
      BY <1>a, <2>1, <2>2, <2>3 DEF RoomInv, Singles
  <1> QED
    BY <1>1, <1>2, <1>3

LEMMA RoomStep ==
  ASSUME TypeOK, TypeOK', SeatsInv, ShopsInv, GivenBack, RoomInv, [Next]_vars
  PROVE  RoomInv'
  <1>1. ASSUME NEW s \in Shops, Kick(s) PROVE RoomInv'
    BY <1>1, OwnerStays, SameRoom DEF Kick, goods, entries
  <1>2. ASSUME NEW s \in Shops, TimerExpires(s) PROVE RoomInv'
    <2>1. SavedAndClosed(s) /\ Hired(s)
      BY <1>2, CloseHiredIs DEF TimerExpires, ShopsInv, Timed
    <2>2. window'[Owner] = window[Owner] \/ (window[Owner] = s /\ window'[Owner] = None)
      BY <1>2, TimerSendsOut
    <2> QED
      BY <2>1, <2>2, CloseHiredRoom
  <1>3. CASE UNCHANGED vars
    <2>1. UNCHANGED <<stock, package, inv, window, kind>>
      BY <1>3 DEF vars
    <2> QED
      BY <2>1, SameRoom
  <1> QED
    BY <1>1, <1>2, <1>3, OwnerRoom, VisitorRoom, PlayerRoom, CollectRoom, ServerRoom DEF Next

\* A step that neither takes a personal shop off its map nor touches one that is off it,
\* nor brings the owner there
LEMMA GivenBackKept ==
  ASSUME GivenBack, kind' = kind,
         \A t \in onMap \ onMap' : Hired(t),
         \A t \in Shops \ onMap : kind[t] = "personal" => stock'[t] = stock[t],
         \/ window'[Owner] \in {window[Owner], None}
         \/ window'[Owner] \in Shops /\ Hired(window'[Owner])
  PROVE  GivenBack'
  BY NoneAssumption DEF GivenBack, Hired

\* closeShop of a merchant
LEMMA SavedBack ==
  ASSUME TypeOK, GivenBack, NEW s \in Shops, Hired(s), SavedAndClosed(s),
         window'[Owner] \in {window[Owner], None}
  PROVE  GivenBack'
  <1>1. /\ kind' = kind /\ onMap' = onMap \ {s}
        /\ \A t \in Shops \ {s} : stock'[t] = stock[t]
    BY DEF SavedAndClosed, TypeOK
  <1>2. \A t \in Shops \ onMap : kind[t] = "personal" => stock'[t] = stock[t]
    BY <1>1 DEF Hired
  <1> QED
    BY <1>1, <1>2, GivenBackKept

\* closeShop of a personal shop
LEMMA ClosedBack ==
  ASSUME TypeOK, SeatsInv, ShopsInv, RoomLeft, GivenBack, NEW s \in Shops,
         kind[s] = "personal", s \in onMap \/ window[Owner] = s,
         NEW left \in [Lots -> Nat], \A l \in Lots : left[l] <= stock[s][l],
         NEW invs \in [Players -> [Lots -> Nat]], invs[Owner] = inv[Owner],
         ClosePersonal(s, left, invs)
  PROVE  GivenBack'
  <1>1. window[Owner] = s
    BY DEF ShopsInv, Tended
  <1>2. /\ \A t \in Shops : stock'[t] = IF t = s THEN Empty ELSE stock[t]
        /\ window'[Owner] = None
    BY <1>1, ClosedUp DEF TypeOK
  <1>3. kind' = kind /\ onMap' = onMap \ {s}
    BY DEF ClosePersonal
  <1> QED
    BY <1>2, <1>3, NoneAssumption DEF GivenBack, Empty

\* A personal shop gives everything back as it is closed, and nothing reaches it then.
LEMMA OwnerBack ==
  ASSUME TypeOK, SeatsInv, ShopsInv, RoomInv, GivenBack, NEW s \in Shops, OwnerStep(s)
  PROVE  GivenBack'
  <1> USE OwnerAssumption, NoneAssumption
  <1>a. ASSUME window[Owner] = s, kind[s] = "personal", ClosePersonal(s, stock[s], inv)
        PROVE  GivenBack'
    <2>1. /\ stock[s] \in [Lots -> Nat] /\ \A l \in Lots : stock[s][l] <= stock[s][l]
          /\ inv \in [Players -> [Lots -> Nat]]
      BY DEF TypeOK
    <2> QED
      BY <1>a, <2>1, ClosedBack DEF RoomInv
  <1>1. ASSUME NEW k \in {"hired", "personal"}, Create(s, k) PROVE GivenBack'
    <2>1. /\ window'[Owner] = s /\ kind' = [kind EXCEPT ![s] = k]
          /\ onMap' = onMap \cup {s} /\ stock' = stock /\ window[Owner] = None
      BY <1>1 DEF Create, Free, entries, TypeOK
    <2> QED
      BY <2>1 DEF GivenBack, TypeOK
  <1>2. ASSUME window[Owner] = s, UNCHANGED <<window, kind, onMap>>,
               \A t \in Shops \ {s} : stock'[t] = stock[t]
        PROVE  GivenBack'
    <2>1. \A t \in Shops \ onMap : kind[t] = "personal" => stock'[t] = stock[t]
      BY <1>2 DEF GivenBack
    <2> QED
      BY <1>2, <2>1, GivenBackKept
  <1>3. ASSUME NEW l \in Lots, \/ RemoveItem(s, l)
                             \/ \E n \in 1..Bundles[l] : AddItem(s, l, n)
        PROVE  GivenBack'
    BY <1>2, <1>3 DEF RemoveItem, AddItem, walk, places, TypeOK
  <1>4. ASSUME UNCHANGED <<kind, stock, onMap>>,
               \/ window'[Owner] \in {window[Owner], None}
               \/ window'[Owner] = s /\ Hired(s)
        PROVE  GivenBack'
    BY <1>4, GivenBackKept
  <1>5. CASE OpenHired(s) \/ OpenPersonal(s) \/ Organise(s)
    BY <1>4, <1>5, OwnerStays DEF OpenHired, OpenPersonal, Organise, walk, entries, places
  <1>6. CASE Maintain(s) \/ OwlToOwn(s) \/ MaintenanceOff(s)
    BY <1>4, <1>6, OwnerStays DEF Maintain, OwlToOwn, MaintenanceOff, entries, places
  <1>7. CASE TakeOver(s)
    <2>1. window'[Owner] = s /\ Hired(s)
      BY <1>7 DEF TakeOver, TypeOK, ShopsInv, Returning
    <2> QED
      BY <1>4, <1>7, <2>1 DEF TakeOver, entries, places
  <1>8. CASE OpenRefused(s)
    <2>1. s \notin listed
      BY <1>8 DEF OpenRefused, ShopsInv, ListedAre
    <2> QED
      BY <1>a, <1>8, <2>1, CloseHiredIs, SavedBack DEF OpenRefused, walk, Hired
  <1>9. CASE CloseMerchant(s)
    <2>1. window'[Owner] = None
      BY <1>9, OwnerStays DEF CloseMerchant
    <2> QED
      BY <1>9, <2>1, CloseHiredIs, SavedBack DEF CloseMerchant, Hired
  <1>10. CASE OwnerExit(s)
    BY <1>a, <1>4, <1>10, OwnerStays DEF OwnerExit, entries, places
  <1> QED
    BY <1>1, <1>3, <1>5, <1>6, <1>7, <1>8, <1>9, <1>10 DEF OwnerStep

LEMMA VisitorBack ==
  ASSUME TypeOK, SeatsInv, ShopsInv, RoomInv, GivenBack, NEW p \in Players, NEW s \in Shops,
         VisitorStep(p, s)
  PROVE  GivenBack'
  <1> USE OwnerAssumption, NoneAssumption
  <1>1. CASE Visit(p, s) \/ Sit(p, s) \/ VisitorExit(p, s)
    <2>1. window'[Owner] = window[Owner]
      BY <1>1, OwnerStays DEF Visit, Sit, VisitorExit, TypeOK
    <2> QED
      BY <1>1, <2>1, GivenBackKept DEF Visit, Sit, VisitorExit, entries, places
  <1>2. ASSUME NEW l \in Lots, NEW n, BuyHired(p, s, l, n) PROVE GivenBack'
    <2>1. /\ kind[s] = "hired" /\ stock' = [stock EXCEPT ![s][l] = @ - n]
          /\ UNCHANGED <<window, kind, onMap>>
      BY <1>2 DEF BuyHired, walk, places
    <2>2. \A t \in Shops \ onMap : kind[t] = "personal" => stock'[t] = stock[t]
      BY <2>1 DEF TypeOK
    <2> QED
      BY <2>1, <2>2, GivenBackKept
  <1>3. ASSUME NEW l \in Lots, NEW n, BuyPersonal(p, s, l, n) PROVE GivenBack'
    <2> DEFINE left == [stock[s] EXCEPT ![l] = @ - n]
               bought == [inv EXCEPT ![p] = Plus(@, l, n)]
    <2>1. /\ n \in Nat /\ n \in 1..stock[s][l]
          /\ p # Owner /\ kind[s] = "personal"
      BY <1>3, PriceIsInt DEF BuyPersonal, MayBuy
    <2>2. left \in [Lots -> Nat] /\ \A k \in Lots : left[k] <= stock[s][k]
      BY <2>1 DEF TypeOK
    <2>3. bought \in [Players -> [Lots -> Nat]] /\ bought[Owner] = inv[Owner]
      BY <2>1 DEF Plus, TypeOK
    <2>4. s \in onMap
      BY <2>1 DEF GivenBack, TypeOK
    <2>5. \/ ClosePersonal(s, left, bought)
          \/ stock' = [stock EXCEPT ![s] = left] /\ UNCHANGED <<window, kind, onMap>>
      BY <1>3 DEF BuyPersonal, places
    <2> HIDE DEF left, bought
    <2>6. CASE ClosePersonal(s, left, bought)
      BY <2>1, <2>2, <2>3, <2>4, <2>6, ClosedBack DEF RoomInv
    <2>7. CASE stock' = [stock EXCEPT ![s] = left] /\ UNCHANGED <<window, kind, onMap>>
      <3>1. \A t \in Shops \ onMap : stock'[t] = stock[t]
        BY <2>4, <2>7 DEF TypeOK
      <3> QED
        BY <2>7, <3>1, GivenBackKept
    <2> QED
      BY <2>5, <2>6, <2>7
  <1> QED
    BY <1>1, <1>2, <1>3 DEF VisitorStep

LEMMA PlayerBack ==
  ASSUME TypeOK, SeatsInv, ShopsInv, RoomInv, GivenBack, NEW p \in Players, PlayerStep(p)
  PROVE  GivenBack'
  <1> USE OwnerAssumption, NoneAssumption
  <1>1. ASSUME NEW l \in Lots, PickUp(p, l) \/ Drop(p, l) PROVE GivenBack'
    BY <1>1, GivenBackKept DEF PickUp, Drop, walk, entries, places
  <1>2. ASSUME NEW final \in BOOLEAN, Disconnect(p, final), final => server = "closing"
        PROVE  GivenBack'
    <2> DEFINE s == window[p]
    <2>1. CASE p = Owner /\ s # None
      <3>1. s \in Shops /\ window[Owner] = s
        BY <2>1 DEF TypeOK
      <3>2. Leave({p}) => window'[Owner] = None
        BY <2>1, <3>1, OwnerStays
      <3>3. CASE Leave({p}) /\ UNCHANGED <<kind, entries, places>>
        BY <3>2, <3>3, GivenBackKept DEF entries, places
      <3>4. CASE /\ kind[s] = "hired"
                 /\ CloseHired(s, ~final)
                 /\ Leave({p})
        <4>1. final => s \notin listed
          BY <1>2, <3>1, <3>4 DEF ShopsInv, Shut, ListedAre, Hired
        <4>2. SavedAndClosed(s)
          BY <3>4, <4>1 DEF CloseHired, SavedAndClosed
        <4> QED
          BY <3>1, <3>2, <3>4, <4>2, SavedBack DEF Hired
      <3>5. CASE kind[s] = "personal" /\ ClosePersonal(s, stock[s], inv)
        <4>1. /\ stock[s] \in [Lots -> Nat] /\ \A l \in Lots : stock[s][l] <= stock[s][l]
              /\ inv \in [Players -> [Lots -> Nat]]
          BY <3>1 DEF TypeOK
        <4> QED
          BY <3>1, <3>5, <4>1, ClosedBack DEF RoomInv
      <3> QED
        BY <1>2, <2>1, <3>3, <3>4, <3>5 DEF Disconnect
    <2>2. CASE ~(p = Owner /\ s # None)
      <3>1. Leave({p}) /\ UNCHANGED <<kind, entries, places>>
        BY <1>2, <2>2 DEF Disconnect
      <3>2. window'[Owner] = window[Owner]
        BY <2>2, <3>1, OwnerStays DEF Leave, TypeOK
      <3> QED
        BY <3>1, <3>2, GivenBackKept DEF entries, places
    <2> QED
      BY <2>1, <2>2
  <1>3. ASSUME Disconnect(p, FALSE) PROVE GivenBack'
    BY <1>2, <1>3
  <1>4. ASSUME server = "closing", Disconnect(p, TRUE) PROVE GivenBack'
    BY <1>2, <1>4
  <1>5. CASE Reconnect(p)
    BY <1>5, GivenBackKept DEF Reconnect, walk, entries, places
  <1> QED
    BY <1>1, <1>3, <1>4, <1>5 DEF PlayerStep

LEMMA BackStep ==
  ASSUME TypeOK, SeatsInv, ShopsInv, RoomInv, GivenBack, [Next]_vars
  PROVE  GivenBack'
  <1> USE OwnerAssumption, NoneAssumption
  <1>1. ASSUME NEW s \in Shops, Kick(s) PROVE GivenBack'
    BY <1>1, OwnerStays, GivenBackKept DEF Kick, entries, places
  <1>2. ASSUME NEW s \in Shops, TimerExpires(s) PROVE GivenBack'
    <2>1. SavedAndClosed(s) /\ Hired(s)
      BY <1>2, CloseHiredIs DEF TimerExpires, ShopsInv, Timed
    <2>2. window'[Owner] \in {window[Owner], None}
      BY <1>2, TimerSendsOut
    <2> QED
      BY <2>1, <2>2, SavedBack
  <1>3. CASE Collect \/ ToggleShops
    BY <1>3, GivenBackKept DEF Collect, ToggleShops, walk, entries, places
  <1>4. CASE CloseAllMerchants
    <2> DEFINE closed == listed \cup {s \in onMap \ listed : kind[s] = "hired"}
    <2>1. \A s \in closed : Hired(s)
      BY DEF ShopsInv, ListedAre, TypeOK, Hired
    <2>2. /\ stock' = [s \in Shops |-> IF s \in closed THEN Empty ELSE stock[s]]
          /\ onMap' = onMap \ closed
          /\ UNCHANGED <<window, kind>>
      BY <1>4 DEF CloseAllMerchants, walk
    <2> HIDE DEF closed
    <2> QED
      BY <2>1, <2>2, GivenBackKept DEF Hired
  <1>5. CASE Restart
    BY <1>5 DEF Restart, GivenBack
  <1>6. CASE UNCHANGED vars
    <2>1. UNCHANGED <<stock, onMap, window, kind>>
      BY <1>6 DEF vars
    <2> QED
      BY <2>1, GivenBackKept
  <1> QED
    BY <1>1, <1>2, <1>3, <1>4, <1>5, <1>6, OwnerBack, VisitorBack, PlayerBack DEF Next

\* At the start the owner is in no shop.
LEMMA InitRoom == Init => RoomInv
  <1> SUFFICES ASSUME Init PROVE RoomInv
    OBVIOUS
  <1>1. PICK home \in [Lots -> Players \cup {None}] :
           /\ inv = [p \in Players |-> [l \in Lots |-> IF home[l] = p THEN Bundles[l] ELSE 0]]
           /\ \A p \in Players : Cardinality({l \in Lots : home[l] = p}) <= Slots
           /\ \A p \in Players : Cardinality({l \in Restricted : home[l] = p}) <= 1
    BY DEF Init
  <1> DEFINE mine == {l \in Lots : home[l] = Owner}
  <1>2. ~InPersonalShop
    BY OwnerAssumption, NoneAssumption DEF Init, InPersonalShop
  <1>3. /\ OwnersGoods \in [Lots -> Nat]
        /\ \A l \in Lots : OwnersGoods[l] = IF l \in mine THEN Bundles[l] ELSE 0
    BY <1>1, <1>2, OwnerAssumption, LotAssumption DEF OwnersGoods
  <1>4. Carried(OwnersGoods) \subseteq mine
    BY <1>3 DEF Carried
  <1>5. /\ Cardinality(mine) <= Slots
        /\ Cardinality(mine \cap Restricted) <= 1
        /\ IsFiniteSet(mine) /\ IsFiniteSet(mine \cap Restricted)
    <2>1. mine \cap Restricted = {l \in Restricted : home[l] = Owner}
      BY LotAssumption
    <2>2. IsFiniteSet(mine) /\ IsFiniteSet(mine \cap Restricted)
      BY LotAssumption, FS_Subset
    <2> QED
      BY <1>1, <2>1, <2>2, OwnerAssumption
  <1> HIDE DEF mine
  <1>6. Cardinality(Carried(OwnersGoods)) <= Slots
    <2>1. Cardinality(Carried(OwnersGoods)) <= Cardinality(mine)
      BY <1>4, <1>5, FS_Subset
    <2>2. Cardinality(Carried(OwnersGoods)) \in Nat /\ Cardinality(mine) \in Nat
      BY <1>5, CarriedFinite, FS_CardinalityType
    <2> QED
      BY <1>5, <2>1, <2>2, BoundAssumption
  <1>7. \A k, l \in mine \cap Restricted : k = l
    BY <1>5, AtMostOne
  <1>8. \A l \in Restricted : OwnersGoods[l] <= 1 /\ (OwnersGoods[l] > 0 => l \in mine)
    BY <1>3, LotAssumption
  <1>9. RoomLeft
    BY <1>6, <1>7, <1>8 DEF RoomLeft, Roomy
  <1>10. Singles
    BY LotAssumption DEF Init, Empty, Singles
  <1> QED
    BY <1>9, <1>10 DEF RoomInv

-----------------------------------------------------------------------------
(* The package *)

\* What the owner can collect was written by a merchant that is closed, and a
\* sale or a second closing finds no more mesos in it than were saved.
Collected ==
    Collectable => (Hired(package.by) => /\ package.by \notin onMap
                                         /\ till[package.by] <= package.meso)

ShopsSound == TypeOK /\ SeatsInv /\ ShopsInv /\ RoomInv /\ GivenBack /\ Collected

\* A package that is there has goods, mesos and a writer.
LEMMA PackageIs ==
  ASSUME TypeOK, package # None
  PROVE  package \in Packages /\ package.by \in Shops /\ package.meso \in 0..IntMax
         /\ package.goods \in [Lots -> Nat]
  BY DEF TypeOK, Packages

\* A step that leaves the package, and hires or fills no merchant.
LEMMA CollectedKept ==
  ASSUME TypeOK, TypeOK', Collected, package' = package, listed \subseteq listed',
         \A s \in Shops : Hired(s)' => /\ Hired(s)
                                       /\ s \in onMap' => s \in onMap
                                       /\ till'[s] <= till[s]
  PROVE  Collected'
  <1> SUFFICES ASSUME package # None, package.by \notin listed', Hired(package.by)'
               PROVE  package.by \notin onMap' /\ till'[package.by] <= package.meso
    BY DEF Collected, Collectable, Hired
  <1>1. package.by \in Shops /\ package.meso \in 0..IntMax
    BY PackageIs
  <1>2. package.by \notin onMap /\ till[package.by] <= package.meso
    BY <1>1 DEF Collected, Collectable
  <1>3. till[package.by] \in Int /\ till'[package.by] \in Int
    BY <1>1, BoundAssumption DEF TypeOK
  <1> QED
    BY <1>1, <1>2, <1>3, BoundAssumption

\* No package, nothing to collect.
LEMMA CollectedNone ==
  ASSUME package' = None
  PROVE  Collected'
  BY DEF Collected, Collectable

\* HiredMerchant.closeShop and saveItems: the package is what was in the till.
LEMMA CollectedSaved ==
  ASSUME TypeOK, TypeOK', NEW s \in Shops, package' = Saved(s), s \notin onMap', till' = till
  PROVE  Collected'
  <1>1. package'.by = s /\ package'.meso = till[s] /\ till[s] \in Int
    BY BoundAssumption DEF Saved, TypeOK
  <1> QED
    BY <1>1 DEF Collected, Collectable

\* The owner saves on closing only, and hires when there is no package.
LEMMA OwnerCollected ==
  ASSUME ShopsSound, TypeOK', NEW s \in Shops, OwnerStep(s)
  PROVE  Collected'
  <1>a. TypeOK /\ SeatsInv /\ ShopsInv /\ RoomInv /\ GivenBack /\ Collected
    BY DEF ShopsSound
  <1>b. \A t \in Shops : till[t] \in Int /\ till[t] <= till[t]
    BY <1>a, BoundAssumption DEF TypeOK
  <1>1. ASSUME NEW k \in {"hired", "personal"}, Create(s, k) PROVE Collected'
    <2>1. CASE k = "hired"
      <3>1. package' = None
        BY <1>1, <2>1 DEF Create
      <3> QED
        BY <3>1, CollectedNone
    <2>2. CASE k # "hired"
      <3>1. /\ package' = package /\ listed' = listed /\ till' = till
            /\ kind' = [kind EXCEPT ![s] = k] /\ onMap' = onMap \cup {s}
        BY <1>1 DEF Create
      <3>2. \A t \in Shops : Hired(t)' => t # s /\ Hired(t)
        BY <1>a, <2>2, <3>1 DEF Hired, TypeOK
      <3> QED
        BY <1>a, <1>b, <3>1, <3>2, CollectedKept
    <2> QED
      BY <2>1, <2>2
  <1>2. CASE \/ \E l \in Lots : RemoveItem(s, l) \/ \E n \in 1..Bundles[l] : AddItem(s, l, n)
             \/ OpenPersonal(s) \/ Maintain(s) \/ OwlToOwn(s) \/ TakeOver(s)
             \/ MaintenanceOff(s)
    <2>1. UNCHANGED <<package, listed, kind, till, onMap>>
      BY <1>2 DEF RemoveItem, AddItem, OpenPersonal, Maintain, OwlToOwn, TakeOver,
         MaintenanceOff, places
    <2> QED
      BY <1>a, <1>b, <2>1, CollectedKept DEF Hired
  <1>3. CASE OpenHired(s)
    <2>1. package' = None
      BY <1>3 DEF OpenHired
    <2> QED
      BY <2>1, CollectedNone
  <1>4. CASE Organise(s)
    <2>1. UNCHANGED <<package, listed, kind, onMap>> /\ till' = [till EXCEPT ![s] = 0]
      BY <1>4 DEF Organise, places
    <2>2. \A t \in Shops : till'[t] <= till[t]
      BY <1>a, <1>b, <2>1, BoundAssumption DEF TypeOK
    <2> QED
      BY <1>a, <2>1, <2>2, CollectedKept DEF Hired
  <1>5. CASE \E remove \in BOOLEAN : CloseHired(s, remove)
    BY <1>a, <1>5, CollectedSaved DEF CloseHired
  <1>6. CASE ClosePersonal(s, stock[s], inv)
    <2>1. UNCHANGED <<package, listed, kind, till>> /\ onMap' = onMap \ {s}
      BY <1>6 DEF ClosePersonal
    <2> QED
      BY <1>a, <1>b, <2>1, CollectedKept DEF Hired
  <1>7. CASE OpenRefused(s)
    BY <1>5, <1>6, <1>7 DEF OpenRefused
  <1>8. CASE CloseMerchant(s)
    BY <1>5, <1>8 DEF CloseMerchant
  <1>9. CASE OwnerExit(s)
    <2>1. CASE UNCHANGED <<kind, till, places, package>>
      BY <1>a, <1>b, <2>1, CollectedKept DEF Hired, places
    <2> QED
      BY <1>6, <1>9, <2>1 DEF OwnerExit
  <1> QED
    BY <1>1, <1>2, <1>3, <1>4, <1>7, <1>8, <1>9 DEF OwnerStep

\* A sale saves the merchant, and that is listed or closed.
LEMMA VisitorCollected ==
  ASSUME ShopsSound, TypeOK', NEW p \in Players, NEW s \in Shops, VisitorStep(p, s)
  PROVE  Collected'
  <1>a. TypeOK /\ SeatsInv /\ ShopsInv /\ RoomInv /\ GivenBack /\ Collected
    BY DEF ShopsSound
  <1>b. \A t \in Shops : till[t] \in Int /\ till[t] <= till[t]
    BY <1>a, BoundAssumption DEF TypeOK
  <1>1. CASE Visit(p, s) \/ Sit(p, s) \/ VisitorExit(p, s)
    <2>1. UNCHANGED <<package, listed, kind, till, onMap>>
      BY <1>1 DEF Visit, Sit, VisitorExit, places
    <2> QED
      BY <1>a, <1>b, <2>1, CollectedKept DEF Hired
  <1>2. ASSUME NEW l \in Lots, NEW n, BuyHired(p, s, l, n) PROVE Collected'
    <2>1. /\ package'.by = s /\ package'.meso = till'[s]
          /\ UNCHANGED <<kind, available, onMap, listed>>
          /\ Hired(s) /\ p # Owner /\ window[p] = s
      BY <1>2 DEF BuyHired, MayBuy, doors, places, Hired
    <2>2. s \in available
      BY <1>a, <2>1, NoneAssumption DEF SeatsInv, OpenedToVisitors
    <2>3. s \notin listed => s \notin onMap
      BY <1>a, <2>1, <2>2 DEF ShopsInv, ListedAre
    <2>4. till'[s] \in Int
      BY BoundAssumption DEF TypeOK
    <2> QED
      BY <2>1, <2>3, <2>4 DEF Collected, Collectable
  <1>3. ASSUME NEW l \in Lots, NEW n, BuyPersonal(p, s, l, n) PROVE Collected'
    <2>1. UNCHANGED <<package, listed, kind, till>> /\ onMap' \subseteq onMap
      BY <1>3 DEF BuyPersonal, ClosePersonal, places
    <2> QED
      BY <1>a, <1>b, <2>1, CollectedKept DEF Hired
  <1> QED
    BY <1>1, <1>2, <1>3 DEF VisitorStep

LEMMA CollectedStep ==
  ASSUME ShopsSound, TypeOK', [Next]_vars
  PROVE  Collected'
  <1>a. TypeOK /\ SeatsInv /\ ShopsInv /\ RoomInv /\ GivenBack /\ Collected
    BY DEF ShopsSound
  <1>b. \A t \in Shops : till[t] \in Int /\ till[t] <= till[t]
    BY <1>a, BoundAssumption DEF TypeOK
  <1>1. CASE UNCHANGED <<package, listed, kind, till, onMap>>
    BY <1>a, <1>b, <1>1, CollectedKept DEF Hired
  <1>2. ASSUME NEW s \in Shops, Kick(s) PROVE Collected'
    BY <1>1, <1>2 DEF Kick, places
  <1>3. ASSUME NEW s \in Shops, TimerExpires(s) PROVE Collected'
    BY <1>a, <1>3, CollectedSaved DEF TimerExpires, CloseHired
  <1>4. ASSUME NEW p \in Players, NEW final \in BOOLEAN, Disconnect(p, final) PROVE Collected'
    <2>1. CASE \E s \in Shops, remove \in BOOLEAN : CloseHired(s, remove)
      BY <1>a, <2>1, CollectedSaved DEF CloseHired
    <2>2. CASE \E s : ClosePersonal(s, stock[s], inv)
      <3>1. UNCHANGED <<package, listed, kind, till>> /\ onMap' \subseteq onMap
        BY <2>2 DEF ClosePersonal
      <3> QED
        BY <1>a, <1>b, <3>1, CollectedKept DEF Hired
    <2>3. CASE UNCHANGED <<kind, till, places, package>>
      BY <1>1, <2>3 DEF places
    <2>4. p = Owner /\ window[p] # None => window[p] \in Shops
      BY <1>a DEF TypeOK
    <2> QED
      BY <1>4, <2>1, <2>2, <2>3, <2>4 DEF Disconnect
  <1>5. ASSUME NEW p \in Players, PlayerStep(p) PROVE Collected'
    <2>1. CASE Reconnect(p) \/ \E l \in Lots : PickUp(p, l) \/ Drop(p, l)
      BY <1>1, <2>1 DEF Reconnect, PickUp, Drop, places
    <2>2. CASE Disconnect(p, FALSE) \/ Disconnect(p, TRUE)
      BY <1>4, <2>2
    <2> QED
      BY <1>5, <2>1, <2>2 DEF PlayerStep
  <1>6. CASE Collect
    BY <1>6, CollectedNone DEF Collect
  <1>7. CASE ToggleShops
    BY <1>1, <1>7 DEF ToggleShops, places
  <1>8. CASE CloseAllMerchants
    <2> DEFINE closed == listed \cup {s \in onMap \ listed : kind[s] = "hired"}
    <2>1. closed \subseteq Shops
      BY <1>a DEF TypeOK
    <2>2. /\ closed # {} => \E last \in closed : package' = Saved(last)
          /\ closed = {} => package' = package
          /\ onMap' = onMap \ closed /\ listed' = {} /\ till' = till /\ kind' = kind
      BY <1>8 DEF CloseAllMerchants
    <2>3. closed = {} => listed = {}
      OBVIOUS
    <2> HIDE DEF closed
    <2>4. CASE closed = {}
      BY <1>1, <2>2, <2>3, <2>4
    <2>5. CASE closed # {}
      BY <1>a, <2>1, <2>2, <2>5, CollectedSaved
    <2> QED
      BY <2>4, <2>5
  <1>9. CASE Restart
    <2>1. /\ package' = package /\ listed' = listed
          /\ \A s \in Shops : ~Hired(s)'
      BY <1>9 DEF Restart, Hired
    <2> QED
      BY <1>a, <2>1, CollectedKept
  <1>10. CASE UNCHANGED vars
    BY <1>1, <1>10 DEF vars
  <1> QED
    BY <1>2, <1>3, <1>5, <1>6, <1>7, <1>8, <1>9, <1>10, OwnerCollected, VisitorCollected
       DEF Next

LEMMA ShopsSoundStep == ShopsSound /\ [Next]_vars => ShopsSound'
  <1> SUFFICES ASSUME ShopsSound, [Next]_vars PROVE ShopsSound'
    OBVIOUS
  <1>1. TypeOK /\ SeatsInv /\ ShopsInv /\ RoomInv /\ GivenBack /\ Collected
    BY DEF ShopsSound
  <1>2. TypeOK' /\ SeatsInv'
    BY <1>1, TypesStep, SeatsStep
  <1> QED
    BY <1>1, <1>2, ShopsStep, RoomStep, BackStep, CollectedStep DEF ShopsSound

-----------------------------------------------------------------------------
(* What is counted *)

\* What somebody can reach of l in s, and of the mesos in its till
Shown(s, l) == IF s \in Reachable THEN stock[s][l] ELSE 0
Tilled(s) == IF s \in onMap THEN till[s] ELSE 0

InPockets(l) == SumFunction(Pockets(l))
OnDisplay(l) == SumFunction(Displays(l))
InPurses == SumFunction(purse)
InTills == SumFunction(Tills)

\* Where the bundles of l are, each place with a count.
LEMMA Tallied ==
  ASSUME TypeOK, NEW l \in Lots
  PROVE  /\ Held(l) = ground[l] + InPockets(l) + OnDisplay(l) + Packed(l)
         /\ ground[l] \in Nat /\ Packed(l) \in Nat
         /\ InPockets(l) = SumFunctionOnSet(Pockets(l), Players)
         /\ OnDisplay(l) = SumFunctionOnSet(Displays(l), Shops)
         /\ \A p \in Players : Pockets(l)[p] = inv[p][l] /\ inv[p][l] \in Nat
         /\ \A s \in Shops : Displays(l)[s] = Shown(s, l) /\ Shown(s, l) \in Nat
         /\ InPockets(l) \in Int /\ OnDisplay(l) \in Int
  <1>1. /\ ground[l] \in Nat
        /\ \A p \in Players : inv[p][l] \in Nat
        /\ \A s \in Shops : Shown(s, l) \in Nat
    BY DEF TypeOK, Shown
  <1>2. Packed(l) \in Nat
    BY PackageIs DEF Packed, Collectable
  <1>3. /\ \A p \in Players : Pockets(l)[p] = inv[p][l]
        /\ \A s \in Shops : Displays(l)[s] = Shown(s, l)
        /\ DOMAIN Pockets(l) = Players /\ DOMAIN Displays(l) = Shops
    BY DEF Pockets, Displays, Shown
  <1>4. /\ InPockets(l) = SumFunctionOnSet(Pockets(l), Players)
        /\ OnDisplay(l) = SumFunctionOnSet(Displays(l), Shops)
    BY <1>3 DEF InPockets, OnDisplay, SumFunction
  <1>5. \A p \in Players : Pockets(l)[p] \in Int
    BY <1>1, <1>3
  <1>6. \A s \in Shops : Displays(l)[s] \in Int
    BY <1>1, <1>3
  <1>7. InPockets(l) \in Int /\ OnDisplay(l) \in Int
    BY <1>4, <1>5, <1>6, FiniteAssumption, SumType
  <1> QED
    BY <1>1, <1>2, <1>3, <1>4, <1>7 DEF Held, InPockets, OnDisplay

\* The same after the step.
LEMMA TalliedNext ==
  ASSUME TypeOK', NEW l \in Lots
  PROVE  /\ Held(l)' = ground'[l] + InPockets(l)' + OnDisplay(l)' + Packed(l)'
         /\ ground'[l] \in Nat /\ Packed(l)' \in Nat
         /\ InPockets(l)' = SumFunctionOnSet(Pockets(l)', Players)
         /\ OnDisplay(l)' = SumFunctionOnSet(Displays(l)', Shops)
         /\ \A p \in Players : Pockets(l)'[p] = inv'[p][l] /\ inv'[p][l] \in Nat
         /\ \A s \in Shops : Displays(l)'[s] = Shown(s, l)' /\ Shown(s, l)' \in Nat
         /\ InPockets(l)' \in Int /\ OnDisplay(l)' \in Int
  <1>1. /\ ground'[l] \in Nat
        /\ \A p \in Players : inv'[p][l] \in Nat
        /\ \A s \in Shops : Shown(s, l)' \in Nat
    BY DEF TypeOK, Shown
  <1>2. Packed(l)' \in Nat
    <2>1. package' # None => package' \in Packages
      BY DEF TypeOK
    <2>2. package' # None => package'.goods \in [Lots -> Nat]
      BY <2>1 DEF Packages
    <2> QED
      BY <2>2 DEF Packed, Collectable
  <1>3. /\ \A p \in Players : Pockets(l)'[p] = inv'[p][l]
        /\ \A s \in Shops : Displays(l)'[s] = Shown(s, l)'
        /\ DOMAIN Pockets(l)' = Players /\ DOMAIN Displays(l)' = Shops
    BY DEF Pockets, Displays, Shown
  <1>4. /\ InPockets(l)' = SumFunctionOnSet(Pockets(l)', Players)
        /\ OnDisplay(l)' = SumFunctionOnSet(Displays(l)', Shops)
    BY <1>3 DEF InPockets, OnDisplay, SumFunction
  <1>5. \A p \in Players : Pockets(l)'[p] \in Int
    BY <1>1, <1>3
  <1>6. \A s \in Shops : Displays(l)'[s] \in Int
    BY <1>1, <1>3
  <1>7. InPockets(l)' \in Int /\ OnDisplay(l)' \in Int
    BY <1>4, <1>5, <1>6, FiniteAssumption, SumType
  <1> QED
    BY <1>1, <1>2, <1>3, <1>4, <1>7 DEF Held, InPockets, OnDisplay

\* Nobody's bundles of l change, or one player's, or two players'.
LEMMA PocketsMove ==
  ASSUME TypeOK, TypeOK', NEW l \in Lots
  PROVE  /\ (\A r \in Players : inv'[r][l] = inv[r][l]) => InPockets(l)' = InPockets(l)
         /\ \A p \in Players :
               (\A r \in Players \ {p} : inv'[r][l] = inv[r][l])
                  => InPockets(l)' = InPockets(l) - inv[p][l] + inv'[p][l]
         /\ \A p, q \in Players :
               p # q /\ (\A r \in Players \ {p, q} : inv'[r][l] = inv[r][l])
                  => InPockets(l)' = InPockets(l) - inv[p][l] + inv'[p][l]
                                                  - inv[q][l] + inv'[q][l]
  <1>1. PICK f, g : f = Pockets(l) /\ g = Pockets(l)'
    OBVIOUS
  <1>2. /\ \A p \in Players : f[p] = inv[p][l] /\ g[p] = inv'[p][l] /\ f[p] \in Int /\ g[p] \in Int
        /\ InPockets(l) = SumFunctionOnSet(f, Players)
        /\ InPockets(l)' = SumFunctionOnSet(g, Players)
    BY <1>1, Tallied, TalliedNext
  <1>3. ASSUME \A r \in Players : inv'[r][l] = inv[r][l]
        PROVE  InPockets(l)' = InPockets(l)
    <2>1. \A r \in Players : g[r] = f[r]
      BY <1>2, <1>3
    <2> QED
      BY <1>2, <2>1, FiniteAssumption, SumSame
  <1>4. ASSUME NEW p \in Players, \A r \in Players \ {p} : inv'[r][l] = inv[r][l]
        PROVE  InPockets(l)' = InPockets(l) - inv[p][l] + inv'[p][l]
    <2>1. \A r \in Players \ {p} : g[r] = f[r]
      BY <1>2, <1>4
    <2>2. SumFunctionOnSet(g, Players) = SumFunctionOnSet(f, Players) - f[p] + g[p]
      BY <1>2, <2>1, FiniteAssumption, SumChange
    <2> QED
      BY <1>2, <2>2
  <1>5. ASSUME NEW p \in Players, NEW q \in Players, p # q,
               \A r \in Players \ {p, q} : inv'[r][l] = inv[r][l]
        PROVE  InPockets(l)' = InPockets(l) - inv[p][l] + inv'[p][l] - inv[q][l] + inv'[q][l]
    <2>1. \A r \in Players \ {p, q} : g[r] = f[r]
      BY <1>2, <1>5
    <2>2. SumFunctionOnSet(g, Players) =
             SumFunctionOnSet(f, Players) - f[p] + g[p] - f[q] + g[q]
      BY <1>2, <1>5, <2>1, FiniteAssumption, SumExchange
    <2> QED
      BY <1>2, <2>2
  <1> QED
    BY <1>3, <1>4, <1>5

\* What shops show of l: the same, or in one shop something else, and in the others
\* the same or no more.
LEMMA DisplaysMove ==
  ASSUME TypeOK, TypeOK', NEW l \in Lots
  PROVE  /\ (\A s \in Shops : Shown(s, l)' = Shown(s, l)) => OnDisplay(l)' = OnDisplay(l)
         /\ \A s \in Shops :
               (\A t \in Shops \ {s} : Shown(t, l)' = Shown(t, l))
                  => OnDisplay(l)' = OnDisplay(l) - Shown(s, l) + Shown(s, l)'
         /\ \A s \in Shops :
               (\A t \in Shops \ {s} : Shown(t, l)' <= Shown(t, l))
                  => OnDisplay(l)' <= OnDisplay(l) - Shown(s, l) + Shown(s, l)'
  <1>1. PICK f, g : f = Displays(l) /\ g = Displays(l)'
    OBVIOUS
  <1>2. /\ \A s \in Shops : /\ f[s] = Shown(s, l) /\ g[s] = Shown(s, l)'
                            /\ f[s] \in Int /\ g[s] \in Int
        /\ OnDisplay(l) = SumFunctionOnSet(f, Shops)
        /\ OnDisplay(l)' = SumFunctionOnSet(g, Shops)
    BY <1>1, Tallied, TalliedNext
  <1>3. ASSUME \A s \in Shops : Shown(s, l)' = Shown(s, l)
        PROVE  OnDisplay(l)' = OnDisplay(l)
    <2>1. \A s \in Shops : g[s] = f[s]
      BY <1>2, <1>3
    <2> QED
      BY <1>2, <2>1, FiniteAssumption, SumSame
  <1>4. ASSUME NEW s \in Shops, \A t \in Shops \ {s} : Shown(t, l)' = Shown(t, l)
        PROVE  OnDisplay(l)' = OnDisplay(l) - Shown(s, l) + Shown(s, l)'
    <2>1. \A t \in Shops \ {s} : g[t] = f[t]
      BY <1>2, <1>4
    <2>2. SumFunctionOnSet(g, Shops) = SumFunctionOnSet(f, Shops) - f[s] + g[s]
      BY <1>2, <2>1, FiniteAssumption, SumChange
    <2> QED
      BY <1>2, <2>2
  <1>5. ASSUME NEW s \in Shops, \A t \in Shops \ {s} : Shown(t, l)' <= Shown(t, l)
        PROVE  OnDisplay(l)' <= OnDisplay(l) - Shown(s, l) + Shown(s, l)'
    <2>1. \A t \in Shops \ {s} : g[t] <= f[t]
      BY <1>2, <1>5
    <2>2. SumFunctionOnSet(g, Shops) <= SumFunctionOnSet(f, Shops) - f[s] + g[s]
      BY <1>2, <2>1, FiniteAssumption, SumAtMost
    <2> QED
      BY <1>2, <2>2
  <1> QED
    BY <1>3, <1>4, <1>5

\* Where the mesos are.
LEMMA MoneyTallied ==
  ASSUME TypeOK
  PROVE  /\ Money = InPurses + InTills + PackedMesos
         /\ PackedMesos \in Nat
         /\ InPurses = SumFunctionOnSet(purse, Players)
         /\ InTills = SumFunctionOnSet(Tills, Shops)
         /\ \A p \in Players : purse[p] \in Nat
         /\ \A s \in Shops : Tills[s] = Tilled(s) /\ Tilled(s) \in Nat
         /\ InPurses \in Int /\ InTills \in Int
  <1>1. /\ \A p \in Players : purse[p] \in Nat
        /\ \A s \in Shops : Tills[s] = Tilled(s) /\ Tilled(s) \in Nat
        /\ DOMAIN purse = Players /\ DOMAIN Tills = Shops
    BY BoundAssumption DEF TypeOK, Tills, Tilled
  <1>2. PackedMesos \in Nat
    BY PackageIs, BoundAssumption DEF PackedMesos, Collectable
  <1>3. /\ InPurses = SumFunctionOnSet(purse, Players)
        /\ InTills = SumFunctionOnSet(Tills, Shops)
    BY <1>1 DEF InPurses, InTills, SumFunction
  <1>4. \A p \in Players : purse[p] \in Int
    BY <1>1
  <1>5. \A s \in Shops : Tills[s] \in Int
    BY <1>1
  <1>6. InPurses \in Int /\ InTills \in Int
    BY <1>3, <1>4, <1>5, FiniteAssumption, SumType
  <1> QED
    BY <1>1, <1>2, <1>3, <1>6 DEF Money, InPurses, InTills

\* The same after the step.
LEMMA MoneyTalliedNext ==
  ASSUME TypeOK'
  PROVE  /\ Money' = InPurses' + InTills' + PackedMesos'
         /\ PackedMesos' \in Nat
         /\ InPurses' = SumFunctionOnSet(purse', Players)
         /\ InTills' = SumFunctionOnSet(Tills', Shops)
         /\ \A p \in Players : purse'[p] \in Nat
         /\ \A s \in Shops : Tills'[s] = Tilled(s)' /\ Tilled(s)' \in Nat
         /\ InPurses' \in Int /\ InTills' \in Int
  <1>1. /\ \A p \in Players : purse'[p] \in Nat
        /\ \A s \in Shops : Tills'[s] = Tilled(s)' /\ Tilled(s)' \in Nat
        /\ DOMAIN purse' = Players /\ DOMAIN Tills' = Shops
    BY BoundAssumption DEF TypeOK, Tills, Tilled
  <1>2. PackedMesos' \in Nat
    <2>1. package' # None => package' \in Packages
      BY DEF TypeOK
    <2>2. package' # None => package'.meso \in 0..IntMax
      BY <2>1 DEF Packages
    <2> QED
      BY <2>2, BoundAssumption DEF PackedMesos, Collectable
  <1>3. /\ InPurses' = SumFunctionOnSet(purse', Players)
        /\ InTills' = SumFunctionOnSet(Tills', Shops)
    BY <1>1 DEF InPurses, InTills, SumFunction
  <1>4. \A p \in Players : purse'[p] \in Int
    BY <1>1
  <1>5. \A s \in Shops : Tills'[s] \in Int
    BY <1>1
  <1>6. InPurses' \in Int /\ InTills' \in Int
    BY <1>3, <1>4, <1>5, FiniteAssumption, SumType
  <1> QED
    BY <1>1, <1>2, <1>3, <1>6 DEF Money, InPurses, InTills

\* Nobody's purse changes, or one player's, or two players'.
LEMMA PursesMove ==
  ASSUME TypeOK, TypeOK'
  PROVE  /\ purse' = purse => InPurses' = InPurses
         /\ \A p \in Players :
               (\A r \in Players \ {p} : purse'[r] = purse[r])
                  => InPurses' = InPurses - purse[p] + purse'[p]
         /\ \A p, q \in Players :
               p # q /\ (\A r \in Players \ {p, q} : purse'[r] = purse[r])
                  => InPurses' = InPurses - purse[p] + purse'[p] - purse[q] + purse'[q]
  <1>1. PICK f, g : f = purse /\ g = purse'
    OBVIOUS
  <1>2. /\ \A p \in Players : f[p] \in Int /\ g[p] \in Int
        /\ InPurses = SumFunctionOnSet(f, Players) /\ InPurses' = SumFunctionOnSet(g, Players)
    BY <1>1, MoneyTallied, MoneyTalliedNext
  <1>3. \A p \in Players :
           (\A r \in Players \ {p} : g[r] = f[r])
              => SumFunctionOnSet(g, Players) = SumFunctionOnSet(f, Players) - f[p] + g[p]
    BY <1>2, FiniteAssumption, SumChange
  <1>4. \A p, q \in Players :
           p # q /\ (\A r \in Players \ {p, q} : g[r] = f[r])
              => SumFunctionOnSet(g, Players) =
                    SumFunctionOnSet(f, Players) - f[p] + g[p] - f[q] + g[q]
    BY <1>2, FiniteAssumption, SumExchange
  <1> QED
    BY <1>1, <1>2, <1>3, <1>4

\* The tills stay, or hold no more, or one of them something else.
LEMMA TillsMove ==
  ASSUME TypeOK, TypeOK'
  PROVE  /\ (\A s \in Shops : Tilled(s)' = Tilled(s)) => InTills' = InTills
         /\ (\A s \in Shops : Tilled(s)' <= Tilled(s)) => InTills' <= InTills
         /\ \A s \in Shops :
               (\A t \in Shops \ {s} : Tilled(t)' <= Tilled(t))
                  => InTills' <= InTills - Tilled(s) + Tilled(s)'
  <1>1. PICK f, g : f = Tills /\ g = Tills'
    OBVIOUS
  <1>2. /\ \A s \in Shops : f[s] = Tilled(s) /\ g[s] = Tilled(s)' /\ f[s] \in Int /\ g[s] \in Int
        /\ InTills = SumFunctionOnSet(f, Shops) /\ InTills' = SumFunctionOnSet(g, Shops)
    BY <1>1, MoneyTallied, MoneyTalliedNext
  <1>3. ASSUME \A s \in Shops : Tilled(s)' = Tilled(s)
        PROVE  InTills' = InTills
    <2>1. \A s \in Shops : g[s] = f[s]
      BY <1>2, <1>3
    <2> QED
      BY <1>2, <2>1, FiniteAssumption, SumSame
  <1>4. ASSUME \A s \in Shops : Tilled(s)' <= Tilled(s)
        PROVE  InTills' <= InTills
    <2>1. \A s \in Shops : g[s] <= f[s]
      BY <1>2, <1>4
    <2> QED
      BY <1>2, <2>1, FiniteAssumption, SumMonotone
  <1>5. ASSUME NEW s \in Shops, \A t \in Shops \ {s} : Tilled(t)' <= Tilled(t)
        PROVE  InTills' <= InTills - Tilled(s) + Tilled(s)'
    <2>1. \A t \in Shops \ {s} : g[t] <= f[t]
      BY <1>2, <1>5
    <2>2. SumFunctionOnSet(g, Shops) <= SumFunctionOnSet(f, Shops) - f[s] + g[s]
      BY <1>2, <2>1, FiniteAssumption, SumAtMost
    <2> QED
      BY <1>2, <2>2
  <1> QED
    BY <1>3, <1>4, <1>5

-----------------------------------------------------------------------------
(* What a step does to the goods and the mesos *)

Excused(l) ==
    SavedOver \/ SavedAgain \/ SoldWhenClosed \/ LeftInClosed(l) \/ RefusedAtCollection(l)

GoodsKept(l) ==
    /\ Held(l)' > Held(l) => SoldWhenClosed
    /\ Held(l)' < Held(l) => Excused(l)

MesosKept == Money' > Money => SavedOver \/ TakenWhenClosed \/ SoldWhenClosed

\* As many bundles, nothing to excuse.
LEMMA AllKept ==
  ASSUME TypeOK, TypeOK', NEW l \in Lots, Held(l)' = Held(l)
  PROVE  GoodsKept(l)
  <1>1. Held(l) \in Int
    BY Tallied
  <1> QED
    BY <1>1 DEF GoodsKept

\* No more mesos, nothing to explain.
LEMMA NoMoreMesos ==
  ASSUME TypeOK, TypeOK', Money' <= Money
  PROVE  MesosKept
  <1>1. Money \in Int /\ Money' \in Int
    BY MoneyTallied, MoneyTalliedNext
  <1> QED
    BY <1>1 DEF MesosKept

\* A step that moves neither goods nor mesos: what comes into reach or goes out
\* of it is an empty shop.
LEMMA Quiet ==
  ASSUME TypeOK, TypeOK', UNCHANGED <<inv, ground, stock, package, listed>>, NEW l \in Lots,
         \A s \in Shops : \/ s \in Reachable' <=> s \in Reachable
                          \/ stock[s][l] = 0
  PROVE  GoodsKept(l)
  <1>1. InPockets(l)' = InPockets(l)
    BY PocketsMove
  <1>2. \A s \in Shops : Shown(s, l)' = Shown(s, l)
    BY DEF Shown
  <1>3. OnDisplay(l)' = OnDisplay(l)
    BY <1>2, DisplaysMove
  <1>4. Packed(l)' = Packed(l) /\ ground'[l] = ground[l]
    BY DEF Packed, Collectable
  <1>5. Held(l)' = Held(l)
    BY <1>1, <1>3, <1>4, Tallied, TalliedNext
  <1> QED
    BY <1>5, AllKept

\* The same for the mesos: a shop that comes onto a map has none.
LEMMA QuietMesos ==
  ASSUME TypeOK, TypeOK', UNCHANGED <<purse, till, package, listed>>,
         \A s \in onMap' \ onMap : till[s] = 0
  PROVE  MesosKept
  <1>1. \A s \in Shops : Tilled(s)' <= Tilled(s)
    <2>1. \A s \in Shops : till[s] \in Nat
      BY BoundAssumption DEF TypeOK
    <2> QED
      BY <2>1 DEF Tilled
  <1>2. InPurses' = InPurses /\ InTills' <= InTills
    BY <1>1, PursesMove, TillsMove
  <1>3. PackedMesos' = PackedMesos
    BY DEF PackedMesos, Collectable
  <1>4. Money' <= Money
    BY <1>2, <1>3, MoneyTallied, MoneyTalliedNext
  <1> QED
    BY <1>4, NoMoreMesos

\* Where the owner is says which shops can be reached.
LEMMA ReachableIs ==
  ASSUME NEW s \in Shops
  PROVE  /\ s \in Reachable <=> s \in onMap \/ window[Owner] = s
         /\ s \in Reachable' <=> s \in onMap' \/ window'[Owner] = s
  BY DEF Reachable

\* The owner stays where he is, or goes where the shop is on its map.
LEMMA SameReach ==
  ASSUME TypeOK, TypeOK', UNCHANGED <<inv, ground, stock, package, listed, onMap>>,
         \/ window'[Owner] = window[Owner]
         \/ /\ window[Owner] \in onMap \cup {None}
            /\ window'[Owner] \in onMap \cup {None}
  PROVE  \A l \in Lots : GoodsKept(l)
  <1>1. \A s \in Shops : s \in Reachable' <=> s \in Reachable
    BY NoneAssumption, ReachableIs
  <1> QED
    BY <1>1, Quiet

\* HiredMerchant.closeShop: the goods go from the shop into the package, and what
\* that held of an earlier merchant, or of the same one, is replaced.
LEMMA ClosedHiredKeeps ==
  ASSUME ShopsSound, TypeOK', NEW s \in Shops, Hired(s), s \in Reachable, SavedAndClosed(s),
         window'[Owner] = window[Owner] \/ (window[Owner] = s /\ window'[Owner] = None)
  PROVE  \A l \in Lots : GoodsKept(l)
  <1> TAKE l \in Lots
  <1>a. TypeOK /\ SeatsInv /\ ShopsInv /\ Collected
    BY DEF ShopsSound
  <1>b. /\ UNCHANGED <<inv, ground>>
        /\ stock' = [stock EXCEPT ![s] = Empty]
        /\ package' = Saved(s)
        /\ listed' = listed \ {s} /\ onMap' = onMap \ {s}
    BY DEF SavedAndClosed, goods
  <1>1. InPockets(l)' = InPockets(l)
    BY <1>a, <1>b, PocketsMove
  <1>2. \A t \in Shops \ {s} : Shown(t, l)' = Shown(t, l)
    <2>1. \A t \in Shops \ {s} : t \in Reachable' <=> t \in Reachable
      BY <1>b, NoneAssumption, ReachableIs
    <2> QED
      BY <1>a, <1>b, <2>1 DEF Shown, TypeOK
  <1>3. Shown(s, l) = stock[s][l] /\ Shown(s, l)' = 0
    BY <1>a, <1>b DEF Shown, Empty, TypeOK
  <1>4. OnDisplay(l)' = OnDisplay(l) - Shown(s, l) + Shown(s, l)'
    BY <1>a, <1>2, DisplaysMove
  <1>5. Packed(l)' = stock[s][l]
    <2>1. package' # None
      BY <1>a, <1>b, SavedType, NoneAssumption
    <2> QED
      BY <1>b, <2>1 DEF Packed, Collectable, Saved
  <1>6. Held(l)' = Held(l) - Packed(l)
    BY <1>a, <1>b, <1>1, <1>3, <1>4, <1>5, Tallied, TalliedNext
  <1>7. Packed(l) \in Nat /\ Held(l) \in Int
    BY <1>a, Tallied
  <1>8. Packed(l) # 0 => Excused(l)
    <2> SUFFICES ASSUME Packed(l) # 0 PROVE Excused(l)
      OBVIOUS
    <2>1. Collectable /\ package # None
      BY DEF Packed, Collectable
    <2>2. CASE package.by # s
      <3>1. package' # None /\ package'.by = s
        BY <1>a, <1>b, SavedType, NoneAssumption DEF Saved
      <3> QED
        BY <2>1, <2>2, <3>1 DEF Excused, SavedOver
    <2>3. CASE package.by = s
      <3>1. s \notin onMap
        BY <1>a, <2>1, <2>3 DEF Collected
      <3>2. window[Owner] = s
        BY <3>1, ReachableIs
      <3> QED
        BY <1>b, <3>1, <3>2 DEF Excused, SavedAgain
    <2> QED
      BY <2>2, <2>3
  <1> QED
    BY <1>6, <1>7, <1>8 DEF GoodsKept

\* Its mesos go into the package; the till keeps them, but is out of reach.
LEMMA ClosedHiredMesos ==
  ASSUME ShopsSound, TypeOK', NEW s \in Shops, Hired(s), s \in Reachable, SavedAndClosed(s)
  PROVE  MesosKept
  <1>a. TypeOK /\ SeatsInv /\ ShopsInv /\ Collected
    BY DEF ShopsSound
  <1>b. /\ UNCHANGED <<purse, till>>
        /\ package' = Saved(s)
        /\ listed' = listed \ {s} /\ onMap' = onMap \ {s}
    BY DEF SavedAndClosed
  <1>c. \A t \in Shops : till[t] \in Nat
    BY <1>a, BoundAssumption DEF TypeOK
  <1>1. InPurses' = InPurses
    BY <1>a, <1>b, PursesMove
  <1>2. \A t \in Shops \ {s} : Tilled(t)' <= Tilled(t)
    BY <1>b, <1>c DEF Tilled
  <1>3. InTills' <= InTills - Tilled(s) + Tilled(s)'
    BY <1>a, <1>2, TillsMove
  <1>4. Tilled(s)' = 0
    BY <1>b DEF Tilled
  <1>5. PackedMesos' = till[s]
    <2>1. package' # None
      BY <1>a, <1>b, SavedType, NoneAssumption
    <2> QED
      BY <1>b, <2>1 DEF PackedMesos, Collectable, Saved
  <1>6. Money' <= Money - Tilled(s) + till[s] - PackedMesos
    BY <1>a, <1>c, <1>1, <1>3, <1>4, <1>5, MoneyTallied, MoneyTalliedNext
  <1>7. CASE s \in onMap
    <2>1. Tilled(s) = till[s]
      BY <1>7 DEF Tilled
    <2>2. Money' <= Money
      BY <1>a, <1>c, <1>6, <2>1, MoneyTallied, MoneyTalliedNext
    <2> QED
      BY <1>a, <2>2, NoMoreMesos
  <1>8. CASE s \notin onMap
    <2>1. window[Owner] = s
      BY <1>8, ReachableIs
    <2>2. package # None
      BY <1>a, <1>8, <2>1 DEF ShopsInv, ClosedLast, Inside
    <2>3. CASE package.by # s
      <3>1. package' # None /\ package'.by = s
        BY <1>a, <1>b, SavedType, NoneAssumption DEF Saved
      <3> QED
        BY <2>2, <2>3, <3>1 DEF MesosKept, SavedOver
    <2>4. CASE package.by = s
      <3>1. Collectable
        BY <1>a, <1>8, <2>2, <2>4 DEF Collectable, ShopsInv, ListedAre
      <3>2. till[s] <= PackedMesos
        BY <1>a, <2>4, <3>1 DEF Collected, PackedMesos
      <3>3. Tilled(s) = 0
        BY <1>8 DEF Tilled
      <3>4. Money' <= Money
        BY <1>a, <1>c, <1>6, <3>2, <3>3, MoneyTallied, MoneyTalliedNext
      <3> QED
        BY <1>a, <3>4, NoMoreMesos
    <2> QED
      BY <2>3, <2>4
  <1> QED
    BY <1>7, <1>8

\* MaplePlayerShop.closeShop: the owner gets all of it, which is all that was
\* left after the sale to p, if it closes after one.
LEMMA ClosedPersonalKeeps ==
  ASSUME ShopsSound, TypeOK', NEW s \in Shops, kind[s] = "personal", window[Owner] = s,
         ClosePersonal(s, stock[s], inv)
  PROVE  \A l \in Lots : GoodsKept(l)
  <1> TAKE l \in Lots
  <1>a. TypeOK /\ SeatsInv /\ ShopsInv /\ RoomLeft
    BY DEF ShopsSound, RoomInv
  <1>b. /\ UNCHANGED <<ground, package, listed>> /\ onMap' = onMap \ {s}
    BY DEF ClosePersonal
  <1>c. /\ stock[s] \in [Lots -> Nat] /\ inv \in [Players -> [Lots -> Nat]]
        /\ \A k \in Lots : stock[s][k] <= stock[s][k]
    BY <1>a DEF TypeOK
  <1>1. /\ \A k \in Lots : inv'[Owner][k] = inv[Owner][k] + stock[s][k]
        /\ \A p \in Players \ {Owner} : inv'[p] = inv[p]
        /\ stock' = [stock EXCEPT ![s] = Empty]
        /\ window'[Owner] = None
    BY <1>a, <1>c, ClosedUp
  <1>2. InPockets(l)' = InPockets(l) - inv[Owner][l] + inv'[Owner][l]
    BY <1>a, <1>1, OwnerAssumption, PocketsMove
  <1>3. \A t \in Shops \ {s} : Shown(t, l)' = Shown(t, l)
    <2>1. \A t \in Shops \ {s} : t \in Reachable' <=> t \in Reachable
      BY <1>b, <1>1, NoneAssumption, ReachableIs
    <2> QED
      BY <1>a, <1>1, <2>1 DEF Shown, TypeOK
  <1>4. Shown(s, l) = stock[s][l] /\ Shown(s, l)' = 0
    <2>1. s \in Reachable
      BY ReachableIs
    <2> QED
      BY <1>a, <1>1, <2>1 DEF Shown, Empty, TypeOK
  <1>5. OnDisplay(l)' = OnDisplay(l) - Shown(s, l) + Shown(s, l)'
    BY <1>a, <1>3, DisplaysMove
  <1>6. Packed(l)' = Packed(l)
    BY <1>b DEF Packed, Collectable
  <1>7. Held(l)' = Held(l)
    <2>1. inv'[Owner][l] = inv[Owner][l] + stock[s][l]
      BY <1>1
    <2>2. inv[Owner][l] \in Nat /\ stock[s][l] \in Nat
      BY <1>c, OwnerAssumption
    <2> QED
      BY <1>a, <1>b, <2>1, <2>2, <1>2, <1>4, <1>5, <1>6, Tallied, TalliedNext
  <1> QED
    BY <1>a, <1>7, AllKept

\* A personal shop has its mesos in the owner's purse.
LEMMA ClosedPersonalMesos ==
  ASSUME TypeOK, TypeOK', NEW s, NEW left, NEW invs, ClosePersonal(s, left, invs),
         purse' = purse
  PROVE  MesosKept
  <1>1. UNCHANGED <<till, package, listed>> /\ onMap' \subseteq onMap
    BY DEF ClosePersonal
  <1> QED
    BY <1>1, QuietMesos

\* The owner gets up from a merchant, and with it goes what is in it if it was
\* closed around him.
LEMMA LeavingKeeps ==
  ASSUME TypeOK, TypeOK', NEW s \in Shops, window[Owner] = s, window'[Owner] = None,
         UNCHANGED <<inv, ground, stock, package, listed, onMap>>
  PROVE  \A l \in Lots : GoodsKept(l)
  <1> TAKE l \in Lots
  <1>1. CASE s \in onMap \/ stock[s][l] = 0
    <2>1. \A t \in Shops : \/ t \in Reachable' <=> t \in Reachable
                           \/ stock[t][l] = 0
      BY <1>1, NoneAssumption, ReachableIs
    <2> QED
      BY <2>1, Quiet
  <1>2. CASE s \notin onMap /\ stock[s][l] # 0
    <2>1. InPockets(l)' = InPockets(l)
      BY PocketsMove
    <2>2. \A t \in Shops \ {s} : Shown(t, l)' = Shown(t, l)
      <3>1. \A t \in Shops \ {s} : t \in Reachable' <=> t \in Reachable
        BY NoneAssumption, ReachableIs
      <3> QED
        BY <3>1 DEF Shown
    <2>3. OnDisplay(l)' = OnDisplay(l) - Shown(s, l) + Shown(s, l)'
      BY <2>2, DisplaysMove
    <2>4. Shown(s, l)' = 0
      BY <1>2, ReachableIs, NoneAssumption DEF Shown
    <2>5. Packed(l)' = Packed(l)
      BY DEF Packed, Collectable
    <2>6. Held(l)' <= Held(l)
      BY <2>1, <2>3, <2>4, <2>5, Tallied, TalliedNext
    <2>7. stock[s][l] > 0
      BY <1>2 DEF TypeOK
    <2>8. LeftInClosed(l)
      BY <1>2, <2>7, NoneAssumption DEF LeftInClosed
    <2>9. Held(l) \in Int /\ Held(l)' \in Int
      BY Tallied, TalliedNext
    <2> QED
      BY <2>6, <2>8, <2>9 DEF GoodsKept, Excused
  <1> QED
    BY <1>1, <1>2

\* AddItem and RemoveItem: bundles go from the owner to the shop and back.
LEMMA ShelvingKeeps ==
  ASSUME ShopsSound, TypeOK', NEW s \in Shops, window[Owner] = s, NEW l \in Lots,
         \A k \in Lots \ {l}, p \in Players : inv'[p][k] = inv[p][k],
         \A p \in Players \ {Owner} : inv'[p][l] = inv[p][l],
         \A t \in Shops, k \in Lots : t # s \/ k # l => stock'[t][k] = stock[t][k],
         inv'[Owner][l] + stock'[s][l] = inv[Owner][l] + stock[s][l],
         UNCHANGED <<ground, window, onMap, package, listed>>
  PROVE  \A k \in Lots : GoodsKept(k)
  <1> TAKE k \in Lots
  <1>a. TypeOK
    BY DEF ShopsSound
  <1>b. \A t \in Shops : t \in Reachable' <=> t \in Reachable
    BY ReachableIs
  <1>c. Packed(k)' = Packed(k)
    BY DEF Packed, Collectable
  <1>1. CASE k # l
    <2>1. InPockets(k)' = InPockets(k)
      BY <1>a, <1>1, PocketsMove
    <2>2. \A t \in Shops : Shown(t, k)' = Shown(t, k)
      BY <1>b, <1>1 DEF Shown
    <2>3. OnDisplay(k)' = OnDisplay(k)
      BY <1>a, <2>2, DisplaysMove
    <2>4. Held(k)' = Held(k)
      BY <1>a, <1>c, <2>1, <2>3, Tallied, TalliedNext
    <2> QED
      BY <1>a, <2>4, AllKept
  <1>2. CASE k = l
    <2>1. InPockets(l)' = InPockets(l) - inv[Owner][l] + inv'[Owner][l]
      BY <1>a, OwnerAssumption, PocketsMove
    <2>2. \A t \in Shops \ {s} : Shown(t, l)' = Shown(t, l)
      BY <1>b DEF Shown
    <2>3. OnDisplay(l)' = OnDisplay(l) - Shown(s, l) + Shown(s, l)'
      BY <1>a, <2>2, DisplaysMove
    <2>4. Shown(s, l) = stock[s][l] /\ Shown(s, l)' = stock'[s][l]
      BY <1>b, ReachableIs DEF Shown
    <2>5. /\ inv[Owner][l] \in Nat /\ inv'[Owner][l] \in Nat
          /\ stock[s][l] \in Nat /\ stock'[s][l] \in Nat
      BY <1>a, OwnerAssumption DEF TypeOK
    <2>6. Held(l)' = Held(l)
      BY <1>a, <1>c, <1>2, <2>1, <2>3, <2>4, <2>5, Tallied, TalliedNext
    <2> QED
      BY <1>a, <1>2, <2>6, AllKept
  <1> QED
    BY <1>1, <1>2

\* The owner's handlers move goods between him and his shop.
LEMMA OwnerGoods ==
  ASSUME ShopsSound, TypeOK', NEW s \in Shops, OwnerStep(s)
  PROVE  \A l \in Lots : GoodsKept(l)
  <1> DEFINE Goal == \A l \in Lots : GoodsKept(l)
  <1> SUFFICES Goal
    OBVIOUS
  <1>a. TypeOK /\ SeatsInv /\ ShopsInv /\ RoomInv /\ GivenBack /\ Collected
    BY DEF ShopsSound
  <1>b. /\ inv[Owner] \in [Lots -> Nat]
        /\ \A t \in Shops : stock[t] \in [Lots -> Nat]
    BY <1>a, OwnerAssumption DEF TypeOK
  <1>1. ASSUME NEW k \in {"hired", "personal"}, Create(s, k) PROVE Goal
    <2>1. /\ UNCHANGED <<inv, ground, stock, package, listed>>
          /\ onMap' = onMap \cup {s} /\ window[Owner] = None /\ kind[s] = "none"
          /\ window' = [window EXCEPT ![Owner] = s]
      BY <1>1 DEF Create, Free, goods, entries
    <2>2. window'[Owner] = s
      BY <1>a, <2>1, OwnerAssumption DEF TypeOK
    <2>3. \A t \in Shops \ {s} : t \in Reachable' <=> t \in Reachable
      BY <2>1, <2>2, NoneAssumption, ReachableIs
    <2>4. \A l \in Lots : stock[s][l] = 0
      BY <1>a, <2>1 DEF ShopsInv, Unborn
    <2> QED
      BY <1>a, <2>1, <2>3, <2>4, Quiet
  <1>2. ASSUME NEW l \in Lots, RemoveItem(s, l) PROVE Goal
    <2>1. /\ window[Owner] = s
          /\ inv' = [inv EXCEPT ![Owner] = Plus(@, l, stock[s][l])]
          /\ stock' = [stock EXCEPT ![s][l] = 0]
          /\ UNCHANGED <<ground, window, onMap, package, listed>>
      BY <1>2 DEF RemoveItem, walk, places
    <2>2. /\ stock'[s][l] = 0
          /\ \A t \in Shops, k \in Lots : t # s \/ k # l => stock'[t][k] = stock[t][k]
      BY <1>a, <2>1 DEF TypeOK
    <2>3. /\ \A p \in Players \ {Owner} : inv'[p] = inv[p]
          /\ inv'[Owner] = Plus(inv[Owner], l, stock[s][l])
      BY <1>a, <2>1, OwnerAssumption DEF TypeOK
    <2>4. /\ inv'[Owner][l] = inv[Owner][l] + stock[s][l]
          /\ \A k \in Lots \ {l} : inv'[Owner][k] = inv[Owner][k]
      BY <1>b, <2>3 DEF Plus
    <2>5. inv'[Owner][l] + stock'[s][l] = inv[Owner][l] + stock[s][l]
      BY <1>b, <2>2, <2>4
    <2>6. \A k \in Lots \ {l}, p \in Players : inv'[p][k] = inv[p][k]
      BY <2>3, <2>4
    <2> QED
      BY <2>1, <2>2, <2>3, <2>5, <2>6, ShelvingKeeps
  <1>3. ASSUME NEW l \in Lots, NEW n, AddItem(s, l, n) PROVE Goal
    <2>1. /\ window[Owner] = s /\ l \notin shelf[s] /\ n \in 1..inv[Owner][l]
          /\ inv' = [inv EXCEPT ![Owner][l] = @ - n]
          /\ stock' = [stock EXCEPT ![s][l] = n]
          /\ UNCHANGED <<ground, window, onMap, package, listed>>
      BY <1>3 DEF AddItem, walk, places
    <2>2. n \in Nat /\ stock[s][l] = 0
      BY <1>a, <1>b, <2>1 DEF ShopsInv, Shelved
    <2>3. /\ stock'[s][l] = n
          /\ \A t \in Shops, k \in Lots : t # s \/ k # l => stock'[t][k] = stock[t][k]
      BY <1>a, <1>b, <2>1 DEF TypeOK
    <2>4. /\ \A p \in Players \ {Owner} : inv'[p] = inv[p]
          /\ inv'[Owner] = [inv[Owner] EXCEPT ![l] = @ - n]
      BY <1>a, <2>1, OwnerAssumption DEF TypeOK
    <2>5. /\ inv'[Owner][l] = inv[Owner][l] - n
          /\ \A k \in Lots \ {l} : inv'[Owner][k] = inv[Owner][k]
      BY <1>b, <2>4
    <2>6. inv'[Owner][l] + stock'[s][l] = inv[Owner][l] + stock[s][l]
      BY <1>b, <2>2, <2>3, <2>5
    <2>7. \A k \in Lots \ {l}, p \in Players : inv'[p][k] = inv[p][k]
      BY <2>4, <2>5
    <2> QED
      BY <2>1, <2>3, <2>4, <2>6, <2>7, ShelvingKeeps
  <1>4. CASE OpenHired(s)
    <2>1. /\ UNCHANGED <<inv, ground, stock, onMap>> /\ package = None /\ package' = None
          /\ Leave({Owner}) /\ window[Owner] = s /\ Hired(s)
      BY <1>4 DEF OpenHired, goods, entries, Hired
    <2>2. s \in onMap
      BY <1>a, <2>1 DEF ShopsInv, ClosedLast, Inside
    <2>3. window'[Owner] = None
      BY <1>a, <2>1, OwnerStays
    <2> TAKE l \in Lots
    <2>4. \A t \in Shops : t \in Reachable' <=> t \in Reachable
      BY <2>1, <2>2, <2>3, NoneAssumption, ReachableIs
    <2>5. \A t \in Shops : Shown(t, l)' = Shown(t, l)
      BY <2>1, <2>4 DEF Shown
    <2>6. InPockets(l)' = InPockets(l) /\ OnDisplay(l)' = OnDisplay(l)
      BY <1>a, <2>1, <2>5, PocketsMove, DisplaysMove
    <2>7. Packed(l)' = Packed(l)
      BY <2>1 DEF Packed, Collectable
    <2>8. Held(l)' = Held(l)
      BY <1>a, <2>1, <2>6, <2>7, Tallied, TalliedNext
    <2> QED
      BY <1>a, <2>8, AllKept
  <1>5. CASE OpenPersonal(s)
    BY <1>a, <1>5, SameReach DEF OpenPersonal, walk, goods, entries, places
  <1>6. CASE OpenRefused(s)
    <2>0. s \in Reachable /\ window[Owner] = s
      BY <1>6, ReachableIs DEF OpenRefused
    <2>1. CASE kind[s] = "hired" /\ CloseHired(s, FALSE) /\ UNCHANGED walk
      <3>1. s \notin listed
        BY <1>a, <1>6 DEF OpenRefused, ShopsInv, ListedAre
      <3> QED
        BY <2>0, <2>1, <3>1, CloseHiredIs, ClosedHiredKeeps DEF walk, Hired
    <2>2. CASE kind[s] = "personal" /\ ClosePersonal(s, stock[s], inv)
      BY <2>0, <2>2, ClosedPersonalKeeps
    <2> QED
      BY <1>6, <2>1, <2>2 DEF OpenRefused
  <1>7. CASE Maintain(s) \/ OwlToOwn(s) \/ MaintenanceOff(s)
    <2>1. /\ window'[Owner] = window[Owner]
          /\ UNCHANGED <<goods, entries, places, package>>
      BY <1>a, <1>7, OwnerStays DEF Maintain, OwlToOwn, MaintenanceOff
    <2> QED
      BY <1>a, <2>1, SameReach DEF goods, entries, places
  <1>8. CASE TakeOver(s)
    <2>1. /\ window'[Owner] = s /\ entering[Owner] = s
          /\ UNCHANGED <<inv, ground, stock, onMap, listed, package>>
      BY <1>a, <1>8, OwnerAssumption DEF TakeOver, goods, entries, places, TypeOK
    <2>2. window[Owner] = None
      BY <1>a, <2>1, OwnerAssumption, NoneAssumption DEF SeatsInv, FromOutside
    <2>3. s \in onMap \/ \A l \in Lots : stock[s][l] = 0
      BY <1>a, <2>1 DEF ShopsInv, Returning
    <2>4. \A t \in Shops : \/ t \in Reachable' <=> t \in Reachable
                           \/ \A l \in Lots : stock[t][l] = 0
      BY <2>1, <2>2, <2>3, NoneAssumption, ReachableIs
    <2> QED
      BY <1>a, <2>1, <2>4, Quiet
  <1>9. CASE Organise(s)
    BY <1>a, <1>9, SameReach DEF Organise, walk, goods, places
  <1>10. CASE CloseMerchant(s)
    <2>1. s \in Reachable /\ SavedAndClosed(s) /\ Hired(s) /\ window[Owner] = s
      BY <1>10, CloseHiredIs, ReachableIs DEF CloseMerchant, Hired
    <2>2. window'[Owner] = None
      BY <1>a, <1>10, OwnerStays DEF CloseMerchant
    <2> QED
      BY <2>1, <2>2, ClosedHiredKeeps
  <1>11. CASE OwnerExit(s)
    <2>0. window[Owner] = s
      BY <1>11 DEF OwnerExit
    <2>1. CASE kind[s] = "personal" /\ ClosePersonal(s, stock[s], inv)
      BY <2>0, <2>1, ClosedPersonalKeeps
    <2>2. CASE Leave({Owner}) /\ UNCHANGED <<goods, entries, places, package>>
      <3>1. window'[Owner] = None
        BY <1>a, <2>2, OwnerStays
      <3> QED
        BY <1>a, <2>0, <2>2, <3>1, LeavingKeeps DEF goods, entries, places
    <2> QED
      BY <1>11, <2>1, <2>2 DEF OwnerExit
  <1> QED
    BY <1>1, <1>2, <1>3, <1>4, <1>5, <1>6, <1>7, <1>8, <1>9, <1>10, <1>11
       DEF OwnerStep

\* He takes the mesos out of a merchant, or they are saved.
LEMMA OwnerMesos ==
  ASSUME ShopsSound, TypeOK', NEW s \in Shops, OwnerStep(s)
  PROVE  MesosKept
  <1>a. TypeOK /\ SeatsInv /\ ShopsInv /\ RoomInv /\ GivenBack /\ Collected
    BY DEF ShopsSound
  <1>1. CASE UNCHANGED <<purse, till, package, listed, onMap>>
    BY <1>a, <1>1, QuietMesos
  <1>2. ASSUME NEW k \in {"hired", "personal"}, Create(s, k) PROVE MesosKept
    <2>1. /\ UNCHANGED <<purse, till, package, listed>>
          /\ onMap' = onMap \cup {s} /\ kind[s] = "none"
      BY <1>2 DEF Create
    <2>2. till[s] = 0
      BY <1>a, <2>1 DEF ShopsInv, Unborn
    <2> QED
      BY <1>a, <2>1, <2>2, QuietMesos
  <1>3. CASE \E l \in Lots : RemoveItem(s, l) \/ \E n \in 1..Bundles[l] : AddItem(s, l, n)
    BY <1>1, <1>3 DEF RemoveItem, AddItem, places
  <1>4. CASE OpenHired(s)
    <2>1. /\ UNCHANGED <<purse, till, onMap>> /\ package = None /\ package' = None
      BY <1>4 DEF OpenHired
    <2>2. InPurses' = InPurses
      BY <1>a, <2>1, PursesMove
    <2>3. \A t \in Shops : Tilled(t)' = Tilled(t)
      BY <2>1 DEF Tilled
    <2>4. InTills' = InTills
      BY <1>a, <2>3, TillsMove
    <2>5. PackedMesos' = PackedMesos
      BY <2>1 DEF PackedMesos, Collectable
    <2>6. Money' <= Money
      BY <1>a, <2>2, <2>4, <2>5, MoneyTallied, MoneyTalliedNext
    <2> QED
      BY <1>a, <2>6, NoMoreMesos
  <1>5. CASE \/ OpenPersonal(s) \/ Maintain(s) \/ OwlToOwn(s) \/ TakeOver(s)
             \/ MaintenanceOff(s)
    BY <1>1, <1>5 DEF OpenPersonal, Maintain, OwlToOwn, TakeOver, MaintenanceOff, places
  <1>6. CASE ClosePersonal(s, stock[s], inv) /\ UNCHANGED purse
    BY <1>a, <1>6, ClosedPersonalMesos
  <1>7. CASE OpenRefused(s)
    <2>1. CASE kind[s] = "hired" /\ CloseHired(s, FALSE)
      <3>1. s \notin listed /\ s \in Reachable
        BY <1>a, <1>7, ReachableIs DEF OpenRefused, ShopsInv, ListedAre
      <3> QED
        BY <2>1, <3>1, CloseHiredIs, ClosedHiredMesos DEF Hired
    <2> QED
      BY <1>6, <1>7, <2>1 DEF OpenRefused
  <1>8. CASE Organise(s)
    <2>1. /\ window[Owner] = s
          /\ purse' = [purse EXCEPT ![Owner] = @ + till[s]]
          /\ till' = [till EXCEPT ![s] = 0]
          /\ UNCHANGED <<onMap, package, listed>>
      BY <1>8 DEF Organise, places
    <2>2. \A t \in Shops : till[t] \in Nat
      BY <1>a, BoundAssumption DEF TypeOK
    <2>3. till'[s] = 0 /\ \A t \in Shops \ {s} : till'[t] = till[t]
      BY <1>a, <2>1 DEF TypeOK
    <2>4. CASE s \notin onMap
      BY <2>1, <2>3, <2>4 DEF MesosKept, TakenWhenClosed
    <2>5. CASE s \in onMap
      <3>1. /\ purse'[Owner] = purse[Owner] + till[s] /\ purse[Owner] \in Int
            /\ \A r \in Players \ {Owner} : purse'[r] = purse[r]
        BY <1>a, <2>1, OwnerAssumption, BoundAssumption DEF TypeOK
      <3>2. InPurses' = InPurses - purse[Owner] + purse'[Owner]
        BY <1>a, <3>1, OwnerAssumption, PursesMove
      <3>3. \A t \in Shops \ {s} : Tilled(t)' <= Tilled(t)
        BY <2>1, <2>2, <2>3 DEF Tilled
      <3>4. InTills' <= InTills - Tilled(s) + Tilled(s)'
        BY <1>a, <3>3, TillsMove
      <3>5. Tilled(s) = till[s] /\ Tilled(s)' = 0
        BY <2>1, <2>3, <2>5 DEF Tilled
      <3>6. PackedMesos' = PackedMesos
        BY <2>1 DEF PackedMesos, Collectable
      <3>7. Money' <= Money
        BY <1>a, <2>2, <3>1, <3>2, <3>4, <3>5, <3>6, MoneyTallied, MoneyTalliedNext
      <3> QED
        BY <1>a, <3>7, NoMoreMesos
    <2> QED
      BY <2>4, <2>5
  <1>9. CASE CloseMerchant(s)
    BY <1>9, CloseHiredIs, ReachableIs, ClosedHiredMesos DEF CloseMerchant, Hired
  <1>10. CASE OwnerExit(s)
    BY <1>1, <1>6, <1>10 DEF OwnerExit, places
  <1> QED
    BY <1>2, <1>3, <1>4, <1>5, <1>7, <1>8, <1>9, <1>10 DEF OwnerStep

\* A visitor who pays is served from the map, or by a merchant that was closed
\* around him.
LEMMA BoughtWhenClosed ==
  ASSUME TypeOK, NEW p \in Players, NEW s \in Shops, NEW l \in Lots, NEW n,
         BuyHired(p, s, l, n), s \notin onMap
  PROVE  SoldWhenClosed
  <1> DEFINE cost == ToInt(Price[l] * n)
  <1>1. MayBuy(p, s, l, n, cost) /\ purse' = [purse EXCEPT ![p] = @ - cost]
    BY DEF BuyHired
  <1>2. cost \in 1..IntMax
    BY <1>1, PriceIsInt
  <1> HIDE DEF cost
  <1>3. purse[p] \in Nat /\ purse'[p] = purse[p] - cost
    BY <1>1, BoundAssumption DEF TypeOK
  <1>4. purse'[p] < purse[p]
    BY <1>2, <1>3, BoundAssumption
  <1> QED
    BY <1>1, <1>4 DEF SoldWhenClosed, MayBuy

\* A sale: n bundles of l go from the shop to p, and the others stay.
LEMMA SaleMoves ==
  ASSUME TypeOK, TypeOK', NEW p \in Players, NEW s \in Shops, NEW l \in Lots, NEW n \in Nat,
         n <= stock[s][l], s \in Reachable, \A t \in Shops : t \in Reachable' <=> t \in Reachable,
         inv' = [inv EXCEPT ![p] = Plus(@, l, n)], ground' = ground,
         stock'[s] = [stock[s] EXCEPT ![l] = @ - n],
         \A t \in Shops \ {s} : stock'[t] = stock[t], NEW k \in Lots
  PROVE  Held(k)' - Packed(k)' = Held(k) - Packed(k)
  <1>1. /\ \A q \in Players \ {p} : inv'[q] = inv[q]
        /\ inv'[p] = Plus(inv[p], l, n)
    BY DEF TypeOK
  <1>2. inv'[p][k] = IF k = l THEN inv[p][l] + n ELSE inv[p][k]
    BY <1>1 DEF Plus, TypeOK
  <1>3. inv[p][k] \in Nat /\ inv[p][l] \in Nat /\ stock[s][k] \in Nat /\ stock[s][l] \in Nat
    BY DEF TypeOK
  <1>4. InPockets(k)' = InPockets(k) - inv[p][k] + inv'[p][k]
    BY <1>1, PocketsMove
  <1>5. \A t \in Shops \ {s} : Shown(t, k)' = Shown(t, k)
    BY DEF Shown
  <1>6. OnDisplay(k)' = OnDisplay(k) - Shown(s, k) + Shown(s, k)'
    BY <1>5, DisplaysMove
  <1>7. /\ Shown(s, k) = stock[s][k]
        /\ Shown(s, k)' = IF k = l THEN stock[s][l] - n ELSE stock[s][k]
    BY DEF Shown, TypeOK
  <1>8. CASE k = l
    <2>1. InPockets(k)' = InPockets(k) + n /\ OnDisplay(k)' = OnDisplay(k) - n
      BY <1>2, <1>3, <1>4, <1>6, <1>7, <1>8, Tallied
    <2> QED
      BY <2>1, Tallied, TalliedNext
  <1>9. CASE k # l
    <2>1. InPockets(k)' = InPockets(k) /\ OnDisplay(k)' = OnDisplay(k)
      BY <1>2, <1>3, <1>4, <1>6, <1>7, <1>9, Tallied
    <2> QED
      BY <2>1, Tallied, TalliedNext
  <1> QED
    BY <1>8, <1>9

\* A merchant on its map is listed: the sale is saved as a copy.
LEMMA BuyHiredKeeps ==
  ASSUME ShopsSound, TypeOK', NEW p \in Players, NEW s \in Shops, NEW l \in Lots, NEW n,
         BuyHired(p, s, l, n)
  PROVE  (\A k \in Lots : GoodsKept(k)) /\ MesosKept
  <1> DEFINE cost == ToInt(Price[l] * n)
  <1>a. TypeOK /\ SeatsInv /\ ShopsInv
    BY DEF ShopsSound
  <1>1. CASE s \notin onMap
    BY <1>a, <1>1, BoughtWhenClosed DEF GoodsKept, Excused, MesosKept
  <1>2. CASE s \in onMap
    <2>1. /\ MayBuy(p, s, l, n, cost) /\ Hired(s) /\ p # Owner /\ window[p] = s
          /\ inv' = [inv EXCEPT ![p] = Plus(@, l, n)]
          /\ stock' = [stock EXCEPT ![s][l] = @ - n]
          /\ till' = [till EXCEPT ![s] = @ + cost - Tax(cost)]
          /\ purse' = [purse EXCEPT ![p] = @ - cost]
          /\ package' = [goods |-> stock'[s], meso |-> till'[s], by |-> s]
          /\ UNCHANGED <<ground, window, available, onMap, listed>>
      BY DEF BuyHired, walk, MayBuy, Hired, doors, places
    <2>2. /\ cost \in 1..IntMax /\ Tax(cost) \in 0..cost
          /\ n \in Nat /\ stock[s][l] - n \in Nat
      BY <1>a, <2>1, PriceIsInt
    <2> HIDE DEF cost
    <2>3. s \in listed
      BY <1>a, <1>2, <2>1, NoneAssumption DEF SeatsInv, OpenedToVisitors, ShopsInv, ListedAre
    <2>4. package' # None /\ package'.by = s
      <3>1. stock'[s] \in [Lots -> Nat] /\ till'[s] \in 0..IntMax
        BY DEF TypeOK
      <3>2. package' \in Packages
        BY <2>1, <3>1 DEF Packages
      <3> QED
        BY <2>1, <3>2, NoneAssumption
    <2>5. ~Collectable'
      BY <2>1, <2>3, <2>4 DEF Collectable
    <2>6. Collectable => SavedOver
      BY <2>3, <2>4 DEF Collectable, SavedOver
    <2>7. ASSUME NEW k \in Lots PROVE GoodsKept(k)
      <3>1. Packed(k)' = 0
        BY <2>5 DEF Packed
      <3>2. /\ stock'[s] = [stock[s] EXCEPT ![l] = @ - n]
            /\ \A t \in Shops \ {s} : stock'[t] = stock[t]
        BY <1>a, <2>1 DEF TypeOK
      <3>3. \A t \in Shops : t \in Reachable' <=> t \in Reachable
        BY <2>1, ReachableIs
      <3>4. s \in Reachable /\ n <= stock[s][l]
        BY <1>a, <1>2, <2>1, <2>2, ReachableIs DEF MayBuy
      <3>5. Held(k)' - Packed(k)' = Held(k) - Packed(k)
        <4>1. ground' = ground /\ inv' = [inv EXCEPT ![p] = Plus(@, l, n)] /\ n \in Nat
          BY <2>1, <2>2
        <4> QED
          BY <1>a, <3>2, <3>3, <3>4, <4>1, SaleMoves
      <3>6. Held(k)' = Held(k) - Packed(k)
        BY <1>a, <3>1, <3>5, Tallied, TalliedNext
      <3>7. Packed(k) # 0 => SavedOver
        BY <2>6 DEF Packed
      <3>8. Held(k) \in Int /\ Packed(k) \in Nat
        BY <1>a, Tallied
      <3> QED
        BY <3>6, <3>7, <3>8 DEF GoodsKept, Excused
    <2>8. MesosKept
      <3>1. /\ purse'[p] = purse[p] - cost /\ purse[p] \in Int
            /\ \A r \in Players \ {p} : purse'[r] = purse[r]
        BY <1>a, <2>1, BoundAssumption DEF TypeOK
      <3>2. InPurses' = InPurses - purse[p] + purse'[p]
        BY <1>a, <3>1, PursesMove
      <3>3. \A t \in Shops : till[t] \in Nat
        BY <1>a, BoundAssumption DEF TypeOK
      <3>4. till'[s] = till[s] + cost - Tax(cost) /\ \A t \in Shops \ {s} : till'[t] = till[t]
        BY <1>a, <2>1 DEF TypeOK
      <3>5. \A t \in Shops \ {s} : Tilled(t)' <= Tilled(t)
        BY <2>1, <3>3, <3>4 DEF Tilled
      <3>6. InTills' <= InTills - Tilled(s) + Tilled(s)'
        BY <1>a, <3>5, TillsMove
      <3>7. Tilled(s) = till[s] /\ Tilled(s)' = till'[s]
        BY <1>2, <2>1 DEF Tilled
      <3>8. PackedMesos' = 0
        BY <2>5 DEF PackedMesos
      <3>9. InPurses' = InPurses - cost /\ InTills' <= InTills + cost - Tax(cost)
        BY <1>a, <2>2, <3>1, <3>2, <3>3, <3>4, <3>6, <3>7, BoundAssumption,
           MoneyTallied, MoneyTalliedNext
      <3>10. Money' <= Money
        BY <1>a, <2>2, <3>8, <3>9, BoundAssumption, MoneyTallied, MoneyTalliedNext
      <3> QED
        BY <1>a, <3>10, NoMoreMesos
    <2> QED
      BY <2>7, <2>8
  <1> QED
    BY <1>1, <1>2

\* A personal shop pays its owner, and gives back what is left when it closes.
LEMMA BuyPersonalKeeps ==
  ASSUME ShopsSound, TypeOK', NEW p \in Players, NEW s \in Shops, NEW l \in Lots, NEW n,
         BuyPersonal(p, s, l, n)
  PROVE  (\A k \in Lots : GoodsKept(k)) /\ MesosKept
  <1> DEFINE cost == ToInt(Price[l] * n)
             left == [stock[s] EXCEPT ![l] = @ - n]
             bought == [inv EXCEPT ![p] = Plus(@, l, n)]
  <1>a. TypeOK /\ SeatsInv /\ ShopsInv /\ RoomLeft /\ GivenBack
    BY DEF ShopsSound, RoomInv
  <1>1. /\ MayBuy(p, s, l, n, cost) /\ kind[s] = "personal"
        /\ purse' = [purse EXCEPT ![p] = @ - cost, ![Owner] = @ + cost]
        /\ \/ ClosePersonal(s, left, bought)
           \/ /\ inv' = bought
              /\ stock' = [stock EXCEPT ![s] = left]
              /\ UNCHANGED <<ground, window, kind, shelf, till, doors, places, package, server>>
    BY DEF BuyPersonal
  <1>2. p # Owner /\ s \in onMap
    <2>1. p # Owner /\ kind[s] = "personal" /\ n \in 1..stock[s][l]
      BY <1>1 DEF MayBuy
    <2> QED
      BY <1>a, <2>1 DEF GivenBack, TypeOK
  <1>3. window[Owner] = s /\ s \in Reachable
    BY <1>a, <1>1, <1>2, ReachableIs DEF ShopsInv, Tended
  <1>4. /\ cost \in 1..IntMax /\ n \in Nat /\ stock[s][l] - n \in Nat /\ n <= stock[s][l]
    <2>1. cost \in 1..IntMax /\ n \in Nat /\ stock[s][l] - n \in Nat
      BY <1>a, <1>1, PriceIsInt
    <2>2. stock[s][l] \in Nat /\ n \in 1..stock[s][l]
      BY <1>a, <1>1 DEF MayBuy, TypeOK
    <2> HIDE DEF cost
    <2> QED
      BY <2>1, <2>2
  <1>5. stock[s] \in [Lots -> Nat] /\ inv \in [Players -> [Lots -> Nat]]
    BY <1>a DEF TypeOK
  <1>6. /\ left \in [Lots -> Nat] /\ left[l] = stock[s][l] - n
        /\ \A k \in Lots \ {l} : left[k] = stock[s][k]
        /\ \A k \in Lots : left[k] <= stock[s][k]
    BY <1>4, <1>5
  <1>7. bought \in [Players -> [Lots -> Nat]] /\ bought[Owner] = inv[Owner]
    BY <1>2, <1>4, <1>5, OwnerAssumption DEF Plus
  <1>8. MesosKept
    <2> HIDE DEF cost, left, bought
    <2>1. UNCHANGED <<till, package, listed>> /\ onMap' \subseteq onMap
      BY <1>1 DEF ClosePersonal, places
    <2>2. \A t \in Shops : Tilled(t)' <= Tilled(t)
      <3>1. \A t \in Shops : till[t] \in Nat
        BY <1>a, BoundAssumption DEF TypeOK
      <3> QED
        BY <2>1, <3>1 DEF Tilled
    <2>3. InTills' <= InTills
      BY <1>a, <2>2, TillsMove
    <2>4. /\ purse'[p] = purse[p] - cost /\ purse'[Owner] = purse[Owner] + cost
          /\ \A r \in Players \ {p, Owner} : purse'[r] = purse[r]
          /\ purse[p] \in Int /\ purse[Owner] \in Int
      BY <1>a, <1>1, <1>2, OwnerAssumption, BoundAssumption DEF TypeOK
    <2>5. InPurses' = InPurses - purse[p] + purse'[p] - purse[Owner] + purse'[Owner]
      BY <1>a, <1>2, <2>4, OwnerAssumption, PursesMove
    <2>6. InPurses' = InPurses
      BY <1>a, <1>4, <2>4, <2>5, BoundAssumption, MoneyTallied, MoneyTalliedNext
    <2>7. PackedMesos' = PackedMesos
      BY <2>1 DEF PackedMesos, Collectable
    <2>8. Money' <= Money
      BY <1>a, <2>3, <2>6, <2>7, MoneyTallied, MoneyTalliedNext
    <2> QED
      BY <1>a, <2>8, NoMoreMesos
  <1>9. ASSUME ClosePersonal(s, left, bought), NEW k \in Lots PROVE GoodsKept(k)
    <2>1. /\ \A j \in Lots : inv'[Owner][j] = inv[Owner][j] + left[j]
          /\ \A q \in Players \ {Owner} : inv'[q] = bought[q]
          /\ stock' = [stock EXCEPT ![s] = Empty]
          /\ window'[Owner] = None
      <3> HIDE DEF left, bought
      <3> QED
        BY <1>a, <1>1, <1>3, <1>6, <1>7, <1>9, ClosedUp
    <2>2. UNCHANGED <<ground, package, listed>> /\ onMap' = onMap \ {s}
      BY <1>9 DEF ClosePersonal
    <2>3. /\ inv'[p][k] = IF k = l THEN inv[p][l] + n ELSE inv[p][k]
          /\ inv'[Owner][k] = inv[Owner][k] + left[k]
          /\ \A r \in Players \ {p, Owner} : inv'[r][k] = inv[r][k]
      BY <1>2, <1>5, <2>1 DEF Plus
    <2>4. /\ inv[p][k] \in Nat /\ inv[p][l] \in Nat /\ inv[Owner][k] \in Nat
          /\ left[k] = IF k = l THEN stock[s][l] - n ELSE stock[s][k]
          /\ stock[s][k] \in Nat /\ stock[s][l] \in Nat
      BY <1>5, <1>6, OwnerAssumption
    <2> HIDE DEF left, bought, cost
    <2>5. InPockets(k)' = InPockets(k) - inv[p][k] + inv'[p][k] - inv[Owner][k] + inv'[Owner][k]
      BY <1>a, <1>2, <2>3, OwnerAssumption, PocketsMove
    <2>6. \A t \in Shops \ {s} : Shown(t, k)' = Shown(t, k)
      <3>1. \A t \in Shops \ {s} : t \in Reachable' <=> t \in Reachable
        BY <1>3, <2>1, <2>2, NoneAssumption, ReachableIs
      <3> QED
        BY <1>a, <2>1, <3>1 DEF Shown, TypeOK
    <2>7. OnDisplay(k)' = OnDisplay(k) - Shown(s, k) + Shown(s, k)'
      BY <1>a, <2>6, DisplaysMove
    <2>8. Shown(s, k) = stock[s][k] /\ Shown(s, k)' = 0
      BY <1>a, <1>3, <2>1 DEF Shown, Empty, TypeOK
    <2>9. Packed(k)' = Packed(k)
      BY <2>2 DEF Packed, Collectable
    <2>10. InPockets(k)' = InPockets(k) + stock[s][k]
      <3>1. CASE k = l
        BY <1>a, <1>4, <2>3, <2>4, <2>5, <3>1, Tallied
      <3>2. CASE k # l
        BY <1>a, <2>3, <2>4, <2>5, <3>2, Tallied
      <3> QED
        BY <3>1, <3>2
    <2>11. Held(k)' = Held(k)
      BY <1>a, <2>2, <2>4, <2>7, <2>8, <2>9, <2>10, Tallied, TalliedNext
    <2> QED
      BY <1>a, <2>11, AllKept
  <1>10. ASSUME inv' = bought, stock' = [stock EXCEPT ![s] = left],
                UNCHANGED <<ground, window, places, package>>, NEW k \in Lots
         PROVE  GoodsKept(k)
    <2>1. \A t \in Shops : t \in Reachable' <=> t \in Reachable
      BY <1>10, ReachableIs DEF places
    <2>2. /\ stock'[s] = [stock[s] EXCEPT ![l] = @ - n]
          /\ \A t \in Shops \ {s} : stock'[t] = stock[t]
      BY <1>a, <1>10 DEF TypeOK
    <2>3. Held(k)' - Packed(k)' = Held(k) - Packed(k)
      <3>1. ground' = ground /\ inv' = [inv EXCEPT ![p] = Plus(@, l, n)] /\ n \in Nat
        BY <1>4, <1>10
      <3>2. n <= stock[s][l]
        BY <1>4
      <3> QED
        BY <1>a, <1>3, <2>1, <2>2, <3>1, <3>2, SaleMoves
    <2>4. Packed(k)' = Packed(k)
      BY <1>10 DEF Packed, Collectable, places
    <2>5. Held(k)' = Held(k)
      BY <1>a, <2>3, <2>4, Tallied, TalliedNext
    <2> QED
      BY <1>a, <2>5, AllKept
  <1> HIDE DEF left, bought, cost
  <1> QED
    BY <1>1, <1>8, <1>9, <1>10

\* A visitor moves goods only when he buys.
LEMMA VisitorKeeps ==
  ASSUME ShopsSound, TypeOK', NEW p \in Players, NEW s \in Shops, VisitorStep(p, s)
  PROVE  (\A l \in Lots : GoodsKept(l)) /\ MesosKept
  <1>a. TypeOK /\ SeatsInv
    BY DEF ShopsSound
  <1>1. CASE Visit(p, s) \/ Sit(p, s) \/ VisitorExit(p, s)
    <2>1. /\ UNCHANGED <<inv, ground, purse, stock, till, package, listed, onMap>>
          /\ p # Owner
          /\ window' = window \/ window' = [window EXCEPT ![p] = s] \/ Leave({p})
      BY <1>1 DEF Visit, Sit, VisitorExit, goods, entries, places
    <2>2. window'[Owner] = window[Owner]
      BY <1>a, <2>1, OwnerStays, OwnerAssumption DEF TypeOK
    <2> QED
      BY <1>a, <2>1, <2>2, SameReach, QuietMesos
  <1> QED
    BY <1>1, BuyHiredKeeps, BuyPersonalKeeps DEF VisitorStep

\* The checks of displayMerch leave room for everything but a second restricted
\* item.
LEMMA RefusedIsRestricted ==
  ASSUME NEW hold \in [Lots -> Nat], NEW due \in [Lots -> Nat],
         Cardinality(Carried(due)) <= Slots - Cardinality(Carried(hold)),
         NEW S \in Accepted(hold, due), NEW l \in Carried(due) \ S
  PROVE  l \in Restricted
  <1> DEFINE more == With(hold, due, S)
  <1>1. ~Fits(more, l) /\ S \subseteq Carried(due) /\ l \in Lots
    BY DEF Accepted, Carried
  <1>2. more \in [Lots -> Nat] /\ \A k \in Lots : more[k] = hold[k] + IF k \in S THEN due[k] ELSE 0
    BY DEF With
  <1> HIDE DEF more
  <1> SUFFICES ASSUME l \notin Restricted PROVE FALSE
    OBVIOUS
  <1>3. more[l] = 0 /\ ~(Cardinality(Carried(more)) < Slots)
    BY <1>1, <1>2 DEF Fits, FreeSlot
  <1>4. Carried(more) \cup {l} \subseteq Carried(hold) \cup Carried(due) /\ l \notin Carried(more)
    BY <1>1, <1>2, <1>3 DEF Carried
  <1>5. IsFiniteSet(Carried(hold)) /\ IsFiniteSet(Carried(due)) /\ IsFiniteSet(Carried(more))
    BY CarriedFinite
  <1>6. /\ IsFiniteSet(Carried(hold) \cup Carried(due))
        /\ Cardinality(Carried(hold) \cup Carried(due)) =
              Cardinality(Carried(hold)) + Cardinality(Carried(due))
                 - Cardinality(Carried(hold) \cap Carried(due))
    BY <1>5, FS_Union
  <1>7. /\ IsFiniteSet(Carried(more) \cup {l})
        /\ Cardinality(Carried(more) \cup {l}) = Cardinality(Carried(more)) + 1
    BY <1>4, <1>5, FS_AddElement
  <1>8. Cardinality(Carried(more) \cup {l}) <= Cardinality(Carried(hold) \cup Carried(due))
    BY <1>4, <1>6, FS_Subset
  <1>9. /\ Cardinality(Carried(hold)) \in Nat /\ Cardinality(Carried(due)) \in Nat
        /\ Cardinality(Carried(more)) \in Nat
        /\ Cardinality(Carried(hold) \cap Carried(due)) \in Nat
    <2>1. IsFiniteSet(Carried(hold) \cap Carried(due))
      BY <1>5, FS_Intersection
    <2> QED
      BY <1>5, <2>1, FS_CardinalityType
  <1> QED
    BY <1>3, <1>6, <1>7, <1>8, <1>9, BoundAssumption

\* What addFromDrop accepts goes from the package to the owner.
LEMMA CollectKeeps ==
  ASSUME ShopsSound, TypeOK', Collect
  PROVE  (\A l \in Lots : GoodsKept(l)) /\ MesosKept
  <1>a. TypeOK
    BY DEF ShopsSound
  <1> DEFINE due == package.goods
             hold == inv[Owner]
  <1>1. /\ package # None /\ package' = None /\ listed = {}
        /\ purse' = [purse EXCEPT ![Owner] = @ + package.meso]
        /\ Cardinality(Carried(due)) <= Slots - Cardinality(Carried(hold))
        /\ UNCHANGED <<ground, window, stock, till, onMap, listed>>
    BY DEF Collect, HasMerchant, walk, entries, places
  <1>2. PICK S \in Accepted(hold, due) : inv' = [inv EXCEPT ![Owner] = With(@, package.goods, S)]
    BY DEF Collect
  <1>3. due \in [Lots -> Nat] /\ hold \in [Lots -> Nat] /\ package.meso \in Nat
    BY <1>a, <1>1, PackageIs, OwnerAssumption, BoundAssumption DEF TypeOK
  <1>4. Collectable /\ ~Collectable'
    BY <1>1 DEF Collectable
  <1>5. S \subseteq Carried(due)
    BY DEF Accepted
  <1>6. ASSUME NEW l \in Lots PROVE GoodsKept(l)
    <2>1. inv'[Owner][l] = hold[l] + IF l \in S THEN due[l] ELSE 0
      BY <1>a, <1>2, OwnerAssumption DEF With, TypeOK
    <2>2. \A r \in Players \ {Owner} : inv'[r][l] = inv[r][l]
      BY <1>a, <1>2 DEF TypeOK
    <2>3. InPockets(l)' = InPockets(l) - inv[Owner][l] + inv'[Owner][l]
      BY <1>a, <2>2, OwnerAssumption, PocketsMove
    <2>4. \A s \in Shops : Shown(s, l)' = Shown(s, l)
      BY <1>1 DEF Shown, Reachable
    <2>5. OnDisplay(l)' = OnDisplay(l)
      BY <1>a, <2>4, DisplaysMove
    <2>6. Packed(l) = due[l] /\ Packed(l)' = 0
      BY <1>4 DEF Packed
    <2>7. hold[l] \in Nat /\ due[l] \in Nat
      BY <1>3
    <2>8. l \in Carried(due) \ S => RefusedAtCollection(l)
      <3>1. l \in Carried(due) \ S => l \in Restricted
        <4> HIDE DEF due, hold
        <4> QED
          BY <1>1, <1>3, RefusedIsRestricted
      <3> QED
        BY <1>1, <3>1 DEF RefusedAtCollection
    <2>9. Held(l)' = Held(l) - due[l] + IF l \in S THEN due[l] ELSE 0
      <3>1. inv[Owner][l] = hold[l] /\ ground'[l] = ground[l]
        BY <1>1
      <3> HIDE DEF due, hold
      <3> QED
        BY <1>a, <2>1, <2>3, <2>5, <2>6, <2>7, <3>1, Tallied, TalliedNext
    <2>10. Held(l) \in Int
      BY <1>a, Tallied
    <2> HIDE DEF due, hold
    <2>11. CASE l \in S \/ due[l] = 0
      BY <1>a, <2>7, <2>9, <2>10, <2>11, AllKept
    <2>12. CASE l \notin S /\ due[l] # 0
      <3>1. RefusedAtCollection(l)
        BY <2>7, <2>8, <2>12 DEF Carried
      <3> QED
        BY <2>7, <2>9, <2>10, <2>12, <3>1 DEF GoodsKept, Excused
    <2> QED
      BY <2>11, <2>12
  <1>7. MesosKept
    <2>1. /\ purse'[Owner] = purse[Owner] + package.meso /\ purse[Owner] \in Int
          /\ \A r \in Players \ {Owner} : purse'[r] = purse[r]
      BY <1>a, <1>1, OwnerAssumption, BoundAssumption DEF TypeOK
    <2>2. InPurses' = InPurses - purse[Owner] + purse'[Owner]
      BY <1>a, <2>1, OwnerAssumption, PursesMove
    <2>3. \A s \in Shops : Tilled(s)' = Tilled(s)
      BY <1>1 DEF Tilled
    <2>4. InTills' = InTills
      BY <1>a, <2>3, TillsMove
    <2>5. PackedMesos = package.meso /\ PackedMesos' = 0
      BY <1>4 DEF PackedMesos
    <2>6. Money' <= Money
      BY <1>a, <1>3, <2>1, <2>2, <2>4, <2>5, MoneyTallied, MoneyTalliedNext
    <2> QED
      BY <1>a, <2>6, NoMoreMesos
  <1> QED
    BY <1>6, <1>7

\* What is picked up or dropped is in one place before and in the other after.
LEMMA GroundKeeps ==
  ASSUME ShopsSound, TypeOK', NEW p \in Players, NEW l \in Lots,
         PickUp(p, l) \/ Drop(p, l)
  PROVE  (\A k \in Lots : GoodsKept(k)) /\ MesosKept
  <1>a. TypeOK
    BY DEF ShopsSound
  <1>1. UNCHANGED <<purse, window, stock, till, package, listed, onMap>>
    BY DEF PickUp, walk, Drop, entries, places
  <1>2. /\ ground'[l] + inv'[p][l] = ground[l] + inv[p][l]
        /\ \A k \in Lots \ {l} : ground'[k] = ground[k] /\ inv'[p][k] = inv[p][k]
        /\ \A q \in Players \ {p} : inv'[q] = inv[q]
    <2>1. /\ ground \in [Lots -> Nat] /\ inv[p] \in [Lots -> Nat]
          /\ inv \in [Players -> [Lots -> Nat]]
      BY <1>a DEF TypeOK
    <2>2. CASE PickUp(p, l)
      <3>1. /\ inv' = [inv EXCEPT ![p] = Plus(@, l, Heap(l))]
            /\ ground' = [ground EXCEPT ![l] = @ - Heap(l)]
        BY <2>2 DEF PickUp
      <3>2. Heap(l) \in Int
        BY <2>1 DEF Heap
      <3>3. inv'[p] = Plus(inv[p], l, Heap(l)) /\ \A q \in Players \ {p} : inv'[q] = inv[q]
        BY <2>1, <3>1
      <3>4. /\ inv'[p][l] = inv[p][l] + Heap(l) /\ ground'[l] = ground[l] - Heap(l)
            /\ \A k \in Lots \ {l} : ground'[k] = ground[k] /\ inv'[p][k] = inv[p][k]
        BY <2>1, <3>1, <3>3 DEF Plus
      <3>5. ground[l] \in Nat /\ inv[p][l] \in Nat
        BY <2>1
      <3> QED
        BY <3>2, <3>3, <3>4, <3>5
    <2>3. CASE Drop(p, l)
      <3>1. /\ inv' = [inv EXCEPT ![p][l] = 0]
            /\ ground' = Plus(ground, l, inv[p][l])
        BY <2>3 DEF Drop
      <3>2. inv'[p] = [inv[p] EXCEPT ![l] = 0] /\ \A q \in Players \ {p} : inv'[q] = inv[q]
        BY <2>1, <3>1
      <3>3. /\ inv'[p][l] = 0 /\ ground'[l] = ground[l] + inv[p][l]
            /\ \A k \in Lots \ {l} : ground'[k] = ground[k] /\ inv'[p][k] = inv[p][k]
        BY <2>1, <3>1, <3>2 DEF Plus
      <3>4. ground[l] \in Nat /\ inv[p][l] \in Nat
        BY <2>1
      <3> QED
        BY <3>2, <3>3, <3>4
    <2> QED
      BY <2>2, <2>3
  <1>3. ASSUME NEW k \in Lots PROVE GoodsKept(k)
    <2>1. InPockets(k)' = InPockets(k) - inv[p][k] + inv'[p][k]
      BY <1>a, <1>2, PocketsMove
    <2>2. \A s \in Shops : Shown(s, k)' = Shown(s, k)
      BY <1>1 DEF Shown, Reachable
    <2>3. OnDisplay(k)' = OnDisplay(k)
      BY <1>a, <2>2, DisplaysMove
    <2>4. Packed(k)' = Packed(k)
      BY <1>1 DEF Packed, Collectable
    <2>5. ground'[k] + inv'[p][k] = ground[k] + inv[p][k]
      BY <1>2
    <2>6. inv[p][k] \in Nat /\ inv'[p][k] \in Nat
      BY <1>a DEF TypeOK
    <2>7. Held(k)' = Held(k)
      BY <1>a, <2>1, <2>3, <2>4, <2>5, <2>6, Tallied, TalliedNext
    <2> QED
      BY <1>a, <2>7, AllKept
  <1> QED
    BY <1>a, <1>1, <1>3, QuietMesos

\* removalTask leaves a merchant open, or saves or closes the owner's shop.
LEMMA DisconnectKeeps ==
  ASSUME ShopsSound, TypeOK', NEW p \in Players, NEW final \in BOOLEAN, Disconnect(p, final),
         final => server = "closing"
  PROVE  (\A l \in Lots : GoodsKept(l)) /\ MesosKept
  <1>a. TypeOK /\ SeatsInv /\ ShopsInv
    BY DEF ShopsSound
  <1> DEFINE s == window[p]
  <1>1. CASE p = Owner /\ s # None
    <2>1. s \in Shops /\ window[Owner] = s /\ s \in Reachable
      BY <1>a, <1>1, ReachableIs DEF TypeOK
    <2>2. CASE Leave({p}) /\ UNCHANGED <<goods, purse, entries, till, places, package>>
      <3>1. window'[Owner] = None
        BY <1>a, <1>1, <2>1, <2>2, OwnerStays
      <3>2. UNCHANGED <<inv, ground, purse, stock, till, package, listed, onMap>>
        BY <2>2 DEF goods, entries, places
      <3> HIDE DEF s
      <3>3. \A l \in Lots : GoodsKept(l)
        BY <1>a, <2>1, <3>1, <3>2, LeavingKeeps
      <3> QED
        BY <1>a, <3>2, <3>3, QuietMesos
    <2>3. CASE kind[s] = "hired" /\ CloseHired(s, ~final) /\ Leave({p})
      <3>1. window'[Owner] = None
        BY <1>a, <1>1, <2>1, <2>3, OwnerStays
      <3>2. final => s \notin listed
        BY <1>a, <2>1, <2>3 DEF ShopsInv, Shut, ListedAre, Hired
      <3>3. SavedAndClosed(s) /\ Hired(s)
        BY <2>3, <3>2 DEF CloseHired, SavedAndClosed, Hired
      <3> HIDE DEF s
      <3> QED
        BY <2>1, <3>1, <3>3, ClosedHiredKeeps, ClosedHiredMesos
    <2>4. CASE kind[s] = "personal" /\ ClosePersonal(s, stock[s], inv) /\ UNCHANGED purse
      <3> HIDE DEF s
      <3> QED
        BY <1>a, <2>1, <2>4, ClosedPersonalKeeps, ClosedPersonalMesos
    <2> QED
      BY <1>1, <2>2, <2>3, <2>4 DEF Disconnect
  <1>2. CASE ~(p = Owner /\ s # None)
    <2>1. /\ Leave({p})
          /\ UNCHANGED <<inv, ground, purse, stock, till, package, listed, onMap>>
      BY <1>2 DEF Disconnect, goods, entries, places
    <2>2. window'[Owner] = window[Owner]
      BY <1>a, <1>2, <2>1, OwnerAssumption DEF Leave, TypeOK
    <2> QED
      BY <1>a, <2>1, <2>2, SameReach, QuietMesos
  <1> QED
    BY <1>1, <1>2

\* The rest of what a player does.
LEMMA PlayerKeeps ==
  ASSUME ShopsSound, TypeOK', NEW p \in Players, PlayerStep(p)
  PROVE  (\A l \in Lots : GoodsKept(l)) /\ MesosKept
  <1>a. TypeOK
    BY DEF ShopsSound
  <1>1. CASE Disconnect(p, FALSE)
    BY <1>1, DisconnectKeeps
  <1>2. CASE server = "closing" /\ Disconnect(p, TRUE)
    BY <1>2, DisconnectKeeps
  <1>3. CASE Reconnect(p)
    <2>1. UNCHANGED <<inv, ground, purse, window, stock, till, package, listed, onMap>>
      BY <1>3 DEF Reconnect, walk, goods, entries, places
    <2> QED
      BY <1>a, <2>1, SameReach, QuietMesos
  <1> QED
    BY <1>1, <1>2, <1>3, GroundKeeps DEF PlayerStep

\* closeAllMerchant: the package is what the merchant saved last had.
LEMMA CloseAllKeeps ==
  ASSUME ShopsSound, TypeOK', CloseAllMerchants
  PROVE  (\A l \in Lots : GoodsKept(l)) /\ MesosKept
  <1>a. TypeOK /\ SeatsInv /\ ShopsInv /\ Collected
    BY DEF ShopsSound
  <1> DEFINE closed == listed \cup {s \in onMap \ listed : kind[s] = "hired"}
  <1>1. /\ UNCHANGED <<inv, ground, purse, window, kind, till>>
        /\ closed # {} => \E last \in closed : package' = Saved(last)
        /\ closed = {} => package' = package
        /\ stock' = [s \in Shops |-> IF s \in closed THEN Empty ELSE stock[s]]
        /\ listed' = {} /\ onMap' = onMap \ closed
    BY DEF CloseAllMerchants, walk, goods
  <1>2. closed \subseteq onMap /\ closed \subseteq Shops /\ \A s \in closed : Hired(s)
    BY <1>a DEF TypeOK, ShopsInv, ListedAre, Hired
  <1>3. closed = {} => listed = {}
    OBVIOUS
  <1> HIDE DEF closed
  <1>b. /\ \A t \in Shops : till[t] \in Nat
        /\ \A t \in Shops, l \in Lots : stock[t][l] \in Nat
    BY <1>a, BoundAssumption DEF TypeOK
  <1>4. CASE closed = {}
    <2>1. UNCHANGED <<package, listed, onMap, stock>>
      BY <1>a, <1>1, <1>3, <1>4 DEF TypeOK
    <2> QED
      BY <1>a, <1>1, <2>1, SameReach, QuietMesos
  <1>5. CASE closed # {}
    <2>1. PICK last \in closed : package' = Saved(last)
      BY <1>1, <1>5
    <2>2. last \in Shops /\ last \in onMap /\ last \in Reachable
      BY <1>2, <2>1, ReachableIs
    <2>3. package' # None /\ package'.by = last
      BY <1>a, <2>1, <2>2, SavedType, NoneAssumption DEF Saved
    <2>4. Collectable'
      BY <1>1, <2>3 DEF Collectable
    <2>5. Collectable => SavedOver
      <3> SUFFICES ASSUME Collectable PROVE SavedOver
        OBVIOUS
      <3>1. package.by # last
        BY <1>a, <1>2, <2>2 DEF Collected
      <3> QED
        BY <2>3, <3>1 DEF SavedOver, Collectable
    <2>6. ASSUME NEW l \in Lots PROVE GoodsKept(l)
      <3>1. InPockets(l)' = InPockets(l)
        BY <1>a, <1>1, PocketsMove
      <3>2. Packed(l)' = stock[last][l]
        BY <2>1, <2>4 DEF Packed, Saved
      <3>3. Shown(last, l) = stock[last][l] /\ Shown(last, l)' = 0
        BY <1>1, <2>1, <2>2 DEF Shown, Empty
      <3>4. \A t \in Shops : t \in Reachable' => t \in Reachable
        BY <1>1, ReachableIs
      <3>5. \A t \in Shops \ {last} : Shown(t, l)' <= Shown(t, l)
        BY <1>b, <1>1, <3>4 DEF Shown, Empty
      <3>6. OnDisplay(l)' <= OnDisplay(l) - Shown(last, l) + Shown(last, l)'
        BY <1>a, <2>2, <3>5, DisplaysMove
      <3>7. Held(l)' <= Held(l) - Packed(l)
        BY <1>a, <1>b, <1>1, <2>2, <3>1, <3>2, <3>3, <3>6, Tallied, TalliedNext
      <3>8. Held(l) \in Int /\ Held(l)' \in Int /\ Packed(l) \in Nat
        BY <1>a, Tallied, TalliedNext
      <3>9. CASE closed = {last}
        <4>1. \A t \in Shops \ {last} : Shown(t, l)' = Shown(t, l)
          <5>1. \A t \in Shops \ {last} : t \in Reachable' <=> t \in Reachable
            BY <1>1, <3>9, ReachableIs
          <5> QED
            BY <1>1, <3>9, <5>1 DEF Shown
        <4>2. OnDisplay(l)' = OnDisplay(l) - Shown(last, l) + Shown(last, l)'
          BY <1>a, <2>2, <4>1, DisplaysMove
        <4>3. Held(l)' = Held(l) - Packed(l)
          BY <1>a, <1>b, <1>1, <2>2, <3>1, <3>2, <3>3, <4>2, Tallied, TalliedNext
        <4>4. Packed(l) # 0 => SavedOver
          BY <2>5 DEF Packed
        <4> QED
          BY <3>8, <4>3, <4>4 DEF GoodsKept, Excused
      <3>10. CASE closed # {last}
        <4>1. PICK t \in closed : t # last
          BY <2>1, <3>10
        <4>2. last \in onMap \ onMap' /\ t \in onMap \ onMap'
          BY <1>1, <1>2, <2>1, <4>1
        <4>3. kind[last] = "hired" /\ kind[t] = "hired"
          BY <1>2, <2>1, <4>1 DEF Hired
        <4>4. SavedOver
          BY <4>1, <4>2, <4>3 DEF SavedOver
        <4> QED
          BY <3>7, <3>8, <4>4 DEF GoodsKept, Excused
      <3> QED
        BY <3>9, <3>10
    <2>7. MesosKept
      <3>1. InPurses' = InPurses
        BY <1>a, <1>1, PursesMove
      <3>2. \A t \in Shops \ {last} : Tilled(t)' <= Tilled(t)
        BY <1>b, <1>1 DEF Tilled
      <3>3. InTills' <= InTills - Tilled(last) + Tilled(last)'
        BY <1>a, <2>2, <3>2, TillsMove
      <3>4. Tilled(last) = till[last] /\ Tilled(last)' = 0
        BY <1>1, <2>1, <2>2 DEF Tilled
      <3>5. PackedMesos' = till[last]
        BY <2>1, <2>4 DEF PackedMesos, Saved
      <3>6. Money' <= Money
        BY <1>a, <1>b, <2>2, <3>1, <3>3, <3>4, <3>5, MoneyTallied, MoneyTalliedNext
      <3> QED
        BY <1>a, <3>6, NoMoreMesos
    <2> QED
      BY <2>6, <2>7
  <1> QED
    BY <1>4, <1>5

\* When the server stops, no shop is left that anybody can reach.
LEMMA RestartKeeps ==
  ASSUME ShopsSound, TypeOK', Restart
  PROVE  (\A l \in Lots : GoodsKept(l)) /\ MesosKept
  <1>a. TypeOK /\ SeatsInv /\ ShopsInv
    BY DEF ShopsSound
  <1>1. /\ server = "closing" /\ online = {} /\ onMap' = {}
        /\ UNCHANGED <<inv, ground, purse, window, listed, package>>
    BY DEF Restart, walk, goods
  <1>2. window[Owner] = None
    BY <1>a, <1>1, OwnerAssumption DEF SeatsInv, OfflineSeatless
  <1>3. \A s \in Shops : s \notin onMap
    <2> SUFFICES ASSUME NEW s \in Shops, s \in onMap PROVE FALSE
      OBVIOUS
    <2>1. kind[s] # "hired"
      BY <1>a, <1>1 DEF ShopsInv, Shut, Hired
    <2>2. kind[s] # "personal"
      BY <1>a, <1>2, NoneAssumption DEF ShopsInv, Tended
    <2>3. kind[s] # "none"
      BY <1>a DEF ShopsInv, Unborn
    <2> QED
      BY <1>a, <2>1, <2>2, <2>3 DEF TypeOK
  <1>4. \A s \in Shops : s \notin Reachable /\ s \notin Reachable'
    BY <1>1, <1>2, <1>3, NoneAssumption, ReachableIs
  <1>5. ASSUME NEW l \in Lots PROVE GoodsKept(l)
    <2>1. InPockets(l)' = InPockets(l)
      BY <1>a, <1>1, PocketsMove
    <2>2. \A s \in Shops : Shown(s, l)' = Shown(s, l)
      BY <1>4 DEF Shown
    <2>3. OnDisplay(l)' = OnDisplay(l)
      BY <1>a, <2>2, DisplaysMove
    <2>4. Packed(l)' = Packed(l)
      BY <1>1 DEF Packed, Collectable
    <2>5. Held(l)' = Held(l)
      BY <1>a, <1>1, <2>1, <2>3, <2>4, Tallied, TalliedNext
    <2> QED
      BY <1>a, <2>5, AllKept
  <1>6. MesosKept
    <2>1. InPurses' = InPurses
      BY <1>a, <1>1, PursesMove
    <2>2. \A s \in Shops : Tilled(s)' = Tilled(s)
      BY <1>1, <1>3 DEF Tilled
    <2>3. InTills' = InTills
      BY <1>a, <2>2, TillsMove
    <2>4. PackedMesos' = PackedMesos
      BY <1>1 DEF PackedMesos, Collectable
    <2>5. Money' <= Money
      BY <1>a, <2>1, <2>3, <2>4, MoneyTallied, MoneyTalliedNext
    <2> QED
      BY <1>a, <2>5, NoMoreMesos
  <1> QED
    BY <1>5, <1>6

\* Every step.
LEMMA ShopsKeep ==
  ASSUME ShopsSound, [Next]_vars
  PROVE  (\A l \in Lots : GoodsKept(l)) /\ MesosKept
  <1>a. TypeOK /\ SeatsInv /\ ShopsInv
    BY DEF ShopsSound
  <1>b. TypeOK'
    BY ShopsSoundStep DEF ShopsSound
  <1>1. ASSUME NEW s \in Shops, Kick(s)
        PROVE  (\A l \in Lots : GoodsKept(l)) /\ MesosKept
    <2>1. UNCHANGED <<inv, ground, purse, stock, till, package, listed, onMap>>
      BY <1>1 DEF Kick, goods, entries, places
    <2>2. window'[Owner] = window[Owner]
      BY <1>a, <1>1, OwnerStays DEF Kick
    <2> QED
      BY <1>a, <1>b, <2>1, <2>2, SameReach, QuietMesos
  <1>2. ASSUME NEW s \in Shops, TimerExpires(s)
        PROVE  (\A l \in Lots : GoodsKept(l)) /\ MesosKept
    <2>1. SavedAndClosed(s) /\ Hired(s) /\ s \in Reachable
      BY <1>a, <1>2, CloseHiredIs, ReachableIs DEF TimerExpires, ShopsInv, Timed
    <2>2. window'[Owner] = window[Owner] \/ (window[Owner] = s /\ window'[Owner] = None)
      BY <1>a, <1>2, TimerSendsOut
    <2> QED
      BY <1>b, <2>1, <2>2, ClosedHiredKeeps, ClosedHiredMesos
  <1>3. CASE ToggleShops \/ UNCHANGED vars
    <2>1. UNCHANGED <<inv, ground, purse, window, stock, till, package, listed, onMap>>
      BY <1>3 DEF ToggleShops, walk, vars, goods, entries, places
    <2> QED
      BY <1>a, <1>b, <2>1, SameReach, QuietMesos
  <1>4. ASSUME NEW s \in Shops, OwnerStep(s)
        PROVE  (\A l \in Lots : GoodsKept(l)) /\ MesosKept
    BY <1>b, <1>4, OwnerGoods, OwnerMesos
  <1>5. ASSUME NEW p \in Players, NEW s \in Shops, VisitorStep(p, s)
        PROVE  (\A l \in Lots : GoodsKept(l)) /\ MesosKept
    BY <1>b, <1>5, VisitorKeeps
  <1>6. ASSUME NEW p \in Players, PlayerStep(p)
        PROVE  (\A l \in Lots : GoodsKept(l)) /\ MesosKept
    BY <1>b, <1>6, PlayerKeeps
  <1>7. CASE Collect \/ CloseAllMerchants \/ Restart
    BY <1>b, <1>7, CollectKeeps, CloseAllKeeps, RestartKeeps
  <1> QED
    BY <1>1, <1>2, <1>3, <1>4, <1>5, <1>6, <1>7 DEF Next

\* At the start there are no shops and no package.
LEMMA InitShopsSound == Init => ShopsSound
  <1> SUFFICES ASSUME Init PROVE ShopsSound
    OBVIOUS
  <1>1. TypeOK
    BY InitTypes
  <1>2. Collected /\ GivenBack
    BY DEF Init, Collected, Collectable, GivenBack
  <1> QED
    BY <1>1, <1>2, InitSeats, InitShops, InitRoom DEF ShopsSound

\* What the shops of an account are: found where the handlers look for them,
\* roomy enough to be closed, and saved without more than they hold.
THEOREM ShopsSoundAlways == Spec => []ShopsSound
  BY InitShopsSound, ShopsSoundStep, PTL DEF Spec

\* Goods come from nowhere only when a visitor buys from a merchant that was closed
\* around him, by the shutdown or as he came in.
THEOREM GoodsMadeBySaleOnly == Spec => ItemsMadeOnly
  <1>1. ShopsSound /\ [Next]_vars => [\A l \in Lots : Held(l)' > Held(l) => SoldWhenClosed]_vars
    BY ShopsKeep DEF GoodsKept
  <1> QED
    BY <1>1, ShopsSoundAlways, PTL DEF Spec, ItemsMadeOnly

\* Goods given to a shop come back or are sold, but for the five ways that
\* ItemsLostOnly names.
THEOREM GoodsLostInFiveWays == Spec => ItemsLostOnly
  <1>1. ShopsSound /\ [Next]_vars =>
           [\A l \in Lots : Held(l)' < Held(l) =>
              \/ SavedOver \/ SavedAgain \/ SoldWhenClosed
              \/ LeftInClosed(l) \/ RefusedAtCollection(l)]_vars
    BY ShopsKeep DEF GoodsKept, Excused
  <1> QED
    BY <1>1, ShopsSoundAlways, PTL DEF Spec, ItemsLostOnly

\* Mesos come from nowhere only out of a merchant that was closed before.
THEOREM MesosMadeWhenClosedOnly == Spec => MesosMadeOnly
  <1>1. ShopsSound /\ [Next]_vars =>
           [Money' > Money => SavedOver \/ TakenWhenClosed \/ SoldWhenClosed]_vars
    BY ShopsKeep DEF MesosKept
  <1> QED
    BY <1>1, ShopsSoundAlways, PTL DEF Spec, MesosMadeOnly
=============================================================================
