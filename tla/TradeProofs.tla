---------------------------- MODULE TradeProofs ----------------------------
(***************************************************************************)
(* For any number of players, items and maps, any slot limit and any tax:  *)
(* the invariants of Trade, that it implements Barter, that an item is     *)
(* lost only where the player it was due to has no room for it, and what   *)
(* becomes of the mesos.                                                   *)
(***************************************************************************)
EXTENDS Trade, SumLemmas

\* The inductive invariant.  OnePlace is not inductive by itself: a
\* completion moves the copies in exch, which only LockedOfferStands identifies
\* with the windows, and that in turn needs the two ends to be paired.
IInv == TypeOK /\ OnePlace /\ Paired /\ LockedOfferStands

-----------------------------------------------------------------------------
(* Operators. *)

\* Adding items one at a time never yields an item that was not offered.
LEMMA TakenSubset ==
    ASSUME NEW have, NEW in, NEW got \in Taken(have, in)
    PROVE  got \subseteq in
  BY DEF Taken

\* The purse stays an int when a gain is refused on overflow.
LEMMA GainedType ==
    ASSUME NEW purse \in 0..MaxMeso, NEW gain \in 0..MaxMeso
    PROVE  Gained(purse, gain) \in 0..MaxMeso
  BY BoundAssumption DEF Gained

\* The two ends of a trade are players.
LEMMA EndsPlayers ==
    ASSUME TypeOK, NEW p \in Players
    PROVE  Ends(p) \subseteq Players
  BY NobodyAssumption DEF TypeOK, Ends

\* Discarding a window leaves well-typed windows.
LEMMA DiscardType ==
    ASSUME TypeOK, NEW who, Discard(who)
    PROVE  /\ open' \in [Players -> BOOLEAN]
           /\ partner' \in [Players -> Players \cup {Nobody}]
           /\ win' \in [Players -> SUBSET Items]
           /\ winMeso' \in [Players -> 0..MaxMeso]
           /\ exch' \in [Players -> SUBSET Items]
           /\ exchMeso' \in [Players -> 0..MaxMeso]
           /\ locked' \in [Players -> BOOLEAN]
           /\ inTrade' \in [Players -> BOOLEAN]
  <1>1. open' \in [Players -> BOOLEAN]
    BY DEF TypeOK, Discard
  <1>2. partner' \in [Players -> Players \cup {Nobody}]
    BY DEF TypeOK, Discard
  <1>3. win' \in [Players -> SUBSET Items]
    BY DEF TypeOK, Discard
  <1>4. winMeso' \in [Players -> 0..MaxMeso]
    BY BoundAssumption DEF TypeOK, Discard
  <1>5. exch' \in [Players -> SUBSET Items]
    BY DEF TypeOK, Discard
  <1>6. exchMeso' \in [Players -> 0..MaxMeso]
    BY BoundAssumption DEF TypeOK, Discard
  <1>7. locked' \in [Players -> BOOLEAN]
    BY DEF TypeOK, Discard
  <1>8. inTrade' \in [Players -> BOOLEAN]
    BY DEF TypeOK, Discard
  <1> QED BY <1>1, <1>2, <1>3, <1>4, <1>5, <1>6, <1>7, <1>8

\* What a window gives back is part of it.
LEMMA GivenBackType ==
    ASSUME TypeOK, NEW p \in Players, NEW check
    PROVE  /\ GivenBack(p, check).items \subseteq win[p]
           /\ GivenBack(p, check).meso \in 0..MaxMeso
  BY BoundAssumption DEF TypeOK, GivenBack

\* A cancelled trade leaves inventories that hold only what they held before
\* and what their own window gave back, and well-typed purses.
LEMMA CancelHoldings ==
    ASSUME TypeOK, NEW p \in Players, NEW check, CancelTrade(p, check)
    PROVE  /\ inv' \in [Players -> SUBSET Items]
           /\ meso' \in [Players -> 0..MaxMeso]
           /\ \A e \in Players :
                 /\ e \in Ends(p) => inv'[e] \subseteq inv[e] \cup win[e]
                 /\ e \notin Ends(p) => inv'[e] = inv[e]
  <1>1. PICK got \in [Ends(p) -> SUBSET Items] :
          /\ \A e \in Ends(p) : got[e] \in Taken(inv[e], GivenBack(e, check).items)
          /\ inv' = [e \in Players |-> IF e \in Ends(p) THEN inv[e] \cup got[e]
                                                        ELSE inv[e]]
    BY DEF CancelTrade
  <1>2. \A e \in Ends(p) : got[e] \subseteq win[e]
    <2> TAKE e \in Ends(p)
    <2>1. e \in Players
      BY EndsPlayers
    <2>2. got[e] \subseteq GivenBack(e, check).items
      BY <1>1, TakenSubset
    <2> QED BY <2>1, <2>2, GivenBackType
  <1>3. inv' \in [Players -> SUBSET Items]
    BY <1>1, EndsPlayers DEF TypeOK
  <1>4. \A e \in Players : Gained(meso[e], GivenBack(e, check).meso) \in 0..MaxMeso
    BY GainedType, GivenBackType DEF TypeOK
  <1>5. meso' \in [Players -> 0..MaxMeso]
    BY <1>4 DEF CancelTrade, TypeOK
  <1> QED BY <1>1, <1>2, <1>3, <1>5

-----------------------------------------------------------------------------
(* Type correctness. *)

LEMMA InitType == Init => TypeOK
  <1> SUFFICES ASSUME Init PROVE TypeOK
    OBVIOUS
  <1>1. inv \in [Players -> SUBSET Items] /\ ground \in SUBSET Items
    BY DEF Init
  <1>2. map \in [Players -> Maps \cup {Nobody}]
    BY DEF Init
  <1>3. winMeso \in [Players -> 0..MaxMeso] /\ exchMeso \in [Players -> 0..MaxMeso]
    BY BoundAssumption DEF Init
  <1>4. meso \in [Players -> 0..MaxMeso]
    BY DEF Init
  <1> QED BY <1>1, <1>2, <1>3, <1>4 DEF Init, TypeOK

LEMMA CancelType ==
    ASSUME TypeOK, NEW p \in Players, NEW check, CancelTrade(p, check),
           map' \in [Players -> Maps \cup {Nobody}]
    PROVE  TypeOK'
  <1>1. Discard(Ends(p)) /\ ground' = ground
    BY DEF CancelTrade
  <1>2. /\ inv' \in [Players -> SUBSET Items]
        /\ meso' \in [Players -> 0..MaxMeso]
    BY CancelHoldings
  <1> QED BY <1>1, <1>2, DiscardType DEF TypeOK

LEMMA CompleteType ==
    ASSUME IInv, NEW p \in Players, Complete(p)
    PROVE  TypeOK'
  <1> DEFINE q == partner[p]
             due == [exchMeso EXCEPT ![q] = winMeso[p]]
             gets == [exch EXCEPT ![q] = win[p]]
  <1>1. q \in Players
    BY DEF IInv, TypeOK, Complete, Handed, HandedMeso
  <1>2. due \in [Players -> 0..MaxMeso] /\ gets \in [Players -> SUBSET Items]
    BY <1>1 DEF IInv, TypeOK
  <1>3. PICK gotp \in Taken(inv[p], gets[p]), gotq \in Taken(inv[q], gets[q]) :
          inv' = [inv EXCEPT ![p] = @ \cup gotp, ![q] = @ \cup gotq]
    BY DEF Complete, Handed, HandedMeso
  <1>4. gotp \subseteq Items /\ gotq \subseteq Items
    BY <1>1, <1>2, <1>3, TakenSubset
  <1>5. inv' \in [Players -> SUBSET Items]
    BY <1>1, <1>3, <1>4 DEF IInv, TypeOK
  <1>6. \A e \in Players : due[e] - Tax(due[e]) \in 0..MaxMeso
    <2> TAKE e \in Players
    <2>1. due[e] \in 0..MaxMeso
      BY <1>2
    <2>2. Tax(due[e]) \in 0..due[e]
      BY <2>1, TaxAssumption
    <2> QED BY <2>1, <2>2, BoundAssumption
  <1>7. \A e \in Players : Gained(meso[e], due[e] - Tax(due[e])) \in 0..MaxMeso
    BY <1>6, GainedType DEF IInv, TypeOK
  <1>8. meso' = [e \in Players |->
                  IF e \in {p, q} THEN Gained(meso[e], due[e] - Tax(due[e]))
                                  ELSE meso[e]]
    BY DEF Complete, Handed, HandedMeso
  <1>9. meso' \in [Players -> 0..MaxMeso]
    BY <1>7, <1>8 DEF IInv, TypeOK
  <1>10. Discard({p, q}) /\ map' = map /\ ground' = ground
    BY DEF Complete
  <1> QED BY <1>5, <1>9, <1>10, DiscardType DEF IInv, TypeOK

\* Every step keeps every variable in its type.
LEMMA TypeStep == IInv /\ [Next]_vars => TypeOK'
  <1> SUFFICES ASSUME IInv, [Next]_vars PROVE TypeOK'
    OBVIOUS
  <1>0. CASE UNCHANGED vars
    BY <1>0 DEF IInv, TypeOK, vars
  <1>1. ASSUME NEW p \in Players, StartTrade(p) PROVE TypeOK'
    BY <1>1 DEF IInv, TypeOK, StartTrade, holdings
  <1>2. ASSUME NEW p \in Players, NEW q \in Players, InviteTrade(p, q) PROVE TypeOK'
    BY <1>2 DEF IInv, TypeOK, InviteTrade, holdings
  <1>3. ASSUME NEW p \in Players, VisitTrade(p) PROVE TypeOK'
    BY <1>3 DEF IInv, TypeOK, VisitTrade, holdings
  <1>4. ASSUME NEW p \in Players, NEW i \in Items, SetItems(p, i) PROVE TypeOK'
    BY <1>4 DEF IInv, TypeOK, SetItems
  <1>15. ASSUME NEW p \in Players, NEW i \in Items, OfferWorn(p, i) PROVE TypeOK'
    BY <1>15 DEF IInv, TypeOK, OfferWorn, holdings
  <1>5. ASSUME NEW p \in Players, NEW m \in 1..MaxMeso, SetMeso(p, m) PROVE TypeOK'
    <2>1. meso[p] - m \in 0..MaxMeso /\ winMeso[p] + m \in 0..MaxMeso
      BY <1>5, BoundAssumption DEF IInv, TypeOK, SetMeso
    <2> QED BY <1>5, <2>1 DEF IInv, TypeOK, SetMeso
  <1>6. ASSUME NEW p \in Players, Confirm(p) PROVE TypeOK'
    BY <1>6 DEF IInv, TypeOK, Confirm, Handed, HandedMeso, holdings
  <1>7. ASSUME NEW p \in Players, Complete(p) PROVE TypeOK'
    BY <1>7, CompleteType
  <1>8. ASSUME NEW p \in Players, Bounce(p) PROVE TypeOK'
    BY <1>8, CancelType DEF Bounce, IInv, TypeOK
  <1>9. ASSUME NEW p \in Players, Exit(p) PROVE TypeOK'
    BY <1>9, CancelType DEF Exit, IInv, TypeOK
  <1>10. ASSUME NEW p \in Players, LeaveMap(p) PROVE TypeOK'
    <2>1. map' \in [Players -> Maps \cup {Nobody}]
      BY <1>10 DEF LeaveMap, IInv, TypeOK
    <2>2. CASE open[p]
      BY <1>10, <2>1, <2>2, CancelType DEF LeaveMap, IInv
    <2>3. CASE ~open[p]
      BY <1>10, <2>1, <2>3 DEF LeaveMap, IInv, TypeOK, holdings, window
    <2> QED BY <2>2, <2>3
  <1>11. ASSUME NEW p \in Players, NEW m \in Maps, EnterMap(p, m) PROVE TypeOK'
    BY <1>11 DEF IInv, TypeOK, EnterMap, holdings, window
  <1>12. ASSUME NEW p \in Players, NEW i \in Items, PickUp(p, i) PROVE TypeOK'
    BY <1>12 DEF IInv, TypeOK, PickUp, window
  <1>13. ASSUME NEW p \in Players, NEW i \in Items, Drop(p, i) PROVE TypeOK'
    BY <1>13 DEF IInv, TypeOK, Drop, window
  <1>14. ASSUME NEW p \in Players, NEW m \in 1..MaxMeso, Earn(p, m) PROVE TypeOK'
    BY <1>14, BoundAssumption DEF IInv, TypeOK, Earn, window
  <1> QED BY <1>0, <1>1, <1>2, <1>3, <1>4, <1>5, <1>6, <1>7, <1>8, <1>9, <1>10,
             <1>11, <1>12, <1>13, <1>14, <1>15 DEF Next, TradeStep, WorldStep

-----------------------------------------------------------------------------
(* The two ends of a trade. *)

\* A trade that ends for both its ends leaves no pointer to either of them.
LEMMA DiscardPaired ==
    ASSUME TypeOK, Paired, NEW p \in Players, Discard(Ends(p)),
           \A e \in Players \ Ends(p) : map'[e] = map[e]
    PROVE  Paired'
  <1> SUFFICES ASSUME NEW e \in Players
               PROVE  IF partner'[e] = Nobody
                      THEN win'[e] = {} /\ winMeso'[e] = 0 /\ ~locked'[e]
                      ELSE /\ open'[e] /\ partner'[e] # e
                           /\ partner'[partner'[e]] = e
                           /\ map'[e] = map'[partner'[e]] /\ map'[e] # Nobody
                           /\ ~(locked'[e] /\ locked'[partner'[e]])
    BY DEF Paired
  <1>1. CASE e \in Ends(p)
    BY <1>1 DEF Discard
  <1>2. CASE e \notin Ends(p)
    <2>1. /\ partner'[e] = partner[e] /\ win'[e] = win[e]
          /\ winMeso'[e] = winMeso[e] /\ locked'[e] = locked[e]
          /\ open'[e] = open[e] /\ map'[e] = map[e]
      BY <1>2 DEF Discard, TypeOK
    <2>2. CASE partner[e] = Nobody
      BY <2>1, <2>2 DEF Paired
    <2>3. CASE partner[e] # Nobody
      <3>1. partner[e] \in Players /\ partner[partner[e]] = e
        BY <2>3 DEF TypeOK, Paired
      <3>2. partner[e] \notin Ends(p)
        BY <1>2, <2>3, <3>1, NobodyAssumption DEF Ends, Paired
      <3>3. /\ partner'[partner[e]] = e
            /\ map'[partner[e]] = map[partner[e]]
            /\ locked'[partner[e]] = locked[partner[e]]
        BY <3>1, <3>2 DEF Discard, TypeOK
      <3> QED BY <2>1, <2>3, <3>3 DEF Paired
    <2> QED BY <2>2, <2>3
  <1> QED BY <1>1, <1>2

\* Every step keeps the two ends of every trade paired.
LEMMA PairedStep == IInv /\ [Next]_vars => Paired'
  <1> SUFFICES ASSUME IInv, [Next]_vars PROVE Paired'
    OBVIOUS
  <1> USE DEF IInv
  <1>0. CASE UNCHANGED vars
    BY <1>0 DEF Paired, vars
  <1>1. ASSUME NEW p \in Players, StartTrade(p) PROVE Paired'
    BY <1>1 DEF TypeOK, Paired, StartTrade, holdings
  <1>2. ASSUME NEW p \in Players, NEW q \in Players, InviteTrade(p, q) PROVE Paired'
    <2>1. /\ p # q /\ partner[p] = Nobody /\ partner[q] = Nobody
          /\ open[p] /\ map[p] = map[q] /\ map[p] # Nobody
      BY <1>2 DEF InviteTrade, Paired, TypeOK
    <2>2. \A e \in Players \ {p, q} : partner[e] # p /\ partner[e] # q
      BY <2>1, NobodyAssumption DEF Paired, TypeOK
    <2>3. /\ partner' = [partner EXCEPT ![q] = p, ![p] = q]
          /\ open' = [open EXCEPT ![q] = TRUE]
          /\ map' = map /\ locked' = locked /\ win' = win /\ winMeso' = winMeso
      BY <1>2 DEF InviteTrade
    <2>4. ~locked[p] /\ ~locked[q]
      BY <2>1 DEF Paired
    <2> QED BY <2>1, <2>2, <2>3, <2>4, NobodyAssumption DEF Paired, TypeOK
  <1>3. ASSUME NEW p \in Players, VisitTrade(p) PROVE Paired'
    BY <1>3 DEF Paired, VisitTrade, holdings
  <1>4. ASSUME NEW p \in Players, NEW i \in Items, SetItems(p, i) PROVE Paired'
    BY <1>4 DEF TypeOK, Paired, SetItems, Offerable
  <1>14. ASSUME NEW p \in Players, NEW i \in Items, OfferWorn(p, i) PROVE Paired'
    BY <1>14 DEF TypeOK, Paired, OfferWorn, Offerable, holdings
  <1>5. ASSUME NEW p \in Players, NEW m \in 1..MaxMeso, SetMeso(p, m) PROVE Paired'
    BY <1>5 DEF TypeOK, Paired, SetMeso
  <1>6. ASSUME NEW p \in Players, Confirm(p) PROVE Paired'
    BY <1>6 DEF TypeOK, Paired, Confirm, Handed, HandedMeso, holdings
  <1>7. ASSUME NEW p \in Players, Complete(p) PROVE Paired'
    <2>1. Ends(p) = {p, partner[p]}
      BY <1>7, NobodyAssumption DEF Complete, Ends, TypeOK
    <2> QED BY <1>7, <2>1, DiscardPaired DEF Complete
  <1>8. ASSUME NEW p \in Players, Bounce(p) PROVE Paired'
    BY <1>8, DiscardPaired DEF Bounce, CancelTrade
  <1>9. ASSUME NEW p \in Players, Exit(p) PROVE Paired'
    BY <1>9, DiscardPaired DEF Exit, CancelTrade
  <1>10. ASSUME NEW p \in Players, LeaveMap(p) PROVE Paired'
    <2>1. \A e \in Players \ {p} : map'[e] = map[e]
      BY <1>10 DEF LeaveMap, TypeOK
    <2>2. CASE open[p]
      <3>1. p \in Ends(p)
        BY NobodyAssumption DEF Ends
      <3> QED BY <1>10, <2>1, <2>2, <3>1, DiscardPaired DEF LeaveMap, CancelTrade
    <2>3. CASE ~open[p]
      <3>1. /\ partner' = partner /\ win' = win /\ winMeso' = winMeso
            /\ locked' = locked /\ open' = open
        BY <1>10, <2>3 DEF LeaveMap, window
      <3>2. \A e \in Players : partner[e] # Nobody => e # p /\ partner[e] # p
        BY <2>3, NobodyAssumption DEF Paired, TypeOK
      <3> QED BY <2>1, <3>1, <3>2 DEF Paired, TypeOK
    <2> QED BY <2>2, <2>3
  <1>11. ASSUME NEW p \in Players, NEW m \in Maps, EnterMap(p, m) PROVE Paired'
    <2>1. /\ partner' = partner /\ win' = win /\ winMeso' = winMeso
          /\ locked' = locked /\ open' = open
          /\ map' = [map EXCEPT ![p] = m] /\ map[p] = Nobody
      BY <1>11 DEF EnterMap, window
    <2>2. \A e \in Players : partner[e] # Nobody => e # p /\ partner[e] # p
      BY <2>1 DEF Paired, TypeOK
    <2> QED BY <2>1, <2>2 DEF Paired, TypeOK
  <1>12. ASSUME NEW p \in Players, NEW i \in Items, PickUp(p, i) \/ Drop(p, i)
         PROVE  Paired'
    BY <1>12 DEF Paired, PickUp, Drop, window
  <1>13. ASSUME NEW p \in Players, NEW m \in 1..MaxMeso, Earn(p, m) PROVE Paired'
    BY <1>13 DEF Paired, Earn, window
  <1> QED BY <1>0, <1>1, <1>2, <1>3, <1>4, <1>5, <1>6, <1>7, <1>8, <1>9, <1>10,
             <1>11, <1>12, <1>13, <1>14 DEF Next, TradeStep, WorldStep

-----------------------------------------------------------------------------
(* What a locked side handed over. *)

LEMMA DiscardLocked ==
    ASSUME TypeOK, Paired, LockedOfferStands, NEW p \in Players, Discard(Ends(p))
    PROVE  LockedOfferStands'
  <1> SUFFICES ASSUME NEW e \in Players, locked'[e]
               PROVE  /\ exch'[partner'[e]] = win'[e]
                      /\ exchMeso'[partner'[e]] = winMeso'[e]
    BY DEF LockedOfferStands
  <1>1. e \notin Ends(p) /\ locked[e]
    BY DEF Discard
  <1>2. partner[e] # Nobody /\ partner[e] \in Players /\ partner[partner[e]] = e
    BY <1>1 DEF Paired, TypeOK
  <1>3. partner[e] \notin Ends(p)
    BY <1>1, <1>2, NobodyAssumption DEF Ends, Paired
  <1>4. partner'[e] = partner[e] /\ win'[e] = win[e] /\ winMeso'[e] = winMeso[e]
    BY <1>1 DEF Discard
  <1>5. exch'[partner[e]] = exch[partner[e]] /\ exchMeso'[partner[e]] = exchMeso[partner[e]]
    BY <1>2, <1>3 DEF Discard
  <1> QED BY <1>1, <1>4, <1>5 DEF LockedOfferStands

\* No step changes a locked window or the copy of it that the partner holds.
LEMMA LockedStep == IInv /\ [Next]_vars => LockedOfferStands'
  <1> SUFFICES ASSUME IInv, [Next]_vars PROVE LockedOfferStands'
    OBVIOUS
  <1> USE DEF IInv
  <1>0. CASE UNCHANGED vars
    BY <1>0 DEF LockedOfferStands, vars
  <1>1. ASSUME NEW p \in Players, StartTrade(p) PROVE LockedOfferStands'
    BY <1>1 DEF LockedOfferStands, StartTrade
  <1>2. ASSUME NEW p \in Players, NEW q \in Players, InviteTrade(p, q)
        PROVE  LockedOfferStands'
    <2>1. partner[p] = Nobody /\ partner[q] = Nobody
      BY <1>2 DEF InviteTrade, Paired, TypeOK
    <2>2. ~locked[p] /\ ~locked[q]
      BY <2>1 DEF Paired
    <2> QED BY <1>2, <2>2 DEF LockedOfferStands, InviteTrade, TypeOK
  <1>3. ASSUME NEW p \in Players, VisitTrade(p) PROVE LockedOfferStands'
    BY <1>3 DEF LockedOfferStands, VisitTrade
  <1>4. ASSUME NEW p \in Players, NEW i \in Items, SetItems(p, i)
        PROVE  LockedOfferStands'
    BY <1>4 DEF LockedOfferStands, SetItems, Offerable, TypeOK
  <1>14. ASSUME NEW p \in Players, NEW i \in Items, OfferWorn(p, i)
         PROVE  LockedOfferStands'
    BY <1>14 DEF LockedOfferStands, OfferWorn, Offerable, TypeOK, holdings
  <1>5. ASSUME NEW p \in Players, NEW m \in 1..MaxMeso, SetMeso(p, m)
        PROVE  LockedOfferStands'
    BY <1>5 DEF LockedOfferStands, SetMeso, TypeOK
  <1>6. ASSUME NEW p \in Players, Confirm(p) PROVE LockedOfferStands'
    <2> DEFINE q == partner[p]
    <2>1. q \in Players
      BY <1>6 DEF Confirm, Handed, HandedMeso, TypeOK
    <2>2. \A e \in Players \ {p} : locked[e] => partner[e] \in Players /\ partner[e] # q
      BY <1>6, <2>1 DEF Confirm, Handed, HandedMeso, TypeOK, Paired
    <2> QED BY <1>6, <2>1, <2>2 DEF LockedOfferStands, Confirm, Handed, HandedMeso, TypeOK
  <1>7. ASSUME NEW p \in Players, Complete(p) PROVE LockedOfferStands'
    <2>1. Ends(p) = {p, partner[p]}
      BY <1>7, NobodyAssumption DEF Complete, Ends, TypeOK
    <2> QED BY <1>7, <2>1, DiscardLocked DEF Complete
  <1>8. ASSUME NEW p \in Players, Bounce(p) PROVE LockedOfferStands'
    BY <1>8, DiscardLocked DEF Bounce, CancelTrade
  <1>9. ASSUME NEW p \in Players, Exit(p) PROVE LockedOfferStands'
    BY <1>9, DiscardLocked DEF Exit, CancelTrade
  <1>10. ASSUME NEW p \in Players, LeaveMap(p) PROVE LockedOfferStands'
    <2>1. CASE open[p]
      BY <1>10, <2>1, DiscardLocked DEF LeaveMap, CancelTrade
    <2>2. CASE ~open[p]
      BY <1>10, <2>2 DEF LeaveMap, LockedOfferStands, window
    <2> QED BY <2>1, <2>2
  <1>11. ASSUME NEW p \in Players, NEW m \in Maps, EnterMap(p, m)
         PROVE  LockedOfferStands'
    BY <1>11 DEF LockedOfferStands, EnterMap, window
  <1>12. ASSUME NEW p \in Players, NEW i \in Items, PickUp(p, i) \/ Drop(p, i)
         PROVE  LockedOfferStands'
    BY <1>12 DEF LockedOfferStands, PickUp, Drop, window
  <1>13. ASSUME NEW p \in Players, NEW m \in 1..MaxMeso, Earn(p, m)
         PROVE  LockedOfferStands'
    BY <1>13 DEF LockedOfferStands, Earn, window
  <1> QED BY <1>0, <1>1, <1>2, <1>3, <1>4, <1>5, <1>6, <1>7, <1>8, <1>9, <1>10,
             <1>11, <1>12, <1>13, <1>14 DEF Next, TradeStep, WorldStep

-----------------------------------------------------------------------------
(* An item is in one place only. *)

\* Inventories that only take over what was in their own window, which is
\* emptied, still hold every item once.
LEMMA OwnWindowOnly ==
    ASSUME TypeOK, OnePlace, NEW who \in SUBSET Players,
           ground' = ground,
           \A e \in Players : e \in who => win'[e] = {} /\ inv'[e] \subseteq inv[e] \cup win[e],
           \A e \in Players : e \notin who => win'[e] = win[e] /\ inv'[e] = inv[e]
    PROVE  OnePlace'
  <1>1. \A e \in Players : inv'[e] \cup win'[e] \subseteq inv[e] \cup win[e]
    OBVIOUS
  <1>2. \A e \in Players : inv'[e] \cap win'[e] = {}
    BY DEF OnePlace
  <1> QED BY <1>1, <1>2 DEF OnePlace

LEMMA CancelNoDuplicate ==
    ASSUME TypeOK, OnePlace, NEW p \in Players, NEW check,
           CancelTrade(p, check)
    PROVE  OnePlace'
  <1>1. \A e \in Players : /\ e \in Ends(p) => win'[e] = {}
                           /\ e \notin Ends(p) => win'[e] = win[e]
    BY DEF CancelTrade, Discard
  <1>2. ground' = ground
    BY DEF CancelTrade
  <1> QED BY <1>1, <1>2, CancelHoldings, EndsPlayers, OwnWindowOnly

\* Completing a trade moves each window to the other end.
LEMMA CompleteNoDuplicate ==
    ASSUME IInv, NEW p \in Players, Complete(p)
    PROVE  OnePlace'
  <1> DEFINE q == partner[p]
             gets == [exch EXCEPT ![q] = win[p]]
  <1>1. q \in Players /\ q # p /\ partner[q] = p /\ locked[q]
    BY NobodyAssumption DEF IInv, TypeOK, Paired, Complete, Handed, HandedMeso
  <1>2. exch[p] = win[q]
    BY <1>1 DEF IInv, LockedOfferStands
  <1>3. gets[p] = win[q] /\ gets[q] = win[p]
    BY <1>1, <1>2 DEF IInv, TypeOK
  <1>4. PICK gotp \in Taken(inv[p], gets[p]), gotq \in Taken(inv[q], gets[q]) :
          inv' = [inv EXCEPT ![p] = @ \cup gotp, ![q] = @ \cup gotq]
    BY DEF Complete, Handed, HandedMeso
  <1>5. gotp \subseteq win[q] /\ gotq \subseteq win[p]
    BY <1>3, <1>4, TakenSubset
  <1>6. /\ inv'[p] = inv[p] \cup gotp /\ inv'[q] = inv[q] \cup gotq
        /\ \A e \in Players \ {p, q} : inv'[e] = inv[e]
    BY <1>1, <1>4 DEF IInv, TypeOK
  <1>7. /\ win'[p] = {} /\ win'[q] = {}
        /\ \A e \in Players \ {p, q} : win'[e] = win[e]
        /\ ground' = ground
    BY <1>1 DEF Complete, Handed, HandedMeso, Discard
  <1>8. OnePlace
    BY DEF IInv
  <1>9. \A e \in Players : inv'[e] \cap win'[e] = {}
    BY <1>6, <1>7, <1>8 DEF OnePlace
  <1>10. \A e \in Players : (inv'[e] \cup win'[e]) \cap ground' = {}
    BY <1>1, <1>5, <1>6, <1>7, <1>8 DEF OnePlace
  <1>11. ASSUME NEW e \in Players, NEW f \in Players, e # f
         PROVE  (inv'[e] \cup win'[e]) \cap (inv'[f] \cup win'[f]) = {}
    <2>1. CASE e \notin {p, q} /\ f \notin {p, q}
      BY <1>6, <1>7, <1>8, <1>11, <2>1 DEF OnePlace
    <2>2. CASE e \in {p, q} /\ f \notin {p, q}
      BY <1>1, <1>5, <1>6, <1>7, <1>8, <2>2 DEF OnePlace
    <2>3. CASE e \notin {p, q} /\ f \in {p, q}
      BY <1>1, <1>5, <1>6, <1>7, <1>8, <2>3 DEF OnePlace
    <2>4. CASE e \in {p, q} /\ f \in {p, q}
      BY <1>1, <1>5, <1>6, <1>7, <1>8, <1>11, <2>4 DEF OnePlace
    <2> QED BY <2>1, <2>2, <2>3, <2>4
  <1> QED BY <1>9, <1>10, <1>11 DEF OnePlace

\* No step puts an item in two places.
LEMMA NoDuplicateStep == IInv /\ [Next]_vars => OnePlace'
  <1> SUFFICES ASSUME IInv, [Next]_vars PROVE OnePlace'
    OBVIOUS
  <1>a. TypeOK /\ OnePlace
    BY DEF IInv
  <1>0. CASE UNCHANGED vars
    BY <1>0, <1>a DEF OnePlace, vars
  <1>1. ASSUME NEW p \in Players, StartTrade(p) PROVE OnePlace'
    BY <1>1, <1>a DEF OnePlace, StartTrade, holdings
  <1>2. ASSUME NEW p \in Players, NEW q \in Players, InviteTrade(p, q)
        PROVE  OnePlace'
    BY <1>2, <1>a DEF OnePlace, InviteTrade, holdings
  <1>3. ASSUME NEW p \in Players, VisitTrade(p) PROVE OnePlace'
    BY <1>3, <1>a DEF OnePlace, VisitTrade, holdings
  <1>4. ASSUME NEW p \in Players, NEW i \in Items, SetItems(p, i)
        PROVE  OnePlace'
    <2>1. /\ inv'[p] = inv[p] \ {i} /\ win'[p] = win[p] \cup {i} /\ i \in inv[p]
          /\ \A e \in Players \ {p} : inv'[e] = inv[e] /\ win'[e] = win[e]
          /\ ground' = ground
      BY <1>4, <1>a DEF SetItems, TypeOK
    <2>2. \A e \in Players : inv'[e] \cup win'[e] = inv[e] \cup win[e]
      BY <2>1
    <2> QED BY <1>a, <2>1, <2>2 DEF OnePlace
  <1>15. ASSUME NEW p \in Players, NEW i \in Items, OfferWorn(p, i)
         PROVE  OnePlace'
    <2>1. /\ inv' = inv /\ ground' = ground /\ win'[p] = win[p] \cup {i}
          /\ \A e \in Players \ {p} : win'[e] = win[e]
      BY <1>15, <1>a DEF OfferWorn, TypeOK, holdings
    <2>2. i \notin ground /\ \A e \in Players : i \notin inv[e] \cup win[e]
      BY <1>15 DEF OfferWorn, Everything
    <2> QED BY <1>a, <2>1, <2>2 DEF OnePlace
  <1>5. ASSUME NEW p \in Players, NEW m \in 1..MaxMeso, SetMeso(p, m)
        PROVE  OnePlace'
    BY <1>5, <1>a DEF OnePlace, SetMeso
  <1>6. ASSUME NEW p \in Players, Confirm(p) PROVE OnePlace'
    BY <1>6, <1>a DEF OnePlace, Confirm, Handed, HandedMeso, holdings
  <1>7. ASSUME NEW p \in Players, Complete(p) PROVE OnePlace'
    BY <1>7, CompleteNoDuplicate
  <1>8. ASSUME NEW p \in Players, Bounce(p) PROVE OnePlace'
    BY <1>8, <1>a, CancelNoDuplicate DEF Bounce
  <1>9. ASSUME NEW p \in Players, Exit(p) PROVE OnePlace'
    BY <1>9, <1>a, CancelNoDuplicate DEF Exit
  <1>10. ASSUME NEW p \in Players, LeaveMap(p) PROVE OnePlace'
    <2>1. CASE open[p]
      BY <1>10, <1>a, <2>1, CancelNoDuplicate DEF LeaveMap
    <2>2. CASE ~open[p]
      BY <1>10, <1>a, <2>2 DEF LeaveMap, OnePlace, holdings, window
    <2> QED BY <2>1, <2>2
  <1>11. ASSUME NEW p \in Players, NEW m \in Maps, EnterMap(p, m)
         PROVE  OnePlace'
    BY <1>11, <1>a DEF OnePlace, EnterMap, holdings, window
  <1>12. ASSUME NEW p \in Players, NEW i \in Items, PickUp(p, i)
         PROVE  OnePlace'
    <2>1. /\ inv'[p] = inv[p] \cup {i} /\ ground' = ground \ {i} /\ i \in ground
          /\ \A e \in Players \ {p} : inv'[e] = inv[e]
          /\ win' = win
      BY <1>12, <1>a DEF PickUp, TypeOK, window
    <2>2. \A e \in Players : i \notin inv[e] \cup win[e]
      BY <1>a, <2>1 DEF OnePlace
    <2> QED BY <1>a, <2>1, <2>2 DEF OnePlace
  <1>13. ASSUME NEW p \in Players, NEW i \in Items, Drop(p, i)
         PROVE  OnePlace'
    <2>1. /\ inv'[p] = inv[p] \ {i} /\ ground' = ground \cup {i} /\ i \in inv[p]
          /\ \A e \in Players \ {p} : inv'[e] = inv[e]
          /\ win' = win
      BY <1>13, <1>a DEF Drop, TypeOK, window
    <2>2. \A e \in Players : i \notin inv'[e] \cup win'[e]
      BY <1>a, <2>1 DEF OnePlace
    <2> QED BY <1>a, <2>1, <2>2 DEF OnePlace
  <1>14. ASSUME NEW p \in Players, NEW m \in 1..MaxMeso, Earn(p, m)
         PROVE  OnePlace'
    BY <1>14, <1>a DEF OnePlace, Earn, window
  <1> QED BY <1>0, <1>1, <1>2, <1>3, <1>4, <1>5, <1>6, <1>7, <1>8, <1>9, <1>10,
             <1>11, <1>12, <1>13, <1>14, <1>15 DEF Next, TradeStep, WorldStep

-----------------------------------------------------------------------------
(* The theorems. *)

\* No trade has begun in an initial state, and an item has one holder.
LEMMA InitIInv == Init => IInv
  <1> SUFFICES ASSUME Init PROVE IInv
    OBVIOUS
  <1>1. PICK there \in SUBSET Items : \E hold \in [there -> Players \cup {Nobody}] :
          /\ inv = [p \in Players |-> {i \in there : hold[i] = p}]
          /\ ground = {i \in there : hold[i] = Nobody}
    BY DEF Init
  <1>2. win = [p \in Players |-> {}]
    BY DEF Init
  <1>3. OnePlace
    BY <1>1, <1>2, NobodyAssumption DEF OnePlace
  <1>4. Paired /\ LockedOfferStands
    BY DEF Init, Paired, LockedOfferStands
  <1> QED BY <1>3, <1>4, InitType DEF IInv

\* The inductive invariant holds in every reachable state.
THEOREM Inductive == Spec => []IInv
  <1>1. IInv /\ [Next]_vars => IInv'
    BY TypeStep, PairedStep, LockedStep, NoDuplicateStep DEF IInv
  <1> QED BY <1>1, InitIInv, PTL DEF Spec

\* Every variable keeps its type, whatever the slots, the tax and the players.
THEOREM TypeCorrect == Spec => []TypeOK
  <1>1. IInv => TypeOK
    BY DEF IInv
  <1> QED BY <1>1, Inductive, PTL

\* The two ends of a trade always point at each other, on the same map.
THEOREM TradesPaired == Spec => []Paired
  <1>1. IInv => Paired
    BY DEF IInv
  <1> QED BY <1>1, Inductive, PTL

\* What a locked side handed over is what its window still holds.
THEOREM LockedOffersStand == Spec => []LockedOfferStands
  <1>1. IInv => LockedOfferStands
    BY DEF IInv
  <1> QED BY <1>1, Inductive, PTL

-----------------------------------------------------------------------------
(* Who owns an item. *)

\* Whoever has an item in his inventory or window is its owner.
LEMMA HolderOwns ==
    ASSUME OnePlace, NEW p \in Players, NEW i \in Items,
           i \in inv[p] \cup win[p]
    PROVE  Owner[i] = p
  <1>1. \A q \in Players : i \in inv[q] \cup win[q] => q = p
    BY DEF OnePlace
  <1> QED BY <1>1 DEF Owner

LEMMA HolderOwnsNext ==
    ASSUME OnePlace', NEW p \in Players, NEW i \in Items,
           i \in inv'[p] \cup win'[p]
    PROVE  Owner'[i] = p
  <1>1. \A q \in Players : i \in inv'[q] \cup win'[q] => q = p
    BY DEF OnePlace
  <1> QED BY <1>1 DEF Owner

\* Nobody owns what nobody has.
LEMMA UnheldUnowned ==
    ASSUME NEW i \in Items, \A p \in Players : i \notin inv[p] \cup win[p]
    PROVE  Owner[i] = Nobody
  BY DEF Owner

LEMMA UnheldUnownedNext ==
    ASSUME NEW i \in Items, \A p \in Players : i \notin inv'[p] \cup win'[p]
    PROVE  Owner'[i] = Nobody
  BY DEF Owner

\* A step that leaves every player with what he had in the inventory and the
\* window together changes no owner.
LEMMA SameHoldingsSameOwner ==
    ASSUME \A p \in Players : inv'[p] \cup win'[p] = inv[p] \cup win[p]
    PROVE  Owner' = Owner
  BY DEF Owner

-----------------------------------------------------------------------------
(* The end of a trade. *)

\* What one end had in the window and does not get back is nobody's; no other
\* item changes its owner.
LEMMA WithdrawOwner ==
    ASSUME TypeOK, OnePlace, OnePlace',
           NEW p \in Players, NEW q \in Players,
           \A e \in {p, q} : /\ win'[e] = {}
                             /\ inv[e] \subseteq inv'[e]
                             /\ inv'[e] \subseteq inv[e] \cup win[e],
           \A e \in Players \ {p, q} : win'[e] = win[e] /\ inv'[e] = inv[e]
    PROVE  \E fallen \in SUBSET (win[p] \cup win[q]) :
              Owner' = [i \in Items |-> IF i \in fallen THEN Nobody ELSE Owner[i]]
  <1> DEFINE fallen == (win[p] \cup win[q]) \ (inv'[p] \cup inv'[q])
  <1>1. ASSUME NEW i \in Items
        PROVE  Owner'[i] = IF i \in fallen THEN Nobody ELSE Owner[i]
    <2>1. CASE i \in fallen
      <3>1. \A e \in Players : i \notin inv'[e] \cup win'[e]
        BY <2>1 DEF OnePlace
      <3> QED BY <2>1, <3>1, UnheldUnownedNext
    <2>2. CASE i \notin fallen /\ \E e \in Players : i \in inv[e] \cup win[e]
      <3>1. PICK e \in Players : i \in inv[e] \cup win[e]
        BY <2>2
      <3>2. i \in inv'[e] \cup win'[e]
        <4>1. CASE e \in {p, q}
          <5>1. CASE i \in inv[e]
            BY <4>1, <5>1
          <5>2. CASE i \in win[e]
            <6>1. i \in inv'[p] \cup inv'[q]
              BY <2>2, <4>1, <5>2
            <6>2. i \notin inv[p] \cup inv[q]
              BY <4>1, <5>2 DEF OnePlace
            <6> QED BY <4>1, <5>2, <6>1, <6>2 DEF OnePlace
          <5> QED BY <3>1, <5>1, <5>2
        <4>2. CASE e \notin {p, q}
          BY <3>1, <4>2
        <4> QED BY <4>1, <4>2
      <3> HIDE DEF fallen
      <3> QED BY <2>2, <3>1, <3>2, HolderOwns, HolderOwnsNext
    <2>3. CASE i \notin fallen /\ \A e \in Players : i \notin inv[e] \cup win[e]
      <3>1. \A e \in Players : i \notin inv'[e] \cup win'[e]
        BY <2>3
      <3> HIDE DEF fallen
      <3> QED BY <2>3, <3>1, UnheldUnowned, UnheldUnownedNext
    <2> HIDE DEF fallen
    <2> QED BY <2>1, <2>2, <2>3
  <1>2. Owner' = [i \in Items |-> IF i \in fallen THEN Nobody ELSE Owner[i]]
    <2>1. Owner' = [i \in Items |-> Owner'[i]]
      BY DEF Owner
    <2> HIDE DEF fallen
    <2> QED BY <1>1, <2>1
  <1>3. fallen \in SUBSET (win[p] \cup win[q])
    OBVIOUS
  <1> HIDE DEF fallen
  <1> QED BY <1>2, <1>3

\* Discarding the windows of p and q closes their offers.
LEMMA DiscardCloses ==
    ASSUME TypeOK, NEW p \in Players, NEW q \in Players, Discard({p, q})
    PROVE  B!Close(p, q)
  BY DEF TypeOK, Discard, B!Close

\* The items both ends of a cancelled trade hold afterwards.
LEMMA CancelWithdraws ==
    ASSUME TypeOK, Paired, OnePlace, OnePlace',
           NEW p \in Players, NEW check, CancelTrade(p, check)
    PROVE  B!Next
  <1> DEFINE q == IF partner[p] = Nobody THEN p ELSE partner[p]
  <1>1. q \in Players /\ Ends(p) = {p, q}
    BY NobodyAssumption DEF TypeOK, Ends
  <1> HIDE DEF q
  <1>2. Discard({p, q})
    BY <1>1 DEF CancelTrade
  <1>3. /\ \A e \in {p, q} : win'[e] = {}
        /\ \A e \in Players \ {p, q} : win'[e] = win[e]
    BY <1>1, <1>2 DEF Discard
  <1>4. /\ \A e \in {p, q} : inv'[e] \subseteq inv[e] \cup win[e]
        /\ \A e \in Players \ {p, q} : inv'[e] = inv[e]
    BY <1>1, CancelHoldings
  <1>5. \A e \in {p, q} : inv[e] \subseteq inv'[e]
    BY <1>1 DEF CancelTrade
  <1>6. \E fallen \in SUBSET (win[p] \cup win[q]) :
           Owner' = [i \in Items |-> IF i \in fallen THEN Nobody ELSE Owner[i]]
    BY <1>1, <1>3, <1>4, <1>5, WithdrawOwner
  <1>7. B!Withdraw(p, q)
    BY <1>1, <1>2, <1>6, DiscardCloses DEF B!Withdraw
  <1> QED BY <1>1, <1>7 DEF B!Next

\* What both ends of a completed trade take.
LEMMA CompleteTakes ==
    ASSUME IInv, NEW p \in Players, Complete(p)
    PROVE  LET q == partner[p] IN
           /\ q \in Players /\ q # p /\ locked[q] /\ ~locked[p]
           /\ Discard({p, q}) /\ Ends(p) = {p, q} /\ Ends(q) = {p, q}
           /\ \E gotp \in Taken(inv[p], win[q]), gotq \in Taken(inv[q], win[p]) :
                 inv' = [inv EXCEPT ![p] = @ \cup gotp, ![q] = @ \cup gotq]
  <1> DEFINE q == partner[p]
  <1>1. q \in Players /\ q # p /\ partner[q] = p /\ locked[q] /\ ~locked[p]
    BY NobodyAssumption DEF IInv, TypeOK, Paired, Complete
  <1>2. exch[p] = win[q]
    BY <1>1 DEF IInv, LockedOfferStands
  <1>3. Handed(p)[p] = win[q] /\ Handed(p)[q] = win[p]
    BY <1>1, <1>2 DEF IInv, TypeOK, Handed
  <1>4. Discard({p, q})
    BY DEF Complete
  <1>5. Ends(p) = {p, q} /\ Ends(q) = {p, q}
    BY <1>1, NobodyAssumption DEF Ends
  <1>6. \E gotp \in Taken(inv[p], Handed(p)[p]), gotq \in Taken(inv[q], Handed(p)[q]) :
           inv' = [inv EXCEPT ![p] = @ \cup gotp, ![q] = @ \cup gotq]
    BY DEF Complete
  <1>7. \E gotp \in Taken(inv[p], win[q]), gotq \in Taken(inv[q], win[p]) :
           inv' = [inv EXCEPT ![p] = @ \cup gotp, ![q] = @ \cup gotq]
    BY <1>3, <1>6
  <1> QED BY <1>1, <1>4, <1>5, <1>7

\* The completion of a trade is the exchange of both offers.
LEMMA CompleteExchanges ==
    ASSUME IInv, OnePlace', NEW p \in Players, Complete(p)
    PROVE  B!Next
  <1> DEFINE q == partner[p]
             fallen == (win[p] \cup win[q]) \ (inv'[p] \cup inv'[q])
             after == [i \in Items |->
                         IF i \in fallen THEN Nobody
                         ELSE IF i \in win[p] THEN q
                         ELSE IF i \in win[q] THEN p ELSE Owner[i]]
  <1>a. TypeOK /\ OnePlace
    BY DEF IInv
  <1>1. q \in Players /\ q # p /\ locked[q] /\ ~locked[p] /\ Discard({p, q})
    BY CompleteTakes
  <1>2. PICK gotp \in Taken(inv[p], win[q]), gotq \in Taken(inv[q], win[p]) :
          inv' = [inv EXCEPT ![p] = @ \cup gotp, ![q] = @ \cup gotq]
    BY CompleteTakes
  <1>3. gotp \subseteq win[q] /\ gotq \subseteq win[p]
    BY <1>2, TakenSubset
  <1>4. /\ inv'[p] = inv[p] \cup gotp /\ inv'[q] = inv[q] \cup gotq
        /\ \A e \in Players \ {p, q} : inv'[e] = inv[e]
    BY <1>a, <1>1, <1>2 DEF TypeOK
  <1>5. /\ win'[p] = {} /\ win'[q] = {}
        /\ \A e \in Players \ {p, q} : win'[e] = win[e]
    BY <1>1 DEF Discard
  <1>6. ASSUME NEW i \in Items PROVE Owner'[i] = after[i]
    <2>1. CASE i \in fallen
      <3>1. \A e \in Players \ {p, q} : i \notin inv[e] \cup win[e]
        BY <1>a, <1>1, <2>1 DEF OnePlace
      <3>2. \A e \in Players : i \notin inv'[e] \cup win'[e]
        BY <1>4, <1>5, <2>1, <3>1
      <3> QED BY <2>1, <3>2, UnheldUnownedNext
    <2>2. CASE i \notin fallen /\ i \in win[p]
      <3>1. i \notin inv[p] /\ i \notin win[q]
        BY <1>a, <1>1, <2>2 DEF OnePlace
      <3>2. i \in inv'[q]
        BY <1>3, <1>4, <2>2, <3>1
      <3> HIDE DEF fallen
      <3> QED BY <1>1, <2>2, <3>2, HolderOwnsNext
    <2>3. CASE i \notin fallen /\ i \notin win[p] /\ i \in win[q]
      <3>1. i \notin inv[q]
        BY <1>a, <1>1, <2>3 DEF OnePlace
      <3>2. i \in inv'[p]
        BY <1>3, <1>4, <2>3, <3>1
      <3> HIDE DEF fallen
      <3> QED BY <1>1, <2>3, <3>2, HolderOwnsNext
    <2>4. CASE i \notin win[p] /\ i \notin win[q]
      <3>1. i \notin fallen /\ i \notin gotp /\ i \notin gotq
        BY <1>3, <2>4
      <3>2. \A e \in Players : i \in inv'[e] \cup win'[e] <=> i \in inv[e] \cup win[e]
        <4> TAKE e \in Players
        <4>1. CASE e = p
          BY <1>4, <1>5, <2>4, <3>1, <4>1
        <4>2. CASE e = q
          BY <1>4, <1>5, <2>4, <3>1, <4>2
        <4>3. CASE e \notin {p, q}
          BY <1>4, <1>5, <4>3
        <4> QED BY <4>1, <4>2, <4>3
      <3>3. Owner'[i] = Owner[i]
        <4>1. CASE \E e \in Players : i \in inv[e] \cup win[e]
          BY <1>a, <3>2, <4>1, HolderOwns, HolderOwnsNext
        <4>2. CASE \A e \in Players : i \notin inv[e] \cup win[e]
          BY <3>2, <4>2, UnheldUnowned, UnheldUnownedNext
        <4> QED BY <4>1, <4>2
      <3> HIDE DEF fallen
      <3> QED BY <2>4, <3>1, <3>3
    <2> HIDE DEF fallen
    <2> QED BY <2>1, <2>2, <2>3, <2>4
  <1>7. Owner' = after
    <2>1. Owner' = [i \in Items |-> Owner'[i]]
      BY DEF Owner
    <2>2. after = [i \in Items |-> after[i]]
      OBVIOUS
    <2> HIDE DEF after
    <2> QED BY <1>6, <2>1, <2>2
  <1>8. B!Exchange(p, q)
    <2>1. fallen \in SUBSET (win[p] \cup win[q])
      OBVIOUS
    <2>2. B!Close(p, q)
      BY <1>a, <1>1, DiscardCloses
    <2> HIDE DEF fallen
    <2> QED BY <1>1, <1>7, <2>1, <2>2 DEF B!Exchange
  <1> QED BY <1>1, <1>8 DEF B!Next

-----------------------------------------------------------------------------
(* The refinement. *)

\* No trade is open at first: nothing is offered.
LEMMA InitBarter == Init => B!Init
  <1> SUFFICES ASSUME Init PROVE B!Init
    OBVIOUS
  <1>1. \A i \in Items : Owner[i] \in Players \cup {Nobody}
    BY DEF Owner
  <1>2. Owner = [i \in Items |-> Owner[i]]
    BY DEF Owner
  <1>3. Owner \in [Items -> Players \cup {Nobody}]
    BY <1>1, <1>2
  <1> QED BY <1>3 DEF Init, B!Init

\* Every step of a trade is a step of a barter, or none.
LEMMA StepBarter == IInv /\ IInv' /\ [Next]_vars => [B!Next]_(B!vars)
  <1> SUFFICES ASSUME IInv, IInv', [Next]_vars PROVE B!Next \/ UNCHANGED B!vars
    OBVIOUS
  <1>a. TypeOK /\ OnePlace /\ Paired /\ OnePlace'
    BY DEF IInv
  <1>b. ASSUME inv' = inv, win' = win, locked' = locked PROVE UNCHANGED B!vars
    BY <1>b, SameHoldingsSameOwner DEF B!vars
  <1>0. CASE UNCHANGED vars
    BY <1>0, <1>b DEF vars
  <1>1. ASSUME NEW p \in Players, StartTrade(p) PROVE UNCHANGED B!vars
    BY <1>1, <1>b DEF StartTrade, holdings
  <1>2. ASSUME NEW p \in Players, NEW q \in Players, InviteTrade(p, q)
        PROVE  UNCHANGED B!vars
    BY <1>2, <1>b DEF InviteTrade, holdings
  <1>3. ASSUME NEW p \in Players, VisitTrade(p) PROVE UNCHANGED B!vars
    BY <1>3, <1>b DEF VisitTrade, holdings
  <1>4. ASSUME NEW p \in Players, NEW i \in Items, SetItems(p, i) PROVE B!Next
    <2>1. /\ inv'[p] = inv[p] \ {i} /\ win'[p] = win[p] \cup {i} /\ i \in inv[p]
          /\ \A e \in Players \ {p} : inv'[e] = inv[e] /\ win'[e] = win[e]
          /\ ~locked[p] /\ locked' = locked
          /\ win' = [win EXCEPT ![p] = @ \cup {i}]
      BY <1>4, <1>a DEF SetItems, Offerable, TypeOK
    <2>2. Owner' = Owner
      BY <2>1, SameHoldingsSameOwner
    <2>3. Owner[i] = p /\ i \notin win[p]
      BY <1>a, <2>1, HolderOwns DEF OnePlace
    <2>4. B!Offer(p, i)
      BY <2>1, <2>2, <2>3 DEF B!Offer
    <2> QED BY <2>4 DEF B!Next
  <1>15. ASSUME NEW p \in Players, NEW i \in Items, OfferWorn(p, i) PROVE B!Next
    <2>1. /\ inv' = inv /\ win'[p] = win[p] \cup {i} /\ ~locked[p] /\ locked' = locked
          /\ \A e \in Players \ {p} : win'[e] = win[e]
          /\ win' = [win EXCEPT ![p] = @ \cup {i}]
      BY <1>15, <1>a DEF OfferWorn, Offerable, TypeOK, holdings
    <2>2. \A e \in Players : i \notin inv[e] \cup win[e]
      BY <1>15 DEF OfferWorn, Everything
    <2>3. Owner[i] = Nobody
      BY <2>2, UnheldUnowned
    <2>4. Owner'[i] = p
      BY <1>a, <2>1, HolderOwnsNext
    <2>5. \A j \in Items \ {i}, e \in Players :
             j \in inv'[e] \cup win'[e] <=> j \in inv[e] \cup win[e]
      BY <2>1
    <2>6. \A j \in Items \ {i} : Owner'[j] = Owner[j]
      BY <2>5 DEF Owner
    <2>7. Owner' = [Owner EXCEPT ![i] = p]
      <3>1. Owner = [j \in Items |-> Owner[j]] /\ Owner' = [j \in Items |-> Owner'[j]]
        BY DEF Owner
      <3> QED BY <2>4, <2>6, <3>1
    <2>8. B!Bring(p, i)
      BY <2>1, <2>3, <2>7 DEF B!Bring
    <2> QED BY <2>8 DEF B!Next
  <1>5. ASSUME NEW p \in Players, NEW m \in 1..MaxMeso, SetMeso(p, m)
        PROVE  UNCHANGED B!vars
    BY <1>5, <1>b DEF SetMeso
  <1>6. ASSUME NEW p \in Players, Confirm(p) PROVE B!Next
    <2>1. inv' = inv /\ win' = win
      BY <1>6 DEF Confirm, holdings
    <2>2. Owner' = Owner
      BY <2>1, SameHoldingsSameOwner
    <2>3. B!Seal(p)
      BY <1>6, <2>1, <2>2 DEF Confirm, B!Seal
    <2> QED BY <2>3 DEF B!Next
  <1>7. ASSUME NEW p \in Players, Complete(p) PROVE B!Next
    BY <1>7, <1>a, CompleteExchanges
  <1>8. ASSUME NEW p \in Players, Bounce(p) PROVE B!Next
    BY <1>8, <1>a, CancelWithdraws DEF Bounce
  <1>9. ASSUME NEW p \in Players, Exit(p) PROVE B!Next
    BY <1>9, <1>a, CancelWithdraws DEF Exit
  <1>10. ASSUME NEW p \in Players, LeaveMap(p) PROVE B!Next \/ UNCHANGED B!vars
    <2>1. CASE open[p]
      BY <1>10, <1>a, <2>1, CancelWithdraws DEF LeaveMap
    <2>2. CASE ~open[p]
      BY <1>10, <1>b, <2>2 DEF LeaveMap, holdings, window
    <2> QED BY <2>1, <2>2
  <1>11. ASSUME NEW p \in Players, NEW m \in Maps, EnterMap(p, m)
         PROVE  UNCHANGED B!vars
    BY <1>11, <1>b DEF EnterMap, holdings, window
  <1>12. ASSUME NEW p \in Players, NEW i \in Items, PickUp(p, i) PROVE B!Next
    <2>1. /\ inv'[p] = inv[p] \cup {i} /\ i \in ground
          /\ \A e \in Players \ {p} : inv'[e] = inv[e]
          /\ win' = win /\ locked' = locked
      BY <1>12, <1>a DEF PickUp, TypeOK, window
    <2>2. Owner[i] = Nobody
      BY <1>a, <2>1, UnheldUnowned DEF OnePlace
    <2>3. \A j \in Items \ {i}, e \in Players :
             j \in inv'[e] \cup win'[e] <=> j \in inv[e] \cup win[e]
      BY <2>1
    <2>4. \A j \in Items \ {i} : Owner'[j] = Owner[j]
      BY <2>3 DEF Owner
    <2>5. Owner'[i] = p
      BY <1>a, <2>1, HolderOwnsNext
    <2>6. Owner' = [Owner EXCEPT ![i] = p]
      <3>1. Owner = [j \in Items |-> Owner[j]] /\ Owner' = [j \in Items |-> Owner'[j]]
        BY DEF Owner
      <3> QED BY <2>4, <2>5, <3>1
    <2>7. B!Find(p, i)
      BY <2>1, <2>2, <2>6 DEF B!Find
    <2> QED BY <2>7 DEF B!Next
  <1>13. ASSUME NEW p \in Players, NEW i \in Items, Drop(p, i) PROVE B!Next
    <2>1. /\ inv'[p] = inv[p] \ {i} /\ i \in inv[p]
          /\ \A e \in Players \ {p} : inv'[e] = inv[e]
          /\ win' = win /\ locked' = locked
      BY <1>13, <1>a DEF Drop, TypeOK, window
    <2>2. Owner[i] = p /\ i \notin win[p]
      BY <1>a, <2>1, HolderOwns DEF OnePlace
    <2>3. \A j \in Items \ {i}, e \in Players :
             j \in inv'[e] \cup win'[e] <=> j \in inv[e] \cup win[e]
      BY <2>1
    <2>4. \A j \in Items \ {i} : Owner'[j] = Owner[j]
      BY <2>3 DEF Owner
    <2>5. Owner'[i] = Nobody
      <3>1. \A e \in Players : i \notin inv'[e] \cup win'[e]
        BY <1>a, <2>1 DEF OnePlace
      <3> QED BY <3>1, UnheldUnownedNext
    <2>6. Owner' = [Owner EXCEPT ![i] = Nobody]
      <3>1. Owner = [j \in Items |-> Owner[j]] /\ Owner' = [j \in Items |-> Owner'[j]]
        BY DEF Owner
      <3> QED BY <2>4, <2>5, <3>1
    <2>7. B!Discard(p, i)
      BY <2>1, <2>2, <2>6 DEF B!Discard
    <2> QED BY <2>7 DEF B!Next
  <1>14. ASSUME NEW p \in Players, NEW m \in 1..MaxMeso, Earn(p, m)
         PROVE  UNCHANGED B!vars
    BY <1>14, <1>b DEF Earn, window
  <1> QED BY <1>0, <1>1, <1>2, <1>3, <1>4, <1>5, <1>6, <1>7, <1>8, <1>9, <1>10,
             <1>11, <1>12, <1>13, <1>14, <1>15 DEF Next, TradeStep, WorldStep

\* Trade implements Barter: items change hands only together, by the
\* completion of a trade whose other side was locked first.
THEOREM Implements == Spec => ImplementsBarter
  <1>1. IInv /\ [Next]_vars => IInv'
    BY TypeStep, PairedStep, LockedStep, NoDuplicateStep DEF IInv
  <1> QED BY <1>1, Inductive, InitBarter, StepBarter, PTL
          DEF Spec, ImplementsBarter, B!Spec

-----------------------------------------------------------------------------
(* What comes into being. *)

\* A cancelled trade and a completed one make no object.
LEMMA CancelMakesNothing ==
    ASSUME TypeOK, NEW p \in Players, NEW check, CancelTrade(p, check)
    PROVE  Everything' \subseteq Everything
  <1>1. \A e \in Players : inv'[e] \cup win'[e] \subseteq inv[e] \cup win[e]
    BY CancelHoldings DEF CancelTrade, Discard
  <1>2. ground' = ground
    BY DEF CancelTrade
  <1> QED BY <1>1, <1>2 DEF Everything

LEMMA CompleteMakesNothing ==
    ASSUME IInv, NEW p \in Players, Complete(p)
    PROVE  Everything' \subseteq Everything
  <1> DEFINE q == partner[p]
  <1>1. /\ q \in Players /\ q # p /\ Discard({p, q})
    BY CompleteTakes
  <1>2. PICK gotp \in Taken(inv[p], win[q]), gotq \in Taken(inv[q], win[p]) :
          inv' = [inv EXCEPT ![p] = @ \cup gotp, ![q] = @ \cup gotq]
    BY CompleteTakes
  <1>3. gotp \subseteq win[q] /\ gotq \subseteq win[p]
    BY <1>2, TakenSubset
  <1>4. \A e \in Players : inv'[e] \subseteq inv[e] \cup win[p] \cup win[q]
    BY <1>1, <1>2, <1>3 DEF IInv, TypeOK
  <1>5. \A e \in Players : win'[e] \subseteq win[e]
    BY <1>1 DEF Discard
  <1>6. ground' = ground
    BY DEF Complete
  <1> QED BY <1>1, <1>4, <1>5, <1>6 DEF Everything

\* The only step that makes an object puts it in an unlocked window.
LEMMA MadeStep ==
    ASSUME IInv, Next, NEW i \in Everything' \ Everything
    PROVE  \E p \in Players : i \in win'[p] /\ ~locked[p] /\ UNCHANGED <<inv, ground>>
  <1>a. TypeOK
    BY DEF IInv
  <1>b. ~(Everything' \subseteq Everything)
    OBVIOUS
  <1>1. PICK p \in Players : TradeStep(p) \/ WorldStep(p)
    BY DEF Next
  <1>2. CASE \/ StartTrade(p) \/ VisitTrade(p) \/ Confirm(p)
             \/ \E q \in Players : InviteTrade(p, q)
             \/ \E m \in 1..MaxMeso : SetMeso(p, m)
             \/ \E m \in Maps : EnterMap(p, m)
             \/ \E m \in 1..MaxMeso : Earn(p, m)
    <2>1. inv' = inv /\ win' = win /\ ground' = ground
      BY <1>2 DEF StartTrade, VisitTrade, Confirm, InviteTrade, SetMeso, EnterMap,
                  Earn, holdings, window
    <2> QED BY <1>b, <2>1 DEF Everything
  <1>3. ASSUME NEW j \in Items, SetItems(p, j) PROVE FALSE
    <2>1. /\ inv'[p] = inv[p] \ {j} /\ win'[p] = win[p] \cup {j} /\ j \in inv[p]
          /\ \A e \in Players \ {p} : inv'[e] = inv[e] /\ win'[e] = win[e]
          /\ ground' = ground
      BY <1>3, <1>a DEF SetItems, TypeOK
    <2>2. \A e \in Players : inv'[e] \cup win'[e] = inv[e] \cup win[e]
      BY <2>1
    <2> QED BY <1>b, <2>1, <2>2 DEF Everything
  <1>4. ASSUME NEW j \in Items, OfferWorn(p, j)
        PROVE  i \in win'[p] /\ ~locked[p] /\ UNCHANGED <<inv, ground>>
    <2>1. /\ inv' = inv /\ ground' = ground /\ ~locked[p] /\ win'[p] = win[p] \cup {j}
          /\ \A e \in Players \ {p} : win'[e] = win[e]
      BY <1>4, <1>a DEF OfferWorn, Offerable, TypeOK, holdings
    <2>2. i \in win'[p]
      BY <2>1 DEF Everything
    <2> QED BY <2>1, <2>2
  <1>5. CASE Complete(p)
    BY <1>5, <1>b, CompleteMakesNothing
  <1>6. CASE Bounce(p) \/ Exit(p)
    BY <1>6, <1>a, <1>b, CancelMakesNothing DEF Bounce, Exit
  <1>7. CASE LeaveMap(p)
    <2>1. CASE open[p]
      BY <1>7, <1>a, <1>b, <2>1, CancelMakesNothing DEF LeaveMap
    <2>2. CASE ~open[p]
      BY <1>7, <1>b, <2>2 DEF LeaveMap, Everything, holdings, window
    <2> QED BY <2>1, <2>2
  <1>8. ASSUME NEW j \in Items, PickUp(p, j) \/ Drop(p, j) PROVE FALSE
    <2>1. /\ \A e \in Players : inv'[e] \subseteq inv[e] \cup {j}
          /\ win' = win /\ ground' \subseteq ground \cup {j}
      BY <1>8, <1>a DEF PickUp, Drop, TypeOK, window
    <2>2. j \in Everything
      BY <1>8 DEF PickUp, Drop, Everything
    <2> QED BY <1>b, <2>1, <2>2 DEF Everything
  <1> QED BY <1>1, <1>2, <1>3, <1>4, <1>5, <1>6, <1>7, <1>8 DEF TradeStep, WorldStep

\* However trades are opened, filled, completed, bounced and broken off, no step
\* puts an object in two places, and none makes one, but for the copy of worn
\* equipment that is put in an unlocked window.
THEOREM NoDuplication == Spec => NoItemDuplicated
  <1>1. IInv /\ IInv' /\ [Next]_vars =>
          [/\ OnePlace'
           /\ \A i \in Everything' \ Everything :
                 \E p \in Players : /\ i \in win'[p] /\ ~locked[p]
                                    /\ UNCHANGED <<inv, ground>>]_vars
    BY MadeStep DEF IInv
  <1> QED BY <1>1, Inductive, PTL DEF Spec, NoItemDuplicated

-----------------------------------------------------------------------------
(* What a trade loses. *)

\* A window that is given back loses only what its owner cannot take.
LEMMA CancelLoss ==
    ASSUME TypeOK, Paired, NEW r \in Players, NEW check, CancelTrade(r, check),
           NEW p \in Players, NEW i \in win[p], i \notin Everything'
    PROVE  Refuses(inv'[p], i)
  <1>1. PICK got \in [Ends(r) -> SUBSET Items] :
          /\ \A e \in Ends(r) : got[e] \in Taken(inv[e], GivenBack(e, check).items)
          /\ inv' = [e \in Players |-> IF e \in Ends(r) THEN inv[e] \cup got[e]
                                                        ELSE inv[e]]
    BY DEF CancelTrade
  <1>2. i \notin inv'[p] /\ i \notin win'[p]
    BY DEF Everything
  <1>3. p \in Ends(r)
    <2>1. win' = [e \in Players |-> IF e \in Ends(r) THEN {} ELSE win[e]]
      BY DEF CancelTrade, Discard
    <2> QED BY <1>2, <2>1
  <1>4. GivenBack(p, check).items = win[p]
    BY DEF GivenBack, Paired
  <1>5. i \in win[p] \ got[p] /\ inv'[p] = inv[p] \cup got[p]
    BY <1>1, <1>2, <1>3
  <1>6. Refuses(inv[p] \cup got[p], i)
    BY <1>1, <1>3, <1>4, <1>5 DEF Taken
  <1> QED BY <1>5, <1>6

\* A completed trade loses only what the side it is due to cannot take.
LEMMA CompleteLoss ==
    ASSUME IInv, NEW r \in Players, Complete(r),
           NEW p \in Players, NEW i \in win[p], i \notin Everything'
    PROVE  Refuses(inv'[partner[p]], i)
  <1> DEFINE q == partner[r]
  <1>1. /\ q \in Players /\ q # r /\ Discard({r, q})
        /\ partner[q] = r
    BY CompleteTakes, NobodyAssumption DEF IInv, TypeOK, Paired
  <1>2. PICK gotr \in Taken(inv[r], win[q]), gotq \in Taken(inv[q], win[r]) :
          inv' = [inv EXCEPT ![r] = @ \cup gotr, ![q] = @ \cup gotq]
    BY CompleteTakes
  <1>3. inv'[r] = inv[r] \cup gotr /\ inv'[q] = inv[q] \cup gotq
    BY <1>1, <1>2 DEF IInv, TypeOK
  <1>4. \A e \in Players : i \notin inv'[e] /\ i \notin win'[e]
    BY DEF Everything
  <1>5. p \in {r, q}
    <2>1. win' = [e \in Players |-> IF e \in {r, q} THEN {} ELSE win[e]]
      BY <1>1 DEF Discard
    <2> QED BY <1>4, <2>1
  <1>6. CASE p = r
    <2>1. i \in win[r] \ gotq
      BY <1>1, <1>3, <1>4, <1>6
    <2>2. Refuses(inv[q] \cup gotq, i)
      BY <2>1 DEF Taken
    <2> QED BY <1>1, <1>3, <1>6, <2>2
  <1>7. CASE p = q
    <2>1. i \in win[q] \ gotr
      BY <1>1, <1>3, <1>4, <1>7
    <2>2. Refuses(inv[r] \cup gotr, i)
      BY <2>1 DEF Taken
    <2> QED BY <1>1, <1>3, <1>7, <2>2
  <1> QED BY <1>5, <1>6, <1>7

\* While no window shrinks, nothing in one is lost.
LEMMA NoLoss ==
    ASSUME NEW p \in Players, win[p] \subseteq win'[p], NEW i \in win[p]
    PROVE  i \in Everything'
  BY DEF Everything

LEMMA LossStep ==
    ASSUME IInv, Next
    PROVE  \A p \in Players : \A i \in win[p] \ Everything' :
              Refuses(inv'[Due(p)], i)
  <1> SUFFICES ASSUME NEW p \in Players, NEW i \in win[p], i \notin Everything'
               PROVE  Refuses(inv'[Due(p)], i)
    OBVIOUS
  <1>a. TypeOK /\ Paired
    BY DEF IInv
  <1>b. ~(win[p] \subseteq win'[p])
    BY NoLoss
  <1>c. PICK r \in Players : TradeStep(r) \/ WorldStep(r)
    BY DEF Next
  <1>1. ~StartTrade(r) /\ ~VisitTrade(r) /\ \A q \in Players : ~InviteTrade(r, q)
    BY <1>b DEF StartTrade, VisitTrade, InviteTrade
  <1>2. ASSUME NEW j \in Items, SetItems(r, j) \/ OfferWorn(r, j) PROVE FALSE
    BY <1>a, <1>b, <1>2 DEF SetItems, OfferWorn, TypeOK
  <1>3. /\ \A m \in 1..MaxMeso : ~SetMeso(r, m)
        /\ ~Confirm(r)
        /\ \A m \in Maps : ~EnterMap(r, m)
    BY <1>b DEF SetMeso, Confirm, EnterMap, window
  <1>4. ~WorldStep(r)
    BY <1>b DEF WorldStep, PickUp, Drop, Earn, window
  <1>d. CASE \E e \in Ends(p) : Complete(e)
    <2>1. PICK e \in Ends(p) : Complete(e)
      BY <1>d
    <2>2. Refuses(inv'[partner[p]], i)
      BY <1>a, <2>1, EndsPlayers, CompleteLoss
    <2> QED BY <1>d, <2>2 DEF Due
  <1>e. CASE ~\E e \in Ends(p) : Complete(e)
    <2>1. Due(p) = p
      BY <1>e DEF Due
    <2>2. CASE Complete(r)
      <3>1. Discard(Ends(r)) /\ r \in Players /\ partner[r] \in Players
        BY <2>2, CompleteTakes
      <3>2. p \in Ends(r)
        BY <1>b, <3>1 DEF Discard
      <3>3. r \in Ends(p)
        BY <1>a, <3>1, <3>2, NobodyAssumption DEF Ends, Paired
      <3> QED BY <1>e, <2>2, <3>3
    <2>3. CASE Bounce(r)
      BY <1>a, <2>1, <2>3, CancelLoss DEF Bounce
    <2>4. CASE Exit(r)
      BY <1>a, <2>1, <2>4, CancelLoss DEF Exit
    <2>5. CASE LeaveMap(r)
      <3>1. open[r]
        BY <1>b, <2>5 DEF LeaveMap, window
      <3> QED BY <1>a, <2>1, <2>5, <3>1, CancelLoss DEF LeaveMap
    <2> QED BY <1>c, <1>1, <1>2, <1>3, <1>4, <2>2, <2>3, <2>4, <2>5 DEF TradeStep
  <1> QED BY <1>d, <1>e

\* However a trade ends, an item in a window is lost only when the player it
\* was due to could not take it.
THEOREM LossesRefused == Spec => LostOnlyIfRefused
  <1>1. IInv /\ [Next]_vars =>
          [\A p \in Players : \A i \in win[p] \ Everything' :
              Refuses(inv'[Due(p)], i)]_vars
    BY LossStep
  <1> QED BY <1>1, Inductive, PTL DEF Spec, LostOnlyIfRefused
-----------------------------------------------------------------------------
(* What becomes of the mesos. *)

LEMMA MesosAreInts ==
    ASSUME TypeOK
    PROVE  \A e \in Players : /\ Mesos[e] = meso[e] + winMeso[e]
                              /\ Mesos[e] \in Int
  BY BoundAssumption DEF TypeOK, Mesos

LEMMA MesosAreIntsNext ==
    ASSUME TypeOK'
    PROVE  \A e \in Players : /\ Mesos'[e] = meso'[e] + winMeso'[e]
                              /\ Mesos'[e] \in Int
  BY BoundAssumption DEF TypeOK, Mesos

LEMMA TotalIs ==
    /\ TotalMeso = SumFunctionOnSet(Mesos, Players)
    /\ TotalMeso' = SumFunctionOnSet(Mesos', Players)
  BY DEF TotalMeso, SumFunction, Mesos

LEMMA SameMesosSameTotal ==
    ASSUME TypeOK, TypeOK', Mesos' = Mesos
    PROVE  /\ TotalMeso' <= TotalMeso
           /\ ~(TotalMeso' < TotalMeso)
  <1>1. SumFunctionOnSet(Mesos, Players) \in Int
    BY MesosAreInts, PlayersAssumption, SumType
  <1> QED BY <1>1, TotalIs

\* A cancelled window gives its mesos back, unless the purse would overflow.
LEMMA CancelMesos ==
    ASSUME IInv, IInv', NEW p \in Players, NEW check, CancelTrade(p, check)
    PROVE  /\ TotalMeso' <= TotalMeso
           /\ TotalMeso' < TotalMeso =>
                 \E e \in Players : winMeso[e] > 0 /\ meso[e] + winMeso[e] > MaxMeso
  <1>1. /\ \A e \in Players : Mesos[e] = meso[e] + winMeso[e] /\ Mesos[e] \in Int
        /\ \A e \in Players : Mesos'[e] = meso'[e] + winMeso'[e] /\ Mesos'[e] \in Int
    BY MesosAreInts, MesosAreIntsNext DEF IInv
  <1>2. \A e \in Players : GivenBack(e, check).meso = winMeso[e]
    BY DEF IInv, Paired, GivenBack
  <1>3. ASSUME NEW e \in Players
        PROVE  /\ Mesos'[e] <= Mesos[e]
               /\ Mesos'[e] # Mesos[e] =>
                     winMeso[e] > 0 /\ meso[e] + winMeso[e] > MaxMeso
    <2>1. meso[e] \in 0..MaxMeso /\ winMeso[e] \in 0..MaxMeso
      BY DEF IInv, TypeOK
    <2>2. CASE e \in Ends(p)
      <3>1. meso'[e] = Gained(meso[e], winMeso[e]) /\ winMeso'[e] = 0
        BY <1>2, <2>2 DEF CancelTrade, Discard
      <3> QED BY <1>1, <2>1, <3>1, BoundAssumption DEF Gained
    <2>3. CASE e \notin Ends(p)
      <3>1. meso'[e] = meso[e] /\ winMeso'[e] = winMeso[e]
        BY <2>3 DEF CancelTrade, Discard
      <3> QED BY <1>1, <2>1, <3>1
    <2> QED BY <2>2, <2>3
  <1>4. TotalMeso' <= TotalMeso
    BY <1>1, <1>3, TotalIs, PlayersAssumption, SumMonotone
  <1>5. ASSUME TotalMeso' < TotalMeso
        PROVE  \E e \in Players : Mesos'[e] # Mesos[e]
    <2> SUFFICES ASSUME \A e \in Players : Mesos'[e] = Mesos[e]
                 PROVE  FALSE
      OBVIOUS
    <2>1. SumFunctionOnSet(Mesos', Players) = SumFunctionOnSet(Mesos, Players)
      BY <1>1, PlayersAssumption, SumSame
    <2>2. SumFunctionOnSet(Mesos, Players) \in Int
      BY <1>1, PlayersAssumption, SumType
    <2> QED BY <1>5, <2>1, <2>2, TotalIs
  <1> QED BY <1>3, <1>4, <1>5

\* A completed trade moves each window's mesos to the other end, less the tax.
LEMMA CompleteMesos ==
    ASSUME IInv, IInv', NEW p \in Players, Complete(p)
    PROVE  /\ TotalMeso' <= TotalMeso
           /\ open[p] /\ ~open'[p] /\ partner[p] # Nobody
           /\ TotalMeso - TotalMeso' = Tax(winMeso[p]) + Tax(winMeso[partner[p]])
  <1> DEFINE q == partner[p]
             due == HandedMeso(p)
  <1>1. q \in Players /\ q # p /\ partner[q] = p /\ locked[q]
    BY NobodyAssumption DEF IInv, TypeOK, Paired, Complete
  <1>2. due[p] = winMeso[q] /\ due[q] = winMeso[p]
    <2>1. exchMeso[p] = winMeso[q]
      BY <1>1 DEF IInv, LockedOfferStands
    <2> QED BY <1>1, <2>1 DEF IInv, TypeOK, HandedMeso
  <1>3. /\ meso[p] + due[p] <= MaxMeso
        /\ meso[q] + due[q] <= MaxMeso
    BY <1>1 DEF Complete, BothFit, Fits
  <1>4. /\ meso'[p] = Gained(meso[p], due[p] - Tax(due[p]))
        /\ meso'[q] = Gained(meso[q], due[q] - Tax(due[q]))
        /\ \A e \in Players \ {p, q} : meso'[e] = meso[e]
    BY <1>1 DEF Complete
  <1>5. /\ winMeso'[p] = 0 /\ winMeso'[q] = 0
        /\ \A e \in Players \ {p, q} : winMeso'[e] = winMeso[e]
    BY <1>1 DEF Complete, Discard
  <1>6. open[p] /\ ~open'[p] /\ partner[p] # Nobody
    BY DEF Complete, Discard
  <1> HIDE DEF due, q
  <1>7. /\ meso[p] \in 0..MaxMeso /\ winMeso[p] \in 0..MaxMeso
        /\ meso[q] \in 0..MaxMeso /\ winMeso[q] \in 0..MaxMeso
    BY <1>1 DEF IInv, TypeOK
  <1>8. Tax(winMeso[p]) \in 0..winMeso[p] /\ Tax(winMeso[q]) \in 0..winMeso[q]
    BY <1>7, TaxAssumption
  <1>9. /\ \A e \in Players : Mesos[e] = meso[e] + winMeso[e] /\ Mesos[e] \in Int
        /\ \A e \in Players : Mesos'[e] = meso'[e] + winMeso'[e] /\ Mesos'[e] \in Int
    BY MesosAreInts, MesosAreIntsNext DEF IInv
  <1>10. /\ Mesos'[p] = meso[p] + winMeso[q] - Tax(winMeso[q])
         /\ Mesos'[q] = meso[q] + winMeso[p] - Tax(winMeso[p])
    <2>1. /\ meso'[p] = meso[p] + winMeso[q] - Tax(winMeso[q])
          /\ meso'[q] = meso[q] + winMeso[p] - Tax(winMeso[p])
      BY <1>2, <1>3, <1>4, <1>7, <1>8, BoundAssumption DEF Gained
    <2> QED BY <1>1, <1>5, <1>7, <1>8, <1>9, <2>1
  <1>11. SumFunctionOnSet(Mesos', Players) =
            SumFunctionOnSet(Mesos, Players) - Mesos[p] + Mesos'[p] - Mesos[q] + Mesos'[q]
    <2>1. \A e \in Players \ {p, q} : Mesos'[e] = Mesos[e]
      BY <1>4, <1>5, <1>9
    <2> QED BY <1>1, <1>9, <2>1, PlayersAssumption, SumExchange
  <1>12. SumFunctionOnSet(Mesos, Players) \in Int
    BY <1>9, PlayersAssumption, SumType
  <1>13. TotalMeso - TotalMeso' = Tax(winMeso[p]) + Tax(winMeso[q])
    <2>1. Mesos[p] = meso[p] + winMeso[p] /\ Mesos[q] = meso[q] + winMeso[q]
      BY <1>1, <1>9
    <2> QED BY <1>7, <1>8, <1>10, <1>11, <1>12, <2>1, TotalIs
  <1>14. TotalMeso' <= TotalMeso
    <2>1. TotalMeso \in Int /\ TotalMeso' \in Int
      <3>1. SumFunctionOnSet(Mesos', Players) \in Int
        BY <1>9, PlayersAssumption, SumType
      <3> QED BY <1>12, <3>1, TotalIs
    <2> QED BY <1>8, <1>13, <2>1, <1>7
  <1> QED BY <1>6, <1>13, <1>14 DEF q

\* What a step of a trade may do to the sum of all purses and windows.
LEMMA MesoStep ==
    ASSUME IInv, IInv', [Next]_vars, window' # window
    PROVE  /\ TotalMeso' <= TotalMeso
           /\ TotalMeso' < TotalMeso =>
                 \E p \in Players :
                    \/ winMeso[p] > 0 /\ meso[p] + winMeso[p] > MaxMeso
                    \/ /\ open[p] /\ ~open'[p] /\ partner[p] # Nobody
                       /\ TotalMeso - TotalMeso' =
                             Tax(winMeso[p]) + Tax(winMeso[partner[p]])
  <1> DEFINE Goal == /\ TotalMeso' <= TotalMeso
                     /\ TotalMeso' < TotalMeso =>
                           \E p \in Players :
                              \/ winMeso[p] > 0 /\ meso[p] + winMeso[p] > MaxMeso
                              \/ /\ open[p] /\ ~open'[p] /\ partner[p] # Nobody
                                 /\ TotalMeso - TotalMeso' =
                                       Tax(winMeso[p]) + Tax(winMeso[partner[p]])
  <1>a. TypeOK /\ TypeOK'
    BY DEF IInv
  <1>b. Mesos' = Mesos => Goal
    BY <1>a, SameMesosSameTotal
  <1>c. ASSUME NEW p \in Players, NEW check, CancelTrade(p, check)
        PROVE  Goal
    <2>1. /\ TotalMeso' <= TotalMeso
          /\ TotalMeso' < TotalMeso =>
                \E e \in Players : winMeso[e] > 0 /\ meso[e] + winMeso[e] > MaxMeso
      BY <1>c, CancelMesos
    <2> QED BY <2>1
  <1>d. ASSUME NEW p \in Players, Complete(p)
        PROVE  Goal
    <2>1. /\ TotalMeso' <= TotalMeso
          /\ open[p] /\ ~open'[p] /\ partner[p] # Nobody
          /\ TotalMeso - TotalMeso' = Tax(winMeso[p]) + Tax(winMeso[partner[p]])
      BY <1>d, CompleteMesos
    <2> QED BY <2>1
  <1>e. ASSUME meso' = meso, winMeso' = winMeso
        PROVE  Goal
    BY <1>b, <1>e DEF Mesos
  <1> SUFFICES Goal
    OBVIOUS
  <1> HIDE DEF Goal
  <1>1. PICK p \in Players : TradeStep(p) \/ WorldStep(p)
    BY DEF Next, vars, window
  <1>2. CASE StartTrade(p) \/ VisitTrade(p) \/ \E q \in Players : InviteTrade(p, q)
    BY <1>2, <1>e DEF StartTrade, VisitTrade, InviteTrade, holdings
  <1>3. CASE Confirm(p) \/ \E i \in Items : SetItems(p, i) \/ OfferWorn(p, i)
    BY <1>3, <1>e DEF Confirm, SetItems, OfferWorn, holdings
  <1>4. ASSUME NEW m \in 1..MaxMeso, SetMeso(p, m) PROVE Goal
    <2>1. \A e \in Players : Mesos'[e] = Mesos[e]
      <3>1. /\ meso'[p] = meso[p] - m /\ winMeso'[p] = winMeso[p] + m
            /\ \A e \in Players \ {p} : meso'[e] = meso[e] /\ winMeso'[e] = winMeso[e]
        BY <1>4, <1>a DEF SetMeso, TypeOK
      <3>2. meso[p] \in Int /\ winMeso[p] \in Int /\ m \in Int
        BY <1>a, BoundAssumption DEF TypeOK
      <3>3. Mesos'[p] = Mesos[p]
        BY <1>a, <3>1, <3>2, MesosAreInts, MesosAreIntsNext
      <3> QED BY <1>a, <3>1, <3>3, MesosAreInts, MesosAreIntsNext
    <2>2. Mesos' = Mesos
      BY <2>1 DEF Mesos
    <2> QED BY <2>2, <1>b
  <1>5. CASE Complete(p)
    BY <1>5, <1>d
  <1>6. CASE Bounce(p) \/ Exit(p)
    BY <1>6, <1>c DEF Bounce, Exit
  <1>7. CASE LeaveMap(p)
    BY <1>7, <1>c DEF LeaveMap
  <1>8. CASE \/ \E m \in Maps : EnterMap(p, m)
             \/ \E i \in Items : PickUp(p, i) \/ Drop(p, i)
             \/ \E m \in 1..MaxMeso : Earn(p, m)
    BY <1>8 DEF EnterMap, PickUp, Drop, Earn
  <1> QED BY <1>1, <1>2, <1>3, <1>4, <1>5, <1>6, <1>7, <1>8 DEF TradeStep, WorldStep

\* No step of a trade creates mesos; it destroys some only as the tax of a
\* completed trade, or as what a full purse refuses of its own cancelled window.
THEOREM MesosAccountedFor == Spec => MesoAccounted
  <1>1. IInv /\ IInv' /\ [Next]_vars =>
          [window' # window =>
              /\ TotalMeso' <= TotalMeso
              /\ TotalMeso' < TotalMeso =>
                    \E p \in Players :
                        \/ winMeso[p] > 0 /\ meso[p] + winMeso[p] > MaxMeso
                        \/ /\ open[p] /\ ~open'[p] /\ partner[p] # Nobody
                           /\ LET q == partner[p] IN
                              TotalMeso - TotalMeso' =
                                 Tax(winMeso[p]) + Tax(winMeso[q])]_vars
    BY MesoStep
  <1> QED BY <1>1, Inductive, PTL DEF Spec, MesoAccounted
=============================================================================
