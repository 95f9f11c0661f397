------------------------------ MODULE Merchant ------------------------------
(***************************************************************************)
(* Shops of one account: hired merchants, which go on selling while their  *)
(* owner is away (server/shops/HiredMerchant.java), and personal shops,    *)
(* which he tends (MaplePlayerShop.java), driven by the shop cases of      *)
(* PlayerInteractionHandler, by HiredMerchantHandler, OwlWarp,             *)
(* removalTask, the ten day timer and the two stages of ShutdownServer.    *)
(*                                                                         *)
(* A hired merchant keeps its goods in memory.  A sale and a closing write *)
(* them to the package of the account (table hiredmerch), replacing        *)
(* whatever that held.  While the merchant is listed by its channel the    *)
(* package is only a copy; afterwards it is what the owner collects.       *)
(*                                                                         *)
(* Each action is one whole handler, but entering a shop is cut where its  *)
(* tests end: until the player is in, others may close or maintain it.     *)
(***************************************************************************)
EXTENDS Integers, FiniteSets, Functions

CONSTANTS
    Players,      \* characters, one per account
    Owner,        \* the one whose shops these are
    Lots,         \* kinds of goods
    Restricted,   \* the lots of one pickup-restricted kind
    Bundles,      \* Bundles[l]: how many bundles of l there are
    Price,        \* Price[l]: what the owner asks for a bundle
    Shops,        \* shop objects, created one after the other
    None,         \* null
    Slots,        \* MapleInventory.slotLimit
    Seats,        \* visitors a shop takes: 3
    IntMax,       \* the largest int
    Tax(_)        \* GameConstants.EntrustedStoreTax

\* What a row of hiredmerch and its items can be
Packages == [goods : [Lots -> Nat], meso : 0..IntMax, by : Shops]

ASSUME OwnerAssumption == Owner \in Players
ASSUME NoneAssumption == None \notin Shops /\ None \notin Packages
ASSUME FiniteAssumption == IsFiniteSet(Players) /\ IsFiniteSet(Shops)
ASSUME LotAssumption ==
    /\ Restricted \subseteq Lots
    /\ IsFiniteSet(Lots)
    /\ Bundles \in [Lots -> Nat]
    /\ Price \in [Lots -> Nat \ {0}]
    /\ \A l \in Restricted : Bundles[l] = 1
ASSUME BoundAssumption == Slots \in Nat /\ Seats \in Nat /\ IntMax \in Nat
ASSUME TaxAssumption == \A m \in 0..IntMax : Tax(m) \in 0..m

VARIABLES
    inv,       \* inv[p][l]: bundles of l in p's inventory
    ground,    \* ground[l]: bundles of l on the ground
    purse,     \* purse[p]: MapleCharacter.meso
    online,    \* the players who are connected
    window,    \* window[p]: MapleCharacter.playerShop
    entering,  \* entering[p]: the shop that p was let into and is not in yet, or None
    late,      \* the visitors whose shop was closed, or filled, as they came in
    kind,      \* kind[s]: "hired", "personal", or "none" before the constructor
    stock,     \* stock[s][l]: bundles left of the entry for l in AbstractPlayerStore.items
    shelf,     \* shelf[s]: the lots that have an entry in items
    soldOut,   \* soldOut[s]: MaplePlayerShop.boughtnumber
    till,      \* till[s]: AbstractPlayerStore.meso
    open,      \* the shops whose open is true
    available, \* the shops whose available is true
    visitors,  \* visitors[s]: the characters in chrs
    timer,     \* the merchants whose schedule is pending
    onMap,     \* the shops that are objects of their map
    listed,    \* ChannelServer.merchants
    package,   \* the row of hiredmerch and its items, or None
    server     \* "up", "shopsShut" (World.isShopShutDown) or "closing" (isShutdown)

goods == <<inv, ground>>
entries == <<stock, shelf, soldOut>>
walk == <<window, entering, late>>
doors == <<open, available, visitors>>
places == <<timer, onMap, listed>>
vars == <<inv, ground, purse, online, window, entering, late, kind, stock, shelf,
          soldOut, till, open, available, visitors, timer, onMap, listed, package,
          server>>

Empty == [l \in Lots |-> 0]

Init ==
    /\ \E home \in [Lots -> Players \cup {None}] :
          /\ inv = [p \in Players |-> [l \in Lots |-> IF home[l] = p THEN Bundles[l] ELSE 0]]
          /\ ground = [l \in Lots |-> IF home[l] = None THEN Bundles[l] ELSE 0]
          /\ \A p \in Players : Cardinality({l \in Lots : home[l] = p}) <= Slots
          /\ \A p \in Players : Cardinality({l \in Restricted : home[l] = p}) <= 1
    /\ purse \in [Players -> 0..IntMax]
    /\ online = Players
    /\ window = [p \in Players |-> None]
    /\ entering = [p \in Players |-> None]
    /\ late = {}
    /\ kind = [s \in Shops |-> "none"]
    /\ stock = [s \in Shops |-> Empty]
    /\ shelf = [s \in Shops |-> {}]
    /\ soldOut = [s \in Shops |-> 0]
    /\ till = [s \in Shops |-> 0]
    /\ open = {} /\ available = {}
    /\ visitors = [s \in Shops |-> {}]
    /\ timer = {} /\ onMap = {} /\ listed = {}
    /\ package = None
    /\ server = "up"

-----------------------------------------------------------------------------
(* Inventories and mesos *)

Carried(hold) == {l \in Lots : hold[l] > 0}

\* getNextFreeSlot() > -1
FreeSlot(hold) == Cardinality(Carried(hold)) < Slots

\* checkSpace, and whether addFromDrop accepts bundles of l
Fits(hold, l) ==
    /\ hold[l] > 0 \/ FreeSlot(hold)
    /\ l \in Restricted => Carried(hold) \cap Restricted = {}

Plus(hold, l, n) == [hold EXCEPT ![l] = @ + n]

\* hold with the lots of S taken over from a shop or a package
With(hold, from, S) == [l \in Lots |-> hold[l] + IF l \in S THEN from[l] ELSE 0]

\* What addFromDrop accepts of "from", called for its lots in some order.
Accepted(hold, from) ==
    {S \in SUBSET Carried(from) :
        /\ Cardinality(S \cap Restricted) <= IF Carried(hold) \cap Restricted = {} THEN 1 ELSE 0
        /\ Cardinality(Carried(With(hold, from, S))) <= Slots
        /\ \A l \in Carried(from) \ S : ~Fits(With(hold, from, S), l)}

\* A product of ints.
ToInt(n) == ((n + IntMax + 1) % (2 * (IntMax + 1))) - (IntMax + 1)

\* "chr.getMeso() + x < 0", of two amounts: the sum wraps round
TooMuch(a, b) == a + b > IntMax

-----------------------------------------------------------------------------
(* What the handlers share *)

\* saveItems: the package of the account becomes what s holds
Saved(s) == [goods |-> stock[s], meso |-> till[s], by |-> s]

\* World.hasMerchant
HasMerchant == listed # {}

\* A connected player whose next packet may enter a shop, or need that he is in none
Free(p) == p \in online /\ window[p] = None /\ entering[p] = None

\* setPlayerShop(null) for the players of P
Leave(P) ==
    /\ window' = [p \in Players |-> IF p \in P THEN None ELSE window[p]]
    /\ late' = late \ P

\* removeAllVisitors, while those of P leave too
ClearOut(s, P) ==
    /\ visitors' = [visitors EXCEPT ![s] = {}]
    /\ Leave(visitors[s] \cup P)

\* Mutant: closeShop forgets items.clear()
CloseHiredUncleared(s, remove) ==
    /\ package' = Saved(s)
    /\ timer' = timer \ {s}
    /\ listed' = IF remove THEN listed \ {s} ELSE listed
    /\ onMap' = onMap \ {s}
    /\ UNCHANGED <<goods, purse, kind, entries, till, available, server>>

\* HiredMerchant.closeShop(true, remove): save, clear, and off the map
CloseHired(s, remove) ==
    /\ package' = Saved(s)
    /\ stock' = [stock EXCEPT ![s] = Empty]
    /\ shelf' = [shelf EXCEPT ![s] = {}]
    /\ timer' = timer \ {s}
    /\ listed' = IF remove THEN listed \ {s} ELSE listed
    /\ onMap' = onMap \ {s}
    /\ UNCHANGED <<goods, purse, kind, soldOut, till, available, server>>

\* MaplePlayerShop.closeShop, called with "left" in the shop and inventories
\* "invs": the goods go back until the owner's inventory refuses one
ClosePersonal(s, left, invs) ==
    /\ \E back \in SUBSET Carried(left) :
          LET hold == With(invs[Owner], left, back)
              rest == Carried(left) \ back
          IN  /\ Cardinality(Carried(hold)) <= Slots
              /\ rest = {} \/ \E l \in rest : ~Fits(hold, l)
              /\ stock' = [stock EXCEPT ![s] = With(Empty, left, rest)]
              /\ inv' = [invs EXCEPT ![Owner] = hold]
    /\ ClearOut(s, {Owner})
    /\ onMap' = onMap \ {s}
    /\ UNCHANGED <<ground, kind, shelf, till, open, available, timer, listed,
                   package, server>>

-----------------------------------------------------------------------------
(* The owner sets up a shop *)

\* CREATE
Create(s, k) ==
    /\ server = "up" /\ Free(Owner)
    /\ kind[s] = "none"
    /\ k = "hired" => package = None /\ ~HasMerchant    \* UseHiredMerchant
    /\ kind' = [kind EXCEPT ![s] = k]
    /\ window' = [window EXCEPT ![Owner] = s]
    /\ timer' = IF k = "hired" THEN timer \cup {s} ELSE timer
    /\ onMap' = onMap \cup {s}
    /\ UNCHANGED <<goods, purse, online, entering, late, entries, till, doors, listed,
                   package, server>>

\* ADD_ITEM and PLAYER_SHOP_ADD_ITEM, for a lot without an entry
AddItem(s, l, n) ==
    /\ window[Owner] = s
    /\ l \notin shelf[s]
    /\ n \in 1..inv[Owner][l]
    /\ inv' = [inv EXCEPT ![Owner][l] = @ - n]
    /\ stock' = [stock EXCEPT ![s][l] = n]
    /\ shelf' = [shelf EXCEPT ![s] = @ \cup {l}]
    /\ UNCHANGED <<ground, purse, online, walk, kind, soldOut, till, doors, places,
                   package, server>>

\* REMOVE_ITEM and REMOVE_ITEM_PS
RemoveItem(s, l) ==
    /\ window[Owner] = s
    /\ stock[s][l] > 0
    /\ Fits(inv[Owner], l)
    /\ inv' = [inv EXCEPT ![Owner] = Plus(@, l, stock[s][l])]
    /\ stock' = [stock EXCEPT ![s][l] = 0]
    /\ shelf' = [shelf EXCEPT ![s] = @ \ {l}]
    /\ UNCHANGED <<ground, purse, online, walk, kind, soldOut, till, doors, places,
                   package, server>>

\* OPEN of a hired merchant
OpenHired(s) ==
    /\ window[Owner] = s /\ kind[s] = "hired" /\ s \notin available
    /\ server = "up"
    /\ package = None /\ ~HasMerchant                   \* UseHiredMerchant
    /\ listed' = listed \cup {s}
    /\ open' = open \cup {s}
    /\ available' = available \cup {s}
    /\ Leave({Owner})
    /\ UNCHANGED <<goods, purse, online, entering, kind, entries, till, visitors, timer,
                   onMap, package, server>>

\* OPEN of a personal shop
OpenPersonal(s) ==
    /\ window[Owner] = s /\ kind[s] = "personal" /\ s \notin available
    /\ server = "up"
    /\ open' = open \cup {s}
    /\ available' = available \cup {s}
    /\ UNCHANGED <<goods, purse, online, walk, kind, entries, till, visitors, places,
                   package, server>>

\* OPEN while shops are shut: the shop is closed, and stays the owner's window
OpenRefused(s) ==
    /\ window[Owner] = s /\ s \notin available
    /\ server # "up"
    /\ \/ /\ kind[s] = "hired"
          /\ CloseHired(s, FALSE)
          /\ UNCHANGED <<online, walk, open, visitors>>
       \/ /\ kind[s] = "personal"
          /\ ClosePersonal(s, stock[s], inv)
          /\ UNCHANGED <<purse, online, entering, soldOut>>

-----------------------------------------------------------------------------
(* The owner tends a shop *)

\* Mutant: the visitors stay when the owner comes
MaintainAmongVisitors(s) ==
    /\ server = "up" /\ Free(Owner)
    /\ kind[s] = "hired" /\ s \in onMap \cap open \cap available
    /\ open' = open \ {s}
    /\ entering' = [entering EXCEPT ![Owner] = s]
    /\ UNCHANGED <<goods, purse, online, window, late, kind, entries, till, available,
                   visitors, places, package, server>>

\* MAINTAIN and VISIT by the owner, until he is in
Maintain(s) ==
    /\ server = "up" /\ Free(Owner)
    /\ kind[s] = "hired" /\ s \in onMap \cap open \cap available
    /\ open' = open \ {s}
    /\ ClearOut(s, {})
    /\ entering' = [entering EXCEPT ![Owner] = s]
    /\ UNCHANGED <<goods, purse, online, kind, entries, till, available, places,
                   package, server>>

\* OwlWarp by the owner: any merchant on the map, open or not
OwlToOwn(s) ==
    /\ Free(Owner)
    /\ kind[s] = "hired" /\ s \in onMap
    /\ open' = open \ {s}
    /\ ClearOut(s, {})
    /\ entering' = [entering EXCEPT ![Owner] = s]
    /\ UNCHANGED <<goods, purse, online, kind, entries, till, available, places,
                   package, server>>

\* The three of them: setPlayerShop, whatever has become of the merchant
TakeOver(s) ==
    /\ entering[Owner] = s
    /\ entering' = [entering EXCEPT ![Owner] = None]
    /\ window' = [window EXCEPT ![Owner] = s]
    /\ UNCHANGED <<goods, purse, online, late, kind, entries, till, doors, places,
                   package, server>>

\* MAINTANCE_OFF
MaintenanceOff(s) ==
    /\ window[Owner] = s /\ kind[s] = "hired" /\ s \in available
    /\ open' = open \cup {s}
    /\ ClearOut(s, {})
    /\ UNCHANGED <<goods, purse, online, entering, kind, entries, till, available, places,
                   package, server>>

\* Mutant: the owner's purse is not looked at
OrganiseUnchecked(s) ==
    /\ window[Owner] = s
    /\ LET sold == {l \in shelf[s] : stock[s][l] = 0}
       IN  \E gone \in SUBSET sold :
              /\ 2 * Cardinality(gone) >= Cardinality(sold)
              /\ shelf' = [shelf EXCEPT ![s] = @ \ gone]
    /\ purse' = [purse EXCEPT ![Owner] = @ + till[s]]
    /\ till' = [till EXCEPT ![s] = 0]
    /\ UNCHANGED <<goods, online, walk, kind, stock, soldOut, doors, places,
                   package, server>>

\* MAINTANCE_ORGANISE: the loop removes a sold out entry and skips the next one
Organise(s) ==
    /\ window[Owner] = s
    /\ ~TooMuch(purse[Owner], till[s])
    /\ LET sold == {l \in shelf[s] : stock[s][l] = 0}
       IN  \E gone \in SUBSET sold :
              /\ 2 * Cardinality(gone) >= Cardinality(sold)
              /\ shelf' = [shelf EXCEPT ![s] = @ \ gone]
    /\ purse' = [purse EXCEPT ![Owner] = @ + till[s]]
    /\ till' = [till EXCEPT ![s] = 0]
    /\ UNCHANGED <<goods, online, walk, kind, stock, soldOut, doors, places,
                   package, server>>

\* CLOSE_MERCHANT
CloseMerchant(s) ==
    /\ window[Owner] = s /\ kind[s] = "hired" /\ s \in available
    /\ CloseHired(s, TRUE)
    /\ ClearOut(s, {Owner})
    /\ UNCHANGED <<online, entering, open>>

\* EXIT by the owner: of a personal shop, or of a hired merchant he attends
OwnerExit(s) ==
    /\ window[Owner] = s
    /\ \/ /\ kind[s] = "personal"
          /\ ClosePersonal(s, stock[s], inv)
          /\ UNCHANGED <<purse, online, entering, soldOut>>
       \/ /\ kind[s] = "hired"
          /\ Leave({Owner})
          /\ UNCHANGED <<goods, purse, online, entering, kind, entries, till, doors, places,
                         package, server>>

\* KICK_Player, sent by anybody in the shop
Kick(s) ==
    /\ \E p \in Players : window[p] = s
    /\ visitors[s] # {}
    /\ ClearOut(s, {})
    /\ UNCHANGED <<goods, purse, online, entering, kind, entries, till, open, available,
                   places, package, server>>

-----------------------------------------------------------------------------
(* Visitors *)

\* VISIT, MAINTAIN and OwlWarp by somebody else: the tests
Visit(p, s) ==
    /\ p # Owner /\ Free(p)
    /\ server = "up" \/ kind[s] = "hired"               \* OwlWarp looks at no flag
    /\ s \in onMap \cap open \cap available
    /\ Cardinality(visitors[s]) < Seats
    /\ entering' = [entering EXCEPT ![p] = s]
    /\ UNCHANGED <<goods, purse, online, window, late, kind, entries, till, doors, places,
                   package, server>>

\* ... and setPlayerShop and addVisitor, which finds a seat or does nothing
Sit(p, s) ==
    LET seated == Cardinality(visitors[s]) < Seats
    IN  /\ p # Owner /\ entering[p] = s
        /\ entering' = [entering EXCEPT ![p] = None]
        /\ window' = [window EXCEPT ![p] = s]
        /\ visitors' = IF seated THEN [visitors EXCEPT ![s] = @ \cup {p}] ELSE visitors
        /\ late' = IF seated /\ s \in onMap \cap open \cap available
                   THEN late ELSE late \cup {p}
        /\ UNCHANGED <<goods, purse, online, kind, entries, till, open, available, places,
                       package, server>>

\* Mutant: removeVisitor is not called
VisitorExitSeated(p, s) ==
    /\ p # Owner /\ window[p] = s
    /\ Leave({p})
    /\ UNCHANGED <<goods, purse, online, entering, kind, entries, till, doors, places,
                   package, server>>

\* EXIT by a visitor
VisitorExit(p, s) ==
    /\ p # Owner /\ window[p] = s
    /\ visitors' = [visitors EXCEPT ![s] = @ \ {p}]
    /\ Leave({p})
    /\ UNCHANGED <<goods, purse, online, entering, kind, entries, till, open, available,
                   places, package, server>>

\* The checks of BUY_ITEM_*: the price is an int product
MayBuy(p, s, l, n, cost) ==
    /\ p # Owner /\ window[p] = s
    /\ n \in 1..stock[s][l]
    /\ cost > 0
    /\ purse[p] >= cost
    /\ till[s] + cost <= IntMax

\* HiredMerchant.buy
BuyHired(p, s, l, n) ==
    LET cost == ToInt(Price[l] * n)
    IN  /\ MayBuy(p, s, l, n, cost)
        /\ kind[s] = "hired"
        /\ FreeSlot(inv[p]) /\ Fits(inv[p], l)          \* canHold, checkSpace
        /\ till[s] + cost - Tax(cost) > 0
        /\ inv' = [inv EXCEPT ![p] = Plus(@, l, n)]
        /\ stock' = [stock EXCEPT ![s][l] = @ - n]
        /\ till' = [till EXCEPT ![s] = @ + cost - Tax(cost)]
        /\ purse' = [purse EXCEPT ![p] = @ - cost]
        /\ package' = [goods |-> stock'[s], meso |-> till'[s], by |-> s]
        /\ UNCHANGED <<ground, online, walk, kind, shelf, soldOut, doors, places, server>>

\* MaplePlayerShop.buy: the shop closes when as many entries sold out as it has
BuyPersonal(p, s, l, n) ==
    LET cost == ToInt(Price[l] * n)
        left == [stock[s] EXCEPT ![l] = @ - n]
        sold == soldOut[s] + IF left[l] = 0 THEN 1 ELSE 0
    IN  /\ MayBuy(p, s, l, n, cost)
        /\ kind[s] = "personal"
        /\ ~TooMuch(purse[Owner], cost)
        /\ Fits(inv[p], l)
        /\ purse' = [purse EXCEPT ![p] = @ - cost, ![Owner] = @ + cost]
        /\ soldOut' = [soldOut EXCEPT ![s] = sold]
        /\ LET bought == [inv EXCEPT ![p] = Plus(@, l, n)]
           IN  IF left[l] = 0 /\ sold = Cardinality(shelf[s])
               THEN ClosePersonal(s, left, bought)
               ELSE /\ inv' = bought
                    /\ stock' = [stock EXCEPT ![s] = left]
                    /\ UNCHANGED <<ground, window, late, kind, shelf, till, doors, places,
                                   package, server>>
        /\ UNCHANGED <<online, entering>>

-----------------------------------------------------------------------------
(* Timer, package, connections, shutdown *)

\* Mutant: the timer does not send the visitors out
TimerExpiresOnVisitors(s) ==
    /\ s \in timer
    /\ CloseHired(s, TRUE)
    /\ Leave(IF window[Owner] = s THEN {Owner} ELSE {})
    /\ UNCHANGED <<online, entering, open, visitors>>

\* The ten day timer of the constructor; it runs for shops never opened too
TimerExpires(s) ==
    /\ s \in timer
    /\ CloseHired(s, TRUE)
    /\ ClearOut(s, IF window[Owner] = s THEN {Owner} ELSE {})
    /\ UNCHANGED <<online, entering, open>>

\* Mutant: the package is handed out while the merchant is open
CollectBesideMerchant ==
    /\ Free(Owner)
    /\ package # None
    /\ server # "closing"
    /\ ~TooMuch(purse[Owner], package.meso)
    /\ LET due == Carried(package.goods)
       IN  /\ due \cap Restricted # {} => Carried(inv[Owner]) \cap Restricted = {}
           /\ Cardinality(due) <= Slots - Cardinality(Carried(inv[Owner]))
    /\ \E S \in Accepted(inv[Owner], package.goods) :
          inv' = [inv EXCEPT ![Owner] = With(@, package.goods, S)]
    /\ purse' = [purse EXCEPT ![Owner] = @ + package.meso]
    /\ package' = None
    /\ UNCHANGED <<ground, online, walk, kind, entries, till, doors, places, server>>

\* MerchantItemStore, and displayMerch for a package of mesos only
Collect ==
    /\ Free(Owner)
    /\ ~HasMerchant
    /\ package # None
    /\ server # "closing"
    /\ ~TooMuch(purse[Owner], package.meso)
    /\ LET due == Carried(package.goods)
       IN  /\ due \cap Restricted # {} => Carried(inv[Owner]) \cap Restricted = {}
           /\ Cardinality(due) <= Slots - Cardinality(Carried(inv[Owner]))
    /\ \E S \in Accepted(inv[Owner], package.goods) :
          inv' = [inv EXCEPT ![Owner] = With(@, package.goods, S)]
    /\ purse' = [purse EXCEPT ![Owner] = @ + package.meso]
    /\ package' = None
    /\ UNCHANGED <<ground, online, walk, kind, entries, till, doors, places, server>>

\* What one ground object holds: a pickup-restricted item lies there by itself,
\* and of the others all that lies there is picked up.
Heap(l) == IF l \in Restricted /\ ground[l] > 0 THEN 1 ELSE ground[l]

\* Mutant: a player with a shop open picks things up
PickUpWhileTrading(p, l) ==
    /\ p \in online /\ entering[p] = None
    /\ ground[l] > 0 /\ Fits(inv[p], l)
    /\ inv' = [inv EXCEPT ![p] = Plus(@, l, Heap(l))]
    /\ ground' = [ground EXCEPT ![l] = @ - Heap(l)]
    /\ UNCHANGED <<purse, online, walk, kind, entries, till, doors, places, package, server>>

\* The rest of the game, refused while a shop is open: hasBlockedInventory
PickUp(p, l) ==
    /\ Free(p)
    /\ ground[l] > 0 /\ Fits(inv[p], l)
    /\ inv' = [inv EXCEPT ![p] = Plus(@, l, Heap(l))]
    /\ ground' = [ground EXCEPT ![l] = @ - Heap(l)]
    /\ UNCHANGED <<purse, online, walk, kind, entries, till, doors, places, package, server>>

Drop(p, l) ==
    /\ Free(p)
    /\ inv[p][l] > 0
    /\ ground' = Plus(ground, l, inv[p][l])
    /\ inv' = [inv EXCEPT ![p][l] = 0]
    /\ UNCHANGED <<purse, online, walk, kind, entries, till, doors, places, package, server>>

\* removalTask; final is its argument "shutdown".  Only a shutdown overtakes a
\* packet of the player, which is then not carried on.
Disconnect(p, final) ==
    /\ p \in online
    /\ entering[p] = None \/ final
    /\ online' = online \ {p}
    /\ entering' = [entering EXCEPT ![p] = None]
    /\ IF p = Owner /\ window[p] # None
       THEN LET s == window[p]
            IN  \/ /\ kind[s] = "hired" /\ s \in available /\ ~final
                   /\ open' = open \cup {s}
                   /\ Leave({p})
                   /\ UNCHANGED <<goods, purse, kind, entries, till, available, visitors,
                                  places, package, server>>
                \/ /\ kind[s] = "hired" /\ (s \notin available \/ final)
                   /\ CloseHired(s, ~final)
                   /\ Leave({p})
                   /\ UNCHANGED <<open, visitors>>
                \/ /\ kind[s] = "personal"
                   /\ ClosePersonal(s, stock[s], inv)
                   /\ UNCHANGED <<purse, soldOut>>
       ELSE /\ visitors' = [s \in Shops |-> IF s = window[p] THEN visitors[s] \ {p}
                                                            ELSE visitors[s]]
            /\ Leave({p})
            /\ UNCHANGED <<goods, purse, kind, entries, till, open, available, places,
                           package, server>>

Reconnect(p) ==
    /\ p \notin online
    /\ server # "closing"
    /\ online' = online \cup {p}
    /\ UNCHANGED <<goods, purse, walk, kind, entries, till, doors, places, package, server>>

\* The GM command that shuts and opens all shops
ToggleShops ==
    /\ server # "closing"
    /\ server' = IF server = "up" THEN "shopsShut" ELSE "up"
    /\ UNCHANGED <<goods, purse, online, walk, kind, entries, till, doors, places, package>>

\* Shutdown 1: closeAllMerchant saves the listed merchants, then whatever
\* merchant is still on a map, each replacing the package of the account
CloseAllMerchants ==
    LET unlisted == {s \in onMap \ listed : kind[s] = "hired"}
        closed == listed \cup unlisted
    IN  /\ server # "closing"
        /\ server' = "closing"
        /\ IF closed = {} THEN UNCHANGED package
           ELSE \E last \in IF unlisted = {} THEN listed ELSE unlisted :
                   package' = Saved(last)
        /\ stock' = [s \in Shops |-> IF s \in closed THEN Empty ELSE stock[s]]
        /\ shelf' = [s \in Shops |-> IF s \in closed THEN {} ELSE shelf[s]]
        /\ listed' = {}
        /\ timer' = timer \ closed
        /\ onMap' = onMap \ closed
        /\ UNCHANGED <<goods, purse, online, walk, kind, soldOut, till, doors>>

\* The server starts again: shops are gone, the database is not
Restart ==
    /\ server = "closing" /\ online = {}
    /\ server' = "up"
    /\ kind' = [s \in Shops |-> "none"]
    /\ stock' = [s \in Shops |-> Empty]
    /\ shelf' = [s \in Shops |-> {}]
    /\ soldOut' = [s \in Shops |-> 0]
    /\ till' = [s \in Shops |-> 0]
    /\ open' = {} /\ available' = {}
    /\ visitors' = [s \in Shops |-> {}]
    /\ timer' = {} /\ onMap' = {}
    /\ UNCHANGED <<goods, purse, online, walk, listed, package>>

-----------------------------------------------------------------------------
OwnerStep(s) ==
    \/ \E k \in {"hired", "personal"} : Create(s, k)
    \/ \E l \in Lots : RemoveItem(s, l) \/ \E n \in 1..Bundles[l] : AddItem(s, l, n)
    \/ OpenHired(s) \/ OpenPersonal(s) \/ OpenRefused(s)
    \/ Maintain(s) \/ OwlToOwn(s) \/ TakeOver(s) \/ MaintenanceOff(s) \/ Organise(s)
    \/ CloseMerchant(s) \/ OwnerExit(s)

VisitorStep(p, s) ==
    \/ Visit(p, s) \/ Sit(p, s) \/ VisitorExit(p, s)
    \/ \E l \in Lots : \E n \in 1..Bundles[l] : BuyHired(p, s, l, n) \/ BuyPersonal(p, s, l, n)

PlayerStep(p) ==
    \/ \E l \in Lots : PickUp(p, l) \/ Drop(p, l)
    \/ Disconnect(p, FALSE)
    \/ server = "closing" /\ Disconnect(p, TRUE)        \* Shutdown 2
    \/ Reconnect(p)

Next ==
    \/ \E s \in Shops : OwnerStep(s) \/ Kick(s) \/ TimerExpires(s)
    \/ \E p \in Players, s \in Shops : VisitorStep(p, s)
    \/ \E p \in Players : PlayerStep(p)
    \/ Collect
    \/ ToggleShops \/ CloseAllMerchants \/ Restart

Spec == Init /\ [][Next]_vars

-----------------------------------------------------------------------------
(* Properties *)

\* Every field holds what its type in the code says; amounts stay ints.
TypeOK ==
    /\ inv \in [Players -> [Lots -> Nat]] /\ ground \in [Lots -> Nat]
    /\ purse \in [Players -> 0..IntMax]
    /\ online \subseteq Players
    /\ window \in [Players -> Shops \cup {None}]
    /\ entering \in [Players -> Shops \cup {None}] /\ late \subseteq Players
    /\ kind \in [Shops -> {"none", "hired", "personal"}]
    /\ stock \in [Shops -> [Lots -> Nat]]
    /\ shelf \in [Shops -> SUBSET Lots] /\ soldOut \in [Shops -> Nat]
    /\ till \in [Shops -> 0..IntMax]
    /\ open \subseteq Shops /\ available \subseteq Shops
    /\ visitors \in [Shops -> SUBSET Players]
    /\ timer \subseteq Shops /\ onMap \subseteq Shops /\ listed \subseteq Shops
    /\ package \in Packages \cup {None}
    /\ server \in {"up", "shopsShut", "closing"}

\* The package is the only copy once the merchant that wrote it is not listed.
Collectable == package # None /\ package.by \notin listed

\* The shops somebody can still reach
Reachable == onMap \cup {s \in Shops : window[Owner] = s}

\* Bundles of l, and mesos, that players can still get at: what they carry, what
\* shops hold, and the package
Pockets(l) == [p \in Players |-> inv[p][l]]
Displays(l) == [s \in Shops |-> IF s \in Reachable THEN stock[s][l] ELSE 0]
Tills == [s \in Shops |-> IF s \in onMap THEN till[s] ELSE 0]
Packed(l) == IF Collectable THEN package.goods[l] ELSE 0
PackedMesos == IF Collectable THEN package.meso ELSE 0

Held(l) == ground[l] + SumFunction(Pockets(l)) + SumFunction(Displays(l)) + Packed(l)

Money == SumFunction(purse) + SumFunction(Tills) + PackedMesos

\* What goes wrong, and nothing else does: two merchants of the account are
\* saved, one over the other.
SavedOver ==
    \/ package # None /\ package' # None /\ package'.by # package.by
    \/ \E s, t \in onMap \ onMap' : s # t /\ kind[s] = "hired" /\ kind[t] = "hired"

\* A merchant that was closed around its owner is saved again, without what
\* was saved the first time.
SavedAgain == window[Owner] \in Shops \ onMap /\ package' = Saved(window[Owner])

\* A visitor buys from a merchant that was closed around him and its owner.
SoldWhenClosed ==
    \E p \in Players \ {Owner} : window[p] \in Shops \ onMap /\ purse'[p] < purse[p]

\* The owner takes the mesos out of a merchant that was closed around him.
TakenWhenClosed == window[Owner] \in Shops \ onMap /\ till'[window[Owner]] = 0

\* The owner walks out of a merchant that was closed around him.
LeftInClosed(l) ==
    \E s \in Shops \ onMap : window[Owner] = s /\ window'[Owner] # s /\ stock[s][l] > 0

\* addFromDrop refuses a second restricted item from the package.
RefusedAtCollection(l) == l \in Restricted /\ package' = None

\* Goods are multiplied by nothing but a sale of a merchant that was closed around
\* its visitor, by the shutdown or as he came in: not by the package that is a copy
\* while the merchant is listed, not by taking goods out without saving, by closing,
\* expiring, collecting or restarting.
ItemsMadeOnly == [][\A l \in Lots : Held(l)' > Held(l) => SoldWhenClosed]_vars

\* Goods given to a shop are sold, taken back or collected, and lost in five ways
\* only; a shop that is opened, tended, left, expired or closed once loses none,
\* and a personal shop always finds room for what it gives back.
ItemsLostOnly ==
    [][\A l \in Lots : Held(l)' < Held(l) =>
          \/ SavedOver \/ SavedAgain \/ SoldWhenClosed
          \/ LeftInClosed(l) \/ RefusedAtCollection(l)]_vars

\* Mesos come from nowhere only out of a merchant that was closed before, whose
\* till is emptied or saved a second time.
MesosMadeOnly == [][Money' > Money => SavedOver \/ TakenWhenClosed \/ SoldWhenClosed]_vars

\* A visitor's playerShop and the shop's list of visitors agree, through all the
\* ways in which either side ends the visit; only one who found the shop full as he
\* came in is in it without a seat.
SeatsMatch ==
    \A s \in Shops, p \in Players \ {Owner} :
        /\ p \in visitors[s] => window[p] = s
        /\ window[p] = s => p \in visitors[s] \cup late

\* Nobody buys while the owner rearranges the goods, since a sale does not look at
\* open, except a visitor whom the owner overtook between test and seat.
ClosedToVisitors == \A s \in Shops \ open : visitors[s] \subseteq late

\* Until the server shuts down, a visitor sits in a shop that is on its map: every
\* way to close one sends the visitors out, except one who is still coming in.
ServedFromTheMap ==
    server # "closing" =>
        \A p \in Players \ ({Owner} \cup late) : window[p] \in onMap \cup {None}
=============================================================================
