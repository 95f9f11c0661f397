-------------------------------- MODULE Buddy --------------------------------
(***************************************************************************)
(* Buddy lists: client/BuddyList.java, BuddyListHandler, World.Buddy, the  *)
(* rows of the table buddies, and the places where a character comes and   *)
(* goes (Loggedin, changeChannel, EnterCS, LeaveCS, MapleClient.disconnect, *)
(* saveToDB).                                                              *)
(*                                                                         *)
(* Who asks another to be his buddy changes two lists and a table that the *)
(* other one's next save rewrites.  The list of somebody on a channel is   *)
(* changed in memory, from any event loop and without a lock; for the rest *)
(* there is only the table.                                                *)
(*                                                                         *)
(* A handler is cut where it reads or writes what other handlers change:   *)
(* "todo" is what is left of it.                                           *)
(***************************************************************************)
EXTENDS Integers, FiniteSets

CONSTANTS
    Chars,      \* characters
    Capacities  \* the sizes a list may have

ASSUME CapacitiesAssumption == IsFiniteSet(Chars) /\ Capacities \subseteq Nat

VARIABLES
    capacity, \* capacity[p]: BuddyList.capacity
    list,    \* list[p][q]: q's entry in the list of p's character object
    online,  \* online[p]: the buddies whose entry names a channel
    changed, \* changed[p]: BuddyList.changed
    copy,    \* copy[p]: CharacterTransfer.buddies
    rows,    \* rows[p][q]: what the table holds on q for p
    where,   \* where[p]: how far p has come or gone
    todo,    \* todo[p]: the rest of the handler p's event loop is in
    blind,   \* blind[p]: buddies p put on his list as offline, and has not heard of since
    said     \* said[p]: those p has asked or accepted, and not deleted since

lists == <<list, online, changed, blind>>
rest == <<capacity, copy, rows, where>>
vars == <<lists, rest, todo, said>>

(***************************************************************************)
(* An entry is missing, a request (not visible) or a buddy.  The table may *)
(* hold a buddy's row and a request inserted after it, "both".             *)
(***************************************************************************)
Entries == {"none", "request", "buddy"}
Rows == Entries \cup {"both"}

\* "away": a transfer is pending.  "leaving": still on the channel, the transfer is made.
\* "closing": disconnect has saved.  "closed": it has told the buddies.
OnChannel == {"entered", "told", "here", "leaving", "closing", "closed"}
Places == OnChannel \cup {"off", "loaded", "away", "shop"}

\* What is left to do: for whom, or with what multiBuddyFind has answered.
Idle == [op |-> "idle"]
Asks == {"ask", "askOffline", "insert", "notify", "put", "putOffline"}
Adds == Asks \cup {"accept", "acceptOffline"}
Tasks == {Idle}
    \cup [op : Adds \cup {"accepted", "delete"}, who : Chars]
    \cup [op : {"see"}, seen : SUBSET Chars]

NoEntries == [q \in Chars |-> "none"]

Init ==
    /\ capacity \in [Chars -> Capacities]
    /\ list = [p \in Chars |-> NoEntries]
    /\ online = [p \in Chars |-> {}]
    /\ changed = [p \in Chars |-> FALSE]
    /\ copy = [p \in Chars |-> NoEntries]
    /\ rows = [p \in Chars |-> NoEntries]
    /\ where = [p \in Chars |-> "off"]
    /\ todo = [p \in Chars |-> Idle]
    /\ blind = [p \in Chars |-> {}]
    /\ said = [p \in Chars |-> {}]

-----------------------------------------------------------------------------
(* Lists *)

\* Mutant: a character is registered after it has announced itself and looked around
FoundLate(p) == where[p] \in OnChannel \ {"entered", "told"}

\* Find.findChannel(p) > 0, and the character is in its channel's storage
Found(p) == where[p] \in OnChannel

\* A handler may begin
Ready(p) == where[p] = "here" /\ todo[p] = Idle

Known(p) == {q \in Chars : list[p][q] # "none"}
Buddies(p) == {q \in Chars : list[p][q] = "buddy"}
\* BuddyList.isFull counts requests as well.
IsFull(p) == Cardinality(Known(p)) >= capacity[p]

\* BuddyList.put on p's list
Put(p, q, entry, shown) ==
    /\ list' = [list EXCEPT ![p][q] = entry]
    /\ online' = [online EXCEPT ![p] = IF shown THEN @ \cup {q} ELSE @ \ {q}]
    /\ changed' = [changed EXCEPT ![p] = TRUE]

\* Mutant: "contains" is not asked
AddedUnasked(q, p) ==
    IF Found(q)
    THEN /\ Put(q, p, "buddy", TRUE)
         /\ blind' = [blind EXCEPT ![q] = @ \ {p}]
    ELSE UNCHANGED lists

\* buddyChanged ADDED, of p on q's list
Added(q, p) ==
    IF Found(q) /\ list[q][p] # "none"
    THEN /\ Put(q, p, "buddy", TRUE)
         /\ blind' = [blind EXCEPT ![q] = @ \ {p}]
    ELSE UNCHANGED lists

\* buddyChanged DELETED
Deleted(q, p) ==
    IF Found(q) /\ list[q][p] # "none"
    THEN /\ Put(q, p, list[q][p], FALSE)
         /\ UNCHANGED blind
    ELSE UNCHANGED lists

Goes(p, task) == todo' = [todo EXCEPT ![p] = task]

-----------------------------------------------------------------------------
(* BuddyOperation 1: asking.  Nothing keeps a character from asking himself. *)

AskBegin(p, q) ==
    /\ Ready(p)
    /\ list[p][q] = "none" /\ ~IsFull(p)
    /\ Goes(p, [op |-> IF Found(q) THEN "ask" ELSE "askOffline", who |-> q])
    /\ said' = [said EXCEPT ![p] = @ \cup {q}]
    /\ UNCHANGED <<lists, rest>>

\* requestBuddyAdd, which looks q up once more
AskOnline(p) ==
    LET q == todo[p].who IN
    /\ todo[p].op = "ask"
    /\ IF Found(q) /\ IsFull(q)
       THEN Goes(p, Idle)
       ELSE Goes(p, [op |-> IF Found(q) /\ list[q][p] = "buddy" THEN "notify" ELSE "insert",
                     who |-> q])
    /\ IF Found(q) /\ ~IsFull(q) /\ list[q][p] = "none"
       THEN Put(q, p, "request", TRUE) /\ UNCHANGED blind
       ELSE UNCHANGED lists
    /\ UNCHANGED <<rest, said>>

\* The table is asked instead: a row that is there counts more than a full list.
AskOffline(p) ==
    LET q == todo[p].who
        friends == {r \in Chars : rows[q][r] \in {"buddy", "both"}}
    IN
    /\ todo[p].op = "askOffline"
    /\ Goes(p, IF rows[q][p] # "none" THEN [op |-> "putOffline", who |-> q]
               ELSE IF Cardinality(friends) >= capacity[q] THEN Idle
               ELSE [op |-> "insert", who |-> q])
    /\ UNCHANGED <<lists, rest, said>>

\* INSERT of a pending row, wherever q is
AskInsert(p) ==
    LET q == todo[p].who IN
    /\ todo[p].op = "insert"
    /\ rows' = [rows EXCEPT ![q][p] = IF @ \in {"buddy", "both"} THEN "both" ELSE "request"]
    /\ Goes(p, [op |-> "putOffline", who |-> q])
    /\ UNCHANGED <<lists, capacity, copy, where, said>>

AskNotify(p) ==
    /\ todo[p].op = "notify"
    /\ Added(todo[p].who, p)
    /\ Goes(p, [op |-> "put", who |-> todo[p].who])
    /\ UNCHANGED <<rest, said>>

AskPut(p) ==
    LET q == todo[p].who
        shown == todo[p].op = "put"
    IN
    /\ todo[p].op \in {"put", "putOffline"}
    /\ Put(p, q, "buddy", shown)
    /\ blind' = [blind EXCEPT ![p] = IF shown THEN @ \ {q} ELSE @ \cup {q}]
    /\ Goes(p, Idle)
    /\ UNCHANGED <<rest, said>>

-----------------------------------------------------------------------------
(* BuddyOperation 2 and 3: accepting and deleting *)

\* isFull counts the request as well
Accept(p, q) ==
    /\ Ready(p)
    /\ list[p][q] = "request" /\ ~IsFull(p)
    /\ Goes(p, [op |-> IF Found(q) THEN "accept" ELSE "acceptOffline", who |-> q])
    /\ said' = [said EXCEPT ![p] = @ \cup {q}]
    /\ UNCHANGED <<lists, rest>>

\* The channel that was looked up is put, wherever q is by now.
AcceptPut(p) ==
    LET q == todo[p].who
        shown == todo[p].op = "accept"
    IN
    /\ todo[p].op \in {"accept", "acceptOffline"}
    /\ Put(p, q, "buddy", shown)
    /\ blind' = [blind EXCEPT ![p] = IF shown THEN @ \ {q} ELSE @ \cup {q}]
    /\ Goes(p, IF shown THEN [op |-> "accepted", who |-> q] ELSE Idle)
    /\ UNCHANGED <<rest, said>>

AcceptNotify(p) ==
    /\ todo[p].op = "accepted"
    /\ Added(todo[p].who, p)
    /\ Goes(p, Idle)
    /\ UNCHANGED <<rest, said>>

DeleteBegin(p, q) ==
    /\ Ready(p)
    /\ IF list[p][q] = "buddy" THEN Deleted(q, p) ELSE UNCHANGED lists
    /\ Goes(p, [op |-> "delete", who |-> q])
    /\ UNCHANGED <<rest, said>>

DeleteEnd(p) ==
    /\ todo[p].op = "delete"
    /\ Put(p, todo[p].who, "none", FALSE)
    /\ blind' = [blind EXCEPT ![p] = @ \ {todo[p].who}]
    /\ said' = [said EXCEPT ![p] = @ \ {todo[p].who}]
    /\ Goes(p, Idle)
    /\ UNCHANGED rest

-----------------------------------------------------------------------------
(* Coming and going *)

\* saveToDB: the rows are replaced if the list has changed.
Saved(p) ==
    /\ rows' = IF changed[p] THEN [rows EXCEPT ![p] = list[p]] ELSE rows
    /\ changed' = [changed EXCEPT ![p] = FALSE]

\* savePlayerToDB, every minute
Save(p) ==
    /\ Found(p) /\ changed[p]
    /\ Saved(p)
    /\ UNCHANGED <<capacity, list, online, copy, where, todo, blind, said>>

\* A new character object: every put of loadFromDb and loadFromTransfer marks the list
Fresh(p, entries) ==
    /\ list' = [list EXCEPT ![p] = entries]
    /\ online' = [online EXCEPT ![p] = {}]
    /\ changed' = [changed EXCEPT ![p] = entries # NoEntries]
    /\ blind' = [blind EXCEPT ![p] = {}]

Moves(p, from, to) == where[p] \in from /\ where' = [where EXCEPT ![p] = to]

\* Mutant: "pending" is not read
LoadRaw(p) ==
    /\ Moves(p, {"off"}, "loaded")
    /\ Fresh(p, rows[p])
    /\ UNCHANGED <<capacity, copy, rows, todo, said>>

\* loadFromDb; of two rows either may come last.
Load(p) ==
    /\ Moves(p, {"off"}, "loaded")
    /\ \E entries \in [Chars -> Entries] :
          /\ \A q \in Chars : \/ entries[q] = rows[p][q]
                              \/ rows[p][q] = "both" /\ entries[q] \in {"request", "buddy"}
          /\ Fresh(p, entries)
    /\ UNCHANGED <<capacity, copy, rows, todo, said>>

\* ReconstructChr on a channel
Arrive(p) ==
    /\ Moves(p, {"away"}, "loaded")
    /\ Fresh(p, copy[p])
    /\ copy' = [copy EXCEPT ![p] = NoEntries]
    /\ UNCHANGED <<capacity, rows, todo, said>>

\* ReconstructChr in the cash shop, which saves at once
ArriveAtShop(p) ==
    /\ Moves(p, {"away"}, "shop")
    /\ list' = [list EXCEPT ![p] = copy[p]]
    /\ rows' = IF copy[p] # NoEntries THEN [rows EXCEPT ![p] = copy[p]] ELSE rows
    /\ copy' = [copy EXCEPT ![p] = NoEntries]
    /\ UNCHANGED <<capacity, online, changed, todo, blind, said>>

\* registerPlayer
Enter(p) ==
    /\ Moves(p, {"loaded"}, "entered")
    /\ UNCHANGED <<capacity, lists, copy, rows, todo, said>>

\* loggedOn and loggedOff: those of p's buddies who are on a channel and have p
\* for a buddy
Hear(p) == {q \in Buddies(p) : Found(q) /\ list[q][p] = "buddy"}

Announce(p) ==
    /\ Moves(p, {"entered"}, "told")
    /\ online' = [q \in Chars |-> IF q \in Hear(p) THEN online[q] \cup {p} ELSE online[q]]
    /\ blind' = [q \in Chars |-> IF q \in Hear(p) THEN blind[q] \ {p} ELSE blind[q]]
    /\ UNCHANGED <<capacity, list, changed, copy, rows, todo, said>>

\* multiBuddyFind; then the channels are set
Look(p) ==
    /\ where[p] = "told" /\ todo[p] = Idle
    /\ Goes(p, [op |-> "see", seen |-> {q \in Buddies(p) : Found(q)}])
    /\ UNCHANGED <<lists, rest, said>>

See(p) ==
    /\ Moves(p, {"told"}, "here") /\ todo[p].op = "see"
    /\ online' = [online EXCEPT ![p] = @ \cup todo[p].seen]
    /\ Goes(p, Idle)
    /\ UNCHANGED <<capacity, list, changed, copy, rows, blind, said>>

\* Mutant: only the buddies are handed over
DepartWithBuddies(p) ==
    /\ Ready(p)
    /\ Moves(p, {"here"}, "leaving")
    /\ copy' = [copy EXCEPT ![p] = [q \in Chars |-> IF q \in Buddies(p) THEN "buddy" ELSE "none"]]
    /\ UNCHANGED <<capacity, lists, rows, todo, said>>

\* changeChannel and EnterCS: the transfer is made while p is still on the channel
Depart(p) ==
    /\ Ready(p)
    /\ Moves(p, {"here"}, "leaving")
    /\ copy' = [copy EXCEPT ![p] = list[p]]
    /\ UNCHANGED <<capacity, lists, rows, todo, said>>

\* The object that stays behind is saved, and no more reached.
Gone(p) ==
    /\ list' = [list EXCEPT ![p] = NoEntries]
    /\ online' = [online EXCEPT ![p] = {}]
    /\ blind' = [blind EXCEPT ![p] = {}]

Withdraw(p) ==
    /\ Moves(p, {"leaving"}, "away")
    /\ Gone(p)
    /\ Saved(p)
    /\ UNCHANGED <<capacity, copy, todo, said>>

LeaveShop(p) ==
    /\ Moves(p, {"shop"}, "away")
    /\ copy' = [copy EXCEPT ![p] = list[p]]
    /\ Gone(p)
    /\ UNCHANGED <<capacity, changed, rows, todo, said>>

\* The pending transfer expires.
Lose(p) ==
    /\ Moves(p, {"away"}, "off")
    /\ copy' = [copy EXCEPT ![p] = NoEntries]
    /\ UNCHANGED <<capacity, lists, rows, todo, said>>

\* disconnect: a save, then loggedOff, then the storage is cleared.
Disconnect(p) ==
    /\ Ready(p)
    /\ Moves(p, {"here"}, "closing")
    /\ Saved(p)
    /\ UNCHANGED <<capacity, list, online, copy, todo, blind, said>>

SignOff(p) ==
    /\ Moves(p, {"closing"}, "closed")
    /\ online' = [q \in Chars |-> IF q \in Hear(p) THEN online[q] \ {p} ELSE online[q]]
    /\ UNCHANGED <<capacity, list, changed, copy, rows, todo, blind, said>>

Close(p) ==
    /\ Moves(p, {"closed"}, "off")
    /\ Gone(p)
    /\ changed' = [changed EXCEPT ![p] = FALSE]
    /\ UNCHANGED <<capacity, copy, rows, todo, said>>

\* Nobody can change the list of somebody in the shop: there is nothing to save.
DisconnectInShop(p) ==
    /\ Moves(p, {"shop"}, "off")
    /\ list' = [list EXCEPT ![p] = NoEntries]
    /\ online' = [q \in Chars |-> IF q = p THEN {}
                                  ELSE IF q \in Hear(p) THEN online[q] \ {p} ELSE online[q]]
    /\ UNCHANGED <<capacity, changed, copy, rows, todo, blind, said>>

Asking(p) ==
    \/ \E q \in Chars : AskBegin(p, q)
    \/ AskOnline(p) \/ AskOffline(p) \/ AskInsert(p) \/ AskNotify(p) \/ AskPut(p)

Answering(p) ==
    \/ \E q \in Chars : Accept(p, q) \/ DeleteBegin(p, q)
    \/ AcceptPut(p) \/ AcceptNotify(p) \/ DeleteEnd(p)

Coming(p) ==
    \/ Load(p) \/ Arrive(p) \/ ArriveAtShop(p)
    \/ Enter(p) \/ Announce(p) \/ Look(p) \/ See(p)

Going(p) ==
    \/ Depart(p) \/ Withdraw(p) \/ LeaveShop(p) \/ Lose(p)
    \/ Disconnect(p) \/ SignOff(p) \/ Close(p) \/ DisconnectInShop(p)

Next == \E p \in Chars : Asking(p) \/ Answering(p) \/ Coming(p) \/ Going(p) \/ Save(p)

Spec == Init /\ [][Next]_vars

-----------------------------------------------------------------------------
(* Properties *)

\* Every field holds what its type in the code says; a list never holds the two rows
\* the table may have on somebody.
TypeOK ==
    /\ capacity \in [Chars -> Capacities]
    /\ list \in [Chars -> [Chars -> Entries]]
    /\ online \in [Chars -> SUBSET Chars]
    /\ changed \in [Chars -> BOOLEAN]
    /\ copy \in [Chars -> [Chars -> Entries]]
    /\ rows \in [Chars -> [Chars -> Rows]]
    /\ where \in [Chars -> Places]
    /\ todo \in [Chars -> Tasks]
    /\ blind \in [Chars -> SUBSET Chars]
    /\ said \in [Chars -> SUBSET Chars]

\* Nobody is a buddy on p's list whom p has not asked or accepted, or has deleted
\* since, although requests and answers of others write to the list, the table and the
\* transfer keep older lists, and each of them may be read back.
BuddyByChoice == \A p, q \in Chars : list[p][q] = "buddy" => q \in said[p]

\* Whatever p does next, short of deleting, q will be on his list: that is said by the
\* table, the transfer or the list itself, according to where p is.
Kept(p, q) ==
    LET place == where[p] IN
    /\ place \in {"off", "closing", "closed"} => rows[p][q] # "none"
    /\ place \in {"leaving", "away"} => copy[p][q] # "none"
    /\ place \notin {"off", "leaving", "away"} => list[p][q] # "none"

\* An entry of a list, a request included, is carried over every save, transfer,
\* disconnection and lost transfer; it goes only when the owner deletes it.  (What others
\* put on the list of somebody whose transfer is made is not Kept: it is lost with the
\* object he leaves behind.)
RequestStands ==
    [][\A p, q \in Chars :
          Kept(p, q) /\ ~Kept(p, q)' => todo[p] = [op |-> "delete", who |-> q]]_vars

\* Two buddies who have both arrived see each other online, in whatever order their
\* arrivals interleave; only who put the other on his list as offline may not see him:
\* who asks, and who accepts one who was offline when he was looked up and has announced
\* himself before he was put.
SeenWhenHere ==
    \A p, q \in Chars :
       /\ Ready(p) /\ Ready(q)
       /\ list[p][q] = "buddy" /\ list[q][p] = "buddy"
       => q \in online[p] \cup blind[p]
=============================================================================
