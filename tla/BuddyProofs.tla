---------------------------- MODULE BuddyProofs ----------------------------
(***************************************************************************)
(* Buddy lists, for any number of characters: a list keeps what it holds   *)
(* over saves, transfers and disconnections, and never holds a buddy whom  *)
(* its owner has not chosen; and two buddies who have arrived see each     *)
(* other.                                                                  *)
(*                                                                         *)
(* The first two rest on the invariant Inv.  It says that an entry is also *)
(* in the rows or will be saved before they are read, and that whoever is  *)
(* about to make a buddy of himself on a list was chosen there or finds no *)
(* entry.  SeeingInv adds what the third needs: two requests that cross    *)
(* are never answered both, and who does not see a buddy will hear of him  *)
(* from a call that is still to come.                                      *)
(***************************************************************************)
EXTENDS Buddy, TLAPS

-----------------------------------------------------------------------------
(* Types *)

\* The fields Put and its like change
ListsOK ==
    /\ list \in [Chars -> [Chars -> Entries]]
    /\ online \in [Chars -> SUBSET Chars]
    /\ changed \in [Chars -> BOOLEAN]
    /\ blind \in [Chars -> SUBSET Chars]

LEMMA TaskTypes ==
  ASSUME TypeOK, NEW p \in Chars
  PROVE  /\ todo[p].op = "idle" <=> todo[p] = Idle
         /\ todo[p].op \in Adds \cup {"accepted", "delete"} =>
               /\ todo[p].who \in Chars
               /\ todo[p] = [op |-> todo[p].op, who |-> todo[p].who]
         /\ todo[p].op = "see" => todo[p].seen \in SUBSET Chars
         /\ todo[p].op \in Adds \cup {"idle", "accepted", "delete", "see"}
  <1>1. CASE todo[p] = Idle
    BY <1>1 DEF Idle, Adds, Asks
  <1>2. CASE todo[p] \in [op : Adds \cup {"accepted", "delete"}, who : Chars]
    BY <1>2 DEF Idle, Adds, Asks
  <1>3. CASE todo[p] \in [op : {"see"}, seen : SUBSET Chars]
    BY <1>3 DEF Idle, Adds, Asks
  <1> QED
    BY <1>1, <1>2, <1>3 DEF TypeOK, Tasks

LEMMA PutTypes ==
  ASSUME TypeOK, NEW p \in Chars, NEW q \in Chars, NEW entry \in Entries,
         NEW shown \in BOOLEAN, Put(p, q, entry, shown)
  PROVE  /\ list' \in [Chars -> [Chars -> Entries]]
         /\ online' \in [Chars -> SUBSET Chars]
         /\ changed' \in [Chars -> BOOLEAN]
  BY DEF TypeOK, Put

LEMMA AddedTypes ==
  ASSUME TypeOK, NEW p \in Chars, NEW q \in Chars, Added(q, p)
  PROVE  ListsOK'
  <1>1. CASE Put(q, p, "buddy", TRUE) /\ blind' = [blind EXCEPT ![q] = @ \ {p}]
    BY <1>1, PutTypes DEF TypeOK, ListsOK, Entries
  <1>2. CASE UNCHANGED lists
    BY <1>2 DEF TypeOK, ListsOK, lists
  <1> QED
    BY <1>1, <1>2 DEF Added

LEMMA DeletedTypes ==
  ASSUME TypeOK, NEW p \in Chars, NEW q \in Chars, Deleted(q, p)
  PROVE  ListsOK'
  <1>1. CASE Put(q, p, list[q][p], FALSE) /\ UNCHANGED blind
    <2>1. list[q][p] \in Entries
      BY DEF TypeOK
    <2> QED
      BY <1>1, <2>1, PutTypes DEF TypeOK, ListsOK
  <1>2. CASE UNCHANGED lists
    BY <1>2 DEF TypeOK, ListsOK, lists
  <1> QED
    BY <1>1, <1>2 DEF Deleted

LEMMA GoesTypes ==
  ASSUME TypeOK, NEW p \in Chars, NEW task \in Tasks, Goes(p, task)
  PROVE  todo' \in [Chars -> Tasks]
  BY DEF TypeOK, Goes

LEMMA TaskIntro ==
  /\ Idle \in Tasks
  /\ \A op \in Adds \cup {"accepted", "delete"}, q \in Chars : [op |-> op, who |-> q] \in Tasks
  /\ \A seen \in SUBSET Chars : [op |-> "see", seen |-> seen] \in Tasks
  BY DEF Tasks

LEMMA FreshTypes ==
  ASSUME TypeOK, NEW p \in Chars, NEW entries \in [Chars -> Entries], Fresh(p, entries)
  PROVE  ListsOK'
  BY DEF TypeOK, Fresh, ListsOK

LEMMA NoEntriesType == NoEntries \in [Chars -> Entries]
  BY DEF NoEntries, Entries

LEMMA MovesTypes ==
  ASSUME TypeOK, NEW p \in Chars, NEW from, NEW to \in Places, Moves(p, from, to)
  PROVE  where' \in [Chars -> Places]
  BY DEF TypeOK, Moves

LEMMA GoneTypes ==
  ASSUME TypeOK, NEW p \in Chars, Gone(p)
  PROVE  /\ list' \in [Chars -> [Chars -> Entries]]
         /\ online' \in [Chars -> SUBSET Chars]
         /\ blind' \in [Chars -> SUBSET Chars]
  BY NoEntriesType DEF TypeOK, Gone

LEMMA SavedTypes ==
  ASSUME TypeOK, NEW p \in Chars, Saved(p)
  PROVE  /\ rows' \in [Chars -> [Chars -> Rows]]
         /\ changed' \in [Chars -> BOOLEAN]
  <1>1. list[p] \in [Chars -> Rows]
    BY DEF TypeOK, Rows
  <1> QED
    BY <1>1 DEF TypeOK, Saved

-----------------------------------------------------------------------------
(* Type correctness *)

LEMMA AskingTypes ==
  ASSUME TypeOK, NEW p \in Chars, Asking(p)
  PROVE  TypeOK'
  <1>1. ASSUME NEW q \in Chars, AskBegin(p, q)
        PROVE  TypeOK'
    BY <1>1, GoesTypes, TaskIntro DEF AskBegin, TypeOK, lists, rest, Adds, Asks
  <1>2. CASE AskOnline(p)
    <2> DEFINE q == todo[p].who
    <2>1. q \in Chars
      BY <1>2, TaskTypes DEF AskOnline, Adds, Asks
    <2>2. todo' \in [Chars -> Tasks]
      BY <1>2, <2>1, GoesTypes, TaskIntro DEF AskOnline, Adds, Asks
    <2>3. ListsOK'
      BY <1>2, <2>1, PutTypes DEF AskOnline, TypeOK, ListsOK, lists, Entries
    <2> QED
      BY <1>2, <2>2, <2>3 DEF AskOnline, TypeOK, ListsOK, rest
  <1>3. CASE AskOffline(p)
    <2>1. todo[p].who \in Chars
      BY <1>3, TaskTypes DEF AskOffline, Adds, Asks
    <2>2. todo' \in [Chars -> Tasks]
      BY <1>3, <2>1, GoesTypes, TaskIntro DEF AskOffline, Adds, Asks
    <2> QED
      BY <1>3, <2>2 DEF AskOffline, TypeOK, lists, rest
  <1>4. CASE AskInsert(p)
    <2>1. todo[p].who \in Chars
      BY <1>4, TaskTypes DEF AskInsert, Adds, Asks
    <2>2. todo' \in [Chars -> Tasks]
      BY <1>4, <2>1, GoesTypes, TaskIntro DEF AskInsert, Adds, Asks
    <2>3. rows' \in [Chars -> [Chars -> Rows]]
      BY <1>4, <2>1 DEF AskInsert, TypeOK, Rows, Entries
    <2> QED
      BY <1>4, <2>2, <2>3 DEF AskInsert, TypeOK, lists
  <1>5. CASE AskNotify(p)
    <2>1. todo[p].who \in Chars
      BY <1>5, TaskTypes DEF AskNotify, Adds, Asks
    <2>2. todo' \in [Chars -> Tasks]
      BY <1>5, <2>1, GoesTypes, TaskIntro DEF AskNotify, Adds, Asks
    <2>3. ListsOK'
      BY <1>5, <2>1, AddedTypes DEF AskNotify
    <2> QED
      BY <1>5, <2>2, <2>3 DEF AskNotify, TypeOK, ListsOK, rest
  <1>6. CASE AskPut(p)
    <2>1. todo[p].who \in Chars
      BY <1>6, TaskTypes DEF AskPut, Adds, Asks
    <2>2. todo' \in [Chars -> Tasks]
      BY <1>6, GoesTypes, TaskIntro DEF AskPut
    <2>3. Put(p, todo[p].who, "buddy", todo[p].op = "put")
      BY <1>6 DEF AskPut
    <2>4. blind' \in [Chars -> SUBSET Chars]
      BY <1>6, <2>1 DEF AskPut, TypeOK
    <2>5. ListsOK'
      BY <2>1, <2>3, <2>4, PutTypes DEF ListsOK, Entries
    <2> QED
      BY <1>6, <2>2, <2>5 DEF AskPut, TypeOK, ListsOK, rest
  <1> QED
    BY <1>1, <1>2, <1>3, <1>4, <1>5, <1>6 DEF Asking

LEMMA AnsweringTypes ==
  ASSUME TypeOK, NEW p \in Chars, Answering(p)
  PROVE  TypeOK'
  <1>1. ASSUME NEW q \in Chars, Accept(p, q)
        PROVE  TypeOK'
    BY <1>1, GoesTypes, TaskIntro DEF Accept, TypeOK, lists, rest, Adds
  <1>2. ASSUME NEW q \in Chars, DeleteBegin(p, q)
        PROVE  TypeOK'
    <2>1. todo' \in [Chars -> Tasks]
      BY <1>2, GoesTypes, TaskIntro DEF DeleteBegin
    <2>2. ListsOK'
      BY <1>2, DeletedTypes DEF DeleteBegin, TypeOK, ListsOK, lists
    <2> QED
      BY <1>2, <2>1, <2>2 DEF DeleteBegin, TypeOK, ListsOK, rest
  <1>3. CASE AcceptNotify(p)
    <2>1. todo[p].who \in Chars
      BY <1>3, TaskTypes DEF AcceptNotify
    <2>2. todo' \in [Chars -> Tasks]
      BY <1>3, GoesTypes, TaskIntro DEF AcceptNotify
    <2>3. ListsOK'
      BY <1>3, <2>1, AddedTypes DEF AcceptNotify
    <2> QED
      BY <1>3, <2>2, <2>3 DEF AcceptNotify, TypeOK, ListsOK, rest
  <1>4. CASE DeleteEnd(p)
    <2>1. todo[p].who \in Chars
      BY <1>4, TaskTypes DEF DeleteEnd
    <2>2. todo' \in [Chars -> Tasks]
      BY <1>4, GoesTypes, TaskIntro DEF DeleteEnd
    <2>3. ListsOK'
      BY <1>4, <2>1, PutTypes DEF DeleteEnd, TypeOK, ListsOK, Entries
    <2> QED
      BY <1>4, <2>2, <2>3 DEF DeleteEnd, TypeOK, ListsOK, rest
  <1>5. CASE AcceptPut(p)
    <2>1. todo[p].who \in Chars
      BY <1>5, TaskTypes DEF AcceptPut, Adds
    <2>2. todo' \in [Chars -> Tasks]
      BY <1>5, <2>1, GoesTypes, TaskIntro DEF AcceptPut
    <2>3. Put(p, todo[p].who, "buddy", todo[p].op = "accept")
      BY <1>5 DEF AcceptPut
    <2>4. blind' \in [Chars -> SUBSET Chars]
      BY <1>5, <2>1 DEF AcceptPut, TypeOK
    <2>5. ListsOK'
      BY <2>1, <2>3, <2>4, PutTypes DEF ListsOK, Entries
    <2> QED
      BY <1>5, <2>2, <2>5 DEF AcceptPut, TypeOK, ListsOK, rest
  <1> QED
    BY <1>1, <1>2, <1>3, <1>4, <1>5 DEF Answering

LEMMA ComingTypes ==
  ASSUME TypeOK, NEW p \in Chars, Coming(p)
  PROVE  TypeOK'
  <1> USE MovesTypes DEF Places, OnChannel
  <1>1. CASE Load(p)
    BY <1>1, FreshTypes DEF Load, TypeOK, ListsOK
  <1>2. CASE Arrive(p)
    <2>1. copy[p] \in [Chars -> Entries] /\ copy' \in [Chars -> [Chars -> Entries]]
      BY <1>2, NoEntriesType DEF Arrive, TypeOK
    <2> QED
      BY <1>2, <2>1, FreshTypes DEF Arrive, TypeOK, ListsOK
  <1>3. CASE ArriveAtShop(p)
    <2>1. copy[p] \in [Chars -> Entries] /\ copy[p] \in [Chars -> Rows]
      BY DEF TypeOK, Rows
    <2> QED
      BY <1>3, <2>1, NoEntriesType DEF ArriveAtShop, TypeOK
  <1>4. CASE Enter(p)
    BY <1>4 DEF Enter, TypeOK, lists
  <1>5. CASE Announce(p)
    BY <1>5 DEF Announce, TypeOK
  <1>6. CASE Look(p)
    <2>1. todo' \in [Chars -> Tasks]
      BY <1>6, GoesTypes, TaskIntro DEF Look, Buddies
    <2> QED
      BY <1>6, <2>1 DEF Look, TypeOK, lists, rest
  <1>7. CASE See(p)
    <2>1. todo' \in [Chars -> Tasks]
      BY <1>7, GoesTypes, TaskIntro DEF See
    <2>2. todo[p].seen \in SUBSET Chars
      BY <1>7, TaskTypes DEF See
    <2> QED
      BY <1>7, <2>1, <2>2 DEF See, TypeOK
  <1> QED
    BY <1>1, <1>2, <1>3, <1>4, <1>5, <1>6, <1>7 DEF Coming

LEMMA GoingTypes ==
  ASSUME TypeOK, NEW p \in Chars, Going(p)
  PROVE  TypeOK'
  <1> USE MovesTypes DEF Places, OnChannel
  <1>1. CASE Depart(p)
    BY <1>1 DEF Depart, TypeOK, lists
  <1>2. CASE Withdraw(p)
    BY <1>2, GoneTypes, SavedTypes DEF Withdraw, TypeOK
  <1>3. CASE LeaveShop(p)
    BY <1>3, GoneTypes DEF LeaveShop, TypeOK
  <1>4. CASE Lose(p)
    BY <1>4, NoEntriesType DEF Lose, TypeOK, lists
  <1>5. CASE Disconnect(p)
    BY <1>5, SavedTypes DEF Disconnect, TypeOK
  <1>6. CASE SignOff(p)
    BY <1>6 DEF SignOff, TypeOK
  <1>7. CASE Close(p)
    BY <1>7, GoneTypes DEF Close, TypeOK
  <1>8. CASE DisconnectInShop(p)
    BY <1>8, NoEntriesType DEF DisconnectInShop, TypeOK
  <1> QED
    BY <1>1, <1>2, <1>3, <1>4, <1>5, <1>6, <1>7, <1>8 DEF Going

LEMMA TypesNext ==
  ASSUME TypeOK, [Next]_vars
  PROVE  TypeOK'
  <1>1. CASE UNCHANGED vars
    BY <1>1 DEF vars, lists, rest, TypeOK
  <1>2. ASSUME NEW p \in Chars, Save(p)
        PROVE  TypeOK'
    BY <1>2, SavedTypes DEF Save, TypeOK
  <1> QED
    BY <1>1, <1>2, AskingTypes, AnsweringTypes, ComingTypes, GoingTypes DEF Next

\* Every field holds what its type in the code says.
THEOREM TypeCorrect == Spec => []TypeOK
  <1>1. Init => TypeOK
    BY NoEntriesType, TaskIntro DEF Init, TypeOK, Places, NoEntries, Rows, Entries
  <1> QED
    BY <1>1, TypesNext, PTL DEF Spec

-----------------------------------------------------------------------------
(* The inductive invariant *)

\* While p is coming or here, a changed list is going to replace the rows.
Unsaved(p) == where[p] \in {"loaded", "entered", "told", "here", "leaving"} /\ changed[p]

\* A handler is under way only on a channel, and the transfer only while p moves.
InPlace(p) ==
    /\ todo[p] # Idle => where[p] = (IF todo[p].op = "see" THEN "told" ELSE "here")
    /\ where[p] \notin {"leaving", "away"} => copy[p] = NoEntries

\* What comes next for p's list has every entry that the list has now.
CarriedOn(p, q) ==
    /\ where[p] \in {"loaded", "entered", "told", "here", "leaving"} /\ list[p][q] # "none"
          => changed[p] \/ rows[p][q] # "none"
    /\ where[p] = "leaving" /\ copy[p][q] # "none" => list[p][q] # "none"
    /\ where[p] = "away" /\ copy[p][q] # "none" => rows[p][q] # "none"
    /\ where[p] = "shop" /\ list[p][q] # "none" => rows[p][q] # "none"

\* q has nothing of p, in no list that may be read again.
Clean(q, p) ==
    /\ list[q][p] = "none" /\ copy[q][p] = "none"
    /\ rows[q][p] = "none" \/ Unsaved(q)

\* p has a request of q, which he may accept now or later.
Holds(p, q) ==
    \/ list[p][q] = "request" \/ copy[p][q] = "request"
    \/ rows[p][q] \in {"request", "both"} /\ ~Unsaved(p)

\* p's own request lies with q, and p has not put q on his list yet.
Requesting(p, q) == todo[p].op \in {"insert", "put", "putOffline"} /\ todo[p].who = q

\* p is about to make a buddy of himself on q's list.
Confirming(p, q) == todo[p].op \in {"notify", "accept", "accepted"} /\ todo[p].who = q

Asked(p) == todo[p].op \in Adds => todo[p].who \in said[p]

\* If q has not chosen p: no buddy p is read back into q's list, and nobody who would
\* make p a buddy there finds an entry to change.
NotChosen(q, p) ==
    /\ list[q][p] # "buddy" /\ copy[q][p] # "buddy"
    /\ rows[q][p] \in {"buddy", "both"} => Unsaved(q)
    /\ Confirming(p, q) => Clean(q, p)
    /\ Holds(p, q) /\ ~Requesting(p, q) => Clean(q, p)

Inv ==
    /\ TypeOK
    /\ \A p \in Chars : InPlace(p) /\ Asked(p)
    /\ \A p, q \in Chars : CarriedOn(p, q)
    /\ \A p, q \in Chars : p \notin said[q] => NotChosen(q, p)

LEMMA Working ==
  ASSUME Inv, NEW p \in Chars, todo[p].op \in Adds \cup {"accepted", "delete"}
  PROVE  /\ todo[p].who \in Chars
         /\ where[p] = "here"
         /\ copy[p] = NoEntries
         /\ todo[p].op \in Adds => todo[p].who \in said[p]
  <1>1. todo[p] # Idle /\ todo[p].op # "see" /\ todo[p].who \in Chars
    BY TaskTypes DEF Inv, Adds, Asks, Idle
  <1> QED
    BY <1>1 DEF Inv, InPlace, Asked

\* Put and Saved, entry by entry
LEMMA PutAt ==
  ASSUME TypeOK, NEW p \in Chars, NEW q \in Chars, NEW entry, NEW shown,
         Put(p, q, entry, shown)
  PROVE  \A x, y \in Chars :
            /\ list'[x][y] = IF x = p /\ y = q THEN entry ELSE list[x][y]
            /\ changed'[x] <=> x = p \/ changed[x]
  BY DEF TypeOK, Put

LEMMA SavedAt ==
  ASSUME TypeOK, NEW p \in Chars, Saved(p)
  PROVE  \A x, y \in Chars :
            /\ x # p => rows'[x][y] = rows[x][y] /\ changed'[x] = changed[x]
            /\ rows'[p][y] = list[p][y] \/ (~changed[p] /\ rows'[p][y] = rows[p][y])
            /\ ~changed'[p]
  BY DEF TypeOK, Saved

LEMMA AskingKeeps ==
  ASSUME Inv, NEW p \in Chars, Asking(p), TypeOK'
  PROVE  Inv'
  <1>1. ASSUME NEW q \in Chars, AskBegin(p, q)
        PROVE  Inv'
    <2>1. ASSUME NEW x \in Chars
          PROVE  (InPlace(x) /\ Asked(x))'
      BY <1>1, TaskTypes DEF AskBegin, Ready, Goes, lists, rest, Inv, TypeOK, InPlace,
         Asked, Idle, Adds, Asks
    <2>2. ASSUME NEW x \in Chars, NEW y \in Chars
          PROVE  CarriedOn(x, y)'
      BY <1>1, TaskTypes DEF AskBegin, Ready, Goes, lists, rest, Inv, TypeOK, InPlace,
         CarriedOn, Entries, NoEntries
    <2>3. ASSUME NEW x \in Chars, NEW y \in Chars, x \notin said'[y]
          PROVE  NotChosen(y, x)'
      BY <1>1, <2>3, TaskTypes DEF AskBegin, Ready, Goes, lists, rest, Inv, TypeOK,
         InPlace, Asked, NotChosen, Holds, Clean,
         Requesting, Confirming, Unsaved, Entries, NoEntries, Idle, Adds, Asks
    <2> QED
      BY <2>1, <2>2, <2>3 DEF Inv
  <1>2. CASE AskOnline(p)
    <2> DEFINE q == todo[p].who
    <2>1. q \in Chars /\ where[p] = "here" /\ copy[p] = NoEntries /\ q \in said[p]
          /\ todo[p] # Idle /\ todo[p].op = "ask" /\ UNCHANGED <<rest, said>>
      BY <1>2, Working DEF AskOnline, Adds, Asks, Idle
    <2> HIDE DEF q
    <2>2. CASE Goes(p, Idle) /\ UNCHANGED lists
      <3>1. ASSUME NEW x \in Chars
            PROVE  (InPlace(x) /\ Asked(x))'
        BY <2>1, <2>2 DEF Goes, lists, rest, Inv, TypeOK, InPlace, Asked, Idle, Adds, Asks
      <3>2. ASSUME NEW x \in Chars, NEW y \in Chars
            PROVE  CarriedOn(x, y)'
        BY <2>1, <2>2 DEF Goes, lists, rest, Inv, TypeOK, CarriedOn, Entries
      <3>3. ASSUME NEW x \in Chars, NEW y \in Chars, x \notin said'[y]
            PROVE  NotChosen(y, x)'
        BY <2>1, <2>2, <3>3 DEF Goes, lists, rest, Inv, TypeOK, NotChosen, Holds, Clean,
           Requesting, Confirming, Unsaved, Entries, NoEntries, Idle, Adds, Asks
      <3> QED
        BY <3>1, <3>2, <3>3 DEF Inv
    <2>3. CASE /\ list[q][p] = "buddy" /\ UNCHANGED lists
                /\ Goes(p, [op |-> "notify", who |-> q])
      <3>1. ASSUME NEW x \in Chars
            PROVE  (InPlace(x) /\ Asked(x))'
        BY <2>1, <2>3 DEF Goes, lists, rest, Inv, TypeOK, InPlace, Asked, Idle, Adds, Asks
      <3>2. ASSUME NEW x \in Chars, NEW y \in Chars
            PROVE  CarriedOn(x, y)'
        BY <2>1, <2>3 DEF Goes, lists, rest, Inv, TypeOK, CarriedOn, Entries
      <3>3. ASSUME NEW x \in Chars, NEW y \in Chars, x \notin said'[y]
            PROVE  NotChosen(y, x)'
        BY <2>1, <2>3, <3>3 DEF Goes, lists, rest, Inv, TypeOK, NotChosen, Holds, Clean,
           Requesting, Confirming, Unsaved, Entries, NoEntries, Idle, Adds, Asks
      <3> QED
        BY <3>1, <3>2, <3>3 DEF Inv
    <2>4. CASE Goes(p, [op |-> "insert", who |-> q]) /\ UNCHANGED lists
      <3>1. ASSUME NEW x \in Chars
            PROVE  (InPlace(x) /\ Asked(x))'
        BY <2>1, <2>4 DEF Goes, lists, rest, Inv, TypeOK, InPlace, Asked, Idle, Adds, Asks
      <3>2. ASSUME NEW x \in Chars, NEW y \in Chars
            PROVE  CarriedOn(x, y)'
        BY <2>1, <2>4 DEF Goes, lists, rest, Inv, TypeOK, CarriedOn, Entries
      <3>3. ASSUME NEW x \in Chars, NEW y \in Chars, x \notin said'[y]
            PROVE  NotChosen(y, x)'
        BY <2>1, <2>4, <3>3 DEF Goes, lists, rest, Inv, TypeOK, NotChosen, Holds, Clean,
           Requesting, Confirming, Unsaved, Entries, NoEntries, Idle, Adds, Asks
      <3> QED
        BY <3>1, <3>2, <3>3 DEF Inv
    <2>5. CASE /\ Found(q) /\ list[q][p] = "none" /\ Put(q, p, "request", TRUE)
                /\ Goes(p, [op |-> "insert", who |-> q])
      <3>1. ASSUME NEW x \in Chars
            PROVE  (InPlace(x) /\ Asked(x))'
        BY <2>1, <2>5 DEF Goes, Put, rest, Inv, TypeOK, InPlace, Asked, Idle, Adds, Asks
      <3>2. ASSUME NEW x \in Chars, NEW y \in Chars
            PROVE  CarriedOn(x, y)'
        <4>1. /\ list'[x][y] = IF x = q /\ y = p THEN "request" ELSE list[x][y]
              /\ changed'[x] <=> x = q \/ changed[x]
          BY <2>1, <2>5 DEF Put, Inv, TypeOK
        <4>2. CarriedOn(x, y)
          BY DEF Inv
        <4> QED
          BY <2>1, <2>5, <4>1, <4>2 DEF rest, CarriedOn, Found, OnChannel
      <3>3. ASSUME NEW x \in Chars, NEW y \in Chars, x \notin said'[y]
            PROVE  NotChosen(y, x)'
        BY <2>1, <2>5, <3>3 DEF Goes, Put, rest, Inv, TypeOK, NotChosen, Holds, Clean,
           Requesting, Confirming, Unsaved, Entries, NoEntries, Idle, Adds, Asks
      <3> QED
        BY <3>1, <3>2, <3>3 DEF Inv
    <2> QED
      BY <1>2, <2>2, <2>3, <2>4, <2>5 DEF AskOnline, q
  <1>3. CASE AskOffline(p)
    <2>1. ASSUME NEW x \in Chars
          PROVE  (InPlace(x) /\ Asked(x))'
      BY <1>3, TaskTypes DEF AskOffline, Goes, lists, rest, Inv, TypeOK, InPlace,
         Asked, Idle, Adds, Asks
    <2>2. ASSUME NEW x \in Chars, NEW y \in Chars
          PROVE  CarriedOn(x, y)'
      BY <1>3, TaskTypes DEF AskOffline, Goes, lists, rest, Inv, TypeOK, InPlace,
         CarriedOn, Entries, NoEntries
    <2>3. ASSUME NEW x \in Chars, NEW y \in Chars, x \notin said'[y]
          PROVE  NotChosen(y, x)'
      BY <1>3, <2>3, TaskTypes DEF AskOffline, Goes, lists, rest, Inv, TypeOK, InPlace,
         Asked, NotChosen, Holds, Clean,
         Requesting, Confirming, Unsaved, Entries, NoEntries, Idle, Adds, Asks
    <2> QED
      BY <2>1, <2>2, <2>3 DEF Inv
  <1>4. CASE AskInsert(p)
    <2>1. ASSUME NEW x \in Chars
          PROVE  (InPlace(x) /\ Asked(x))'
      BY <1>4, TaskTypes DEF AskInsert, Goes, lists, Inv, TypeOK, InPlace, Asked, Idle,
         Adds, Asks
    <2>2. ASSUME NEW x \in Chars, NEW y \in Chars
          PROVE  CarriedOn(x, y)'
      BY <1>4, TaskTypes DEF AskInsert, Goes, lists, Inv, TypeOK, InPlace, CarriedOn,
         Entries, NoEntries
    <2>3. ASSUME NEW x \in Chars, NEW y \in Chars, x \notin said'[y]
          PROVE  NotChosen(y, x)'
      BY <1>4, <2>3, TaskTypes DEF AskInsert, Goes, lists, Inv, TypeOK, InPlace, Asked,
         NotChosen, Holds, Clean,
         Requesting, Confirming, Unsaved, Entries, NoEntries, Idle, Adds, Asks
    <2> QED
      BY <2>1, <2>2, <2>3 DEF Inv
  <1>5. CASE AskNotify(p)
    <2> DEFINE q == todo[p].who
    <2>1. q \in Chars /\ where[p] = "here" /\ copy[p] = NoEntries
          /\ todo[p] # Idle /\ todo[p].op = "notify" /\ UNCHANGED <<rest, said>>
      BY <1>5, Working DEF AskNotify, Adds, Asks, Idle
    <2>2. p \notin said[q] => list[q][p] = "none"
      BY <2>1 DEF Inv, NotChosen, Confirming, Clean
    <2>3. q \in said[p] /\ todo' = [todo EXCEPT ![p] = [op |-> "put", who |-> q]]
      BY <1>5, Working DEF AskNotify, Goes, Adds, Asks
    <2> HIDE DEF q
    <2>4. CASE UNCHANGED lists
      <3>1. ASSUME NEW x \in Chars
            PROVE  (InPlace(x) /\ Asked(x))'
        BY <2>1, <2>2, <2>3, <2>4 DEF lists, rest, Inv, TypeOK, InPlace, Asked, Idle,
           Adds, Asks
      <3>2. ASSUME NEW x \in Chars, NEW y \in Chars
            PROVE  CarriedOn(x, y)'
        BY <2>1, <2>2, <2>3, <2>4 DEF lists, rest, Inv, TypeOK, CarriedOn, Entries
      <3>3. ASSUME NEW x \in Chars, NEW y \in Chars, x \notin said'[y]
            PROVE  NotChosen(y, x)'
        BY <2>1, <2>2, <2>3, <2>4, <3>3 DEF lists, rest, Inv, TypeOK, NotChosen, Holds,
           Clean,
           Requesting, Confirming, Unsaved, Entries, NoEntries, Idle, Adds, Asks
      <3> QED
        BY <3>1, <3>2, <3>3 DEF Inv
    <2>5. CASE list[q][p] # "none" /\ Put(q, p, "buddy", TRUE)
      <3>1. ASSUME NEW x \in Chars
            PROVE  (InPlace(x) /\ Asked(x))'
        BY <2>1, <2>2, <2>3, <2>5 DEF Put, rest, Inv, TypeOK, InPlace, Asked, Idle, Adds, Asks
      <3>2. ASSUME NEW x \in Chars, NEW y \in Chars
            PROVE  CarriedOn(x, y)'
        BY <2>1, <2>2, <2>3, <2>5 DEF Put, rest, Inv, TypeOK, CarriedOn, Entries
      <3>3. ASSUME NEW x \in Chars, NEW y \in Chars, x \notin said'[y]
            PROVE  NotChosen(y, x)'
        BY <2>1, <2>2, <2>3, <2>5, <3>3 DEF Put, rest, Inv, TypeOK, NotChosen, Holds,
           Clean,
           Requesting, Confirming, Unsaved, Entries, NoEntries, Idle, Adds, Asks
      <3> QED
        BY <3>1, <3>2, <3>3 DEF Inv
    <2> QED
      BY <1>5, <2>4, <2>5 DEF AskNotify, Added, q
  <1>6. CASE AskPut(p)
    <2> DEFINE q == todo[p].who
    <2>1. /\ q \in Chars /\ where[p] = "here" /\ copy[p] = NoEntries /\ q \in said[p]
          /\ todo[p] # Idle /\ todo' = [todo EXCEPT ![p] = Idle]
          /\ Put(p, q, "buddy", todo[p].op = "put")
          /\ UNCHANGED <<copy, rows, where, said>>
      BY <1>6, Working DEF AskPut, Adds, Asks, Idle, Goes, rest
    <2> HIDE DEF q
    <2>a. /\ \A x, y \in Chars :
                /\ list'[x][y] = IF x = p /\ y = q THEN "buddy" ELSE list[x][y]
                /\ changed'[x] <=> x = p \/ changed[x]
      BY <2>1, PutAt DEF Inv
    <2>b. \A x \in Chars : Unsaved(x)' <=> x = p \/ Unsaved(x)
      BY <2>1, <2>a DEF Inv, TypeOK, Unsaved
    <2>2. ASSUME NEW x \in Chars
          PROVE  (InPlace(x) /\ Asked(x))'
      BY <2>1 DEF Inv, TypeOK, InPlace, Asked, Idle, Adds, Asks
    <2>3. ASSUME NEW x \in Chars, NEW y \in Chars
          PROVE  CarriedOn(x, y)'
      BY <2>1, <2>a DEF Inv, TypeOK, CarriedOn, Entries
    <2>4. ASSUME NEW x \in Chars, NEW y \in Chars, x \notin said'[y]
          PROVE  NotChosen(y, x)'
      <3>1. NotChosen(y, x) /\ ~(y = p /\ x = q)
        BY <2>1, <2>4 DEF Inv
      <3>2. Clean(y, x) => Clean(y, x)'
        BY <2>1, <2>a, <2>b, <3>1 DEF Clean
      <3>3. Confirming(x, y)' => Confirming(x, y)
        BY <2>1 DEF Confirming, Inv, TypeOK, Idle
      <3>4. Holds(x, y)' => Holds(x, y) /\ ~(x = p /\ y = q)
        BY <2>1, <2>a, <2>b DEF Holds, Unsaved, NoEntries
      <3>5. Requesting(x, y) => Requesting(x, y)' \/ (x = p /\ y = q)
        BY <2>1 DEF Requesting, Inv, TypeOK, q
      <3> QED
        BY <2>1, <2>a, <2>b, <3>1, <3>2, <3>3, <3>4, <3>5 DEF NotChosen
    <2> QED
      BY <2>2, <2>3, <2>4 DEF Inv
  <1> QED
    BY <1>1, <1>2, <1>3, <1>4, <1>5, <1>6 DEF Asking

LEMMA AnsweringKeeps ==
  ASSUME Inv, NEW p \in Chars, Answering(p), TypeOK'
  PROVE  Inv'
  <1>1. ASSUME NEW q \in Chars, Accept(p, q)
        PROVE  Inv'
    <2>1. ASSUME NEW x \in Chars
          PROVE  (InPlace(x) /\ Asked(x))'
      BY <1>1, TaskTypes DEF Accept, Ready, Goes, lists, rest, Inv, TypeOK, InPlace,
         Asked, Idle, Adds, Asks
    <2>2. ASSUME NEW x \in Chars, NEW y \in Chars
          PROVE  CarriedOn(x, y)'
      BY <1>1, TaskTypes DEF Accept, Ready, Goes, lists, rest, Inv, TypeOK, InPlace,
         CarriedOn, Entries, NoEntries
    <2>3. ASSUME NEW x \in Chars, NEW y \in Chars, x \notin said'[y]
          PROVE  NotChosen(y, x)'
      BY <1>1, <2>3, TaskTypes DEF Accept, Ready, Goes, lists, rest, Inv, TypeOK,
         InPlace, Asked, NotChosen, Holds, Clean,
         Requesting, Confirming, Unsaved, Entries, NoEntries, Idle, Adds, Asks
    <2> QED
      BY <2>1, <2>2, <2>3 DEF Inv
  <1>2. ASSUME NEW q \in Chars, DeleteBegin(p, q)
        PROVE  Inv'
    <2>1. ASSUME NEW x \in Chars
          PROVE  (InPlace(x) /\ Asked(x))'
      BY <1>2, TaskTypes DEF DeleteBegin, Ready, Goes, Deleted, Put, lists, rest, Inv,
         TypeOK, InPlace, Asked, Idle, Adds, Asks
    <2>2. ASSUME NEW x \in Chars, NEW y \in Chars
          PROVE  CarriedOn(x, y)'
      BY <1>2, TaskTypes DEF DeleteBegin, Ready, Goes, Deleted, Put, lists, rest, Inv,
         TypeOK, InPlace, CarriedOn, Entries, NoEntries
    <2>3. ASSUME NEW x \in Chars, NEW y \in Chars, x \notin said'[y]
          PROVE  NotChosen(y, x)'
      BY <1>2, <2>3, TaskTypes DEF DeleteBegin, Ready, Goes, Deleted, Put, lists, rest,
         Inv, TypeOK, InPlace, Asked, NotChosen, Holds, Clean,
         Requesting, Confirming, Unsaved, Entries, NoEntries, Idle, Adds, Asks
    <2> QED
      BY <2>1, <2>2, <2>3 DEF Inv
  <1>3. CASE AcceptNotify(p)
    <2> DEFINE q == todo[p].who
    <2>1. q \in Chars /\ where[p] = "here" /\ copy[p] = NoEntries
          /\ todo[p] # Idle /\ todo[p].op = "accepted" /\ UNCHANGED <<rest, said>>
      BY <1>3, Working DEF AcceptNotify, Adds, Asks, Idle
    <2>2. p \notin said[q] => list[q][p] = "none"
      BY <2>1 DEF Inv, NotChosen, Confirming, Clean
    <2>3. todo' = [todo EXCEPT ![p] = Idle]
      BY <1>3 DEF AcceptNotify, Goes
    <2> HIDE DEF q
    <2>4. CASE UNCHANGED lists
      <3>1. ASSUME NEW x \in Chars
            PROVE  (InPlace(x) /\ Asked(x))'
        BY <2>1, <2>2, <2>3, <2>4 DEF lists, rest, Inv, TypeOK, InPlace, Asked, Idle,
           Adds, Asks
      <3>2. ASSUME NEW x \in Chars, NEW y \in Chars
            PROVE  CarriedOn(x, y)'
        BY <2>1, <2>2, <2>3, <2>4 DEF lists, rest, Inv, TypeOK, CarriedOn, Entries
      <3>3. ASSUME NEW x \in Chars, NEW y \in Chars, x \notin said'[y]
            PROVE  NotChosen(y, x)'
        BY <2>1, <2>2, <2>3, <2>4, <3>3 DEF lists, rest, Inv, TypeOK, NotChosen, Holds,
           Clean,
           Requesting, Confirming, Unsaved, Entries, NoEntries, Idle, Adds, Asks
      <3> QED
        BY <3>1, <3>2, <3>3 DEF Inv
    <2>5. CASE list[q][p] # "none" /\ Put(q, p, "buddy", TRUE)
      <3>1. ASSUME NEW x \in Chars
            PROVE  (InPlace(x) /\ Asked(x))'
        BY <2>1, <2>2, <2>3, <2>5 DEF Put, rest, Inv, TypeOK, InPlace, Asked, Idle, Adds, Asks
      <3>2. ASSUME NEW x \in Chars, NEW y \in Chars
            PROVE  CarriedOn(x, y)'
        BY <2>1, <2>2, <2>3, <2>5 DEF Put, rest, Inv, TypeOK, CarriedOn, Entries
      <3>3. ASSUME NEW x \in Chars, NEW y \in Chars, x \notin said'[y]
            PROVE  NotChosen(y, x)'
        BY <2>1, <2>2, <2>3, <2>5, <3>3 DEF Put, rest, Inv, TypeOK, NotChosen, Holds,
           Clean,
           Requesting, Confirming, Unsaved, Entries, NoEntries, Idle, Adds, Asks
      <3> QED
        BY <3>1, <3>2, <3>3 DEF Inv
    <2> QED
      BY <1>3, <2>4, <2>5 DEF AcceptNotify, Added, q
  <1>4. CASE DeleteEnd(p)
    <2> DEFINE q == todo[p].who
    <2>1. /\ q \in Chars /\ where[p] = "here" /\ copy[p] = NoEntries
          /\ todo[p].op = "delete" /\ todo' = [todo EXCEPT ![p] = Idle]
          /\ Put(p, q, "none", FALSE)
          /\ said' = [said EXCEPT ![p] = @ \ {q}] /\ UNCHANGED <<copy, rows, where>>
      BY <1>4, Working DEF DeleteEnd, Goes, rest
    <2> HIDE DEF q
    <2>a. /\ \A x, y \in Chars :
                /\ list'[x][y] = IF x = p /\ y = q THEN "none" ELSE list[x][y]
                /\ changed'[x] <=> x = p \/ changed[x]
      BY <2>1, PutAt DEF Inv
    <2>b. \A x \in Chars : Unsaved(x)' <=> x = p \/ Unsaved(x)
      BY <2>1, <2>a DEF Inv, TypeOK, Unsaved
    <2>2. ASSUME NEW x \in Chars
          PROVE  (InPlace(x) /\ Asked(x))'
      BY <2>1 DEF Inv, TypeOK, InPlace, Asked, Idle, Adds, Asks
    <2>3. ASSUME NEW x \in Chars, NEW y \in Chars
          PROVE  CarriedOn(x, y)'
      BY <2>1, <2>a DEF Inv, TypeOK, CarriedOn, Entries
    <2>4. ASSUME NEW x \in Chars, NEW y \in Chars, x \notin said'[y]
          PROVE  NotChosen(y, x)'
      <3>1. CASE y = p /\ x = q
        BY <2>1, <2>a, <2>b, <3>1 DEF NotChosen, Clean, Unsaved, NoEntries
      <3>2. CASE ~(y = p /\ x = q)
        <4>1. NotChosen(y, x)
          BY <2>1, <2>4, <3>2 DEF Inv, TypeOK
        <4>2. Clean(y, x) => Clean(y, x)'
          BY <2>1, <2>a, <2>b DEF Clean
        <4>3. Confirming(x, y)' => Confirming(x, y)
          BY <2>1 DEF Confirming, Inv, TypeOK, Idle
        <4>4. Holds(x, y)' => Holds(x, y)
          BY <2>1, <2>a, <2>b DEF Holds
        <4>5. Requesting(x, y) => Requesting(x, y)'
          BY <2>1 DEF Requesting, Inv, TypeOK
        <4> QED
          BY <2>1, <2>a, <2>b, <3>2, <4>1, <4>2, <4>3, <4>4, <4>5 DEF NotChosen
      <3> QED
        BY <3>1, <3>2
    <2> QED
      BY <2>2, <2>3, <2>4 DEF Inv
  <1>5. CASE AcceptPut(p)
    <2> DEFINE q == todo[p].who
    <2>1. /\ q \in Chars /\ where[p] = "here" /\ copy[p] = NoEntries /\ q \in said[p]
          /\ todo[p].op \in {"accept", "acceptOffline"} /\ UNCHANGED <<rest, said>>
          /\ Put(p, q, "buddy", todo[p].op = "accept")
          /\ todo'[p] \in {Idle, [op |-> "accepted", who |-> q]}
          /\ todo'[p] # Idle => todo[p].op = "accept"
          /\ \A x \in Chars \ {p} : todo'[x] = todo[x]
      BY <1>5, Working DEF AcceptPut, Adds, Goes, Idle, Inv, TypeOK
    <2> HIDE DEF q
    <2>a. /\ \A x, y \in Chars :
                /\ list'[x][y] = IF x = p /\ y = q THEN "buddy" ELSE list[x][y]
                /\ changed'[x] <=> x = p \/ changed[x]
      BY <2>1, PutAt DEF Inv
    <2>b. \A x \in Chars : Unsaved(x)' <=> x = p \/ Unsaved(x)
      BY <2>1, <2>a DEF Inv, TypeOK, Unsaved, rest
    <2>2. ASSUME NEW x \in Chars
          PROVE  (InPlace(x) /\ Asked(x))'
      BY <2>1 DEF Inv, InPlace, Asked, Idle, Adds, Asks, rest
    <2>3. ASSUME NEW x \in Chars, NEW y \in Chars
          PROVE  CarriedOn(x, y)'
      BY <2>1, <2>a DEF Inv, CarriedOn, rest
    <2>4. ASSUME NEW x \in Chars, NEW y \in Chars, x \notin said'[y]
          PROVE  NotChosen(y, x)'
      <3>1. NotChosen(y, x) /\ ~(y = p /\ x = q)
        BY <2>1, <2>4 DEF Inv
      <3>2. Clean(y, x) => Clean(y, x)'
        BY <2>1, <2>a, <2>b, <3>1 DEF Clean, rest
      <3>3. Confirming(x, y)' => Confirming(x, y)
        BY <2>1 DEF Confirming, Idle, q
      <3>4. Holds(x, y)' => Holds(x, y)
        BY <2>1, <2>a, <2>b DEF Holds, rest
      <3>5. Requesting(x, y) => Requesting(x, y)'
        BY <2>1 DEF Requesting
      <3> QED
        BY <2>1, <2>a, <2>b, <3>1, <3>2, <3>3, <3>4, <3>5 DEF NotChosen, rest
    <2> QED
      BY <2>2, <2>3, <2>4 DEF Inv
  <1> QED
    BY <1>1, <1>2, <1>3, <1>4, <1>5 DEF Answering

LEMMA ComingKeeps ==
  ASSUME Inv, NEW p \in Chars, Coming(p), TypeOK'
  PROVE  Inv'
  <1>1. CASE Load(p)
    <2>1. ASSUME NEW x \in Chars
          PROVE  (InPlace(x) /\ Asked(x))'
      BY <1>1, TaskTypes DEF Load, Moves, Fresh, Inv, TypeOK, InPlace, Asked, Idle, Adds, Asks
    <2>2. ASSUME NEW x \in Chars, NEW y \in Chars
          PROVE  CarriedOn(x, y)'
      BY <1>1, TaskTypes DEF Load, Moves, Fresh, Inv, TypeOK, InPlace, CarriedOn,
         Entries, NoEntries
    <2>3. ASSUME NEW x \in Chars, NEW y \in Chars, x \notin said'[y]
          PROVE  NotChosen(y, x)'
      BY <1>1, <2>3, TaskTypes DEF Load, Moves, Fresh, Inv, TypeOK, InPlace, Asked,
         NotChosen, Holds, Clean,
         Requesting, Confirming, Unsaved, Entries, NoEntries, Idle, Adds, Asks
    <2> QED
      BY <2>1, <2>2, <2>3 DEF Inv
  <1>2. CASE Arrive(p)
    <2>1. ASSUME NEW x \in Chars
          PROVE  (InPlace(x) /\ Asked(x))'
      BY <1>2, TaskTypes DEF Arrive, Moves, Fresh, Inv, TypeOK, InPlace, Asked, Idle,
         Adds, Asks
    <2>2. ASSUME NEW x \in Chars, NEW y \in Chars
          PROVE  CarriedOn(x, y)'
      BY <1>2, TaskTypes DEF Arrive, Moves, Fresh, Inv, TypeOK, InPlace, CarriedOn,
         Entries, NoEntries
    <2>3. ASSUME NEW x \in Chars, NEW y \in Chars, x \notin said'[y]
          PROVE  NotChosen(y, x)'
      BY <1>2, <2>3, TaskTypes DEF Arrive, Moves, Fresh, Inv, TypeOK, InPlace, Asked,
         NotChosen, Holds, Clean,
         Requesting, Confirming, Unsaved, Entries, NoEntries, Idle, Adds, Asks
    <2> QED
      BY <2>1, <2>2, <2>3 DEF Inv
  <1>3. CASE ArriveAtShop(p)
    <2>1. ASSUME NEW x \in Chars
          PROVE  (InPlace(x) /\ Asked(x))'
      BY <1>3, TaskTypes DEF ArriveAtShop, Moves, Inv, TypeOK, InPlace, Asked, Idle,
         Adds, Asks
    <2>2. ASSUME NEW x \in Chars, NEW y \in Chars
          PROVE  CarriedOn(x, y)'
      BY <1>3, TaskTypes DEF ArriveAtShop, Moves, Inv, TypeOK, InPlace, CarriedOn,
         Entries, NoEntries
    <2>3. ASSUME NEW x \in Chars, NEW y \in Chars, x \notin said'[y]
          PROVE  NotChosen(y, x)'
      BY <1>3, <2>3, TaskTypes DEF ArriveAtShop, Moves, Inv, TypeOK, InPlace, Asked,
         NotChosen, Holds, Clean,
         Requesting, Confirming, Unsaved, Entries, NoEntries, Idle, Adds, Asks
    <2> QED
      BY <2>1, <2>2, <2>3 DEF Inv
  <1>4. CASE Enter(p)
    <2>1. ASSUME NEW x \in Chars
          PROVE  (InPlace(x) /\ Asked(x))'
      BY <1>4, TaskTypes DEF Enter, Moves, lists, Inv, TypeOK, InPlace, Asked, Idle,
         Adds, Asks
    <2>2. ASSUME NEW x \in Chars, NEW y \in Chars
          PROVE  CarriedOn(x, y)'
      BY <1>4, TaskTypes DEF Enter, Moves, lists, Inv, TypeOK, InPlace, CarriedOn,
         Entries, NoEntries
    <2>3. ASSUME NEW x \in Chars, NEW y \in Chars, x \notin said'[y]
          PROVE  NotChosen(y, x)'
      BY <1>4, <2>3, TaskTypes DEF Enter, Moves, lists, Inv, TypeOK, InPlace, Asked,
         NotChosen, Holds, Clean,
         Requesting, Confirming, Unsaved, Entries, NoEntries, Idle, Adds, Asks
    <2> QED
      BY <2>1, <2>2, <2>3 DEF Inv
  <1>5. CASE Announce(p)
    <2>1. ASSUME NEW x \in Chars
          PROVE  (InPlace(x) /\ Asked(x))'
      BY <1>5, TaskTypes DEF Announce, Moves, Inv, TypeOK, InPlace, Asked, Idle, Adds, Asks
    <2>2. ASSUME NEW x \in Chars, NEW y \in Chars
          PROVE  CarriedOn(x, y)'
      BY <1>5, TaskTypes DEF Announce, Moves, Inv, TypeOK, InPlace, CarriedOn, Entries,
         NoEntries
    <2>3. ASSUME NEW x \in Chars, NEW y \in Chars, x \notin said'[y]
          PROVE  NotChosen(y, x)'
      BY <1>5, <2>3, TaskTypes DEF Announce, Moves, Inv, TypeOK, InPlace, Asked,
         NotChosen, Holds, Clean,
         Requesting, Confirming, Unsaved, Entries, NoEntries, Idle, Adds, Asks
    <2> QED
      BY <2>1, <2>2, <2>3 DEF Inv
  <1>6. CASE Look(p)
    <2>1. ASSUME NEW x \in Chars
          PROVE  (InPlace(x) /\ Asked(x))'
      BY <1>6, TaskTypes DEF Look, Goes, lists, rest, Inv, TypeOK, InPlace, Asked,
         Idle, Adds, Asks
    <2>2. ASSUME NEW x \in Chars, NEW y \in Chars
          PROVE  CarriedOn(x, y)'
      BY <1>6, TaskTypes DEF Look, Goes, lists, rest, Inv, TypeOK, InPlace, CarriedOn,
         Entries, NoEntries
    <2>3. ASSUME NEW x \in Chars, NEW y \in Chars, x \notin said'[y]
          PROVE  NotChosen(y, x)'
      BY <1>6, <2>3, TaskTypes DEF Look, Goes, lists, rest, Inv, TypeOK, InPlace,
         Asked, NotChosen, Holds, Clean,
         Requesting, Confirming, Unsaved, Entries, NoEntries, Idle, Adds, Asks
    <2> QED
      BY <2>1, <2>2, <2>3 DEF Inv
  <1>7. CASE See(p)
    <2>1. ASSUME NEW x \in Chars
          PROVE  (InPlace(x) /\ Asked(x))'
      BY <1>7, TaskTypes DEF See, Moves, Goes, Inv, TypeOK, InPlace, Asked, Idle, Adds, Asks
    <2>2. ASSUME NEW x \in Chars, NEW y \in Chars
          PROVE  CarriedOn(x, y)'
      BY <1>7, TaskTypes DEF See, Moves, Goes, Inv, TypeOK, InPlace, CarriedOn,
         Entries, NoEntries
    <2>3. ASSUME NEW x \in Chars, NEW y \in Chars, x \notin said'[y]
          PROVE  NotChosen(y, x)'
      BY <1>7, <2>3, TaskTypes DEF See, Moves, Goes, Inv, TypeOK, InPlace, Asked,
         NotChosen, Holds, Clean,
         Requesting, Confirming, Unsaved, Entries, NoEntries, Idle, Adds, Asks
    <2> QED
      BY <2>1, <2>2, <2>3 DEF Inv
  <1> QED
    BY <1>1, <1>2, <1>3, <1>4, <1>5, <1>6, <1>7 DEF Coming

LEMMA GoingKeeps ==
  ASSUME Inv, NEW p \in Chars, Going(p), TypeOK'
  PROVE  Inv'
  <1>1. CASE Depart(p)
    <2>1. ASSUME NEW x \in Chars
          PROVE  (InPlace(x) /\ Asked(x))'
      BY <1>1, TaskTypes DEF Depart, Ready, Moves, lists, Inv, TypeOK, InPlace, Asked,
         Idle, Adds, Asks
    <2>2. ASSUME NEW x \in Chars, NEW y \in Chars
          PROVE  CarriedOn(x, y)'
      BY <1>1, TaskTypes DEF Depart, Ready, Moves, lists, Inv, TypeOK, InPlace,
         CarriedOn, Entries, NoEntries
    <2>3. ASSUME NEW x \in Chars, NEW y \in Chars, x \notin said'[y]
          PROVE  NotChosen(y, x)'
      BY <1>1, <2>3, TaskTypes DEF Depart, Ready, Moves, lists, Inv, TypeOK, InPlace,
         Asked, NotChosen, Holds, Clean,
         Requesting, Confirming, Unsaved, Entries, NoEntries, Idle, Adds, Asks
    <2> QED
      BY <2>1, <2>2, <2>3 DEF Inv
  <1>2. CASE Withdraw(p)
    <2>a. \A x, y \in Chars :
             /\ x # p => rows'[x][y] = rows[x][y] /\ changed'[x] = changed[x]
             /\ rows'[p][y] = list[p][y] \/ (~changed[p] /\ rows'[p][y] = rows[p][y])
             /\ ~changed'[p]
      BY <1>2, SavedAt DEF Inv, Withdraw
    <2>b. \A x \in Chars : Unsaved(x)' <=> x # p /\ Unsaved(x)
      BY <1>2, <2>a DEF Withdraw, Moves, Inv, TypeOK, Unsaved
    <2>1. ASSUME NEW x \in Chars
          PROVE  (InPlace(x) /\ Asked(x))'
      BY <1>2, TaskTypes DEF Withdraw, Moves, Gone, Saved, Inv, TypeOK, InPlace, Asked,
         Idle, Adds, Asks
    <2>2. ASSUME NEW x \in Chars, NEW y \in Chars
          PROVE  CarriedOn(x, y)'
      BY <1>2, TaskTypes DEF Withdraw, Moves, Gone, Saved, Inv, TypeOK, InPlace,
         CarriedOn, Entries, NoEntries
    <2>3. ASSUME NEW x \in Chars, NEW y \in Chars, x \notin said'[y]
          PROVE  NotChosen(y, x)'
      <3>1. NotChosen(y, x)
        BY <1>2, <2>3, <2>a, <2>b DEF Withdraw, Moves, Gone, Inv
      <3>2. Clean(y, x) => Clean(y, x)'
        BY <1>2, <2>3, <2>a, <2>b DEF Withdraw, Moves, Gone, Clean, Inv, TypeOK,
           NoEntries, Unsaved
      <3>3. Confirming(x, y)' => Confirming(x, y)
        BY <1>2, <2>3, <2>a, <2>b DEF Withdraw, Moves, Gone, Confirming
      <3>4. Holds(x, y)' => Holds(x, y)
        <4>1. CASE x = p
          <5>1. list[p][y] \in Entries
            BY DEF Inv, TypeOK
          <5>2. rows'[p][y] \in {"request", "both"} =>
                      list[p][y] = "request" \/ (rows'[p][y] = rows[p][y] /\ ~Unsaved(p))
            BY <2>a, <5>1 DEF Entries, Unsaved
          <5>3. list'[p][y] \in {"none", list[p][y]} /\ copy' = copy
            BY <1>2, <4>1 DEF Withdraw, Moves, Gone, Inv, TypeOK, NoEntries
          <5> QED
            BY <4>1, <5>2, <5>3 DEF Holds
        <4>2. CASE x # p
          BY <1>2, <2>a, <2>b, <4>2 DEF Withdraw, Moves, Gone, Holds, Inv, TypeOK,
             Entries, NoEntries, Unsaved
        <4> QED
          BY <4>1, <4>2
      <3>5. Requesting(x, y) => Requesting(x, y)'
        BY <1>2, <2>3, <2>a, <2>b DEF Withdraw, Moves, Gone, Requesting
      <3>6. /\ list'[y][x] # "buddy" /\ copy'[y][x] # "buddy"
            /\ rows'[y][x] \in {"buddy", "both"} => Unsaved(y)'
        <4>1. CASE y = p
          <5>1. list[p][x] \in Entries
            BY DEF Inv, TypeOK
          <5>2. rows'[p][x] \notin {"buddy", "both"}
            BY <2>a, <3>1, <4>1, <5>1 DEF NotChosen, Entries, Unsaved
          <5>3. list'[p][x] # "buddy" /\ copy' = copy
            BY <1>2, <3>1, <4>1 DEF Withdraw, Moves, Gone, NotChosen, Inv, TypeOK,
               NoEntries
          <5> QED
            BY <3>1, <4>1, <5>2, <5>3 DEF NotChosen
        <4>2. CASE y # p
          BY <1>2, <2>a, <2>b, <3>1, <4>2 DEF Withdraw, Moves, Gone, NotChosen, Inv,
             TypeOK, Entries, NoEntries, Unsaved
        <4> QED
          BY <4>1, <4>2
      <3> QED
        BY <3>1, <3>2, <3>3, <3>4, <3>5, <3>6 DEF NotChosen
    <2> QED
      BY <2>1, <2>2, <2>3 DEF Inv
  <1>3. CASE LeaveShop(p)
    <2>1. ASSUME NEW x \in Chars
          PROVE  (InPlace(x) /\ Asked(x))'
      BY <1>3, TaskTypes DEF LeaveShop, Moves, Gone, Inv, TypeOK, InPlace, Asked, Idle,
         Adds, Asks
    <2>2. ASSUME NEW x \in Chars, NEW y \in Chars
          PROVE  CarriedOn(x, y)'
      BY <1>3, TaskTypes DEF LeaveShop, Moves, Gone, Inv, TypeOK, InPlace, CarriedOn,
         Entries, NoEntries
    <2>3. ASSUME NEW x \in Chars, NEW y \in Chars, x \notin said'[y]
          PROVE  NotChosen(y, x)'
      BY <1>3, <2>3, TaskTypes DEF LeaveShop, Moves, Gone, Inv, TypeOK, InPlace, Asked,
         NotChosen, Holds, Clean,
         Requesting, Confirming, Unsaved, Entries, NoEntries, Idle, Adds, Asks
    <2> QED
      BY <2>1, <2>2, <2>3 DEF Inv
  <1>4. CASE Lose(p)
    <2>1. ASSUME NEW x \in Chars
          PROVE  (InPlace(x) /\ Asked(x))'
      BY <1>4, TaskTypes DEF Lose, Moves, lists, Inv, TypeOK, InPlace, Asked, Idle, Adds, Asks
    <2>2. ASSUME NEW x \in Chars, NEW y \in Chars
          PROVE  CarriedOn(x, y)'
      BY <1>4, TaskTypes DEF Lose, Moves, lists, Inv, TypeOK, InPlace, CarriedOn,
         Entries, NoEntries
    <2>3. ASSUME NEW x \in Chars, NEW y \in Chars, x \notin said'[y]
          PROVE  NotChosen(y, x)'
      BY <1>4, <2>3, TaskTypes DEF Lose, Moves, lists, Inv, TypeOK, InPlace, Asked,
         NotChosen, Holds, Clean,
         Requesting, Confirming, Unsaved, Entries, NoEntries, Idle, Adds, Asks
    <2> QED
      BY <2>1, <2>2, <2>3 DEF Inv
  <1>5. CASE Disconnect(p)
    <2>a. \A x, y \in Chars :
             /\ x # p => rows'[x][y] = rows[x][y] /\ changed'[x] = changed[x]
             /\ rows'[p][y] = list[p][y] \/ (~changed[p] /\ rows'[p][y] = rows[p][y])
             /\ ~changed'[p]
      BY <1>5, SavedAt DEF Inv, Disconnect
    <2>b. \A x \in Chars : Unsaved(x)' <=> x # p /\ Unsaved(x)
      BY <1>5, <2>a DEF Disconnect, Ready, Moves, Inv, TypeOK, Unsaved
    <2>1. ASSUME NEW x \in Chars
          PROVE  (InPlace(x) /\ Asked(x))'
      BY <1>5, TaskTypes DEF Disconnect, Ready, Moves, Saved, Inv, TypeOK, InPlace,
         Asked, Idle, Adds, Asks
    <2>2. ASSUME NEW x \in Chars, NEW y \in Chars
          PROVE  CarriedOn(x, y)'
      BY <1>5, TaskTypes DEF Disconnect, Ready, Moves, Saved, Inv, TypeOK, InPlace,
         CarriedOn, Entries, NoEntries
    <2>3. ASSUME NEW x \in Chars, NEW y \in Chars, x \notin said'[y]
          PROVE  NotChosen(y, x)'
      <3>1. NotChosen(y, x)
        BY <1>5, <2>3, <2>a, <2>b DEF Disconnect, Ready, Moves, Inv
      <3>2. Clean(y, x) => Clean(y, x)'
        <4>1. CASE y = p
          BY <1>5, <2>a, <2>b, <4>1 DEF Disconnect, Ready, Moves, Clean, Inv, TypeOK,
             NoEntries, Unsaved
        <4>2. CASE y # p
          BY <1>5, <2>a, <2>b, <4>2 DEF Disconnect, Ready, Moves, Clean, Inv, TypeOK,
             NoEntries, Unsaved
        <4> QED
          BY <4>1, <4>2
      <3>3. Confirming(x, y)' => Confirming(x, y)
        BY <1>5, <2>3, <2>a, <2>b DEF Disconnect, Ready, Moves, Confirming
      <3>4. Holds(x, y)' => Holds(x, y)
        <4>1. CASE x = p
          <5>1. list[p][y] \in Entries
            BY DEF Inv, TypeOK
          <5>2. rows'[p][y] \in {"request", "both"} =>
                      list[p][y] = "request" \/ (rows'[p][y] = rows[p][y] /\ ~Unsaved(p))
            BY <2>a, <5>1 DEF Entries, Unsaved
          <5>3. list'[p][y] \in {"none", list[p][y]} /\ copy' = copy
            BY <1>5, <4>1 DEF Disconnect, Ready, Moves, Inv, TypeOK, NoEntries
          <5> QED
            BY <4>1, <5>2, <5>3 DEF Holds
        <4>2. CASE x # p
          BY <1>5, <2>a, <2>b, <4>2 DEF Disconnect, Ready, Moves, Holds, Inv, TypeOK,
             Entries, NoEntries, Unsaved
        <4> QED
          BY <4>1, <4>2
      <3>5. Requesting(x, y) => Requesting(x, y)'
        BY <1>5, <2>3, <2>a, <2>b DEF Disconnect, Ready, Moves, Requesting
      <3>6. /\ list'[y][x] # "buddy" /\ copy'[y][x] # "buddy"
            /\ rows'[y][x] \in {"buddy", "both"} => Unsaved(y)'
        <4>1. CASE y = p
          <5>1. list[p][x] \in Entries
            BY DEF Inv, TypeOK
          <5>2. rows'[p][x] \notin {"buddy", "both"}
            BY <2>a, <3>1, <4>1, <5>1 DEF NotChosen, Entries, Unsaved
          <5>3. list'[p][x] # "buddy" /\ copy' = copy
            BY <1>5, <3>1, <4>1 DEF Disconnect, Ready, Moves, NotChosen, Inv, TypeOK,
               NoEntries
          <5> QED
            BY <3>1, <4>1, <5>2, <5>3 DEF NotChosen
        <4>2. CASE y # p
          BY <1>5, <2>a, <2>b, <3>1, <4>2 DEF Disconnect, Ready, Moves, NotChosen, Inv,
             TypeOK, Entries, NoEntries, Unsaved
        <4> QED
          BY <4>1, <4>2
      <3> QED
        BY <3>1, <3>2, <3>3, <3>4, <3>5, <3>6 DEF NotChosen
    <2> QED
      BY <2>1, <2>2, <2>3 DEF Inv
  <1>6. CASE SignOff(p)
    <2>1. ASSUME NEW x \in Chars
          PROVE  (InPlace(x) /\ Asked(x))'
      BY <1>6, TaskTypes DEF SignOff, Moves, Inv, TypeOK, InPlace, Asked, Idle, Adds, Asks
    <2>2. ASSUME NEW x \in Chars, NEW y \in Chars
          PROVE  CarriedOn(x, y)'
      BY <1>6, TaskTypes DEF SignOff, Moves, Inv, TypeOK, InPlace, CarriedOn, Entries,
         NoEntries
    <2>3. ASSUME NEW x \in Chars, NEW y \in Chars, x \notin said'[y]
          PROVE  NotChosen(y, x)'
      BY <1>6, <2>3, TaskTypes DEF SignOff, Moves, Inv, TypeOK, InPlace, Asked,
         NotChosen, Holds, Clean,
         Requesting, Confirming, Unsaved, Entries, NoEntries, Idle, Adds, Asks
    <2> QED
      BY <2>1, <2>2, <2>3 DEF Inv
  <1>7. CASE Close(p)
    <2>1. ASSUME NEW x \in Chars
          PROVE  (InPlace(x) /\ Asked(x))'
      BY <1>7, TaskTypes DEF Close, Moves, Gone, Inv, TypeOK, InPlace, Asked, Idle, Adds, Asks
    <2>2. ASSUME NEW x \in Chars, NEW y \in Chars
          PROVE  CarriedOn(x, y)'
      BY <1>7, TaskTypes DEF Close, Moves, Gone, Inv, TypeOK, InPlace, CarriedOn,
         Entries, NoEntries
    <2>3. ASSUME NEW x \in Chars, NEW y \in Chars, x \notin said'[y]
          PROVE  NotChosen(y, x)'
      BY <1>7, <2>3, TaskTypes DEF Close, Moves, Gone, Inv, TypeOK, InPlace, Asked,
         NotChosen, Holds, Clean,
         Requesting, Confirming, Unsaved, Entries, NoEntries, Idle, Adds, Asks
    <2> QED
      BY <2>1, <2>2, <2>3 DEF Inv
  <1>8. CASE DisconnectInShop(p)
    <2>1. ASSUME NEW x \in Chars
          PROVE  (InPlace(x) /\ Asked(x))'
      BY <1>8, TaskTypes DEF DisconnectInShop, Moves, Inv, TypeOK, InPlace, Asked,
         Idle, Adds, Asks
    <2>2. ASSUME NEW x \in Chars, NEW y \in Chars
          PROVE  CarriedOn(x, y)'
      BY <1>8, TaskTypes DEF DisconnectInShop, Moves, Inv, TypeOK, InPlace, CarriedOn,
         Entries, NoEntries
    <2>3. ASSUME NEW x \in Chars, NEW y \in Chars, x \notin said'[y]
          PROVE  NotChosen(y, x)'
      BY <1>8, <2>3, TaskTypes DEF DisconnectInShop, Moves, Inv, TypeOK, InPlace,
         Asked, NotChosen, Holds, Clean,
         Requesting, Confirming, Unsaved, Entries, NoEntries, Idle, Adds, Asks
    <2> QED
      BY <2>1, <2>2, <2>3 DEF Inv
  <1> QED
    BY <1>1, <1>2, <1>3, <1>4, <1>5, <1>6, <1>7, <1>8 DEF Going

LEMMA SaveKeeps ==
  ASSUME Inv, NEW p \in Chars, Save(p), TypeOK'
  PROVE  Inv'
  <1>a. \A x, y \in Chars :
           /\ x # p => rows'[x][y] = rows[x][y] /\ changed'[x] = changed[x]
           /\ rows'[p][y] = list[p][y] \/ (~changed[p] /\ rows'[p][y] = rows[p][y])
           /\ ~changed'[p]
    BY SavedAt DEF Inv, Save
  <1>b. \A x \in Chars : Unsaved(x)' <=> x # p /\ Unsaved(x)
    BY <1>a DEF Save, Inv, TypeOK, Unsaved
  <1>1. ASSUME NEW x \in Chars
        PROVE  (InPlace(x) /\ Asked(x))'
    BY TaskTypes DEF Save, Saved, Found, Inv, TypeOK, InPlace, Asked, Idle, Adds, Asks
  <1>2. ASSUME NEW x \in Chars, NEW y \in Chars
        PROVE  CarriedOn(x, y)'
    <2>1. CASE x = p
      BY <1>a, <2>1 DEF Save, Found, OnChannel, Inv, TypeOK, CarriedOn, Entries
    <2>2. CASE x # p
      BY <1>a, <2>2 DEF Save, Found, OnChannel, Inv, TypeOK, CarriedOn, Entries
    <2> QED
      BY <2>1, <2>2
  <1>3. ASSUME NEW x \in Chars, NEW y \in Chars, x \notin said'[y]
        PROVE  NotChosen(y, x)'
    <2>1. NotChosen(y, x)
      BY <1>3, <1>a, <1>b DEF Save, Inv
    <2>2. Clean(y, x) => Clean(y, x)'
      <3>1. list' = list /\ copy' = copy
        BY DEF Save
      <3>2. CASE y = p
        <4>1. rows'[y][x] = list[y][x] \/ (~Unsaved(y) /\ rows'[y][x] = rows[y][x])
          BY <1>a, <3>2 DEF Unsaved
        <4> QED
          BY <3>1, <4>1 DEF Clean
      <3>3. CASE y # p
        BY <1>a, <1>b, <3>1, <3>3 DEF Clean
      <3> QED
        BY <3>2, <3>3
    <2>3. Confirming(x, y)' => Confirming(x, y)
      BY <1>3, <1>a, <1>b DEF Save, Confirming
    <2>4. Holds(x, y)' => Holds(x, y)
      <3>1. CASE x = p
        <4>1. list[p][y] \in Entries
          BY DEF Inv, TypeOK
        <4>2. rows'[p][y] \in {"request", "both"} =>
                      list[p][y] = "request" \/ (rows'[p][y] = rows[p][y] /\ ~Unsaved(p))
          BY <1>a, <4>1 DEF Entries, Unsaved
        <4>3. list'[p][y] \in {"none", list[p][y]} /\ copy' = copy
          BY <3>1 DEF Save, Inv, TypeOK, NoEntries
        <4> QED
          BY <3>1, <4>2, <4>3 DEF Holds
      <3>2. CASE x # p
        BY <1>a, <1>b, <3>2 DEF Save, Holds, Inv, TypeOK, Entries, NoEntries, Unsaved
      <3> QED
        BY <3>1, <3>2
    <2>5. Requesting(x, y) => Requesting(x, y)'
      BY <1>3, <1>a, <1>b DEF Save, Requesting
    <2>6. /\ list'[y][x] # "buddy" /\ copy'[y][x] # "buddy"
          /\ rows'[y][x] \in {"buddy", "both"} => Unsaved(y)'
      <3>1. CASE y = p
        <4>1. list[p][x] \in Entries
          BY DEF Inv, TypeOK
        <4>2. rows'[p][x] \notin {"buddy", "both"}
          BY <1>a, <2>1, <3>1, <4>1 DEF NotChosen, Entries, Unsaved
        <4>3. list'[p][x] # "buddy" /\ copy' = copy
          BY <2>1, <3>1 DEF Save, NotChosen, Inv, TypeOK, NoEntries
        <4> QED
          BY <2>1, <3>1, <4>2, <4>3 DEF NotChosen
      <3>2. CASE y # p
        BY <1>a, <1>b, <2>1, <3>2 DEF Save, NotChosen, Inv, TypeOK, Entries, NoEntries,
           Unsaved
      <3> QED
        BY <3>1, <3>2
    <2> QED
      BY <2>1, <2>2, <2>3, <2>4, <2>5, <2>6 DEF NotChosen
  <1> QED
    BY <1>1, <1>2, <1>3 DEF Inv

LEMMA InvNext ==
  ASSUME Inv, [Next]_vars
  PROVE  Inv'
  <1>1. CASE UNCHANGED vars
    BY <1>1 DEF vars, lists, rest, Inv, TypeOK, InPlace, Asked, CarriedOn, NotChosen,
       Holds, Clean,
       Requesting, Confirming, Unsaved
  <1>2. TypeOK'
    BY TypesNext DEF Inv
  <1> QED
    BY <1>1, <1>2, AskingKeeps, AnsweringKeeps, ComingKeeps, GoingKeeps,
       SaveKeeps DEF Next

LEMMA InvInit ==
  ASSUME Init
  PROVE  Inv
  <1>1. TypeOK
    BY NoEntriesType, TaskIntro DEF Init, TypeOK, Places, NoEntries, Rows, Entries
  <1>2. ASSUME NEW p \in Chars, NEW q \in Chars
        PROVE  InPlace(p) /\ Asked(p) /\ CarriedOn(p, q) /\ NotChosen(q, p)
    BY DEF Init, NoEntries, Idle, Adds, Asks, InPlace, Asked, CarriedOn, NotChosen, Holds,
       Clean,
       Confirming
  <1> QED
    BY <1>1, <1>2 DEF Inv

LEMMA AlwaysInv == Spec => []Inv
  BY InvInit, InvNext, PTL DEF Spec

\* Nobody is a buddy on p's list whom p has not asked or accepted, or has deleted since,
\* although requests and answers of others, saves and transfers write to the list.
THEOREM BuddiesByChoice == Spec => []BuddyByChoice
  <1>1. Inv => BuddyByChoice
    BY DEF Inv, NotChosen, BuddyByChoice
  <1> QED
    BY <1>1, AlwaysInv, PTL

-----------------------------------------------------------------------------
(* What a step leaves of a list *)

LEMMA AskingLeaves ==
  ASSUME Inv, NEW p \in Chars, Asking(p), NEW x \in Chars, NEW y \in Chars, Kept(x, y)
  PROVE  Kept(x, y)'
  <1>1. ASSUME NEW q \in Chars, AskBegin(p, q)
        PROVE  Kept(x, y)'
    BY <1>1 DEF AskBegin, Goes, lists, rest, Kept, Inv, TypeOK, Adds, Asks
  <1>2. CASE AskOnline(p)
    <2>1. todo[p].who \in Chars /\ UNCHANGED rest
      BY <1>2, Working DEF AskOnline, Adds, Asks
    <2>2. CASE UNCHANGED lists
      BY <2>1, <2>2 DEF lists, rest, Kept
    <2>3. CASE Put(todo[p].who, p, "request", TRUE)
      BY <2>1, <2>3 DEF Put, rest, Kept, Inv, TypeOK
    <2> QED
      BY <1>2, <2>2, <2>3 DEF AskOnline
  <1>3. CASE AskOffline(p)
    BY <1>3, TaskTypes DEF AskOffline, lists, rest, Kept, Inv, TypeOK, Adds, Asks
  <1>4. CASE AskInsert(p)
    BY <1>4, TaskTypes DEF AskInsert, lists, Kept, Inv, TypeOK, Adds, Asks
  <1>5. CASE AskNotify(p)
    <2>1. todo[p].who \in Chars /\ UNCHANGED rest
      BY <1>5, Working DEF AskNotify, Adds, Asks
    <2>2. CASE UNCHANGED lists
      BY <2>1, <2>2 DEF lists, rest, Kept
    <2>3. CASE Put(todo[p].who, p, "buddy", TRUE)
      BY <2>1, <2>3 DEF Put, rest, Kept, Inv, TypeOK
    <2> QED
      BY <1>5, <2>2, <2>3 DEF AskNotify, Added
  <1>6. CASE AskPut(p)
    BY <1>6, TaskTypes DEF AskPut, Put, rest, Kept, Inv, TypeOK, Adds, Asks
  <1> QED
    BY <1>1, <1>2, <1>3, <1>4, <1>5, <1>6 DEF Asking

LEMMA AnsweringLeaves ==
  ASSUME Inv, NEW p \in Chars, Answering(p), NEW x \in Chars, NEW y \in Chars, Kept(x, y)
  PROVE  Kept(x, y)' \/ todo[x] = [op |-> "delete", who |-> y]
  <1>1. ASSUME NEW q \in Chars, Accept(p, q)
        PROVE  Kept(x, y)'
    BY <1>1 DEF Accept, lists, rest, Kept
  <1>2. ASSUME NEW q \in Chars, DeleteBegin(p, q)
        PROVE  Kept(x, y)'
    BY <1>2 DEF DeleteBegin, Deleted, Put, lists, rest, Kept, Inv, TypeOK, Adds, Asks
  <1>3. CASE AcceptNotify(p)
    <2>1. todo[p].who \in Chars /\ UNCHANGED rest
      BY <1>3, Working DEF AcceptNotify, Adds, Asks
    <2>2. CASE UNCHANGED lists
      BY <2>1, <2>2 DEF lists, rest, Kept
    <2>3. CASE Put(todo[p].who, p, "buddy", TRUE)
      BY <2>1, <2>3 DEF Put, rest, Kept, Inv, TypeOK
    <2> QED
      BY <1>3, <2>2, <2>3 DEF AcceptNotify, Added
  <1>4. CASE DeleteEnd(p)
    <2>1. /\ todo[p].who \in Chars
          /\ todo[p] = [op |-> "delete", who |-> todo[p].who]
      BY <1>4, TaskTypes DEF DeleteEnd, Inv
    <2>2. Put(p, todo[p].who, "none", FALSE) /\ UNCHANGED <<copy, rows, where>>
      BY <1>4 DEF DeleteEnd, rest
    <2>3. CASE x = p /\ y = todo[p].who
      BY <2>1, <2>3
    <2>4. CASE ~(x = p /\ y = todo[p].who)
      BY <2>1, <2>2, <2>4 DEF Put, Kept, Inv, TypeOK
    <2> QED
      BY <2>3, <2>4
  <1>5. CASE AcceptPut(p)
    BY <1>5, TaskTypes DEF AcceptPut, Put, rest, Kept, Inv, TypeOK, Adds
  <1> QED
    BY <1>1, <1>2, <1>3, <1>4, <1>5 DEF Answering

LEMMA ComingLeaves ==
  ASSUME Inv, NEW p \in Chars, Coming(p), NEW x \in Chars, NEW y \in Chars, Kept(x, y)
  PROVE  Kept(x, y)'
  <1>1. CASE Load(p)
    <2>1. PICK entries \in [Chars -> Entries] :
             /\ \A q \in Chars : \/ entries[q] = rows[p][q]
                                 \/ rows[p][q] = "both" /\ entries[q] \in {"request", "buddy"}
             /\ Fresh(p, entries)
      BY <1>1 DEF Load
    <2>2. list' = [list EXCEPT ![p] = entries] /\ (entries[y] # "none" \/ rows[p][y] = "none")
      BY <2>1 DEF Fresh
    <2>3. where[p] = "off" /\ where' = [where EXCEPT ![p] = "loaded"] /\ UNCHANGED <<copy, rows>>
      BY <1>1 DEF Load, Moves
    <2> QED
      BY <2>1, <2>2, <2>3 DEF Fresh, Kept, Inv, TypeOK
  <1>2. CASE Arrive(p)
    BY <1>2 DEF Arrive, Moves, Fresh, Kept, Inv, TypeOK, InPlace, CarriedOn, NoEntries
  <1>3. CASE ArriveAtShop(p)
    BY <1>3 DEF ArriveAtShop, Moves, Kept, Inv, TypeOK, InPlace, CarriedOn, NoEntries
  <1>4. CASE Enter(p)
    BY <1>4 DEF Enter, Moves, lists, Kept, Inv, TypeOK, InPlace, CarriedOn, NoEntries
  <1>5. CASE Announce(p)
    BY <1>5 DEF Announce, Moves, Kept, Inv, TypeOK, InPlace, CarriedOn, NoEntries
  <1>6. CASE Look(p)
    BY <1>6 DEF Look, lists, rest, Kept, Inv, TypeOK, InPlace, CarriedOn, NoEntries
  <1>7. CASE See(p)
    BY <1>7 DEF See, Moves, Kept, Inv, TypeOK, InPlace, CarriedOn, NoEntries
  <1> QED
    BY <1>1, <1>2, <1>3, <1>4, <1>5, <1>6, <1>7 DEF Coming

LEMMA GoingLeaves ==
  ASSUME Inv, NEW p \in Chars, Going(p), NEW x \in Chars, NEW y \in Chars, Kept(x, y)
  PROVE  Kept(x, y)'
  <1>1. CASE Depart(p)
    BY <1>1 DEF Depart, Ready, Moves, lists, Kept, Inv, TypeOK, InPlace, CarriedOn,
       NoEntries
  <1>2. CASE Withdraw(p)
    BY <1>2 DEF Withdraw, Moves, Gone, Saved, Kept, Inv, TypeOK, InPlace, CarriedOn,
       NoEntries
  <1>3. CASE LeaveShop(p)
    BY <1>3 DEF LeaveShop, Moves, Gone, Kept, Inv, TypeOK, InPlace, CarriedOn, NoEntries
  <1>4. CASE Lose(p)
    BY <1>4 DEF Lose, Moves, lists, Kept, Inv, TypeOK, InPlace, CarriedOn, NoEntries
  <1>5. CASE Disconnect(p)
    BY <1>5 DEF Disconnect, Ready, Moves, Saved, Kept, Inv, TypeOK, InPlace, CarriedOn,
       NoEntries
  <1>6. CASE SignOff(p)
    BY <1>6 DEF SignOff, Moves, Kept, Inv, TypeOK, InPlace, CarriedOn, NoEntries
  <1>7. CASE Close(p)
    BY <1>7 DEF Close, Moves, Gone, Kept, Inv, TypeOK, InPlace, CarriedOn, NoEntries
  <1>8. CASE DisconnectInShop(p)
    BY <1>8 DEF DisconnectInShop, Moves, Kept, Inv, TypeOK, InPlace, CarriedOn,
       NoEntries
  <1> QED
    BY <1>1, <1>2, <1>3, <1>4, <1>5, <1>6, <1>7, <1>8 DEF Going

LEMMA StepLeaves ==
  ASSUME Inv, [Next]_vars, NEW x \in Chars, NEW y \in Chars, Kept(x, y), ~Kept(x, y)'
  PROVE  todo[x] = [op |-> "delete", who |-> y]
  <1>1. CASE UNCHANGED vars
    BY <1>1 DEF vars, lists, rest, Kept
  <1>2. ASSUME NEW p \in Chars, Save(p)
        PROVE  Kept(x, y)'
    BY <1>2 DEF Save, Saved, Found, OnChannel, Kept, Inv, TypeOK, CarriedOn
  <1> QED
    BY <1>1, <1>2, AskingLeaves, AnsweringLeaves, ComingLeaves, GoingLeaves DEF Next

\* An entry of a list, a request included, is carried over every save, transfer,
\* disconnection and lost transfer; it goes only when the owner deletes it, for any number
\* of characters.
THEOREM EntriesStand == Spec => RequestStands
  <1>1. Inv /\ [Next]_vars =>
          [\A p, q \in Chars :
             Kept(p, q) /\ ~Kept(p, q)' => todo[p] = [op |-> "delete", who |-> q]]_vars
    BY StepLeaves
  <1> QED
    BY <1>1, AlwaysInv, PTL DEF Spec, RequestStands

-----------------------------------------------------------------------------
(* Seeing each other                                                       *)

Doing(p, ops, q) == todo[p].op \in ops /\ todo[p].who = q

\* Two requests are never answered both: of two characters who hold a request of each
\* other, one is about to put the other on his list.
Crossed(p, q) ==
    Holds(p, q) /\ Holds(q, p) => Requesting(p, q) \/ Requesting(q, p)
AnswerDue(p, q) ==
    Doing(p, {"accept", "accepted"}, q) => ~Holds(q, p) \/ Requesting(q, p)

\* p has looked who is there.
Looked(p) == where[p] = "here" \/ todo[p].op = "see"

\* q has p for a buddy, or will without p hearing of it.
Counted(q, p) ==
    \/ where[q] \in {"told", "here", "leaving"} /\ list[q][p] = "buddy"
    \/ Doing(q, {"askOffline", "insert", "put", "putOffline", "acceptOffline"}, p)

Sees(p, q) ==
    \/ q \in online[p] \cup blind[p]
    \/ todo[p].op = "see" /\ q \in todo[p].seen

\* The call that mends it is still to come.
Mending(p, q) == Doing(q, {"delete", "accepted"}, p) \/ Doing(p, {"put"}, q)

Sighted(p, q) ==
    Looked(p) /\ list[p][q] = "buddy" /\ Counted(q, p) => Sees(p, q) \/ Mending(p, q)

SeeingInv ==
    /\ Inv
    /\ \A p, q \in Chars : Crossed(p, q) /\ AnswerDue(p, q) /\ Sighted(p, q)

LEMMA OnChannelThen ==
  ASSUME Inv, NEW p \in Chars
  PROVE  /\ Looked(p) => Found(p)
         /\ \A q \in Chars : Counted(p, q) => Found(p)
         /\ todo[p].op = "see" => where[p] = "told"
         /\ todo[p].op \in Adds \cup {"accepted", "delete"} => where[p] = "here"
  <1>1. todo[p].op = "see" => where[p] = "told"
    BY TaskTypes DEF Inv, InPlace, Idle
  <1>2. todo[p].op \in Adds \cup {"accepted", "delete"} => where[p] = "here"
    BY Working
  <1> QED
    BY <1>1, <1>2 DEF Looked, Counted, Doing, Found, OnChannel, Adds, Asks

-----------------------------------------------------------------------------
(* Who comes to hold a request, and whose request is no longer on its way  *)

LEMMA PutHolds ==
  ASSUME Inv, NEW p \in Chars, NEW q \in Chars, NEW entry, NEW shown,
         Put(p, q, entry, shown), UNCHANGED rest, NEW x \in Chars, NEW y \in Chars
  PROVE  Holds(x, y)' => Holds(x, y) \/ (x = p /\ y = q /\ entry = "request")
  <1>1. /\ list'[x][y] = IF x = p /\ y = q THEN entry ELSE list[x][y]
        /\ changed[x] => changed'[x]
    BY PutAt DEF Inv
  <1>2. Unsaved(x) => Unsaved(x)'
    BY <1>1 DEF rest, Unsaved
  <1> QED
    BY <1>1, <1>2 DEF rest, Holds

LEMMA AskingHolds ==
  ASSUME Inv, NEW p \in Chars, Asking(p), NEW x \in Chars, NEW y \in Chars
  PROVE  /\ Holds(x, y)' => Holds(x, y) \/ Requesting(y, x)'
         /\ Requesting(x, y) => Requesting(x, y)' \/ ~Holds(x, y)'
  <1>1. ASSUME NEW q \in Chars, AskBegin(p, q)
        PROVE  /\ Holds(x, y)' => Holds(x, y) \/ Requesting(y, x)'
               /\ Requesting(x, y) => Requesting(x, y)' \/ ~Holds(x, y)'
    BY <1>1
    DEF AskBegin, Ready, Goes, lists, rest, Holds, Unsaved, Requesting, Inv, TypeOK, Idle
  <1>2. CASE AskOnline(p)
    <2> PICK q \in Chars : q = todo[p].who
      BY <1>2, Working DEF AskOnline, Adds, Asks
    <2>1. q \in Chars /\ UNCHANGED rest /\ todo[p].op = "ask"
      BY <1>2, Working DEF AskOnline, Adds, Asks
    <2>2. Requesting(x, y) => Requesting(x, y)'
      BY <1>2, <2>1 DEF AskOnline, Requesting, Goes, Inv, TypeOK
    <2>3. CASE UNCHANGED lists
      BY <2>1, <2>2, <2>3 DEF lists, rest, Holds, Unsaved
    <2>4. CASE Put(q, p, "request", TRUE) /\ Found(q) /\ ~IsFull(q) /\ list[q][p] = "none"
      <3>1. Requesting(p, q)'
        BY <1>2, <2>1, <2>4 DEF AskOnline, Goes, Requesting, Inv, TypeOK
      <3>2. CASE x = q /\ y = p
        BY <2>2, <3>1, <3>2
      <3>3. CASE ~(x = q /\ y = p)
        <4>1. Put(q, p, "request", TRUE) /\ UNCHANGED rest
          BY <2>1, <2>4
        <4>2. Holds(x, y)' => Holds(x, y) \/ (x = q /\ y = p /\ "request" = "request")
          BY <4>1, PutHolds, Zenon
        <4> QED
          BY <2>2, <3>3, <4>2
      <3> QED
        BY <3>2, <3>3
    <2> QED
      BY <1>2, <2>3, <2>4 DEF AskOnline
  <1>3. CASE AskOffline(p)
    BY <1>3, TaskTypes
    DEF AskOffline, Goes, lists, rest, Holds, Unsaved, Requesting, Inv, TypeOK
  <1>4. CASE AskInsert(p)
    <2> PICK q \in Chars : q = todo[p].who
      BY <1>4, Working DEF AskInsert, Adds, Asks
    <2>1. q \in Chars /\ UNCHANGED lists /\ todo[p].op = "insert" /\ UNCHANGED <<copy, where>>
      BY <1>4, Working DEF AskInsert, Adds, Asks
    <2>2. Requesting(p, q)'
      BY <1>4 DEF AskInsert, Goes, Requesting, Inv, TypeOK
    <2>3. Requesting(x, y) => Requesting(x, y)'
      BY <1>4, <2>1, <2>2 DEF AskInsert, Requesting, Goes, Inv, TypeOK
    <2>4. ~(x = q /\ y = p) => rows'[x][y] = rows[x][y]
      BY <1>4, <2>1 DEF AskInsert, Inv, TypeOK
    <2> QED
      BY <2>1, <2>2, <2>3, <2>4 DEF lists, Holds, Unsaved
  <1>5. CASE AskNotify(p)
    <2> PICK q \in Chars : q = todo[p].who
      BY <1>5, Working DEF AskNotify, Adds, Asks
    <2>1. q \in Chars /\ UNCHANGED rest
      BY <1>5, Working DEF AskNotify, Adds, Asks
    <2>2. Requesting(x, y) => Requesting(x, y)'
      BY <1>5, <2>1 DEF AskNotify, Requesting, Goes, Inv, TypeOK
    <2>3. CASE UNCHANGED lists
      BY <2>1, <2>2, <2>3 DEF lists, rest, Holds, Unsaved
    <2>4. CASE Put(q, p, "buddy", TRUE)
      BY <2>1, <2>2, <2>4, PutHolds
    <2> QED
      BY <1>5, <2>3, <2>4 DEF AskNotify, Added
  <1>6. CASE AskPut(p)
    <2> PICK q \in Chars : q = todo[p].who
      BY <1>6, Working DEF AskPut, Adds, Asks
    <2>1. /\ q \in Chars /\ UNCHANGED rest /\ where[p] = "here" /\ copy[p] = NoEntries
          /\ Put(p, q, "buddy", todo[p].op = "put")
      BY <1>6, Working DEF AskPut, Adds, Asks
    <2>2. Holds(x, y)' => Holds(x, y)
      BY <2>1, PutHolds
    <2>3. ~Holds(p, q)'
      <3>1. list'[p][q] = "buddy" /\ changed'[p] /\ copy'[p][q] = "none" /\ where'[p] = "here"
        BY <2>1, PutAt DEF rest, NoEntries, Inv
      <3> QED
        BY <3>1 DEF Holds, Unsaved
    <2>4. x # p => todo'[x] = todo[x]
      BY <1>6 DEF AskPut, Goes, Inv, TypeOK
    <2> QED
      BY <2>2, <2>3, <2>4 DEF Requesting
  <1> QED
    BY <1>1, <1>2, <1>3, <1>4, <1>5, <1>6 DEF Asking

LEMMA AnsweringHolds ==
  ASSUME Inv, NEW p \in Chars, Answering(p), NEW x \in Chars, NEW y \in Chars
  PROVE  /\ Holds(x, y)' => Holds(x, y)
         /\ Requesting(x, y) => Requesting(x, y)'
  <1>1. ASSUME NEW q \in Chars, NEW entry, NEW shown, Put(p, q, entry, shown), entry # "request",
               UNCHANGED rest
        PROVE  Holds(x, y)' => Holds(x, y)
    BY <1>1, PutHolds
  <1>2. ASSUME NEW q \in Chars, Added(q, p), UNCHANGED rest
        PROVE  Holds(x, y)' => Holds(x, y)
    <2>1. CASE UNCHANGED lists
      BY <1>2, <2>1 DEF lists, rest, Holds, Unsaved
    <2>2. CASE Put(q, p, "buddy", TRUE)
      BY <1>2, <2>2, PutHolds
    <2> QED
      BY <1>2, <2>1, <2>2 DEF Added
  <1>3. ASSUME NEW q \in Chars, Deleted(q, p), UNCHANGED rest
        PROVE  Holds(x, y)' => Holds(x, y)
    <2>1. CASE UNCHANGED lists
      BY <1>3, <2>1 DEF lists, rest, Holds, Unsaved
    <2>2. CASE Put(q, p, list[q][p], FALSE)
      <3>1. Holds(x, y)' => Holds(x, y) \/ (x = q /\ y = p /\ list[q][p] = "request")
        BY <1>3, <2>2, PutHolds
      <3> QED
        BY <3>1 DEF Holds
    <2> QED
      BY <1>3, <2>1, <2>2 DEF Deleted
  <1>4. ASSUME NEW q \in Chars, Accept(p, q)
        PROVE  /\ Holds(x, y)' => Holds(x, y)
               /\ Requesting(x, y) => Requesting(x, y)'
    BY <1>4
    DEF Accept, Ready, Idle, Goes, lists, rest, Holds, Unsaved, Requesting, Inv, TypeOK
  <1>5. ASSUME NEW q \in Chars, DeleteBegin(p, q)
        PROVE  /\ Holds(x, y)' => Holds(x, y)
               /\ Requesting(x, y) => Requesting(x, y)'
    <2>1. CASE UNCHANGED lists
      BY <1>5, <2>1
      DEF DeleteBegin, Ready, Idle, Goes, Requesting, lists, rest, Holds, Unsaved, Inv, TypeOK
    <2>2. CASE Deleted(q, p)
      <3>1. Holds(x, y)' => Holds(x, y)
        BY <1>3, <1>5, <2>2 DEF DeleteBegin
      <3> QED
        BY <1>5, <3>1 DEF DeleteBegin, Ready, Idle, Goes, Requesting, Inv, TypeOK
    <2> QED
      BY <1>5, <2>1, <2>2 DEF DeleteBegin
  <1>6. CASE AcceptNotify(p)
    <2>1. todo[p].who \in Chars
      BY <1>6, Working DEF AcceptNotify
    <2>2. Holds(x, y)' => Holds(x, y)
      BY <1>2, <1>6, <2>1 DEF AcceptNotify
    <2> QED
      BY <1>6, <2>2 DEF AcceptNotify, Goes, Requesting, Inv, TypeOK
  <1>7. CASE DeleteEnd(p)
    <2>1. todo[p].who \in Chars
      BY <1>7, Working DEF DeleteEnd
    <2>2. Holds(x, y)' => Holds(x, y)
      BY <1>1, <1>7, <2>1 DEF DeleteEnd
    <2> QED
      BY <1>7, <2>2 DEF DeleteEnd, Goes, Requesting, Inv, TypeOK
  <1>8. CASE AcceptPut(p)
    <2>1. todo[p].who \in Chars
      BY <1>8, Working DEF AcceptPut, Adds
    <2>2. Holds(x, y)' => Holds(x, y)
      BY <1>1, <1>8, <2>1 DEF AcceptPut
    <2> QED
      BY <1>8, <2>2 DEF AcceptPut, Goes, Requesting, Inv, TypeOK
  <1> QED
    BY <1>4, <1>5, <1>6, <1>7, <1>8 DEF Answering

LEMMA ComingHolds ==
  ASSUME Inv, NEW p \in Chars, Coming(p), NEW x \in Chars, NEW y \in Chars
  PROVE  /\ Holds(x, y)' => Holds(x, y)
         /\ Requesting(x, y) => Requesting(x, y)'
  <1>1. CASE Load(p)
    <2>1. PICK entries \in [Chars -> Entries] :
             /\ \A q \in Chars : \/ entries[q] = rows[p][q]
                                 \/ rows[p][q] = "both" /\ entries[q] \in {"request", "buddy"}
             /\ Fresh(p, entries)
      BY <1>1 DEF Load
    <2>2. where[p] = "off" /\ where' = [where EXCEPT ![p] = "loaded"]
          /\ UNCHANGED <<capacity, copy, rows, todo, said>>
      BY <1>1 DEF Load, Moves
    <2>3. x = p => (list'[x][y] = "request" => rows[x][y] \in {"request", "both"})
      BY <2>1 DEF Fresh, Inv, TypeOK
    <2>4. x # p => list'[x] = list[x] /\ changed'[x] = changed[x] /\ where'[x] = where[x]
      BY <2>1, <2>2 DEF Fresh, Inv, TypeOK
    <2> QED
      BY <2>2, <2>3, <2>4 DEF Holds, Unsaved, Requesting
  <1>2. CASE Arrive(p)
    BY <1>2 DEF Arrive, Moves, Fresh, Holds, Unsaved, Requesting, Inv, TypeOK, NoEntries
  <1>3. CASE ArriveAtShop(p)
    <2>1. /\ where[p] = "away" /\ where'[p] = "shop" /\ UNCHANGED <<todo, changed>>
          /\ list'[p][y] = copy[p][y] /\ copy'[p][y] = "none"
          /\ rows'[p][y] \in {copy[p][y], rows[p][y]} /\ copy[p][y] \in Entries
          /\ x # p => /\ list'[x] = list[x] /\ copy'[x] = copy[x] /\ rows'[x] = rows[x]
                      /\ where'[x] = where[x]
      BY <1>3 DEF ArriveAtShop, Moves, Inv, TypeOK, NoEntries
    <2>2. x = p => (Holds(x, y)' => Holds(x, y))
      BY <2>1 DEF Holds, Unsaved, Entries
    <2>3. x # p => (Holds(x, y)' => Holds(x, y))
      BY <2>1 DEF Holds, Unsaved
    <2> QED
      BY <2>1, <2>2, <2>3 DEF Requesting
  <1>4. CASE Enter(p)
    BY <1>4 DEF Enter, Moves, lists, Holds, Unsaved, Requesting, Inv, TypeOK
  <1>5. CASE Announce(p)
    BY <1>5 DEF Announce, Moves, Holds, Unsaved, Requesting, Inv, TypeOK
  <1>6. CASE Look(p)
    BY <1>6 DEF Look, Goes, Idle, lists, rest, Holds, Unsaved, Requesting, Inv, TypeOK
  <1>7. CASE See(p)
    BY <1>7 DEF See, Moves, Goes, Holds, Unsaved, Requesting, Inv, TypeOK
  <1> QED
    BY <1>1, <1>2, <1>3, <1>4, <1>5, <1>6, <1>7 DEF Coming

\* saveToDB makes no request of what is none.
LEMMA SavedHolds ==
  ASSUME Inv, NEW p \in Chars, Saved(p), NEW y \in Chars
  PROVE  rows'[p][y] \in {"request", "both"} => Holds(p, y)
  <1>1. rows'[p][y] = list[p][y] \/ (~changed[p] /\ rows'[p][y] = rows[p][y])
    BY SavedAt DEF Inv
  <1>2. list[p][y] \in Entries
    BY DEF Inv, TypeOK
  <1> QED
    BY <1>1, <1>2 DEF Holds, Unsaved, Entries

LEMMA GoingHolds ==
  ASSUME Inv, NEW p \in Chars, Going(p) \/ Save(p), NEW x \in Chars, NEW y \in Chars
  PROVE  /\ Holds(x, y)' => Holds(x, y)
         /\ Requesting(x, y) => Requesting(x, y)'
  <1>1. CASE Depart(p)
    BY <1>1 DEF Depart, Moves, lists, Holds, Unsaved, Requesting, Inv, TypeOK
  <1>2. CASE /\ Saved(p) /\ UNCHANGED <<copy, todo>>
             /\ \A q \in Chars \ {p} : where'[q] = where[q]
             /\ \A q, r \in Chars : list'[q][r] = list[q][r] \/ list'[q][r] = "none"
    <2>1. ASSUME x = p, Holds(p, y)' PROVE Holds(p, y)
      <3>1. rows'[p][y] \in {"request", "both"} => Holds(p, y)
        BY <1>2, SavedHolds
      <3>2. list'[p][y] = "request" => list[p][y] = "request"
        BY <1>2
      <3>3. copy' = copy
        BY <1>2
      <3> QED
        BY <2>1, <3>1, <3>2, <3>3 DEF Holds
    <2>2. x # p => (Holds(x, y)' => Holds(x, y))
      BY <1>2, SavedAt DEF Holds, Unsaved, Inv
    <2> QED
      BY <1>2, <2>1, <2>2 DEF Requesting
  <1>3. CASE Withdraw(p)
    BY <1>2, <1>3 DEF Withdraw, Moves, Gone, NoEntries, Inv, TypeOK
  <1>4. CASE Disconnect(p)
    BY <1>2, <1>4 DEF Disconnect, Moves, Inv, TypeOK
  <1>5. CASE Save(p)
    BY <1>2, <1>5 DEF Save
  <1>6. CASE LeaveShop(p)
    BY <1>6 DEF LeaveShop, Moves, Gone, Holds, Unsaved, Requesting, Inv, TypeOK, NoEntries
  <1>7. CASE Lose(p)
    BY <1>7 DEF Lose, Moves, lists, Holds, Unsaved, Requesting, Inv, TypeOK, NoEntries
  <1>8. CASE SignOff(p)
    BY <1>8 DEF SignOff, Moves, Holds, Unsaved, Requesting, Inv, TypeOK
  <1>9. CASE Close(p)
    BY <1>9 DEF Close, Moves, Gone, Holds, Unsaved, Requesting, Inv, TypeOK, NoEntries
  <1>10. CASE DisconnectInShop(p)
    BY <1>10 DEF DisconnectInShop, Moves, Holds, Unsaved, Requesting, Inv, TypeOK, NoEntries
  <1> QED
    BY <1>1, <1>3, <1>4, <1>5, <1>6, <1>7, <1>8, <1>9, <1>10 DEF Going

LEMMA StepHolds ==
  ASSUME Inv, [Next]_vars, NEW x \in Chars, NEW y \in Chars
  PROVE  /\ Holds(x, y)' => Holds(x, y) \/ Requesting(y, x)'
         /\ Requesting(x, y) => Requesting(x, y)' \/ ~Holds(x, y)'
  <1>1. CASE UNCHANGED vars
    BY <1>1 DEF vars, lists, rest, Holds, Unsaved, Requesting
  <1> QED
    BY <1>1, AskingHolds, AnsweringHolds, ComingHolds, GoingHolds DEF Next

\* Only the actor's task changes.
LEMMA GoesOnly ==
  ASSUME TypeOK, NEW p \in Chars, NEW task, Goes(p, task)
  PROVE  \A x \in Chars : todo'[x] = IF x = p THEN task ELSE todo[x]
  BY DEF TypeOK, Goes

\* An answer follows the acceptance of a request.
LEMMA AnswerFrom ==
  ASSUME Inv, [Next]_vars, NEW x \in Chars, todo'[x].op \in {"accept", "accepted"}
  PROVE  \/ todo'[x] = todo[x]
         \/ todo[x].op = "accept" /\ todo'[x].who = todo[x].who
         \/ /\ todo[x] = Idle /\ todo'[x].who \in Chars
            /\ list[x][todo'[x].who] = "request"
  <1>1. CASE UNCHANGED vars
    BY <1>1 DEF vars
  <1>2. ASSUME NEW p \in Chars, Asking(p)
        PROVE  todo'[x] = todo[x]
    <2>1. ASSUME NEW task, Goes(p, task), task.op \notin {"accept", "accepted"}
          PROVE  todo'[x] = todo[x]
      BY <2>1, GoesOnly DEF Inv
    <2>2. Idle.op \notin {"accept", "accepted"}
      BY DEF Idle
    <2>3. ASSUME NEW q \in Chars, AskBegin(p, q)
          PROVE  todo'[x] = todo[x]
      BY <2>1, <2>3 DEF AskBegin
    <2>4. CASE AskOnline(p)
      BY <2>1, <2>2, <2>4 DEF AskOnline
    <2>5. CASE AskOffline(p)
      BY <2>1, <2>2, <2>5 DEF AskOffline
    <2>6. CASE AskInsert(p)
      BY <2>1, <2>6 DEF AskInsert
    <2>7. CASE AskNotify(p)
      BY <2>1, <2>7 DEF AskNotify
    <2>8. CASE AskPut(p)
      BY <2>1, <2>2, <2>8 DEF AskPut
    <2> QED
      BY <1>2, <2>3, <2>4, <2>5, <2>6, <2>7, <2>8 DEF Asking
  <1>3. ASSUME NEW p \in Chars, AcceptNotify(p) \/ DeleteEnd(p)
        PROVE  todo'[x] = todo[x]
    <2>1. Goes(p, Idle) /\ Idle.op \notin {"accept", "accepted"}
      BY <1>3 DEF AcceptNotify, DeleteEnd, Idle
    <2> QED
      BY <2>1, GoesOnly DEF Inv
  <1>4. ASSUME NEW p \in Chars, NEW q \in Chars, DeleteBegin(p, q)
        PROVE  todo'[x] = todo[x]
    BY <1>4 DEF DeleteBegin, Goes, Inv, TypeOK
  <1>5. ASSUME NEW p \in Chars, NEW q \in Chars, Accept(p, q)
        PROVE  \/ todo'[x] = todo[x]
               \/ todo[x] = Idle /\ todo'[x].who = q /\ list[x][q] = "request"
    BY <1>5 DEF Accept, Ready, Goes, Idle, Inv, TypeOK
  <1>6. ASSUME NEW p \in Chars, Coming(p)
        PROVE  todo'[x] = todo[x]
    BY <1>6 DEF Coming, Load, Arrive, ArriveAtShop, Enter, Announce, Look, See, Goes,
       Idle, Inv, TypeOK
  <1>7. ASSUME NEW p \in Chars, Going(p) \/ Save(p)
        PROVE  todo'[x] = todo[x]
    BY <1>7 DEF Going, Depart, Withdraw, LeaveShop, Lose, Disconnect, SignOff, Close,
       DisconnectInShop, Save
  <1>8. ASSUME NEW p \in Chars, AcceptPut(p)
        PROVE  \/ todo'[x] = todo[x]
               \/ todo[x].op = "accept" /\ todo'[x].who = todo[x].who
    BY <1>8 DEF AcceptPut, Goes, Idle, Inv, TypeOK
  <1> QED
    BY <1>1, <1>2, <1>3, <1>4, <1>5, <1>6, <1>7, <1>8 DEF Next, Answering

LEMMA CrossedKept ==
  ASSUME SeeingInv, [Next]_vars, NEW x \in Chars, NEW y \in Chars
  PROVE  Crossed(x, y)' /\ AnswerDue(x, y)'
  <1>1. /\ Inv /\ Crossed(x, y) /\ AnswerDue(x, y)
        /\ Holds(x, y)' => Holds(x, y) \/ Requesting(y, x)'
        /\ Holds(y, x)' => Holds(y, x) \/ Requesting(x, y)'
        /\ Requesting(x, y) => Requesting(x, y)' \/ ~Holds(x, y)'
        /\ Requesting(y, x) => Requesting(y, x)' \/ ~Holds(y, x)'
    BY StepHolds DEF SeeingInv
  <1>2. Crossed(x, y)'
    BY <1>1 DEF Crossed
  <1>3. ASSUME todo'[x].op \in {"accept", "accepted"}, todo'[x].who = y
        PROVE  (~Holds(y, x) \/ Requesting(y, x))'
    <2>1. ~Requesting(x, y)'
      BY <1>3 DEF Requesting
    <2>2. CASE todo'[x] = todo[x] \/ (todo[x].op = "accept" /\ todo'[x].who = todo[x].who)
      BY <1>1, <1>3, <2>1, <2>2 DEF AnswerDue, Doing
    <2>3. CASE todo[x] = Idle /\ list[x][y] = "request"
      BY <1>1, <2>1, <2>3 DEF Crossed, Holds, Requesting, Idle
    <2> QED
      BY <1>1, <1>3, <2>2, <2>3, AnswerFrom
  <1> QED
    BY <1>2, <1>3 DEF AnswerDue, Doing

-----------------------------------------------------------------------------
(* Who looks, and who is counted                                           *)

\* Nothing is lost from sight, and nobody new to be seen.
LEMMA SightKept ==
  ASSUME NEW x \in Chars, NEW y \in Chars, Sighted(x, y),
         Looked(x)' => Looked(x),
         list'[x][y] = "buddy" => list[x][y] = "buddy",
         Counted(y, x)' => Counted(y, x),
         Sees(x, y) => Sees(x, y)', Mending(x, y) => Mending(x, y)'
  PROVE  Sighted(x, y)'
  BY DEF Sighted

LEMMA PutShows ==
  ASSUME TypeOK, NEW p \in Chars, NEW q \in Chars, NEW entry, NEW shown,
         Put(p, q, entry, shown)
  PROVE  /\ shown => q \in online'[p]
         /\ \A x, y \in Chars : ~(x = p /\ y = q) \/ shown
               => (y \in online[x] => y \in online'[x])
  BY DEF TypeOK, Put

\* buddyChanged ADDED shows p to whoever has p for a buddy.
LEMMA AddedShows ==
  ASSUME Inv, NEW p \in Chars, NEW q \in Chars, Added(q, p)
  PROVE  /\ \A x, y \in Chars : y \in online[x] => y \in online'[x]
         /\ \A x, y \in Chars : ~(x = q /\ y = p) => /\ list'[x][y] = list[x][y]
                                                     /\ y \in blind[x] => y \in blind'[x]
         /\ list'[q][p] # "none" /\ Found(q) => list'[q][p] = "buddy" /\ p \in online'[q]
         /\ list'[q][p] # list[q][p] => list[q][p] # "none"
         /\ ~Found(q) => list' = list
         /\ list'[q][p] = "none" => list[q][p] = "none"
  <1>1. CASE UNCHANGED lists /\ ~(Found(q) /\ list[q][p] # "none")
    BY <1>1 DEF lists
  <1>2. CASE Put(q, p, "buddy", TRUE) /\ blind' = [blind EXCEPT ![q] = @ \ {p}] /\ Found(q)
             /\ list[q][p] # "none"
    <2>1. \A x, y \in Chars : list'[x][y] = IF x = q /\ y = p THEN "buddy" ELSE list[x][y]
      BY <1>2 DEF Put, Inv, TypeOK
    <2>2. /\ p \in online'[q]
          /\ \A x, y \in Chars : y \in online[x] => y \in online'[x]
      BY <1>2, PutShows DEF Inv
    <2>3. \A x, y \in Chars : ~(x = q /\ y = p) => (y \in blind[x] => y \in blind'[x])
      BY <1>2 DEF Inv, TypeOK
    <2> QED
      BY <1>2, <2>1, <2>2, <2>3
  <1> QED
    BY <1>1, <1>2 DEF Added

LEMMA AskingSight ==
  ASSUME SeeingInv, NEW p \in Chars, Asking(p), Inv', NEW x \in Chars, NEW y \in Chars
  PROVE  Sighted(x, y)'
  <1>0. Inv /\ TypeOK /\ Sighted(x, y) /\ \A r \in Chars : Looked(r) => Found(r)
    BY OnChannelThen DEF SeeingInv, Inv
  <1>1. ASSUME NEW q \in Chars, AskBegin(p, q)
        PROVE  Sighted(x, y)'
    <2>1. /\ todo[p] = Idle /\ UNCHANGED <<list, online, blind, where>>
          /\ \A r \in Chars \ {p} : todo'[r] = todo[r]
          /\ todo'[p].op \in {"ask", "askOffline"} /\ todo'[p].who = q
          /\ todo'[p].op = "askOffline" => ~Found(q)
      BY <1>0, <1>1 DEF AskBegin, Ready, Goes, lists, rest, TypeOK
    <2>2. Looked(x)' => Looked(x) /\ Found(x)
      BY <1>0, <2>1 DEF Looked
    <2>3. Looked(x)' /\ Counted(y, x)' => Counted(y, x)
      BY <2>1, <2>2 DEF Counted, Doing
    <2>4. (Sees(x, y) => Sees(x, y)') /\ (Mending(x, y) => Mending(x, y)')
      BY <2>1 DEF Sees, Mending, Doing, Idle
    <2> QED
      BY <1>0, <2>1, <2>2, <2>3, <2>4 DEF Sighted
  <1>2. CASE AskOnline(p)
    <2> PICK q \in Chars : q = todo[p].who
      BY <1>0, <1>2, Working DEF AskOnline, Adds, Asks
    <2>1. /\ todo[p].op = "ask" /\ UNCHANGED where
          /\ \A r \in Chars \ {p} : todo'[r] = todo[r]
          /\ \/ todo'[p] = Idle
             \/ /\ todo'[p].op \in {"notify", "insert"} /\ todo'[p].who = q
                /\ todo'[p].op = "insert" /\ Found(q) => list[q][p] # "buddy"
      BY <1>0, <1>2 DEF AskOnline, Goes, rest, TypeOK
    <2>2. /\ \A r, s \in Chars : \/ list'[r][s] = list[r][s] /\ (s \in online[r] => s \in online'[r])
                                 \/ list'[r][s] = "request"
          /\ UNCHANGED blind
      <3>1. CASE UNCHANGED lists
        BY <3>1 DEF lists
      <3>2. CASE Put(q, p, "request", TRUE) /\ UNCHANGED blind
        <4>1. \A r, s \in Chars : list'[r][s] = list[r][s] \/ list'[r][s] = "request"
          BY <1>0, <3>2 DEF Put, TypeOK
        <4>2. \A r, s \in Chars : s \in online[r] => s \in online'[r]
          BY <1>0, <3>2, PutShows
        <4> QED
          BY <3>2, <4>1, <4>2
      <3> QED
        BY <1>2, <3>1, <3>2 DEF AskOnline
    <2>3. Looked(x)' => Looked(x) /\ Found(x)
      BY <1>0, <2>1 DEF Looked, Idle
    <2>4. Looked(x)' /\ list'[x][y] = "buddy" /\ Counted(y, x)' => Counted(y, x)
      BY <2>1, <2>2, <2>3 DEF Counted, Doing, Idle
    <2>5. list'[x][y] = "buddy" => /\ list[x][y] = "buddy" /\ (Sees(x, y) => Sees(x, y)')
      BY <2>1, <2>2 DEF Sees
    <2>6. Mending(x, y) => Mending(x, y)'
      BY <2>1 DEF Mending, Doing
    <2> QED
      BY <1>0, <2>3, <2>4, <2>5, <2>6 DEF Sighted
  <1>3. CASE AskOffline(p)
    <2>1. /\ todo[p].op = "askOffline" /\ UNCHANGED <<list, online, blind, where>>
          /\ \A r \in Chars \ {p} : todo'[r] = todo[r]
          /\ \/ todo'[p] = Idle
             \/ todo'[p].op \in {"putOffline", "insert"} /\ todo'[p].who = todo[p].who
      BY <1>0, <1>3 DEF AskOffline, Goes, lists, rest, TypeOK
    <2>2. (Looked(x)' => Looked(x)) /\ (Counted(y, x)' => Counted(y, x))
      BY <2>1 DEF Looked, Counted, Doing, Idle
    <2>3. (Sees(x, y) => Sees(x, y)') /\ (Mending(x, y) => Mending(x, y)')
      BY <2>1 DEF Sees, Mending, Doing
    <2> QED
      BY <1>0, <2>1, <2>2, <2>3, SightKept
  <1>4. CASE AskInsert(p)
    <2>1. /\ todo[p].op = "insert" /\ UNCHANGED <<list, online, blind, where>>
          /\ \A r \in Chars \ {p} : todo'[r] = todo[r]
          /\ todo'[p].op = "putOffline" /\ todo'[p].who = todo[p].who
      BY <1>0, <1>4 DEF AskInsert, Goes, lists, rest, TypeOK
    <2>2. (Looked(x)' => Looked(x)) /\ (Counted(y, x)' => Counted(y, x))
      BY <2>1 DEF Looked, Counted, Doing, Idle
    <2>3. (Sees(x, y) => Sees(x, y)') /\ (Mending(x, y) => Mending(x, y)')
      BY <2>1 DEF Sees, Mending, Doing
    <2> QED
      BY <1>0, <2>1, <2>2, <2>3, SightKept
  <1>5. CASE AskNotify(p)
    <2> PICK q \in Chars : q = todo[p].who
      BY <1>0, <1>5, Working DEF AskNotify, Adds, Asks
    <2>1. /\ todo[p].op = "notify" /\ UNCHANGED where /\ Added(q, p)
          /\ \A r \in Chars \ {p} : todo'[r] = todo[r]
          /\ todo'[p].op = "put" /\ todo'[p].who = q
      BY <1>0, <1>5 DEF AskNotify, Goes, rest, TypeOK
    <2>2. Looked(x)' => Looked(x) /\ Found(x)
      BY <1>0, <2>1 DEF Looked
    <2>3. CASE x = q /\ y = p
      <3>1. Found(q) /\ list'[q][p] = "buddy" => p \in online'[q]
        BY <1>0, <2>1, AddedShows
      <3> QED
        BY <2>2, <2>3, <3>1 DEF Sighted, Sees
    <2>4. CASE x = p /\ y = q
      BY <2>1, <2>4 DEF Sighted, Mending, Doing
    <2>5. CASE ~(x = q /\ y = p) /\ ~(x = p /\ y = q)
      <3>1. /\ list'[x][y] = list[x][y] /\ list'[y][x] = list[y][x]
            /\ y \in online[x] \cup blind[x] => y \in online'[x] \cup blind'[x]
        BY <1>0, <2>1, <2>5, AddedShows
      <3>2. Counted(y, x)' => Counted(y, x)
        BY <2>1, <2>5, <3>1 DEF Counted, Doing
      <3>3. (Sees(x, y) => Sees(x, y)') /\ (Mending(x, y) => Mending(x, y)')
        BY <2>1, <3>1 DEF Sees, Mending, Doing
      <3> QED
        BY <1>0, <2>2, <3>1, <3>2, <3>3, SightKept
    <2> QED
      BY <2>3, <2>4, <2>5
  <1>6. CASE AskPut(p)
    <2> PICK q \in Chars : q = todo[p].who
      BY <1>0, <1>6, Working DEF AskPut, Adds, Asks
    <2>1. /\ todo[p].op \in {"put", "putOffline"} /\ UNCHANGED where
          /\ Put(p, q, "buddy", todo[p].op = "put")
          /\ blind' = [blind EXCEPT ![p] = IF todo[p].op = "put" THEN @ \ {q} ELSE @ \cup {q}]
          /\ \A r \in Chars \ {p} : todo'[r] = todo[r]
          /\ todo'[p] = Idle
      BY <1>0, <1>6 DEF AskPut, Goes, rest, TypeOK
    <2>2. Looked(x)' => Looked(x)
      BY <2>1 DEF Looked, Idle
    <2>3. CASE x = p /\ y = q
      <3>1. q \in online'[p] \cup blind'[p]
        <4>1. CASE todo[p].op = "put"
          BY <1>0, <2>1, <4>1, PutShows
        <4>2. CASE todo[p].op # "put"
          BY <1>0, <2>1, <4>2 DEF TypeOK
        <4> QED
          BY <4>1, <4>2
      <3> QED
        BY <2>3, <3>1 DEF Sighted, Sees
    <2>4. CASE ~(x = p /\ y = q)
      <3>1. /\ list'[x][y] = list[x][y]
            /\ y \in online[x] \cup blind[x] => y \in online'[x] \cup blind'[x]
        BY <1>0, <2>1, <2>4, PutAt, PutShows DEF TypeOK
      <3>2. list'[y][x] = IF y = p /\ x = q THEN "buddy" ELSE list[y][x]
        BY <1>0, <2>1, PutAt
      <3>3. Counted(y, x)' => Counted(y, x)
        BY <2>1, <3>2 DEF Counted, Doing, Idle
      <3>4. (Sees(x, y) => Sees(x, y)') /\ (Mending(x, y) => Mending(x, y)')
        BY <2>1, <2>4, <3>1 DEF Sees, Mending, Doing
      <3> QED
        BY <1>0, <2>2, <3>1, <3>3, <3>4, SightKept
    <2> QED
      BY <2>3, <2>4
  <1> QED
    BY <1>1, <1>2, <1>3, <1>4, <1>5, <1>6 DEF Asking

LEMMA AnsweringSight ==
  ASSUME SeeingInv, NEW p \in Chars, Answering(p), Inv', NEW x \in Chars, NEW y \in Chars
  PROVE  Sighted(x, y)'
  <1>0. /\ Inv /\ TypeOK /\ Sighted(x, y)
        /\ \A r \in Chars : Looked(r) => Found(r)
        /\ \A r, s \in Chars : Counted(r, s) => Found(r)
    BY OnChannelThen DEF SeeingInv, Inv
  <1>1. ASSUME NEW q \in Chars, Accept(p, q)
        PROVE  Sighted(x, y)'
    <2>1. /\ todo[p] = Idle /\ UNCHANGED <<list, online, blind, where>>
          /\ \A r \in Chars \ {p} : todo'[r] = todo[r]
          /\ todo'[p].op \in {"accept", "acceptOffline"} /\ todo'[p].who = q
          /\ todo'[p].op = "acceptOffline" => ~Found(q)
      BY <1>0, <1>1 DEF Accept, Ready, Goes, lists, rest, TypeOK
    <2>2. Looked(x)' => Looked(x) /\ Found(x)
      BY <1>0, <2>1 DEF Looked
    <2>3. Looked(x)' /\ Counted(y, x)' => Counted(y, x)
      BY <2>1, <2>2 DEF Counted, Doing
    <2>4. (Sees(x, y) => Sees(x, y)') /\ (Mending(x, y) => Mending(x, y)')
      BY <2>1 DEF Sees, Mending, Doing, Idle
    <2> QED
      BY <1>0, <2>1, <2>2, <2>3, <2>4 DEF Sighted
  <1>2. ASSUME NEW q \in Chars, DeleteBegin(p, q)
        PROVE  Sighted(x, y)'
    <2>1. /\ todo[p] = Idle /\ UNCHANGED where
          /\ \A r \in Chars \ {p} : todo'[r] = todo[r]
          /\ todo'[p] = [op |-> "delete", who |-> q]
      BY <1>0, <1>2 DEF DeleteBegin, Ready, Goes, rest, TypeOK
    <2>2. CASE x = q /\ y = p
      BY <2>1, <2>2 DEF Sighted, Mending, Doing
    <2>3. CASE ~(x = q /\ y = p)
      <3>1. list' = list /\ (y \in online[x] \cup blind[x] => y \in online'[x] \cup blind'[x])
        <4>1. CASE UNCHANGED lists
          BY <4>1 DEF lists
        <4>2. CASE Put(q, p, list[q][p], FALSE) /\ UNCHANGED blind
          <5>1. list' = list
            BY <1>0, <4>2 DEF Put, TypeOK
          <5> QED
            BY <1>0, <2>3, <4>2, <5>1, PutShows
        <4> QED
          BY <1>2, <4>1, <4>2 DEF DeleteBegin, Deleted
      <3>2. (Looked(x)' => Looked(x)) /\ (Counted(y, x)' => Counted(y, x))
        BY <2>1, <3>1 DEF Looked, Counted, Doing, Idle
      <3>3. (Sees(x, y) => Sees(x, y)') /\ (Mending(x, y) => Mending(x, y)')
        BY <2>1, <3>1 DEF Sees, Mending, Doing, Idle
      <3> QED
        BY <1>0, <3>1, <3>2, <3>3, SightKept
    <2> QED
      BY <2>2, <2>3
  <1>3. CASE AcceptNotify(p)
    <2> PICK q \in Chars : q = todo[p].who
      BY <1>0, <1>3, Working DEF AcceptNotify
    <2>1. /\ todo[p].op = "accepted" /\ UNCHANGED where /\ Added(q, p)
          /\ \A r \in Chars \ {p} : todo'[r] = todo[r]
          /\ todo'[p] = Idle
      BY <1>0, <1>3 DEF AcceptNotify, Goes, rest, TypeOK
    <2>2. (Looked(x)' => Looked(x)) /\ (Looked(x)' => Found(x))
      BY <1>0, <2>1 DEF Looked, Idle
    <2>3. CASE x = q /\ y = p
      <3>1. Found(q) /\ list'[q][p] = "buddy" => p \in online'[q]
        BY <1>0, <2>1, AddedShows
      <3> QED
        BY <2>2, <2>3, <3>1 DEF Sighted, Sees
    <2>4. CASE x = p /\ y = q /\ x # y
      <3>1. /\ list'[x][y] = list[x][y]
            /\ y \in online[x] \cup blind[x] => y \in online'[x] \cup blind'[x]
            /\ list'[y][x] # list[y][x] => list[y][x] # "none"
        BY <1>0, <2>1, <2>4, AddedShows
      <3>2. list[y][x] \in Entries
        BY <1>0 DEF TypeOK
      \* A request of p's that q still holds is on its way.
      <3>3. list[y][x] = "request" => Counted(y, x)
        BY <2>1, <2>4 DEF SeeingInv, AnswerDue, Holds, Requesting, Counted, Doing
      <3>4. Counted(y, x)' => Counted(y, x)
        BY <2>1, <2>4, <3>1, <3>2, <3>3 DEF Counted, Doing, Entries
      <3>5. (Sees(x, y) => Sees(x, y)') /\ (Mending(x, y) => Mending(x, y)')
        BY <2>1, <2>4, <3>1 DEF Sees, Mending, Doing
      <3> QED
        BY <1>0, <2>2, <3>1, <3>4, <3>5, SightKept
    <2>5. CASE ~(x = q /\ y = p) /\ ~(x = p /\ y = q)
      <3>1. /\ list'[x][y] = list[x][y] /\ list'[y][x] = list[y][x]
            /\ y \in online[x] \cup blind[x] => y \in online'[x] \cup blind'[x]
        BY <1>0, <2>1, <2>5, AddedShows
      <3>2. Counted(y, x)' => Counted(y, x)
        BY <2>1, <3>1 DEF Counted, Doing, Idle
      <3>3. (Sees(x, y) => Sees(x, y)') /\ (Mending(x, y) => Mending(x, y)')
        BY <2>1, <2>5, <3>1 DEF Sees, Mending, Doing
      <3> QED
        BY <1>0, <2>2, <3>1, <3>2, <3>3, SightKept
    <2> QED
      BY <2>3, <2>4, <2>5
  <1>4. CASE DeleteEnd(p)
    <2> PICK q \in Chars : q = todo[p].who
      BY <1>0, <1>4, Working DEF DeleteEnd
    <2>1. /\ todo[p].op = "delete" /\ UNCHANGED where /\ Put(p, q, "none", FALSE)
          /\ blind' = [blind EXCEPT ![p] = @ \ {q}]
          /\ \A r \in Chars \ {p} : todo'[r] = todo[r]
          /\ todo'[p] = Idle
      BY <1>0, <1>4 DEF DeleteEnd, Goes, rest, TypeOK
    <2>2. Looked(x)' => Looked(x)
      BY <2>1 DEF Looked, Idle
    <2>3. \A r, s \in Chars : list'[r][s] = IF r = p /\ s = q THEN "none" ELSE list[r][s]
      BY <1>0, <2>1 DEF Put, TypeOK
    <2>4. CASE x = p /\ y = q
      BY <2>3, <2>4 DEF Sighted
    <2>5. CASE x = q /\ y = p /\ x # y
      BY <2>1, <2>3, <2>5 DEF Sighted, Counted, Doing, Idle
    <2>6. CASE ~(x = p /\ y = q) /\ ~(x = q /\ y = p)
      <3>1. y \in online[x] \cup blind[x] => y \in online'[x] \cup blind'[x]
        BY <1>0, <2>1, <2>6, PutShows DEF TypeOK
      <3>2. Counted(y, x)' => Counted(y, x)
        BY <2>1, <2>3, <2>6 DEF Counted, Doing, Idle
      <3>3. (Sees(x, y) => Sees(x, y)') /\ (Mending(x, y) => Mending(x, y)')
        BY <2>1, <2>6, <3>1 DEF Sees, Mending, Doing
      <3> QED
        BY <1>0, <2>2, <2>3, <2>6, <3>2, <3>3, SightKept
    <2> QED
      BY <2>4, <2>5, <2>6
  <1>5. CASE AcceptPut(p)
    <2> PICK q \in Chars : q = todo[p].who
      BY <1>0, <1>5, Working DEF AcceptPut, Adds
    <2>1. /\ todo[p].op \in {"accept", "acceptOffline"} /\ UNCHANGED where
          /\ Put(p, q, "buddy", todo[p].op = "accept")
          /\ blind' = [blind EXCEPT ![p] = IF todo[p].op = "accept" THEN @ \ {q}
                                           ELSE @ \cup {q}]
          /\ \A r \in Chars \ {p} : todo'[r] = todo[r]
          /\ todo'[p] = IF todo[p].op = "accept" THEN [op |-> "accepted", who |-> q] ELSE Idle
      BY <1>0, <1>5 DEF AcceptPut, Goes, rest, TypeOK
    <2>2. Looked(x)' => Looked(x)
      BY <2>1 DEF Looked, Idle
    <2>3. \A r, s \in Chars : list'[r][s] = IF r = p /\ s = q THEN "buddy" ELSE list[r][s]
      BY <1>0, <2>1 DEF Put, TypeOK
    <2>4. CASE x = p /\ y = q
      <3>1. q \in online'[p] \cup blind'[p]
        BY <1>0, <2>1, PutShows DEF TypeOK
      <3> QED
        BY <2>4, <3>1 DEF Sighted, Sees
    <2>5. CASE x = q /\ y = p /\ x # y /\ todo[p].op = "accept"
      BY <2>1, <2>5 DEF Sighted, Mending, Doing
    \* It was counted while p was about to put it.
    <2>6. CASE x = q /\ y = p /\ x # y /\ todo[p].op = "acceptOffline"
      <3>1. (Counted(p, q) /\ ~Mending(q, p)) \/ Mending(q, p)'
        BY <2>1, <2>6 DEF Counted, Mending, Doing, Idle
      <3>2. Sees(q, p) => Sees(q, p)'
        BY <1>0, <2>1, <2>6, PutShows DEF Sees, TypeOK
      <3> QED
        BY <1>0, <2>2, <2>3, <2>6, <3>1, <3>2 DEF Sighted
    <2>7. CASE ~(x = p /\ y = q) /\ ~(x = q /\ y = p)
      <3>1. y \in online[x] \cup blind[x] => y \in online'[x] \cup blind'[x]
        BY <1>0, <2>1, <2>7, PutShows DEF TypeOK
      <3>2. Counted(y, x)' => Counted(y, x)
        BY <2>1, <2>3, <2>7 DEF Counted, Doing, Idle
      <3>3. (Sees(x, y) => Sees(x, y)') /\ (Mending(x, y) => Mending(x, y)')
        BY <2>1, <3>1 DEF Sees, Mending, Doing, Idle
      <3> QED
        BY <1>0, <2>2, <2>3, <2>7, <3>2, <3>3, SightKept
    <2> QED
      BY <2>1, <2>4, <2>5, <2>6, <2>7
  <1> QED
    BY <1>1, <1>2, <1>3, <1>4, <1>5 DEF Answering

\* The steps that leave every task as it is.
LEMMA SightStays ==
  ASSUME NEW x \in Chars, NEW y \in Chars, Sighted(x, y), todo' = todo,
         where'[x] = "here" => where[x] = "here",
         list'[x][y] = "buddy" => list[x][y] = "buddy",
         where'[y] \in {"told", "here", "leaving"} /\ list'[y][x] = "buddy"
            => where[y] \in {"told", "here", "leaving"} /\ list[y][x] = "buddy",
         Looked(x)' => (y \in online[x] \cup blind[x] => y \in online'[x] \cup blind'[x])
  PROVE  Sighted(x, y)'
  <1>1. (Looked(x)' => Looked(x)) /\ (Counted(y, x)' => Counted(y, x))
    BY DEF Looked, Counted, Doing
  <1>2. Looked(x)' => (Sees(x, y) => Sees(x, y)')
    BY DEF Sees
  <1>3. Mending(x, y)' <=> Mending(x, y)
    BY DEF Mending, Doing
  <1> QED
    BY <1>1, <1>2, <1>3 DEF Sighted

LEMMA ComingSight ==
  ASSUME SeeingInv, NEW p \in Chars, Coming(p), Inv', NEW x \in Chars, NEW y \in Chars
  PROVE  Sighted(x, y)'
  <1>0. /\ Inv /\ TypeOK /\ Sighted(x, y)
        /\ \A r \in Chars : Looked(r) => Found(r)
        /\ \A r, s \in Chars : Counted(r, s) => Found(r)
        /\ \A r \in Chars : todo'[r].op = "see" => where'[r] = "told"
    <2>1. ASSUME NEW r \in Chars, todo'[r].op = "see"
          PROVE  where'[r] = "told"
      BY <2>1 DEF Inv, InPlace, Idle
    <2> QED
      BY <2>1, OnChannelThen DEF SeeingInv, Inv
  <1>1. ASSUME \/ \E entries \in [Chars -> Entries] : Fresh(p, entries)
               \/ \E entries \in [Chars -> Entries] :
                     list' = [list EXCEPT ![p] = entries] /\ UNCHANGED <<online, blind>>,
               where' \in {[where EXCEPT ![p] = "loaded"], [where EXCEPT ![p] = "shop"]},
               UNCHANGED todo
        PROVE  Sighted(x, y)'
    <2>1. /\ where'[p] \in {"loaded", "shop"}
          /\ \A r \in Chars \ {p} : /\ where'[r] = where[r] /\ list'[r] = list[r]
                                    /\ online'[r] = online[r] /\ blind'[r] = blind[r]
      BY <1>0, <1>1 DEF Fresh, TypeOK
    <2>2. Looked(p)' => FALSE
      BY <1>0, <2>1 DEF Looked
    <2>3. CASE x = p
      BY <2>2, <2>3 DEF Sighted
    <2>4. CASE x # p
      BY <1>0, <1>1, <2>1, <2>4, SightStays
    <2> QED
      BY <2>3, <2>4
  <1>2. CASE Load(p)
    BY <1>1, <1>2 DEF Load, Moves
  <1>3. CASE Arrive(p)
    BY <1>0, <1>1, <1>3 DEF Arrive, Moves, TypeOK
  <1>4. CASE ArriveAtShop(p)
    BY <1>0, <1>1, <1>4 DEF ArriveAtShop, Moves, TypeOK
  <1>5. CASE Enter(p)
    <2>1. /\ UNCHANGED <<list, online, blind, todo>> /\ where'[p] = "entered"
          /\ \A r \in Chars \ {p} : where'[r] = where[r]
      BY <1>0, <1>5 DEF Enter, Moves, lists, TypeOK
    <2> QED
      BY <1>0, <2>1, SightStays
  <1>6. CASE Announce(p)
    <2>1. /\ UNCHANGED <<list, todo>> /\ where[p] = "entered" /\ where'[p] = "told"
          /\ \A r \in Chars \ {p} : where'[r] = where[r]
          /\ \A r \in Chars : online'[r] = IF r \in Hear(p) THEN online[r] \cup {p} ELSE online[r]
          /\ \A r \in Chars : blind'[r] = IF r \in Hear(p) THEN blind[r] \ {p} ELSE blind[r]
      BY <1>0, <1>6 DEF Announce, Moves, TypeOK
    <2>2. y \in online[x] \cup blind[x] => y \in online'[x] \cup blind'[x]
      BY <2>1
    <2>3. CASE y # p
      BY <1>0, <2>1, <2>2, <2>3, SightStays
    <2>4. CASE y = p
      <3>1. Looked(x)' => Found(x) \/ x = p
        BY <1>0, <2>1 DEF Looked
      <3>2. Looked(x)' /\ list'[x][p] = "buddy" /\ list'[p][x] = "buddy" => p \in online'[x]
        BY <2>1, <3>1 DEF Hear, Buddies, Found, OnChannel
      <3>3. Counted(p, x)' => list'[p][x] = "buddy" \/ Counted(p, x)
        BY <2>1 DEF Counted, Doing
      <3>4. (Looked(x)' => Looked(x)) /\ (Mending(x, p) => Mending(x, p)')
            /\ (Sees(x, p) => Sees(x, p)')
        BY <2>1, <2>2, <2>4 DEF Looked, Mending, Doing, Sees
      <3> QED
        BY <1>0, <2>1, <2>4, <3>2, <3>3, <3>4 DEF Sighted, Sees
    <2> QED
      BY <2>3, <2>4
  <1>7. CASE Look(p)
    <2>1. /\ UNCHANGED <<list, online, blind, where>> /\ todo[p] = Idle
          /\ \A r \in Chars \ {p} : todo'[r] = todo[r]
          /\ todo'[p] = [op |-> "see", seen |-> {q \in Buddies(p) : Found(q)}]
      BY <1>0, <1>7 DEF Look, Goes, lists, rest, TypeOK
    <2>2. Counted(y, x)' => Counted(y, x)
      BY <2>1 DEF Counted, Doing
    <2>3. CASE x = p
      <3>1. Counted(y, p)' /\ list'[p][y] = "buddy" => y \in todo'[p].seen
        BY <1>0, <2>1, <2>2, <2>3 DEF Buddies
      <3> QED
        BY <2>1, <2>3, <3>1 DEF Sighted, Sees
    <2>4. CASE x # p
      <3>1. (Looked(x)' => Looked(x)) /\ (Sees(x, y) => Sees(x, y)')
            /\ (Mending(x, y) => Mending(x, y)')
        BY <2>1, <2>4 DEF Looked, Sees, Mending, Doing, Idle
      <3> QED
        BY <1>0, <2>1, <2>2, <3>1, SightKept
    <2> QED
      BY <2>3, <2>4
  <1>8. CASE See(p)
    <2>1. /\ UNCHANGED <<list, blind>> /\ where[p] = "told" /\ where'[p] = "here"
          /\ todo[p].op = "see" /\ todo'[p] = Idle
          /\ \A r \in Chars \ {p} : /\ todo'[r] = todo[r] /\ where'[r] = where[r]
                                    /\ online'[r] = online[r]
          /\ online'[p] = online[p] \cup todo[p].seen
      BY <1>0, <1>8 DEF See, Moves, Goes, TypeOK
    <2>2. (Looked(x)' => Looked(x)) /\ (Counted(y, x)' => Counted(y, x))
      BY <2>1 DEF Looked, Counted, Doing, Idle
    <2>3. Sees(x, y) => Sees(x, y)'
      BY <2>1 DEF Sees
    <2>4. Mending(x, y) => Mending(x, y)'
      BY <2>1 DEF Mending, Doing
    <2> QED
      BY <1>0, <2>1, <2>2, <2>3, <2>4, SightKept
  <1> QED
    BY <1>2, <1>3, <1>4, <1>5, <1>6, <1>7, <1>8 DEF Coming

LEMMA GoingSight ==
  ASSUME SeeingInv, NEW p \in Chars, Going(p) \/ Save(p), Inv',
         NEW x \in Chars, NEW y \in Chars
  PROVE  Sighted(x, y)'
  <1>0. /\ Inv /\ TypeOK /\ Sighted(x, y)
        /\ \A r \in Chars : todo'[r].op = "see" => where'[r] = "told"
    <2>1. ASSUME NEW r \in Chars, todo'[r].op = "see"
          PROVE  where'[r] = "told"
      BY <2>1 DEF Inv, InPlace, Idle
    <2> QED
      BY <2>1 DEF SeeingInv, Inv
  \* p goes; of the others each forgets nobody but p.
  <1>1. ASSUME UNCHANGED todo,
               \A r \in Chars \ {p} :
                  /\ where'[r] = where[r] /\ list'[r] = list[r] /\ blind'[r] = blind[r]
                  /\ online[r] \ {p} \subseteq online'[r],
               where'[p] \in {"off", "away", "closed", "closing", "leaving"},
               where'[p] = "leaving" => where[p] = "here" /\ UNCHANGED <<list, online, blind>>
        PROVE  Sighted(x, y)'
    <2>1. CASE x = p
      <3>1. ~Looked(p)'
        BY <1>0, <1>1 DEF Looked
      <3> QED
        BY <2>1, <3>1 DEF Sighted
    <2>2. CASE x # p /\ (y # p \/ where'[p] = "leaving")
      BY <1>0, <1>1, <2>2, SightStays
    <2>3. CASE x # p /\ y = p /\ where'[p] # "leaving"
      <3>1. todo'[p].op \notin Adds
        <4>1. todo'[p] # Idle => where'[p] \in {"told", "here"}
          BY DEF Inv, InPlace
        <4> QED
          BY <1>1, <4>1 DEF Idle, Adds, Asks
      <3>2. ~Counted(p, x)'
        BY <1>1, <2>3, <3>1 DEF Counted, Doing, Adds, Asks
      <3> QED
        BY <2>3, <3>2 DEF Sighted
    <2> QED
      BY <2>1, <2>2, <2>3
  <1>2. CASE Depart(p)
    BY <1>0, <1>1, <1>2 DEF Depart, Moves, lists, TypeOK
  <1>3. CASE Withdraw(p)
    BY <1>0, <1>1, <1>3 DEF Withdraw, Moves, Gone, TypeOK
  <1>4. CASE LeaveShop(p)
    BY <1>0, <1>1, <1>4 DEF LeaveShop, Moves, Gone, TypeOK
  <1>5. CASE Lose(p)
    BY <1>0, <1>1, <1>5 DEF Lose, Moves, lists, TypeOK
  <1>6. CASE Disconnect(p)
    BY <1>0, <1>1, <1>6 DEF Disconnect, Moves, TypeOK
  <1>7. CASE SignOff(p)
    BY <1>0, <1>1, <1>7 DEF SignOff, Moves, TypeOK
  <1>8. CASE Close(p)
    BY <1>0, <1>1, <1>8 DEF Close, Moves, Gone, TypeOK
  <1>9. CASE DisconnectInShop(p)
    BY <1>0, <1>1, <1>9 DEF DisconnectInShop, Moves, TypeOK
  <1>10. CASE Save(p)
    <2>1. UNCHANGED <<list, online, blind, where, todo>>
      BY <1>10 DEF Save
    <2> QED
      BY <1>0, <2>1, SightStays
  <1> QED
    BY <1>2, <1>3, <1>4, <1>5, <1>6, <1>7, <1>8, <1>9, <1>10 DEF Going

LEMMA SeeingNext ==
  ASSUME SeeingInv, [Next]_vars
  PROVE  SeeingInv'
  <1>1. Inv'
    BY InvNext DEF SeeingInv
  <1>2. ASSUME NEW x \in Chars, NEW y \in Chars
        PROVE  Crossed(x, y)' /\ AnswerDue(x, y)'
    BY CrossedKept
  <1>3. ASSUME NEW x \in Chars, NEW y \in Chars
        PROVE  Sighted(x, y)'
    <2>1. CASE UNCHANGED vars
      <3>1. UNCHANGED <<list, online, blind, where, todo>> /\ Sighted(x, y)
        BY <2>1 DEF vars, lists, rest, SeeingInv
      <3> QED
        BY <3>1, SightStays
    <2> QED
      BY <1>1, <2>1, AskingSight, AnsweringSight, ComingSight, GoingSight DEF Next
  <1> QED
    BY <1>1, <1>2, <1>3 DEF SeeingInv

\* Two buddies who have both arrived see each other online, in whatever order their
\* arrivals, requests, answers, deletions and departures interleave, except one who put
\* the other on his list as offline and has not heard of him since.
THEOREM BuddiesSee == Spec => []SeenWhenHere
  <1>1. Init => SeeingInv
    <2> SUFFICES ASSUME Init PROVE SeeingInv
      OBVIOUS
    <2>1. ASSUME NEW p \in Chars, NEW q \in Chars
          PROVE  Crossed(p, q) /\ AnswerDue(p, q) /\ Sighted(p, q)
      BY DEF Init, NoEntries, Idle, Crossed, AnswerDue, Sighted, Holds
    <2> QED
      BY <2>1, InvInit DEF SeeingInv
  <1>2. SeeingInv => SeenWhenHere
    BY DEF SeeingInv, SeenWhenHere, Ready, Idle, Sighted, Looked, Counted, Sees, Mending, Doing
  <1> QED
    BY <1>1, <1>2, SeeingNext, PTL DEF Spec
=============================================================================
