# A verification project for the CMS 095 server

The repository is a MapleStory server in Java: a login server, several channel
servers and a cash shop server in one process, one netty event loop per
connection, timers in threads of their own, a MySQL database behind.  Almost
nothing of its game state is guarded by a lock; what keeps it right is the order
in which handlers read, write and hand on.  This directory models the parts in
which that order decides whether players lose, duplicate or fork what they own.

The game's content - NPCs, quests, portals, events - is JavaScript under
`src/scripts`, run by the server through a script engine; most of the files of the
repository are such scripts, many of them twice (`src/Other` holds older copies).

Sources are named relative to `src/src/` unless they begin with `scripts/`.

## 1. Inventory

| Part | State | Operations | Talks to | What is hard | What makes it correct |
|---|---|---|---|---|---|
| Sessions (`client/MapleClient`, `handling/login`, `InterServerHandler`, `CashShopOperation`, `PlayerStorage`, `World.Find`) | login state and address in the database; login entries, keys and load flags; pending transfers and the registered characters of each place; per connection: channel, player, `loggedIn`, `serverTransition` | log in, choose a character, arrive, change channel, enter and leave the cash shop, disconnect, minute save, expiry of transfers | every other part: a character exists only through it | connections of one account interleave at every read; saves come after the character was handed on; stale transfers; a disconnect that decides by shared maps | one live heir of the character; it carries all progress; the database does not go back; an account never gets stuck |
| Trade window (`server/MapleTrade`, `PlayerInteractionHandler`) | two linked windows: items, mesos, lock, copies for the other side | start, invite, visit, decline, put items and mesos, confirm, exit, leave the map | inventories and purses of two players | five ways to end; inventories fill up meanwhile; refusals are ignored; two event loops in `completeTrade` | nothing duplicated; losses only where the code accepts them; both ends together |
| Player shops and hired merchants (`server/shops`, `HiredMerchantHandler`, `MerchItemPackage`) | stock, mesos, visitors, open flag, expiry; packages in the database | open, buy, maintain, remove, organise, close, expire, collect | inventories, channels, database | a sale against the owner's maintenance; closing against expiry and shutdown; a package written twice | goods and mesos are made by nothing and lost in known ways; visitors and shops agree |
| Parties and expeditions (`handling/world/World.Party`, `MapleParty`, `exped`, `PartyHandler`) | members with channel and online flag, leader; parties of an expedition; per character the party he believes in | create, join, leave, expel, change leader, move, log on and off | sessions, maps, event instances | members in transfer; a leader who disconnects; two lists with a link each way | a party has a leader in it; lists, links and beliefs agree |
| Buddies (`client/BuddyList`, `BuddyListHandler`, `World.Buddy`) | per character a list of requests and buddies, its rows in the database, its copy in a transfer, the channel shown for each buddy | ask, accept, delete; tell the buddies on arrival and departure | sessions, database | the other side is offline, in transit or changing its list; saves rewrite the rows a request was inserted into | nobody is a buddy unasked; entries last; who is here sees who is here |
| Messenger (`MapleMessenger`, `World.Messenger`) | three seats | join, leave, change server | sessions | members in transfer | seats and members agree |
| Guilds, alliances, families, sidekicks (`handling/world/guild`, `family`, `sidekick`) | members, ranks, capacity; a tree | invite, join, leave, expel, rank, disband | sessions, database | invitations that outlive their cause; trees that split | ranks and bounds; the tree stays a tree |
| Storage, market (`server/MapleStorage`, `server/MTSStorage`) | items and mesos of an account | store, take out, arrange | inventories, database | partial failure between two containers | an item is in one of them |
| Maps and drops (`server/maps`, `server/life`) | monsters, drops, reactors, characters on a map | spawn, kill, drop, pick up, expire | inventories, parties | two players and one drop | a drop is taken once |
| Events (`scripting/EventManager`, `EventInstanceManager`, `scripts/event`) | "state" and named instances of an event; members, tickets, timer of an instance; per player the instance and the place | start, register, walk out, die, leave the party, disconnect, return, time out, dispose | maps, parties, NPC scripts | script calls of two event loops and a timer interleave; the state is set and reset by hand | members and players agree; a closed event has a team in it and opens again; nobody is left behind |
| Squads (`server/MapleSquad`, the squads of `ChannelServer`, `scripts/npc/9120036.js` and its kind) | one registered squad per boss: leader, members, banned, status, sign-up clock; a waiting list | register, join, withdraw, ban, accept, queue, start, return, expire | events, maps, NPC scripts | menus that outlive the squad they were shown for; squads cleared by type; the clock against the leader's start | a running clock belongs to the registered squad; every squad makes room in the end |
| Start, shutdown, timers (`server/Start`, `ShutdownServer`, `Timer`) | shutdown stage, timers | start, minute save, shutdown | all servers | saving while players still act | everything is saved |
| Combat, items, skills, packets, data providers, GUI | tables and arithmetic | - | - | volume rather than order | - |

`PROJECT.json` lists these parts with their status, and under `hazards` the places
where the order of steps bites, with the properties that watch them.

## 2. What is modelled

### Trade.tla - the trade window

A player who opens a trade gets a `MapleTrade`; inviting a second player gives
him one too and links the two.  Items and mesos put in a window leave the
inventory at once.  The state is one function per field of `MapleTrade`
(`partner`, `win` for `items`, `winMeso` for `meso`, `exch` and `exchMeso` for
`exchangeItems` and `exchangeMeso`, `locked`, `inTrade`, `open` for
"`MapleCharacter.trade` is not null"), next to inventories, purses, maps and the
ground.

Each action is one whole packet handler: `StartTrade`, `InviteTrade`,
`VisitTrade`, `SetItems`, `OfferWorn`, `SetMeso`, `Exit` (also decline), `LeaveMap` (warp,
channel change and disconnection, through `MapleMap.removePlayer`), and
`completeTrade` in three: `Confirm` by the first side, `Complete` and `Bounce` by
the second, according to whether `check()` finds that everything fits.
`PickUp`, `Drop` and `Earn` stand for the rest of the game, which goes on while
a trade is open.

`SET_ITEMS` reads the inventory from the packet, but `setItems` removes from the
inventory of the item's kind and does not look at the result.  Equipment that is worn
lies in another inventory than that of its kind, so it stays worn and the window gets a
copy.  This is `OfferWorn`: worn equipment is outside the model, and the copy is an
object that was nowhere.  `NoItemDuplicated` is about objects, and names this copy as
the one way in which a trade makes one.

Abstractions.  An item fills one slot; `Restricted` is one kind of item of which
a player may hold one.  The order in which `addFromDrop` is called is not kept:
what is taken is any maximal set of items it accepts (`Taken`).  `MaxMeso` is the
largest int, and `Tax` any function below the identity (`TaxAssumption`).

### Barter.tla - what a trade promises

Items have owners; players offer and seal; an exchange hands both offers over at
once, one of them sealed before; anything else only withdraws.  What belongs to the
world can be found, or brought into an offer at once (`Bring`, for `OfferWorn`).  `Trade` is shown
to implement it (`ImplementsBarter`) with an item's owner being whoever has it in
the inventory or the window, and `Nobody` for the ground and for what is lost.

### Session.tla - one account between the servers

One account with one character, and any number of connections to the login
server, the channels and the cash shop.  `state`, `ip` and `saved` are the
account and character in the database; `flag` is the Java system property that
lets a character load from the database once; `auth` the entry of
`LoginServer.loginAuth`; `pending` and `stored` the pending transfers and
registered characters of each `PlayerStorage`; `swept` what the minute timer has taken
from a storage and not saved yet; `find` is `World.Find`; `redirect`
the places clients were sent to and have not reached.  Per connection there are
`kind` (the server it talks to), `pc` (where in its handler it is), `channel`,
`player`, `loggedIn`, `moving` (`serverTransition`), the deeds `done` by its copy
of the character and whether its keys are current, `keyed`.

A handler of a connection runs on one event loop, so it never interleaves with
itself; it does interleave with other connections, and long handlers are cut
where the shared state is read or written again:

| Handler | Actions |
|---|---|
| `MapleServerHandler.channelActive` | `OpenLogin` |
| `MapleClient.login`, `CharLoginHandler.login`, `CharlistRequest` | `LoginRefused`, `Login`, `ReplaceKeys` |
| `Character_WithoutSecondPassword` | `SelectCharacter` (to the redirection), `MarkCharacter` (the flag, set afterwards); `ReplaceKeys` when it returns early |
| `InterServerHandler.Loggedin` | `ArriveByTransfer` or `ArriveByLogin`; then `Admit`, `RefuseKey`, `RefuseAddress` or `RefuseState`; then `Register`; then `Enter` (the keys once more) |
| `MapleCharacter.changeChannel` | `ChangeChannel`, `FinishChange` (keys, save, no player) |
| `InterServerHandler.EnterCS` | `EnterShop`, `FinishEnterShop` |
| `CashShopOperation.EnterCS` | `ArriveAtShop`, `AdmitToShop` (or a refusal), `Register`, `Enter` |
| `CashShopOperation.LeaveCS` | `LeaveShop`, `FinishLeaveShop` |
| `MapleServerHandler.channelInactive`, `MapleClient.disconnect` | `Close`, `SaveLost`, `RemoveLost`, `Forget` |
| `Start.savePlayerToDB` | `Sweep` (takes what a storage holds), `SavePlayer` |
| `PlayerStorage.PersistingTask` | `Expire` |

Abstractions.  A key is only compared with the current one of the account, and
the three keys are always compared together, so a Boolean says whether all of
them are current; replacing any one makes it false for every other holder
(`NewKeys`).  `Login` merges `login`, `finishLogin` and the first
`CharlistRequest`; two logins that overlap inside it only void one another.
Time is abstract: a timeout may have passed whenever it is tested (`Reads`,
`Expire`).  All clients come from one address.  A
storage and the timer refer to a character object: to the one of a session (`stored[x]`
is the session), or to one whose session is gone (then it is its keys and deeds,
`LeftBehind`); such a copy is still saved every minute while a channel's storage holds
it.  `saveToDB` writes at once.  `redirect` is a set: two
clients on their way to the same place count once.  `earned`, the only variable
that is not in the code, collects what copies with current keys have done since
these keys were handed out.  `Character_WithSecondPassword` is not modelled: its
opcodes are commented out in `recvops.properties`.

### EventScripts.tla and EventInstance.tla - party quests and boss battles

`EventInstance` is one event of one channel: its `EventManager` (`state`, `names`),
the instances it makes (`name`, `phase`, `chars`, `ticket`, `timer`) and the players
(`eim` for `getEventInstance()`, `place`).  What the instance does is decided by the
event's script, and no lock is held while a script runs.  `EventScripts` is therefore
fifty of the scripts of `scripts/event` as data: each handler of a script is the
sequence of calls it makes on the instance and the event manager, and `EventInstance`
runs these sequences one call at a time on behalf of the threads that may be in them:
the event loop of each player and the timer of each instance (`todo`, `at`).  A call
that takes the instance's write lock is one step (`DoDispose`, `DoDrop`,
`DoUnregister`); registering a party is three for each member, because
`registerPlayer` adds to `chars` under the lock, sets the player's instance without it
and then calls the script's `playerEntry`.

The entry points - `StartEvent`, `WalkOut`, `Die`, `MonstersDead`, `FinishPQ`,
`LeaveParty`, `Disband`, `Disconnect`, `Rejoin`, `Timeout` - put the script's calls
into `todo` under the tests the Java code makes.  A second login of a character makes a
second player object (`Char`), as in the server; an object that a handler is still to
register does not log in again, since a login makes a new one.  A timer does not fire
while the setup that sets it is under way: its delays are minutes.  Maps are reduced to inside
and outside, and the stages of a quest to `AdvanceState`.

What the scripts do differently is where the model is worth most:

* *The check.*  `scripts/npc/9020000.js:45` and its kind test the state, and the event's
  `setup` sets it: two leaders can pass together (`event_pair` runs this), and the NPCs
  of Romeo and Juliet test nothing.
* *The end.*  Most scripts dispose of the instance and then set the state to 0; a new
  team's setup in between loses its 1 and a third team joins it in the same maps.
* *The way in.*  `playerEntry` takes the map from the instance, which refuses once it is
  disposed, or from the channel, which does not.  In the second kind (`WuGongPQ`,
  `HontalePQ`, `shaoling`, `LudiPQ`, `ZakumPQ`, `ProtectTylus`, `VonLeonBattle`) a late
  entry brings a member into an event that is over; they are not in `Evicting`, the set
  `NobodyLeftBehind` speaks of.  Nor are those whose `playerExit` does not warp the
  player (`HenesysPQ`, `Juliet`, `ProtectPig`), nor `KerningPQ`, which fails with three
  players.
* *The bound.*  `disposeIfPlayerBelow` compares with `<=` and counts the leaver.
* *The way out.*  `changedMap` of `2095_tokyo` acts on one map outside only, where its end
  takes the players: who walks out anywhere else stays a member (`ways`).  It is not in
  `KnowsWayOut`; its end warps all members out.
* *The next team.*  A handler keeps the instance it began with.  If that has ended and a
  new team has been let in meanwhile, the rest of the handler warps its player out of
  maps in which he is by then a member of the next instance; or a second login takes him
  back into the old instance while a leader's new one is registering him.  `MembersInside`
  and `NobodyLeftBehind` are therefore stated while the event has made one instance
  (`FirstInstance`); `MemberOfOwnInstance` and `ClosedMeansLive` need no such condition.

Scripts with rules of their own are left out: `Ghostbaby`, `MesoPQ`, `BossBloody`,
`BossPierre` and `BossBanban_CHAOS`, `Amoria`, `CWKPQ`, `English`, `GuildQuest`, `PVP`,
the carnivals, `PQS_7`, `DollHouse`, `WitchTower`, `BossQuest`, and the schedulers that
have no instance (`Boats`, `Subway`, ...).

### Merchant.tla - shops of one account

A hired merchant keeps its goods in memory; a sale and a closing write them to the
package of the account, replacing what it held.  While the merchant is listed by its
channel the package is only a copy; afterwards it is what the owner collects.  The
state is that of `AbstractPlayerStore`, `HiredMerchant` and `MaplePlayerShop` (`stock`,
`shelf`, `till`, `open`, `available`, `visitors`, `timer`, `onMap`), the channel's list
of merchants, the package, and `playerShop` (`window`), inventory and purse of each
character.

One action per handler: `OwnerStep` (create, put in and take out goods, open, maintain,
organise, close, exit), `VisitorStep` (visit, buy, leave), `PlayerStep` (drop, pick up,
disconnect, connect), `Collect`, `TimerExpires`, a GM's `Kick`, and the two stages of a
shutdown: `ToggleShops`, `CloseAllMerchants`, `Restart`.  Mesos are ints that wrap
(`ToInt`, `TooMuch`), the tax any function that takes no more than there is.

Entering a shop is two actions, because its handlers test `isOpen` and the free seats and
then call `setPlayerShop` and `addVisitor` without a lock.  `Visit` ends with the tests, and
`entering` says who was let in where; `Sit` is the rest, and finds whatever has happened in
between: a shop that its owner maintains, that was closed or whose last seat is taken.
`late` remembers whom that befell until he leaves, for the properties only.  Likewise
`Maintain` and `OwlToOwn` end with `removeAllVisitors`, and `TakeOver` makes the merchant the
owner's window, even if it was closed before.

### Party.tla - parties and expeditions

`World.Party` keeps parties and expeditions; every character keeps a reference to his
party, which `updateParty` corrects only for those `World.Find` has on a channel.  `at`
holds for each party id its `seats` (how often a character is in the list - the code
can list him twice), `leader`, `shown` (the online flags) and `link` (its expedition);
`teams` and `head` are the expeditions; `party` is what a character believes, `where`
where he is.  An id is free again after the party is disbanded, since `getParty()`
drops a disbanded party and every lookup of its id fails.

An operation of `World.Party` is an operator from a world of parties to a world; an
action is the handler's tests and the composition of the operations it calls.  Coming
and going is `Depart`, `Shop`, `Arrive`, `Register`, `Announce`, `Disconnect`,
`DisconnectInShop`, `Lose`: an arrival looks its party up, is then registered with
`Find`, and then announces itself, three steps between which others go on.  "away" is
both the cash shop and being under way between two servers: `Find` knows neither as a
channel.

### Buddy.tla - buddy lists

Who asks another to be his buddy puts him on his own list at once and a request on the
other's: in memory if `World.Find` has him on a channel, and as a row of the table
`buddies`.  Accepting and deleting write to the own list and tell the other.  `list`,
`online`, `changed` and `capacity` are the fields of `BuddyList` and its entries, `rows`
the table, `copy` the list inside a `CharacterTransfer`; `where` says how far a
character has come or gone.  A handler is cut where it reads or writes what others
change (`todo` is the rest of it): asking is `AskBegin`, then `AskOnline` and
`AskNotify` or `AskOffline`, `AskInsert`, `AskPut`; accepting `Accept`, which looks the
other up, `AcceptPut`, which puts him with the channel found then, and `AcceptNotify`; deleting `DeleteBegin` and `DeleteEnd`; arriving `Load` or `Arrive`,
`Enter`, `Announce`, `Look`, `See`; leaving `Depart` and `Withdraw`, or `Disconnect`,
`SignOff` and `Close`.  An offline character has no list: the model empties it, and a new
one is read from the rows or the transfer.

`said` and `blind`, which are not in the code, record whom a character has asked or
accepted and not deleted since, and whom he put on his list as offline and has not heard
of since.  Each call on another's list is one step: in `Added` and `Deleted` that he is
found and has an entry, and what is put for it; in `AskOnline` that his list has room and no
entry, and the request.  The loop over the buddies of one arrival is one step too, and so
are the two queries of `AskOffline` and a save.

What the model shows of the code besides: a request to somebody in transit or in the cash
shop is a row that his next save removes, unless his list was empty; `isFull` counts the
request itself, so that a list which a request fills cannot accept it; and a request
inserted after its answer was saved leaves two rows, of which a login may read either.

### Squad.tla - the squads of one boss

A boss is fought by a squad: a leader registers it at the boss's NPC, others join within
five minutes, the leader starts the fight, and while it goes on others may queue for the
next one.  `reg` is the squad `ChannelServer` has registered for the type, `squad` the
`MapleSquad` objects with the fields of that class, `clock` the squads whose `removal` is
scheduled, `queue` the waiting list of the type; `state` is the event's property, `fight`
its instances with their players and disconnected players (`chars`, `dced`), `named` the
instances by name, `eim` the instance of each character and `where` his map, as far as it
matters.  The NPC is `scripts/npc/9120036.js`, the event
`scripts/event/NamelessMagicMonster.js`; some thirty other bosses have an NPC of the same
pattern.

`Talk` is the script's `start`: it looks at the event and the squad and shows a menu
(`talk`, the script's `status`).  The answer comes any time later and acts on whatever
squad is registered then: `Register`, `Join`, `Withdraw`, `Wait`, `ChooseList`, `Ban`,
`Accept`, `Start`, `StartRefused`, `Rejoin`.  Two handlers are cut: registering, at
`addMapleSquad`'s test and put (`TestKey`, `PutSquad`), and starting, which enters one
member after the other (`Enter`) before it sets the status (`Started`).  `SignUpEnds` is
the clock, `FightEnds` the event's timer, `Leave` and `Logout` the departures, with the
`checkStates` of the map they leave.  A squad holds its leader by a weak reference:
`Collect` is the garbage collector, after which `getLeader` looks for the name.

Objects that nothing refers to any more are used again (`FreeSquads`, `FreeFights`);
`deserted`, which is not in the code, says that a squad's fight had nobody inside when its
status was set, and `clash` that two registrations have overlapped.  A clear and the copy
after it are one step.

What the model shows of the code besides: `isSquadMember` looks for a character in a list
of names and never finds one, so that every menu of a member comes from the other branch;
`getAllNextPlayer().contains(name)` looks for a name in a list of pairs, so that nobody is
kept from joining by being on the waiting list, and choosing to wait again takes him off
it.

## 3. Runs

| Run | Instance | Shows | Distinct states |
|---|---|---|---|
| `trade` | 2 players, 2 slots, 3 items (2 restricted), purses up to 2, 2 maps | `TypeOK`, `NoItemDuplicated`, `Paired`, `LockedOfferStands`, `LostOnlyIfRefused`, `ImplementsBarter`, `MesoAccounted` | 56,454 |
| `session_keys` | 3 connections, 1 channel and the shop, no deeds, no timer | `OneHeir` | 2.3 million |
| `session_data` | 2 connections, 2 channels and the shop, 1 deed, the minute timer | `TypeOK`, `NoFork`, `SavedKept` | 2.2 million |
| `session_stuck` | 2 connections, 1 channel and the shop | a character can stay registered with no connection left | violation |
| `event_crew` | all 50 scripts, a party of two, whose leader logs in a second time, with fairness | `TypeOK`, `MemberOfOwnInstance`, `ClosedMeansLive`, `MembersInside`, `NobodyLeftBehind`, `EveryInstanceEnds`, `EventReopens` | 232,343 |
| `event_pair` | 2 scripts, one with a fixed instance name, two leaders, three players, two instances | `MemberOfOwnInstance`, `ClosedMeansLive` | 1.5 million |
| `event_leader` | `LudiPQ`, a party of two | a leader's disconnection does not end the event | violation |
| `merchant_goods` | owner and visitor, 2 lots of one restricted kind, 2 shops | `SeatsMatch`, `ClosedToVisitors`, `ServedFromTheMap`, `ItemsMadeOnly`, `ItemsLostOnly` | 519,096 |
| `merchant_till` | owner and visitor, 2 bundles, ints up to 2 | `TypeOK`, `MesosMadeOnly` | 725,829 |
| `party` | 3 characters (2 travel), 2 parties, 1 expedition | `TypeOK`, `LeaderSits`, `LinksAgree`, `ShownWhenHere`, `StaysSettled`, `KnowsWhenHere`, `KeepsItsLeader` | 357,152 |
| `buddy` | 2 characters who both travel, lists of one or two entries | `TypeOK`, `BuddyByChoice`, `SeenWhenHere`, `RequestStands` | 2.3 million |
| `squad` | 2 characters, one fight at a time, with fairness | `ClockOfRegistered`, `SquadEnds` | 290,378 |

**Bounds.**  Trade: two items of a restricted kind and two slots are the least
with which an inventory fills up during a trade and the second restricted item is
refused at completion.  A purse of two has room for an offer, the tax and an overflow.
A third player, who could only try to join, is left to the theorems.
Session: two channels are needed for `ChangeChannel`; the third connection lets two
copies and a login overlap.  One deed is enough, since properties speak of one
deed at a time.  `session_data` keeps at most one client under way
(`OneClientUnderWay`), and the timer empty-handed while the cash shop is in use
(`SweptAwayFromShop`): with the shop there are 5.1 million states, and the properties hold.
In `session_keys`, which has no deeds, the timer could change nothing (`NothingSwept`).
Events: with one instance there is one team, two members and one return, the least
with which entering, leaving, ending and returning overlap; the second instance of
`event_pair` lets two teams in.  `Instances` bounds how many are ever made.
Merchants: two shops are needed for one to be saved over the other, one visitor's seat
for a full shop, two lots of one restricted kind for the refusal at collection; the till
reaches the largest int, here 2.  `merchant_till`, which is about mesos, leaves out states
with goods on the ground (`NothingDropped`).  With one visitor nobody takes the last seat
from another as he comes in; that case is in the theorems.  Parties: two parties of two seats are the least with
which an expedition has a second party to move to and a seat to lack; `ExpedMembers` 4
and `ExpedParties` 2 let both fill up.  Losing a leader by moving into a full party
needs a third party; 4 characters, 3 parties and 2 expeditions were simulated (20
million states, no violation) and are too many for a run.
Buddies: everything concerns two characters; a list of one entry fills up with the first
request, one of two can take an answer.  A character may ask himself, at most one at a
time (`OneBefriendsHimself`); without that constraint there are 3.6 million states and
the properties hold.
Squads: two characters are a leader and a member, or two leaders one after the other; four
squad objects are enough for the registered one, one under way and their copies.  The
constraint `Bounds` gives the waiting list one place, which only `c2` takes, lets `c1` go to
other maps only without a menu and only `c1` return to a fight, and ends at an overlap of
two registrations, past which nothing is claimed.  Liveness is checked on what the
constraint leaves: every end of a fight or a sign-up is in it, except the timer's end of a
fight in which `c1` has a menu open.  Without its clause about `c1` on other maps there are
418,480 states, and the properties hold.
Connections, channels, characters, travellers, parties and shops are symmetric, in a trade
players, restricted items and maps; the runs with liveness use no symmetry.

**Fairness.**  `event_crew` and `squad` need it.  In `EventInstance`, `FairSpec` has weak
fairness of the steps of each handler under way (an event loop or timer thread goes on with
the script call it is in), of the timer of each instance (`EventTimer` is a running
scheduler) and of `Spawn`, the scheduled function with which some setups start their timer.
In `Squad` likewise: the steps of a registration or a start under way, the sign-up clock
(`EtcTimer`) and the event's timer.  Players are not fair: nobody has to walk, fight, start
or disconnect.  The other properties are safety.

## 4. Properties

* `NoItemDuplicated`: an object lies on the ground, in one inventory or in one window, and
  a trade makes no other object than the copy of worn equipment that it is offered.
* `Paired`: two ends of a trade point at each other, stand on one map, and are
  never left both locked.
* `LockedOfferStands`: what a locked side handed over is what its window holds.
* `LostOnlyIfRefused`: a trade loses an item only when the player it was due to
  had no room for it.  The code does lose items then: `addFromDrop`'s result is
  ignored.
* `MesoAccounted`: mesos vanish only as tax, or when a cancelled window no longer
  fits the purse it came from (`gainMeso` refuses the whole sum).
* `OneHeir`: the current keys lead to the character in one way only - the unspent
  login entry, one transfer or one copy.  Copies with replaced keys may live on
  beside it: that is how the server lets a new login supersede an old one.
* `NoFork`: that way carries everything done under the current keys.
* `SavedKept`: a save takes something earned out of the database only as the late
  save of a session that has handed the character on, as that of a copy whose keys were
  replaced, or as the minute timer's save of a copy that left its storage after the timer
  took it.  All do happen: `changeChannel`, `EnterCS` and `LeaveCS` save after (or
  while) the next server may already have saved, so does the timer, which takes its list
  first; and a superseded copy saves when it disconnects, or every minute when it was left
  behind in a storage.
* `MemberOfOwnInstance`: a living instance that a player points at counts him among its
  members, so that his leaving is seen.
* `ClosedMeansLive`: once no handler is under way, a state other than "0" belongs to a
  living instance; no team is shut out of an empty event.
* `MembersInside`, `NobodyLeftBehind`: nobody who left stays a member, and nobody stays
  in the maps of an event that is over, in the scripts that see to it and while one
  instance has been made.
* `EveryInstanceEnds`, `EventReopens`: by its timer, if by nothing else, every instance
  is disposed, and a closed event opens again.
* `ClockOfRegistered`: a running sign-up clock belongs to the registered squad.  `clear`
  takes whichever squad of the type is registered out of the registry, so any other clock
  would end somebody else's sign-up or fight.  Two overlapping registrations do break it:
  the squad that is refused is cleared, and clears the other.
* `SquadEnds`: every squad makes room in the end, by the clock, by the event's timer or by
  the departure of the last.  The exception is a fight nobody has entered: `startInstance`
  asks neither where the leader is nor whether anybody came in, and a boss map that nobody
  leaves is never checked, so the boss stays taken after its instance has timed out.
* `SeatsMatch`, `ClosedToVisitors`, `ServedFromTheMap`: a shop's visitors are those whose
  shop it is; none is there during maintenance (a sale does not look at `open`), and
  until the shutdown none in a shop off the map.  The exceptions are visitors whom the
  owner, a closing or another visitor overtook between the tests and the seat (`late`):
  they do sit in a shop under maintenance and may buy there.  A closed personal shop has
  nothing left to sell to them; a closed merchant has what its owner put into it afterwards.
* `ItemsMadeOnly`, `ItemsLostOnly`, `MesosMadeOnly`: goods are multiplied only by a sale in
  a merchant that was closed around its visitor, lost in five named ways only,
  and mesos come only out of a merchant closed before.  All these ways do occur.
* `LeaderSits`: every party is led by one of its members.
* `LinksAgree`: an expedition and its parties name each other, once.
* `ShownWhenHere`: who has arrived stays shown as online to his party.
* `StaysSettled`: a second seat comes only from accepting an invitation to an expedition.
* `KnowsWhenHere`: nobody who is on a channel goes on believing in a party that dropped
  him.  An arrival can bring such a belief along: it looks its party up before `Find`
  knows it.
* `KeepsItsLeader`: an expedition goes on without its leader in three ways only.
* `BuddyByChoice`: nobody is a buddy on a list whose owner has not asked or accepted him, or
  has deleted him since, although others write to the list and old copies are read back.
* `RequestStands`: what a list holds is carried over saves, transfers, lost transfers and
  disconnections; only its owner's deletion ends it.  What is put on it after the transfer
  of its owner is made goes to the object he leaves behind and is lost with it.
* `SeenWhenHere`: two buddies who have arrived see each other online, except one who put the
  other on his list as offline.  Who asks does so whenever the other has no entry of his;
  who accepts does if the other, offline when he was looked up, announces himself before he
  is put: the announcement passes over an entry that is not visible yet, and both are then
  here, buddies, and one of them unseen.

**Where the code and its comments differ.**  `MapleClient.login` says its reset of the
login state solves stuck accounts; there are other ways to be stuck (`session_stuck`): a
copy waits between `CashShopOperation.EnterCS`'s test and its registration while a newer
login registers on a channel; `World.Find` then says "cash shop", so the channel
session's disconnect takes the cash shop branch and leaves the character in the
channel's storage, where `isCharacterListConnected` finds it for ever (only a GM
command removes it).  `scripts/event/0_EXAMPLE.js:43` says a negative answer of
`playerDisconnected` boots everyone when the leader goes (`event_leader`); the answer is
cast to `Double`, the engine returns an `Integer`, and the exception leaves the policy
at 0.  Not a run: a comment in `completeTrade` says an item is lost when both sides
accept and an inventory is full; it is given back.  The battles of the higher bosses
call `eim.setPartyBossLog`, which does not exist, when the monsters are dead.

**Mutants.**  Each property of a passing run comes with a mutated definition under
which TLC finds it violated: a cancellation that gives back the wrong window or
both, a completion that does not copy the window or discards one end only, an
unchecked meso gain, keys that stay valid beside new ones, transfers that are read
back from the database or forget the channel, an instance that keeps its state, a timer that
is not set again, a squad cleared without its clock, a map counted with the player who leaves
it, a shop that is not cleared, an expulsion that tells nobody, an answer that does not look
whether it was asked for.  They stand before the definition
they replace, marked "Mutant".

## 5. Proofs

`TradeProofs`, `SessionProofs`, `MerchantProofs`, `PartyProofs`, `BuddyProofs`,
`SquadProofs`, `EventProofs`, and `SumLemmas` which two of them use, are checked by TLAPS
for every value of the constants that meets the named assumptions (`ItemAssumption`,
`BoundAssumption`, `NoneAssumption` and so on), which TLC evaluates on its instances.  They
say that the value for "none" is no player or place, that bounds are natural numbers, that
the tax takes no more than there is, that players, shops and items are finitely many (sums
and cardinalities mean nothing otherwise), that a restricted lot of `Merchant` comes in
bundles of one, and that scripts have the form `ScriptForms`.

* **Trade**: `TypeCorrect`, `NoDuplication`, `TradesPaired`, `LockedOffersStand`.  The
  inductive invariant `IInv` conjoins types, `OnePlace` (no object is in two places) and
  the last two properties: that nothing is
  duplicated when a trade ends needs the two windows to belong to one pair, that
  pairing survives needs the windows of a lone player to be empty, and that the
  completion hands over what the windows hold needs `LockedOfferStands`.  A step that
  ends a trade is reduced to a lemma about `CancelTrade` and one about `Discard`.
  `NoDuplication` adds that only `OfferWorn` makes an object (`MadeStep`).
  The same invariant gives the refinement, `Implements` (`ImplementsBarter`), and
  `LossesRefused` (`LostOnlyIfRefused`): an item's owner is determined because it is in one
  place only, and an exchange hands over whole offers because what a locked side handed
  over is what its window holds.  `MesosAccountedFor` (`MesoAccounted`) adds up purses and
  windows before and after an ending, of which two players' entries change.
* **Sums** (`SumLemmas`): a sum over a finite set is the same for functions that agree,
  changes by what one or two entries change by, and is no smaller for a function that is
  nowhere smaller.  The sum is a recursive function over subsets; its laws are proved
  without an induction theorem, from a smallest subset for which they would fail.
* **Session**: `TypeCorrect`, `OneWay` (`OneHeir`), `NothingForked` (`NoFork`) and
  `SavesKeep` (`SavedKept`).  The inductive invariant adds `Located`: a session with the
  character knows a channel, and a session that is about to save or register it has
  it; `Registered`: a session whose copy a storage holds was registered there and has not
  handed it on; and `Shelved`: a copy with current keys in a storage has everything done
  under them, and is the heir or there is none - which is why a left-behind copy that the
  timer saves sets the database back only if its keys were replaced.  `OneHeir` and `NoFork` are inductive together only: an arrival can be the sole
  heir because the entry or the transfer it consumed was the only one, and it carries
  everything because that one did.  Each action falls into one of four cases with a
  lemma each: it makes no new heir (`NothingNew`), voids all (`AllVoid`), leaves one
  copy (`OneCopy`) or one transfer (`OneTransfer`).  `SavesKeep` follows: a session that
  saves under current keys before handing on is the heir, and what a storage holds under
  current keys has everything.
* **Merchant**: `SeatsMatchAlways`, `ClosedToVisitorsAlways`, `ServedFromTheMapAlways`.  The
  inductive invariant `SeatsInv` adds that nobody offline has a shop open (a disconnection
  could otherwise leave a visitor listed), that who enters a shop is in none
  (`FromOutside`), and `OpenedToVisitors`: a shop that was never opened has no visitor and
  nobody who was let in, because it may be closed without a look at its seats.
  `TypeCorrect` is arithmetic: a purchase that passed `TooMuch` and the other tests keeps
  every amount an int, although its price is a product that wraps.  `ShopsSoundAlways` is
  what the accounting rests on: which shops are listed, timed and on their map, and that
  a merchant closed before its owner is back in it is empty (`ShopsInv`, `Returning`), that
  the owner of a personal shop has room for what it gives back, so that closing one loses
  nothing (`RoomInv`) and leaves nothing to a visitor who comes in late (`GivenBack`), and
  that a package that can be collected holds no
  less than the till of the merchant that wrote it (`Collected`).  From it
  `GoodsMadeBySaleOnly` (`ItemsMadeOnly`), `GoodsLostInFiveWays` (`ItemsLostOnly`) and
  `MesosMadeWhenClosedOnly` (`MesosMadeOnly`) follow action by action: what there is of a
  lot, or of mesos, is a sum over players and one over shops, and a handler changes one
  entry of each or two.
* **Party**: `TypeCorrect`, `AlwaysSound` (the invariant `Sound(World)`), `LeadersSit`
  (`LeaderSits`) and `BeliefsLast` (`KnowsWhenHere`).  The argument has the shape of the
  model: each operation of `World.Party` takes a sound world to a sound one and takes a
  true belief from nobody who is here (`Kept`), `Kept` composes (`KeptTwice`), and each
  action is a composition.  `Spares` does the same for the rest: it names whom an
  operation may hide, whom it may unsettle, who may lose a seat in which expedition and
  which expedition may gain a party; of a composition the exceptions of its parts are left.
  `LinksAlwaysAgree` (`LinksAgree`), `SecondSeatsByInvitation` (`StaysSettled`),
  `ArrivalsShown` (`ShownWhenHere`) and `LeadersStay` (`KeepsItsLeader`) follow with `Neat`:
  a party and its expedition name each other, once.
* **Buddy**: `TypeCorrect`, `BuddiesByChoice` (`BuddyByChoice`) and `EntriesStand`
  (`RequestStands`).  The invariant says that an entry of a list or a transfer is also in the
  rows, or will be saved before they are read (`CarriedOn`), and that where q has not
  chosen p, no list, transfer or readable row has p for a buddy, and a handler that is
  about to make one of p finds no entry (`NotChosen`).  `BuddiesSee` (`SeenWhenHere`) adds
  `Crossed`, that two requests are never answered both, and `Sighted`: a buddy who has
  looked sees the other, or a call that mends it is still to come in the handler of one of
  them (`Mending`).
* **Squad**: `ClockRegistered` (`ClockOfRegistered`).  With the type of `clock` the property
  is inductive; the three ways in which a clock starts or stops have a lemma each
  (`ClearStopsClock`, `CopyStartsOne`, `ChecksKeep`).
* **Events, for any script**: `TypeCorrect`, `MembersOfTheirOwnInstance`
  (`MemberOfOwnInstance`) and `ClosedEventsLive` (`ClosedMeansLive`) hold for every script
  whose handlers are lists of calls as `ScriptForms` has them, not only for the fifty.
  The inductive invariant `Orderly` (`OrderlyAlways`) is about what the threads have left
  to do.  `Shaped`: a rest of a handler, or of a setup and the registrations after it.
  `GuestsFresh`: who is still to be registered has nothing to do with the instance yet
  (`Fresh`), so that a departure cannot come before his registration.  `OneHost`: one
  thread alone registers others in an instance.  `HalfRegistered`: whom `chars` has and who
  does not point at the instance is about to.  `ClosedAlone` and `ClosedMeansLater`: a setup
  that is about to close the event is the only one to know the instance it made, and a
  closed event has a live instance or a setup under way that is to make one.
* **Events, for the scripts of the repository**: `MembersAreInside` (`MembersInside`) and
  `NobodyIsLeftBehind` (`NobodyLeftBehind`), for any number of players.  What handlers are
  made of is computed from the scripts once (`Bodies`, `Clean`, `Staying`).  For the first
  it matters that no list of calls warps out a player whom it has not unregistered
  (`Guarded`); `InsideInv` then says that a member who is outside is being registered by
  some thread (`Seen`).  For the second, that a list which unregisters a player warps him
  out later or takes him offline (`LetsOut`), and that an instance which still has members
  is disposed only by warping them out (`Firm`); `LeaveInv` then says that whoever is inside
  is a member of a live instance or has his way out still to do (`InsideKept`), and that a
  player who is being let in is a member, or his instance is over and refuses him
  (`LetIn`).  `disposeIfPlayerBelow(0, ...)` ends an instance without members only because
  players are finitely many.  Most steps of a thread are of a kind that disturbs little
  (`Calm`, `Plans`, `Joins`, `Lets`, `ListMoves`, `DataMoves`); each kind has its lemma.

**Only model-checked.**  Liveness, `SquadEnds`, `EveryInstanceEnds` and `EventReopens`; and
the two runs that expect a violation.  Every other property of a run is stated by a
theorem.  Two kinds of exceptions are part of the properties, with what the code does that
makes them necessary: overlapping registrations in `ClockOfRegistered`, and a second
instance in `MembersInside` and `NobodyLeftBehind`.

## 6. Plan

1. *Done*: `Trade`, `Barter`, `TradeProofs`; `Session`, `SessionProofs`; `EventScripts`,
   `EventInstance`, `EventProofs`; `Merchant`, `MerchantProofs`; `Party`, `PartyProofs`;
   `Buddy`, `BuddyProofs`; `Squad`, `SquadProofs`; `SumLemmas`.
2. To prove next: what of `MembersInside` and `NobodyLeftBehind` survives a second instance;
   of `Squad`, a type invariant and who is in a fight; abstract specifications of the shops
   and of a party, to be implemented as `Barter` is.
3. `Session` extended: the ping timer's disconnect in its own thread; composed with `Trade` for what a crash loses.
4. `Messenger`; `Guild` and alliance, `Family`; `Storage`; drops.

## 7. Not modelled

* *Session*: passwords and bans, several accounts and characters per account, address
  changes (`loginIPAuth`), server shutdown, the ping timer's concurrent disconnect, the
  data races of `PlayerStorage`'s unlocked maps.
* *Trade and shops*: inventories beyond slots and one restricted kind, and the equipment
  worn; offers of a part of a stack, or of none of it; two confirmations
  that overlap inside `completeTrade`, two buyers that overlap inside `buy`, a sale or an
  owner's handler that overlaps a closing.  These take no
  lock, and with the overlap no conservation is left to state.  Of shops: two visitors who
  take one slot in the unlocked `addVisitor`, the ten day timer inside one of the owner's
  handlers, blacklists, minigames and the search.  A player's connection is closed between
  two of his packets; only a shutdown may overtake one, which is then not carried on.  The
  cash shop's own trading.
* *Events*: stages and rewards, the monster carnival, the scripts listed above.
* *Squads*: the NPCs of the other bosses, `CWKPQ`'s special cases, the property `leader`, game
  masters (who start alone), waiting lists of several channels, the five-minute clock some
  maps start when a fight is won (it ends as a sequence of departures does), and what
  follows an overlap of two registrations.
* *Parties*: invitations (the code does not record them either), search listings, levels,
  maps and doors, what leaving does to an event or a dojo, handlers that overlap inside
  `updateParty`.
* *Buddies*: groups, GMs (who cannot be found), capacity sold by an NPC, which channel is
  shown, the moment between a save's rows and `setChanged(false)` (an entry put there is
  written by no save until the list changes again), a late save of an object handed on, the
  unlocked maps, the owner's own handler between the test and the put of a call on his list
  (`World.java:599-600`, `605-606`, `624-625`: an entry he removes there comes back, as a
  buddy he has not chosen after `:600`), a session that closes in the middle of a channel change.
* Messenger, guilds, alliances, families, sidekicks, storage, maps and drops are
  planned.  Combat, skills, packets, data providers and the GUI are tables, arithmetic or
  input and output, and are left out for good.
* The content scripts of NPCs, quests, portals, reactors and items: most are menus that
  hand out or exchange data, and a large part of them exists twice or more.
