------------------------------ MODULE Session ------------------------------
(***************************************************************************)
(* How one account moves between the login server, the channels and the    *)
(* cash shop: client/MapleClient.java, handling/login, InterServerHandler, *)
(* CashShopOperation, MapleCharacter.changeChannel and PlayerStorage.      *)
(*                                                                         *)
(* The account has one character.  A connection (MapleClient) is a session *)
(* with its own netty event loop, so its handlers run one after the other  *)
(* and interleave with those of other sessions; "pc" says how far the      *)
(* handler of a session has come.  Several game clients may use the        *)
(* account at once.  The three keys a login hands out (login, server and   *)
(* client key) are compared together: what matters of a key is whether a   *)
(* later login or character choice has replaced it, so a key is a Boolean  *)
(* that every replacement makes false.  All clients share one IP address.  *)
(* Time is abstract: whenever a timeout is tested it may have passed.      *)
(***************************************************************************)
CONSTANTS
    Sessions,  \* the connections that can be open at once
    Channels,  \* the channel servers
    Shop,      \* the cash shop server, channel -10
    Nowhere,   \* findChannel's -1
    None,      \* null
    Deeds      \* what a character can do that a save must keep

ASSUME PlaceAssumption == Shop \notin Channels /\ Nowhere \notin Channels /\ Shop # Nowhere

Places == Channels \cup {Shop}
Transfer == [keyed : BOOLEAN, done : SUBSET Deeds, channel : Channels]

Copies == [keyed : BOOLEAN, done : SUBSET Deeds]

ASSUME NoneAssumption == None \notin Transfer \cup Places \cup Sessions \cup Copies
ASSUME SessionAssumption == Sessions \cap Copies = {}

VARIABLES
    state,    \* accounts.loggedin
    ip,       \* accounts.SessionIP is not null
    saved,    \* the character in the database: the deeds it remembers
    flag,     \* the System property that lets a character load from the database once
    auth,     \* LoginServer.loginAuth has an entry for the character
    pending,  \* pending[x]: PlayerStorage.PendingCharacter of place x, or None
    stored,   \* stored[x]: whose copy the PlayerStorage of place x holds, that of a
              \* session, one that its session has left behind, or None
    swept,    \* what the minute timer has taken from a storage and not saved yet
    find,     \* World.Find: the place the character is registered at
    redirect, \* the places a game client was sent to and has not connected to yet
    kind,     \* kind[s]: what server the session is connected to
    pc,       \* pc[s]: the step its handler, or its disconnect, has reached
    channel,  \* channel[s]: MapleClient.channel
    player,   \* player[s]: MapleClient.player # null
    done,     \* done[s]: the deeds of the session's copy of the character
    keyed,    \* keyed[s]: the keys of the session's login or copy are current
    loggedIn, \* loggedIn[s]: MapleClient.loggedIn
    moving,   \* moving[s]: MapleClient.serverTransition
    earned    \* the deeds done by copies under the keys that are current

account == <<state, ip>>
entry == <<flag, auth>>
world == <<pending, stored, swept, find>>
session == <<kind, pc, channel, player, done, keyed, loggedIn, moving>>
vars == <<state, ip, saved, flag, auth, pending, stored, swept, find, redirect,
          kind, pc, channel, player, done, keyed, loggedIn, moving, earned>>

Init ==
    /\ state = "out" /\ ip = FALSE /\ saved = {}
    /\ flag = FALSE /\ auth = FALSE
    /\ pending = [x \in Places |-> None]
    /\ stored = [x \in Places |-> None]
    /\ swept = None
    /\ find = Nowhere
    /\ redirect = {}
    /\ kind = [s \in Sessions |-> "gone"]
    /\ pc = [s \in Sessions |-> "idle"]
    /\ channel = [s \in Sessions |-> None]
    /\ player = [s \in Sessions |-> FALSE]
    /\ done = [s \in Sessions |-> {}]
    /\ keyed = [s \in Sessions |-> FALSE]
    /\ loggedIn = [s \in Sessions |-> FALSE]
    /\ moving = [s \in Sessions |-> FALSE]
    /\ earned = {}

Transition == {"transition", "change"}

\* getLoginState: a transition older than 70 seconds reads, and is stored, as
\* not logged in.
Reads(v) == \/ v = state
            \/ state \in Transition /\ v = "out"

\* updateLoginState by session s.
UpdateLoginState(s, v, address) ==
    /\ state' = v /\ ip' = address
    /\ loggedIn' = [loggedIn EXCEPT ![s] = v = "in"]
    /\ moving' = [moving EXCEPT ![s] = v \in Transition]

\* Mutant: new keys are handed out, and the ones of copies and transfers that
\* exist already still count as current.
NewKeysBesideOld(but) ==
    /\ keyed' = [s \in Sessions |-> keyed[s] \/ s \in but]
    /\ UNCHANGED <<pending, stored, swept>>
    /\ earned' = {}

\* A copy that its session has left behind, under keys that are replaced.
Voided(held) == IF held \in Copies THEN [held EXCEPT !.keyed = FALSE] ELSE held

\* New keys: whatever was handed out before is void, but for the login of the
\* sessions in "but".
NewKeys(but) ==
    /\ keyed' = [s \in Sessions |-> s \in but]
    /\ pending' = [x \in Places |->
                     IF pending[x] = None THEN None
                     ELSE [keyed |-> FALSE, done |-> pending[x].done,
                           channel |-> pending[x].channel]]
    /\ stored' = [x \in Places |-> Voided(stored[x])]
    /\ swept' = Voided(swept)
    /\ earned' = {}

\* World.isCharacterListConnected looks at the channels only.
Connected == \E c \in Channels : stored[c] # None

\* The copy that a storage, or the timer, holds.
Copy(held) == IF held \in Sessions THEN [keyed |-> keyed[held], done |-> done[held]]
                                   ELSE held

\* The handler of s goes on to its next step.
Go(s, step) == pc' = [pc EXCEPT ![s] = step]
\* Where s plays, and whether it has a character in the game.
Place(s) == IF kind[s] = "shop" THEN Shop ELSE channel[s]
InGame(s) == kind[s] \in {"channel", "shop"} /\ pc[s] = "idle" /\ player[s]

\* Mutants: the transfer is read back from the database; the transfer forgets
\* the channel.
OfferFromDatabase(s) == [keyed |-> keyed[s], done |-> saved, channel |-> channel[s]]
OfferUnplaced(s) == [keyed |-> keyed[s], done |-> done[s], channel |-> None]

\* CharacterTransfer: what a copy hands on to its next place.
Offer(s) == [keyed |-> keyed[s], done |-> done[s], channel |-> channel[s]]

(***************************************************************************)
(* The login server.                                                       *)
(***************************************************************************)

OpenLogin(s) ==
    /\ kind[s] = "gone"
    /\ kind' = [kind EXCEPT ![s] = "login"]
    /\ UNCHANGED <<account, saved, entry, world, redirect, pc, channel, player, done,
                   keyed, loggedIn, moving, earned>>

\* login with the right password while the account is not logged out: refused,
\* but the state is reset.
LoginRefused(s) ==
    /\ kind[s] = "login" /\ pc[s] = "idle" /\ ~loggedIn[s] /\ ~moving[s]
    /\ state # "out"
    /\ UpdateLoginState(s, "out", FALSE)
    /\ UNCHANGED <<saved, entry, world, redirect, kind, pc, channel, player, done,
                   keyed, earned>>

\* login with the right password, then finishLogin and the choice of a channel
\* (CharlistRequest), which hand out the login key and the server key.
Login(s) ==
    /\ kind[s] = "login" /\ pc[s] = "idle" /\ ~loggedIn[s] /\ ~moving[s]
    /\ Reads("out")
    /\ UpdateLoginState(s, "in", TRUE)
    /\ NewKeys({s})
    /\ UNCHANGED <<saved, entry, find, redirect, kind, pc, channel, player,
                   done>>

\* Character_WithoutSecondPassword, up to the redirection to the channel.
SelectCharacter(s, c) ==
    /\ kind[s] = "login" /\ pc[s] = "idle" /\ loggedIn[s] /\ keyed[s]
    /\ NewKeys({})
    /\ auth' = TRUE
    /\ UpdateLoginState(s, "transition", TRUE)
    /\ redirect' = redirect \cup {c}
    /\ Go(s, "mark")
    /\ UNCHANGED <<saved, flag, find, kind, channel, player, done>>

\* A channel is chosen again, or a character that is refused after the client
\* key has been replaced.
ReplaceKeys(s) ==
    /\ kind[s] = "login" /\ pc[s] = "idle" /\ loggedIn[s] /\ keyed[s]
    /\ NewKeys({s})
    /\ UNCHANGED <<account, saved, entry, find, redirect, kind, pc, channel,
                   player, done, loggedIn, moving>>

\* The last statement of Character_WithoutSecondPassword, after the client was
\* told where to go.
MarkCharacter(s) ==
    /\ pc[s] = "mark"
    /\ flag' = TRUE
    /\ Go(s, "idle")
    /\ UNCHANGED <<account, saved, auth, world, redirect, kind, channel, player, done,
                   keyed, loggedIn, moving, earned>>

(***************************************************************************)
(* The channel server: InterServerHandler.Loggedin.                        *)
(***************************************************************************)

\* The client connects and PLAYER_LOGGEDIN takes the pending transfer.
ArriveByTransfer(s, c) ==
    /\ kind[s] = "gone" /\ c \in redirect /\ pending[c] # None
    /\ redirect' = redirect \ {c}
    /\ kind' = [kind EXCEPT ![s] = "channel"]
    /\ channel' = [channel EXCEPT ![s] = c]
    /\ pending' = [pending EXCEPT ![c] = None]
    /\ done' = [done EXCEPT ![s] = pending[c].done]
    /\ keyed' = [keyed EXCEPT ![s] = pending[c].keyed]
    /\ Go(s, "admit")
    /\ UNCHANGED <<account, saved, entry, stored, swept, find, player, loggedIn, moving,
                   earned>>

\* No transfer is pending: the flag, then the database and the login entry.
ArriveByLogin(s, c) ==
    /\ kind[s] = "gone" /\ c \in redirect /\ pending[c] = None
    /\ redirect' = redirect \ {c}
    /\ kind' = [kind EXCEPT ![s] = "channel"]
    /\ channel' = [channel EXCEPT ![s] = c]
    /\ flag' = FALSE
    /\ auth' = (auth /\ ~flag)
    /\ IF flag /\ auth
       THEN /\ done' = [done EXCEPT ![s] = saved]
            /\ keyed' = [keyed EXCEPT ![s] = TRUE]
            /\ Go(s, "admit")
       ELSE /\ Go(s, "closed")
            /\ UNCHANGED <<done, keyed>>
    /\ UNCHANGED <<account, saved, world, player, loggedIn, moving, earned>>

\* The keys, the address, the login state and isCharacterListConnected.
Admit(s) ==
    /\ kind[s] = "channel" /\ pc[s] = "admit" /\ keyed[s] /\ ip
    /\ \E v \in {"out"} \cup Transition : Reads(v) /\ state' = v
    /\ ~Connected
    /\ player' = [player EXCEPT ![s] = TRUE]
    /\ Go(s, "register")
    /\ UNCHANGED <<ip, saved, entry, world, redirect, kind, channel, done, keyed,
                   loggedIn, moving, earned>>

\* A key was replaced: closed before the client has a player.
RefuseKey(s) ==
    /\ kind[s] = "channel" /\ pc[s] = "admit" /\ ~keyed[s]
    /\ Go(s, "closed")
    /\ UNCHANGED <<account, saved, entry, world, redirect, kind, channel, player, done,
                   keyed, loggedIn, moving, earned>>

\* CheckIPAddress fails: closed when the client has a player already.
RefuseAddress(s) ==
    /\ kind[s] \in {"channel", "shop"} /\ pc[s] = "admit" /\ ~ip
    /\ kind[s] = "channel" => keyed[s]
    /\ player' = [player EXCEPT ![s] = TRUE]
    /\ Go(s, "closed")
    /\ UNCHANGED <<account, saved, entry, world, redirect, kind, channel, done, keyed,
                   loggedIn, moving, earned>>

\* Logged in elsewhere: setPlayer(null), and the client has read the state.
RefuseState(s, v) ==
    /\ kind[s] \in {"channel", "shop"} /\ pc[s] = "admit" /\ ip
    /\ kind[s] = "channel" => keyed[s]
    /\ Reads(v)
    /\ Connected \/ v = "in" \/ (kind[s] = "shop" /\ v = "out")
    /\ state' = v
    /\ loggedIn' = [loggedIn EXCEPT ![s] = v = "in"]
    /\ player' = [player EXCEPT ![s] = FALSE]
    /\ Go(s, "closed")
    /\ UNCHANGED <<ip, saved, entry, world, redirect, kind, channel, done, keyed,
                   moving, earned>>

\* updateLoginState and registerPlayer, on a channel or in the cash shop.
Register(s) ==
    /\ pc[s] = "register"
    /\ UpdateLoginState(s, "in", TRUE)
    /\ stored' = [stored EXCEPT ![Place(s)] = s]
    /\ find' = Place(s)
    /\ Go(s, "enter")
    /\ UNCHANGED <<saved, entry, pending, swept, redirect, kind, channel, player, done,
                   keyed, earned>>

\* The keys once more; then the character is in the game.
Enter(s) ==
    /\ pc[s] = "enter"
    /\ Go(s, IF keyed[s] THEN "idle" ELSE "closed")
    /\ UNCHANGED <<account, saved, entry, world, redirect, kind, channel, player, done,
                   keyed, loggedIn, moving, earned>>

(***************************************************************************)
(* In the game.                                                            *)
(***************************************************************************)

Play(s, d) ==
    /\ InGame(s) /\ d \notin done[s]
    /\ done' = [done EXCEPT ![s] = @ \cup {d}]
    /\ earned' = IF keyed[s] THEN earned \cup {d} ELSE earned
    /\ UNCHANGED <<account, saved, entry, world, redirect, kind, pc, channel, player,
                   keyed, loggedIn, moving>>

\* The timer of Start.savePlayerToDB goes once a minute through what the storages
\* of the channels hold, whoever left it there: it takes a copy ...
Sweep(c) ==
    /\ swept = None /\ stored[c] # None
    /\ swept' = stored[c]
    /\ UNCHANGED <<account, saved, entry, pending, stored, find, redirect, session, earned>>

\* ... and saves it when its turn comes.
SavePlayer ==
    /\ swept # None
    /\ saved' = Copy(swept).done
    /\ swept' = None
    /\ UNCHANGED <<account, entry, pending, stored, find, redirect, session, earned>>

\* The character leaves the storage of its place.
Deregister(x) ==
    /\ stored' = [stored EXCEPT ![x] = None]
    /\ find' = Nowhere

\* changeChannel, up to the redirection.  With replaced keys the session is
\* closed instead, and keeps its player.
ChangeChannel(s, c) ==
    /\ InGame(s) /\ kind[s] = "channel" /\ c # channel[s]
    /\ pending' = [pending EXCEPT ![c] = Offer(s)]
    /\ Deregister(channel[s])
    /\ IF keyed[s] THEN /\ UpdateLoginState(s, "change", TRUE)
                        /\ redirect' = redirect \cup {c}
                        /\ Go(s, "change")
                   ELSE /\ Go(s, "closed")
                        /\ UNCHANGED <<account, redirect, loggedIn, moving>>
    /\ UNCHANGED <<saved, entry, swept, kind, channel, player, done, keyed, earned>>

\* Its end: the keys once more, saveToDB and setPlayer(null).
FinishChange(s) ==
    /\ pc[s] = "change"
    /\ IF keyed[s] THEN /\ saved' = done[s]
                        /\ player' = [player EXCEPT ![s] = FALSE]
                        /\ Go(s, "idle")
                   ELSE /\ Go(s, "closed")
                        /\ UNCHANGED <<saved, player>>
    /\ UNCHANGED <<account, entry, world, redirect, kind, channel, done, keyed,
                   loggedIn, moving, earned>>

\* InterServerHandler.EnterCS, up to updateLoginState.
EnterShop(s) ==
    /\ InGame(s) /\ kind[s] = "channel"
    /\ pending' = [pending EXCEPT ![Shop] = Offer(s)]
    /\ Deregister(channel[s])
    /\ UpdateLoginState(s, "change", TRUE)
    /\ Go(s, "toshop")
    /\ UNCHANGED <<saved, entry, swept, redirect, kind, channel, player, done, keyed,
                   earned>>

\* Its end: saveToDB, the redirection, setPlayer(null).
FinishEnterShop(s) ==
    /\ pc[s] = "toshop"
    /\ saved' = done[s]
    /\ redirect' = redirect \cup {Shop}
    /\ player' = [player EXCEPT ![s] = FALSE]
    /\ Go(s, "idle")
    /\ UNCHANGED <<account, entry, world, kind, channel, done, keyed, loggedIn, moving,
                   earned>>

(***************************************************************************)
(* The cash shop: CashShopOperation.EnterCS and LeaveCS.                   *)
(***************************************************************************)

ArriveAtShop(s) ==
    /\ kind[s] = "gone" /\ Shop \in redirect
    /\ redirect' = redirect \ {Shop}
    /\ kind' = [kind EXCEPT ![s] = "shop"]
    /\ pending' = [pending EXCEPT ![Shop] = None]
    /\ IF pending[Shop] # None
       THEN /\ done' = [done EXCEPT ![s] = pending[Shop].done]
            /\ keyed' = [keyed EXCEPT ![s] = pending[Shop].keyed]
            /\ channel' = [channel EXCEPT ![s] = pending[Shop].channel]
            /\ player' = [player EXCEPT ![s] = TRUE]
            /\ Go(s, "admit")
       ELSE /\ Go(s, "closed")
            /\ UNCHANGED <<done, keyed, channel, player>>
    /\ UNCHANGED <<account, saved, entry, stored, swept, find, loggedIn, moving, earned>>

\* Admitted: the character is saved before its keys are looked at.
AdmitToShop(s) ==
    /\ kind[s] = "shop" /\ pc[s] = "admit" /\ ip
    /\ state \in Transition /\ ~Connected
    /\ saved' = done[s]
    /\ Go(s, IF keyed[s] THEN "register" ELSE "closed")
    /\ UNCHANGED <<account, entry, world, redirect, kind, channel, player, done, keyed,
                   loggedIn, moving, earned>>

\* LeaveCS, up to the redirection.
LeaveShop(s) ==
    /\ InGame(s) /\ kind[s] = "shop"
    /\ Deregister(Shop)
    /\ UpdateLoginState(s, "transition", TRUE)
    /\ pending' = [pending EXCEPT ![channel[s]] = Offer(s)]
    /\ redirect' = redirect \cup {channel[s]}
    /\ Go(s, "fromshop")
    /\ UNCHANGED <<saved, entry, swept, kind, channel, player, done, keyed, earned>>

\* Its end: saveToDB and setPlayer(null).
FinishLeaveShop(s) ==
    /\ pc[s] = "fromshop"
    /\ saved' = done[s]
    /\ player' = [player EXCEPT ![s] = FALSE]
    /\ Go(s, "idle")
    /\ UNCHANGED <<account, entry, world, redirect, kind, channel, done, keyed,
                   loggedIn, moving, earned>>

(***************************************************************************)
(* The end of a connection: MapleClient.disconnect.                        *)
(***************************************************************************)

Close(s) ==
    /\ kind[s] # "gone" /\ pc[s] = "idle"
    /\ Go(s, "closed")
    /\ UNCHANGED <<account, saved, entry, world, redirect, kind, channel, player, done,
                   keyed, loggedIn, moving, earned>>

\* What is left of s where it is held, when s has gone: its copy.
LeftBehind(held, s) == IF held = s THEN Copy(s) ELSE held

\* The connection is gone, and its MapleClient with it; the storages "at" and the
\* timer keep what they have of it.
Vanish(s, at) ==
    /\ stored' = [x \in Places |-> LeftBehind(at[x], s)]
    /\ swept' = LeftBehind(swept, s)
    /\ kind' = [kind EXCEPT ![s] = "gone"]
    /\ Go(s, "idle")
    /\ channel' = [channel EXCEPT ![s] = None]
    /\ done' = [done EXCEPT ![s] = {}]
    /\ keyed' = [keyed EXCEPT ![s] = FALSE]
    /\ moving' = [moving EXCEPT ![s] = FALSE]

\* disconnect saves the player, and takes its login entry away.
SaveLost(s) ==
    /\ pc[s] = "closed" /\ player[s]
    /\ saved' = done[s]
    /\ auth' = FALSE
    /\ Go(s, "lost")
    /\ UNCHANGED <<account, flag, world, redirect, kind, channel, player, done, keyed,
                   loggedIn, moving, earned>>

\* It asks World.Find where the player is.  A channel session that finds it in
\* the cash shop, and a cash shop session that finds it on a channel, start over
\* as the other kind.  As a channel session it takes the character out of its
\* channel's storage, also on the early return for a player found nowhere, which
\* skips the reset of the login state; as a cash shop session it takes nothing
\* out.
RemoveLost(s) ==
    /\ pc[s] = "lost"
    /\ \/ /\ find \in Channels
          /\ Deregister(channel[s])
          /\ UNCHANGED swept
       \/ /\ kind[s] = "channel" /\ find = Nowhere
          /\ Vanish(s, [stored EXCEPT ![channel[s]] = None])
          /\ loggedIn' = [loggedIn EXCEPT ![s] = FALSE]
          /\ UNCHANGED find
       \/ /\ find = Shop \/ (kind[s] = "shop" /\ find = Nowhere)
          /\ UNCHANGED <<stored, swept, find>>
    /\ kind[s] = "shop" \/ find # Nowhere =>
          /\ Go(s, "closed")
          /\ UNCHANGED <<kind, channel, done, keyed, loggedIn, moving>>
    /\ IF \/ kind[s] = "channel" /\ find = Shop
          \/ kind[s] = "shop" /\ find \in Channels
       THEN saved' = done[s]
       ELSE UNCHANGED saved
    /\ player' = [player EXCEPT ![s] = FALSE]
    /\ UNCHANGED <<account, entry, pending, redirect, earned>>

\* Without a player, or when it has been removed: the login state is reset if
\* the session counts as logged in.
Forget(s) ==
    /\ pc[s] = "closed" /\ ~player[s]
    /\ IF loggedIn[s] /\ ~moving[s] THEN state' = "out" /\ ip' = TRUE
                                    ELSE UNCHANGED account
    /\ loggedIn' = [loggedIn EXCEPT ![s] = FALSE]
    /\ Vanish(s, stored)
    /\ UNCHANGED <<saved, entry, pending, find, redirect, player, earned>>

\* PersistingTask drops a transfer after 40 seconds.
Expire(x) ==
    /\ pending[x] # None
    /\ pending' = [pending EXCEPT ![x] = None]
    /\ UNCHANGED <<account, saved, entry, stored, swept, find, redirect, session, earned>>

LoginStep(s) ==
    \/ OpenLogin(s) \/ LoginRefused(s) \/ Login(s) \/ ReplaceKeys(s) \/ MarkCharacter(s)
    \/ \E c \in Channels : SelectCharacter(s, c)

ArriveStep(s) ==
    \/ \E c \in Channels : ArriveByTransfer(s, c) \/ ArriveByLogin(s, c)
    \/ ArriveAtShop(s) \/ Admit(s) \/ AdmitToShop(s) \/ RefuseKey(s) \/ RefuseAddress(s)
    \/ \E v \in {"out", "in", "transition", "change"} : RefuseState(s, v)
    \/ Register(s) \/ Enter(s)

GameStep(s) ==
    \/ \E d \in Deeds : Play(s, d)
    \/ \E c \in Channels : ChangeChannel(s, c)
    \/ FinishChange(s) \/ EnterShop(s) \/ FinishEnterShop(s)
    \/ LeaveShop(s) \/ FinishLeaveShop(s)

LeaveStep(s) == Close(s) \/ SaveLost(s) \/ RemoveLost(s) \/ Forget(s)

Next ==
    \/ \E s \in Sessions : LoginStep(s) \/ ArriveStep(s) \/ GameStep(s) \/ LeaveStep(s)
    \/ SavePlayer \/ \E c \in Channels : Sweep(c)
    \/ \E x \in Places : Expire(x)

Spec == Init /\ [][Next]_vars

(***************************************************************************)
(* Properties.                                                             *)
(***************************************************************************)

\* Every variable has its type.
TypeOK ==
    /\ state \in {"out", "in", "transition", "change"}
    /\ ip \in BOOLEAN /\ flag \in BOOLEAN /\ auth \in BOOLEAN
    /\ saved \in SUBSET Deeds
    /\ pending \in [Places -> Transfer \cup {None}]
    /\ stored \in [Places -> Sessions \cup Copies \cup {None}]
    /\ swept \in Sessions \cup Copies \cup {None}
    /\ find \in Places \cup {Nowhere}
    /\ redirect \in SUBSET Places
    /\ kind \in [Sessions -> {"gone", "login", "channel", "shop"}]
    /\ pc \in [Sessions -> {"idle", "mark", "admit", "register", "enter", "change",
                            "toshop", "fromshop", "closed", "lost"}]
    /\ channel \in [Sessions -> Channels \cup {None}]
    /\ player \in [Sessions -> BOOLEAN] /\ keyed \in [Sessions -> BOOLEAN]
    /\ loggedIn \in [Sessions -> BOOLEAN] /\ moving \in [Sessions -> BOOLEAN]
    /\ done \in [Sessions -> SUBSET Deeds]
    /\ earned \in SUBSET Deeds

\* The handlers that have handed the character on and will only save it.
Tail == {"change", "toshop", "fromshop"}

\* The copies that may still play or be handed on, and the transfers that may
\* still become such a copy, under the keys that are current.
Held == {s \in Sessions : /\ kind[s] \in {"channel", "shop"} /\ keyed[s]
                          /\ \/ pc[s] = "admit"
                             \/ player[s] /\ pc[s] \notin Tail}
Waiting == {x \in Places : pending[x] # None /\ pending[x].keyed}

\* Whatever clients and handlers overlap, the current keys lead to the
\* character in one way only: by the unspent login entry, by one transfer or by
\* one copy.  A copy with replaced keys may live on beside it.
OneHeir ==
    /\ \A s, t \in Held : s = t
    /\ \A x, y \in Waiting : x = y
    /\ Held = {} \/ Waiting = {}
    /\ auth => (Held = {} /\ Waiting = {})

\* And that way carries everything done under these keys: no change of channel,
\* visit to the cash shop or expired transfer forks the character or sets it
\* back to what the database holds.
NoFork ==
    /\ \A s \in Held : earned \subseteq done[s]
    /\ \A x \in Waiting : earned \subseteq pending[x].done
    /\ auth => earned = {}

\* A save takes something earned under the current keys out of the database only
\* if it is the late save of a session that has handed the character on, the save
\* of a copy whose keys were replaced, or the minute timer's save of a copy that has
\* been replaced, or handed on since the timer took it from its storage.
SavedKept ==
    [][\A d \in earned \cap saved :
          d \notin saved' =>
             \/ \E s \in Sessions : /\ player[s] /\ saved' = done[s]
                                    /\ pc[s] \in Tail \/ ~keyed[s]
             \/ /\ swept # None /\ saved' = Copy(swept).done
                /\ ~Copy(swept).keyed \/ \A c \in Channels : stored[c] # swept]_vars

\* MapleClient.login resets the login state of an account that is stuck, which
\* its comment calls the solution: with every connection closed, nothing must
\* keep the character out of the channels.
NotStuck == (\A s \in Sessions : kind[s] = "gone") => ~Connected
=============================================================================
