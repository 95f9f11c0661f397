---------------------------- MODULE SessionProofs ----------------------------
(***************************************************************************)
(* The proofs that the keys of an account lead to its character in one way *)
(* only (OneHeir), that this way loses nothing (NoFork), and what follows  *)
(* for saves (SavedKept).                                                  *)
(***************************************************************************)
EXTENDS Session, TLAPS

\* A session that has the character, or is about to, is on a channel or in the
\* cash shop and knows a channel, which a transfer must name; a session that
\* will save or register the character has it.
Located ==
    \A s \in Sessions :
        /\ kind[s] = "channel" => channel[s] \in Channels
        /\ player[s] \/ pc[s] \in {"admit", "register"} =>
              kind[s] \in {"channel", "shop"} /\ channel[s] \in Channels
        /\ pc[s] \in Tail \cup {"register", "lost"} => player[s]
        /\ kind[s] = "shop" /\ pc[s] = "admit" => player[s]

\* A session whose copy a storage holds is the one that was registered there, and
\* has not handed the character on since.
Registered ==
    \A x \in Places : stored[x] \in Sessions =>
        /\ kind[stored[x]] \in {"channel", "shop"} /\ Place(stored[x]) = x
        /\ pc[stored[x]] \in {"idle", "enter", "closed", "lost"}

\* The copy that the storage of place x holds.
CopyAt(x) == Copy(stored[x])

\* The places whose storage holds a copy with current keys.
Shelf == {x \in Places : stored[x] # None /\ CopyAt(x).keyed}

\* Such a copy has everything done under these keys.  It is the heir or, when its
\* session is gone or has given it up, there is none.
Shelved ==
    \A x \in Shelf : /\ earned \subseteq CopyAt(x).done
                     /\ Held \subseteq {stored[x]} /\ Waiting = {} /\ ~auth

IInv == TypeOK /\ Located /\ Registered /\ OneHeir /\ NoFork /\ Shelved

(***************************************************************************)
(* What the helpers of the actions return.                                 *)
(***************************************************************************)

\* updateLoginState writes values of the right types.
LEMMA UpdateTypes ==
    ASSUME TypeOK, NEW s \in Sessions, NEW v \in {"out", "in", "transition", "change"},
           NEW a \in BOOLEAN, UpdateLoginState(s, v, a)
    PROVE  /\ state' \in {"out", "in", "transition", "change"} /\ ip' \in BOOLEAN
           /\ loggedIn' \in [Sessions -> BOOLEAN] /\ moving' \in [Sessions -> BOOLEAN]
  BY DEF UpdateLoginState, Transition, TypeOK

\* So does the handing out of new keys ...
LEMMA NewKeysTypes ==
    ASSUME TypeOK, NEW but \in SUBSET Sessions, NewKeys(but)
    PROVE  /\ keyed' \in [Sessions -> BOOLEAN]
           /\ pending' \in [Places -> Transfer \cup {None}]
           /\ stored' \in [Places -> Sessions \cup Copies \cup {None}]
           /\ swept' \in Sessions \cup Copies \cup {None}
           /\ earned' \in SUBSET Deeds
  <1>1. \A x \in Places : pending[x] # None =>
            [keyed |-> FALSE, done |-> pending[x].done,
             channel |-> pending[x].channel] \in Transfer
    BY DEF TypeOK, Transfer
  <1>2. pending' \in [Places -> Transfer \cup {None}]
    BY <1>1 DEF NewKeys
  <1>3. ASSUME NEW held \in Sessions \cup Copies \cup {None}
        PROVE  Voided(held) \in Sessions \cup Copies \cup {None}
    BY DEF Voided, Copies
  <1>4. /\ stored' \in [Places -> Sessions \cup Copies \cup {None}]
        /\ swept' \in Sessions \cup Copies \cup {None}
    BY <1>3 DEF NewKeys, TypeOK
  <1> QED
    BY <1>2, <1>4 DEF NewKeys

\* ... which makes every other key, and every transfer, void.
LEMMA NewKeysVoid ==
    ASSUME TypeOK, NEW but \in SUBSET Sessions, NewKeys(but)
    PROVE  /\ \A s \in Sessions : keyed'[s] <=> s \in but
           /\ Waiting' = {}
           /\ earned' = {}
  <1>1. \A s \in Sessions : keyed'[s] <=> s \in but
    BY DEF NewKeys
  <1>2. ASSUME NEW x \in Places, pending'[x] # None PROVE ~pending'[x].keyed
    BY <1>2 DEF NewKeys
  <1>3. Waiting' = {}
    BY <1>2 DEF Waiting
  <1> QED
    BY <1>1, <1>3 DEF NewKeys

\* A session with a player offers a transfer that names a channel.
LEMMA OfferType ==
    ASSUME TypeOK, Located, NEW s \in Sessions, player[s]
    PROVE  Offer(s) \in Transfer
  BY DEF TypeOK, Located, Offer, Transfer

\* Whatever holds a session or a copy holds a copy of it.
LEMMA CopyType ==
    ASSUME TypeOK, NEW held \in Sessions \cup Copies
    PROVE  Copy(held) \in Copies
  BY DEF Copy, TypeOK, Copies

\* What is left of a session that has gone is a copy.
LEMMA VanishTypes ==
    ASSUME TypeOK, NEW s \in Sessions,
           NEW at \in [Places -> Sessions \cup Copies \cup {None}], Vanish(s, at)
    PROVE  /\ stored' \in [Places -> Sessions \cup Copies \cup {None}]
           /\ swept' \in Sessions \cup Copies \cup {None}
  <1>1. Copy(s) \in Copies
    BY CopyType
  <1> QED
    BY <1>1 DEF Vanish, LeftBehind, TypeOK

\* A session that has removed its player has vanished or starts over.
LEMMA LostGoes ==
    ASSUME TypeOK, Located, NEW s \in Sessions, RemoveLost(s)
    PROVE  \/ Vanish(s, [stored EXCEPT ![channel[s]] = None])
           \/ Go(s, "closed") /\ UNCHANGED <<kind, channel, done, keyed>>
  <1>1. kind[s] \in {"channel", "shop"}
    BY DEF RemoveLost, Located, Tail
  <1>2. CASE kind[s] = "channel" /\ find = Nowhere
    BY <1>2, PlaceAssumption DEF RemoveLost
  <1>3. CASE ~(kind[s] = "channel" /\ find = Nowhere)
    BY <1>1, <1>3 DEF RemoveLost
  <1> QED
    BY <1>2, <1>3

(***************************************************************************)
(* Types and places.                                                       *)
(***************************************************************************)


\* Each step keeps the types.
LEMMA TypeStep ==
    ASSUME TypeOK, Located, [Next]_vars
    PROVE  TypeOK'
  <1>1. ASSUME NEW s \in Sessions, OpenLogin(s) PROVE TypeOK'
    BY <1>1, PlaceAssumption, NoneAssumption DEF OpenLogin, account, entry,
      world, TypeOK, Located, Transfer, Places
  <1>2. ASSUME NEW s \in Sessions, LoginRefused(s) PROVE TypeOK'
    <2>1. loggedIn' \in [Sessions -> BOOLEAN] /\ moving' \in [Sessions -> BOOLEAN]
      BY <1>2, UpdateTypes DEF LoginRefused
    <2> QED
      BY <1>2, <2>1 DEF LoginRefused, UpdateLoginState, entry, world, TypeOK
  <1>3. ASSUME NEW s \in Sessions, Login(s) PROVE TypeOK'
    <2>1. loggedIn' \in [Sessions -> BOOLEAN] /\ moving' \in [Sessions -> BOOLEAN]
      BY <1>3, UpdateTypes DEF Login
    <2>2. /\ keyed' \in [Sessions -> BOOLEAN] /\ earned' \in SUBSET Deeds
          /\ pending' \in [Places -> Transfer \cup {None}]
          /\ stored' \in [Places -> Sessions \cup Copies \cup {None}]
          /\ swept' \in Sessions \cup Copies \cup {None}
      BY <1>3, NewKeysTypes DEF Login
    <2> QED
      BY <1>3, <2>1, <2>2 DEF Login, UpdateLoginState, entry, TypeOK
  <1>4. ASSUME NEW s \in Sessions, ReplaceKeys(s) PROVE TypeOK'
    <2>1. /\ keyed' \in [Sessions -> BOOLEAN] /\ earned' \in SUBSET Deeds
          /\ pending' \in [Places -> Transfer \cup {None}]
          /\ stored' \in [Places -> Sessions \cup Copies \cup {None}]
          /\ swept' \in Sessions \cup Copies \cup {None}
      BY <1>4, NewKeysTypes DEF ReplaceKeys
    <2> QED
      BY <1>4, <2>1 DEF ReplaceKeys, account, entry, TypeOK
  <1>5. ASSUME NEW s \in Sessions, MarkCharacter(s) PROVE TypeOK'
    BY <1>5, PlaceAssumption, NoneAssumption DEF MarkCharacter, Go, account,
      world, TypeOK, Located, Transfer, Places
  <1>6. ASSUME NEW s \in Sessions, NEW c \in Channels, SelectCharacter(s, c)
        PROVE TypeOK'
    <2>1. loggedIn' \in [Sessions -> BOOLEAN] /\ moving' \in [Sessions -> BOOLEAN]
      BY <1>6, UpdateTypes DEF SelectCharacter
    <2>2. /\ keyed' \in [Sessions -> BOOLEAN] /\ earned' \in SUBSET Deeds
          /\ pending' \in [Places -> Transfer \cup {None}]
          /\ stored' \in [Places -> Sessions \cup Copies \cup {None}]
          /\ swept' \in Sessions \cup Copies \cup {None}
      BY <1>6, NewKeysTypes DEF SelectCharacter
    <2> QED
      BY <1>6, <2>1, <2>2 DEF SelectCharacter, UpdateLoginState, Go, Places, TypeOK
  <1>7. ASSUME NEW s \in Sessions, NEW c \in Channels, ArriveByTransfer(s, c)
        PROVE TypeOK'
    BY <1>7, PlaceAssumption, NoneAssumption DEF ArriveByTransfer, Go, account,
      entry, TypeOK, Located, Transfer, Places
  <1>8. ASSUME NEW s \in Sessions, NEW c \in Channels, ArriveByLogin(s, c)
        PROVE TypeOK'
    <2>1. CASE flag /\ auth
      BY <1>8, <2>1 DEF ArriveByLogin, Go, account, world, TypeOK, Places
    <2>2. CASE ~(flag /\ auth)
      BY <1>8, <2>2 DEF ArriveByLogin, Go, account, world, TypeOK, Places
    <2> QED
      BY <2>1, <2>2
  <1>9. ASSUME NEW s \in Sessions, ArriveAtShop(s) PROVE TypeOK'
    <2>1. CASE pending[Shop] # None
      <3>1. pending[Shop] \in Transfer
        BY <2>1 DEF TypeOK, Places
      <3> QED
        BY <1>9, <2>1, <3>1 DEF ArriveAtShop, Go, account, entry, TypeOK, Transfer, Places
    <2>2. CASE pending[Shop] = None
      BY <1>9, <2>2 DEF ArriveAtShop, Go, account, entry, TypeOK, Places
    <2> QED
      BY <2>1, <2>2
  <1>10. ASSUME NEW s \in Sessions, Admit(s) PROVE TypeOK'
    BY <1>10, PlaceAssumption, NoneAssumption DEF Admit, Go, Reads, Transition,
      entry, world, TypeOK, Located, Transfer, Places
  <1>11. ASSUME NEW s \in Sessions, AdmitToShop(s) PROVE TypeOK'
    BY <1>11, PlaceAssumption, NoneAssumption DEF AdmitToShop, Go, Transition,
      account, entry, world, TypeOK, Located, Transfer, Places
  <1>12. ASSUME NEW s \in Sessions, RefuseKey(s) PROVE TypeOK'
    BY <1>12, PlaceAssumption, NoneAssumption DEF RefuseKey, Go, account, entry,
      world, TypeOK, Located, Transfer, Places
  <1>13. ASSUME NEW s \in Sessions, RefuseAddress(s) PROVE TypeOK'
    BY <1>13, PlaceAssumption, NoneAssumption DEF RefuseAddress, Go, account,
      entry, world, TypeOK, Located, Transfer, Places
  <1>14. ASSUME NEW s \in Sessions, NEW v \in {"out", "in", "transition", "change"}, RefuseState(s, v)
         PROVE TypeOK'
    BY <1>14, PlaceAssumption, NoneAssumption DEF RefuseState, Go, Reads,
      Transition, entry, world, TypeOK, Located, Transfer, Places
  <1>15. ASSUME NEW s \in Sessions, Register(s) PROVE TypeOK'
    BY <1>15, PlaceAssumption, NoneAssumption DEF Register, Go,
      UpdateLoginState, Transition, Place, entry, TypeOK, Located, Transfer,
      Places
  <1>16. ASSUME NEW s \in Sessions, Enter(s) PROVE TypeOK'
    BY <1>16, PlaceAssumption, NoneAssumption DEF Enter, Go, account, entry,
      world, TypeOK, Located, Transfer, Places
  <1>17. ASSUME NEW s \in Sessions, NEW d \in Deeds, Play(s, d) PROVE TypeOK'
    BY <1>17, PlaceAssumption, NoneAssumption DEF Play, InGame, account, entry,
      world, TypeOK, Located, Transfer, Places
  <1>18. ASSUME SavePlayer PROVE TypeOK'
    <2>1. Copy(swept) \in Copies
      BY <1>18, CopyType DEF SavePlayer, TypeOK
    <2> QED
      BY <1>18, <2>1 DEF SavePlayer, account, entry, session, TypeOK, Copies
  <1>31. ASSUME NEW c \in Channels, Sweep(c) PROVE TypeOK'
    BY <1>31 DEF Sweep, account, entry, session, TypeOK, Places
  <1>19. ASSUME NEW s \in Sessions, NEW c \in Channels, ChangeChannel(s, c)
         PROVE TypeOK'
    <2>1. Offer(s) \in Transfer
      BY <1>19, OfferType DEF ChangeChannel, InGame
    <2>2. pending' \in [Places -> Transfer \cup {None}]
      BY <1>19, <2>1 DEF ChangeChannel, TypeOK, Places
    <2>3. stored' \in [Places -> Sessions \cup Copies \cup {None}] /\ find' \in Places \cup {Nowhere}
      BY <1>19 DEF ChangeChannel, Deregister, TypeOK
    <2>4. CASE keyed[s]
      <3>1. loggedIn' \in [Sessions -> BOOLEAN] /\ moving' \in [Sessions -> BOOLEAN]
        BY <1>19, <2>4, UpdateTypes DEF ChangeChannel
      <3> QED
        BY <1>19, <2>2, <2>3, <2>4, <3>1
        DEF ChangeChannel, UpdateLoginState, Go, entry, TypeOK, Places
    <2>5. CASE ~keyed[s]
      BY <1>19, <2>2, <2>3, <2>5 DEF ChangeChannel, Go, account, entry, TypeOK
    <2> QED
      BY <2>4, <2>5
  <1>20. ASSUME NEW s \in Sessions, FinishChange(s) PROVE TypeOK'
    <2>1. saved' \in SUBSET Deeds
      BY <1>20 DEF FinishChange, TypeOK
    <2>2. player' \in [Sessions -> BOOLEAN]
      BY <1>20 DEF FinishChange, TypeOK
    <2>3. Go(s, "idle") \/ Go(s, "closed")
      BY <1>20 DEF FinishChange
    <2> QED
      BY <1>20, <2>1, <2>2, <2>3 DEF Go, FinishChange, account, entry, world, TypeOK
  <1>21. ASSUME NEW s \in Sessions, EnterShop(s) PROVE TypeOK'
    BY <1>21, PlaceAssumption, NoneAssumption DEF EnterShop, InGame, Offer,
      Deregister, UpdateLoginState, Transition, Go, entry, TypeOK, Located,
      Transfer, Places
  <1>22. ASSUME NEW s \in Sessions, FinishEnterShop(s) PROVE TypeOK'
    BY <1>22, PlaceAssumption, NoneAssumption DEF FinishEnterShop, Go, account,
      entry, world, TypeOK, Located, Transfer, Places
  <1>23. ASSUME NEW s \in Sessions, LeaveShop(s) PROVE TypeOK'
    BY <1>23, PlaceAssumption, NoneAssumption DEF LeaveShop, InGame, Offer,
      Deregister, UpdateLoginState, Transition, Go, entry, TypeOK, Located,
      Transfer, Places
  <1>24. ASSUME NEW s \in Sessions, FinishLeaveShop(s) PROVE TypeOK'
    BY <1>24, PlaceAssumption, NoneAssumption DEF FinishLeaveShop, Go, account,
      entry, world, TypeOK, Located, Transfer, Places
  <1>25. ASSUME NEW s \in Sessions, Close(s) PROVE TypeOK'
    BY <1>25, PlaceAssumption, NoneAssumption DEF Close, Go, account, entry,
      world, TypeOK, Located, Transfer, Places
  <1>26. ASSUME NEW s \in Sessions, SaveLost(s) PROVE TypeOK'
    BY <1>26, PlaceAssumption, NoneAssumption DEF SaveLost, Go, account, world,
      TypeOK, Located, Transfer, Places
  <1>27. ASSUME NEW s \in Sessions, RemoveLost(s) PROVE TypeOK'
    <2>1. /\ saved' \in SUBSET Deeds /\ player' \in [Sessions -> BOOLEAN]
          /\ find' \in Places \cup {Nowhere}
      BY <1>27 DEF RemoveLost, Deregister, TypeOK
    <2>2. CASE kind[s] = "channel" /\ find = Nowhere
      <3>1. /\ Vanish(s, [stored EXCEPT ![channel[s]] = None])
            /\ loggedIn' = [loggedIn EXCEPT ![s] = FALSE]
        BY <1>27, <2>2, PlaceAssumption DEF RemoveLost
      <3>2. [stored EXCEPT ![channel[s]] = None] \in [Places -> Sessions \cup Copies \cup {None}]
        BY DEF TypeOK
      <3>3. /\ stored' \in [Places -> Sessions \cup Copies \cup {None}]
            /\ swept' \in Sessions \cup Copies \cup {None}
        BY <3>1, <3>2, VanishTypes
      <3> QED
        BY <1>27, <2>1, <3>1, <3>3 DEF RemoveLost, Vanish, Go, account, entry, TypeOK
    <2>3. CASE ~(kind[s] = "channel" /\ find = Nowhere)
      <3>1. /\ stored' \in [Places -> Sessions \cup Copies \cup {None}]
            /\ swept' \in Sessions \cup Copies \cup {None}
        BY <1>27, <2>3 DEF RemoveLost, Deregister, TypeOK
      <3>2. /\ Go(s, "closed")
            /\ UNCHANGED <<kind, channel, done, keyed, loggedIn, moving>>
        BY <1>27, <2>3 DEF RemoveLost, Located
      <3> QED
        BY <1>27, <2>1, <3>1, <3>2 DEF RemoveLost, Go, account, entry, TypeOK
    <2> QED
      BY <2>2, <2>3
  <1>28. ASSUME NEW s \in Sessions, Forget(s) PROVE TypeOK'
    <2>1. /\ stored' \in [Places -> Sessions \cup Copies \cup {None}]
          /\ swept' \in Sessions \cup Copies \cup {None}
      BY <1>28, VanishTypes DEF Forget, TypeOK
    <2> QED
      BY <1>28, <2>1 DEF Forget, Go, Vanish, account, entry, TypeOK
  <1>29. ASSUME NEW x \in Places, Expire(x) PROVE TypeOK'
    BY <1>29 DEF Expire, account, entry, session, TypeOK, Located, Transfer,
      Places
  <1>30. CASE UNCHANGED vars
    BY <1>30 DEF vars, TypeOK
  <1> QED
    BY <1>1, <1>2, <1>3, <1>4, <1>5, <1>6, <1>7, <1>8, <1>9, <1>10, <1>11,
       <1>12, <1>13, <1>14, <1>15, <1>16, <1>17, <1>18, <1>19, <1>20, <1>21,
       <1>22, <1>23, <1>24, <1>25, <1>26, <1>27, <1>28, <1>29, <1>30, <1>31
       DEF Next, LoginStep, ArriveStep, GameStep, LeaveStep

\* Each step keeps the sessions located.
LEMMA LocatedStep ==
    ASSUME TypeOK, Located, [Next]_vars
    PROVE  Located'
  <1>1. ASSUME NEW s \in Sessions, OpenLogin(s) PROVE Located'
    BY <1>1 DEF OpenLogin, account, entry, world, TypeOK, Located, Tail,
      Transfer
  <1>2. ASSUME NEW s \in Sessions, LoginRefused(s) PROVE Located'
    BY <1>2 DEF LoginRefused, UpdateLoginState, Transition, entry, world,
      TypeOK, Located, Tail, Transfer
  <1>3. ASSUME NEW s \in Sessions, Login(s) PROVE Located'
    BY <1>3 DEF Login, UpdateLoginState, NewKeys, Reads, Transition, entry,
      TypeOK, Located, Tail, Transfer
  <1>4. ASSUME NEW s \in Sessions, ReplaceKeys(s) PROVE Located'
    BY <1>4 DEF ReplaceKeys, NewKeys, account, entry, TypeOK, Located, Tail,
      Transfer
  <1>5. ASSUME NEW s \in Sessions, MarkCharacter(s) PROVE Located'
    BY <1>5 DEF MarkCharacter, Go, account, world, TypeOK, Located, Tail,
      Transfer
  <1>6. ASSUME NEW s \in Sessions, NEW c \in Channels, SelectCharacter(s, c)
        PROVE Located'
    BY <1>6 DEF SelectCharacter, UpdateLoginState, NewKeys, Go, Transition,
      TypeOK, Located, Tail, Transfer
  <1>7. ASSUME NEW s \in Sessions, NEW c \in Channels, ArriveByTransfer(s, c)
        PROVE Located'
    BY <1>7 DEF ArriveByTransfer, Go, account, entry, TypeOK, Located, Tail,
      Transfer
  <1>8. ASSUME NEW s \in Sessions, NEW c \in Channels, ArriveByLogin(s, c)
        PROVE Located'
    BY <1>8 DEF ArriveByLogin, Go, account, world, TypeOK, Located, Tail,
      Transfer
  <1>9. ASSUME NEW s \in Sessions, ArriveAtShop(s) PROVE Located'
    BY <1>9 DEF ArriveAtShop, Go, account, entry, TypeOK, Located, Tail,
      Transfer
  <1>10. ASSUME NEW s \in Sessions, Admit(s) PROVE Located'
    BY <1>10 DEF Admit, Go, Reads, Transition, entry, world, TypeOK, Located,
      Tail, Transfer
  <1>11. ASSUME NEW s \in Sessions, AdmitToShop(s) PROVE Located'
    BY <1>11 DEF AdmitToShop, Go, Transition, account, entry, world, TypeOK,
      Located, Tail, Transfer
  <1>12. ASSUME NEW s \in Sessions, RefuseKey(s) PROVE Located'
    BY <1>12 DEF RefuseKey, Go, account, entry, world, TypeOK, Located, Tail,
      Transfer
  <1>13. ASSUME NEW s \in Sessions, RefuseAddress(s) PROVE Located'
    BY <1>13 DEF RefuseAddress, Go, account, entry, world, TypeOK, Located,
      Tail, Transfer
  <1>14. ASSUME NEW s \in Sessions, NEW v \in {"out", "in", "transition", "change"}, RefuseState(s, v)
         PROVE Located'
    BY <1>14 DEF RefuseState, Go, Reads, Transition, entry, world, TypeOK,
      Located, Tail, Transfer
  <1>15. ASSUME NEW s \in Sessions, Register(s) PROVE Located'
    BY <1>15 DEF Register, Go, UpdateLoginState, Transition, Place, entry,
      TypeOK, Located, Tail, Transfer
  <1>16. ASSUME NEW s \in Sessions, Enter(s) PROVE Located'
    BY <1>16 DEF Enter, Go, account, entry, world, TypeOK, Located, Tail,
      Transfer
  <1>17. ASSUME NEW s \in Sessions, NEW d \in Deeds, Play(s, d) PROVE Located'
    BY <1>17 DEF Play, InGame, account, entry, world, TypeOK, Located, Tail,
      Transfer
  <1>18. ASSUME SavePlayer PROVE Located'
    BY <1>18 DEF SavePlayer, session, Located, Tail
  <1>31. ASSUME NEW c \in Channels, Sweep(c) PROVE Located'
    BY <1>31 DEF Sweep, session, Located, Tail
  <1>19. ASSUME NEW s \in Sessions, NEW c \in Channels, ChangeChannel(s, c)
         PROVE Located'
    BY <1>19 DEF ChangeChannel, InGame, Offer, Deregister, UpdateLoginState,
      Transition, Go, account, entry, TypeOK, Located, Tail, Transfer
  <1>20. ASSUME NEW s \in Sessions, FinishChange(s) PROVE Located'
    BY <1>20 DEF FinishChange, Go, account, entry, world, TypeOK, Located, Tail,
      Transfer
  <1>21. ASSUME NEW s \in Sessions, EnterShop(s) PROVE Located'
    BY <1>21 DEF EnterShop, InGame, Offer, Deregister, UpdateLoginState,
      Transition, Go, entry, TypeOK, Located, Tail, Transfer
  <1>22. ASSUME NEW s \in Sessions, FinishEnterShop(s) PROVE Located'
    BY <1>22 DEF FinishEnterShop, Go, account, entry, world, TypeOK, Located,
      Tail, Transfer
  <1>23. ASSUME NEW s \in Sessions, LeaveShop(s) PROVE Located'
    BY <1>23 DEF LeaveShop, InGame, Offer, Deregister, UpdateLoginState,
      Transition, Go, entry, TypeOK, Located, Tail, Transfer
  <1>24. ASSUME NEW s \in Sessions, FinishLeaveShop(s) PROVE Located'
    BY <1>24 DEF FinishLeaveShop, Go, account, entry, world, TypeOK, Located,
      Tail, Transfer
  <1>25. ASSUME NEW s \in Sessions, Close(s) PROVE Located'
    BY <1>25 DEF Close, Go, account, entry, world, TypeOK, Located, Tail,
      Transfer
  <1>26. ASSUME NEW s \in Sessions, SaveLost(s) PROVE Located'
    BY <1>26 DEF SaveLost, Go, account, world, TypeOK, Located, Tail, Transfer
  <1>27. ASSUME NEW s \in Sessions, RemoveLost(s) PROVE Located'
    <2>1. player' = [player EXCEPT ![s] = FALSE]
      BY <1>27 DEF RemoveLost
    <2>2. CASE Vanish(s, [stored EXCEPT ![channel[s]] = None])
      BY <2>1, <2>2 DEF Vanish, Go, TypeOK, Located, Tail
    <2>3. CASE Go(s, "closed") /\ UNCHANGED <<kind, channel, done, keyed>>
      BY <2>1, <2>3 DEF Go, TypeOK, Located, Tail
    <2> QED
      BY <1>27, <2>2, <2>3, LostGoes
  <1>28. ASSUME NEW s \in Sessions, Forget(s) PROVE Located'
    BY <1>28 DEF Forget, Go, Vanish, account, entry, world, TypeOK, Located,
      Tail, Transfer
  <1>29. ASSUME NEW x \in Places, Expire(x) PROVE Located'
    BY <1>29 DEF Expire, account, entry, session, TypeOK, Located, Tail,
      Transfer
  <1>30. CASE UNCHANGED vars
    BY <1>30 DEF vars, Located
  <1> QED
    BY <1>1, <1>2, <1>3, <1>4, <1>5, <1>6, <1>7, <1>8, <1>9, <1>10, <1>11,
       <1>12, <1>13, <1>14, <1>15, <1>16, <1>17, <1>18, <1>19, <1>20, <1>21,
       <1>22, <1>23, <1>24, <1>25, <1>26, <1>27, <1>28, <1>29, <1>30, <1>31
       DEF Next, LoginStep, ArriveStep, GameStep, LeaveStep

\* New keys leave in the storages the sessions that were there.
LEMMA NewKeysRegister ==
    ASSUME TypeOK, NEW but \in SUBSET Sessions, NewKeys(but)
    PROVE  \A x \in Places : stored'[x] \in Sessions => stored'[x] = stored[x]
  <1>1. \A x \in Places : stored[x] \in Copies =>
            [stored[x] EXCEPT !.keyed = FALSE] \in Copies
    BY DEF Copies
  <1> QED
    BY <1>1, SessionAssumption DEF NewKeys, Voided

\* A session that has gone is in no storage.
LEMMA VanishGone ==
    ASSUME TypeOK, NEW s \in Sessions, NEW at, Vanish(s, at)
    PROVE  \A x \in Places : stored'[x] \in Sessions => stored'[x] = at[x] /\ at[x] # s
  <1>1. Copy(s) \in Copies
    BY CopyType
  <1> QED
    BY <1>1, SessionAssumption DEF Vanish, LeftBehind

\* Each step keeps the copies in the storages registered.
LEMMA RegisteredStep ==
    ASSUME TypeOK, Located, Registered, [Next]_vars
    PROVE  Registered'
  <1>1. ASSUME NEW s \in Sessions, OpenLogin(s) PROVE Registered'
    BY <1>1 DEF OpenLogin, account, entry, world, TypeOK, Registered, Place
  <1>2. ASSUME NEW s \in Sessions, LoginRefused(s) PROVE Registered'
    BY <1>2 DEF LoginRefused, UpdateLoginState, Transition, entry, world,
      TypeOK, Registered, Place
  <1>3. ASSUME NEW s \in Sessions, Login(s) PROVE Registered'
    <2>1. \A x \in Places : stored'[x] \in Sessions => stored'[x] = stored[x]
      BY <1>3, NewKeysRegister DEF Login
    <2> QED
      BY <1>3, <2>1 DEF Login, TypeOK, Registered, Place
  <1>4. ASSUME NEW s \in Sessions, ReplaceKeys(s) PROVE Registered'
    <2>1. \A x \in Places : stored'[x] \in Sessions => stored'[x] = stored[x]
      BY <1>4, NewKeysRegister DEF ReplaceKeys
    <2> QED
      BY <1>4, <2>1 DEF ReplaceKeys, TypeOK, Registered, Place
  <1>5. ASSUME NEW s \in Sessions, MarkCharacter(s) PROVE Registered'
    BY <1>5 DEF MarkCharacter, Go, account, world, TypeOK, Registered, Place
  <1>6. ASSUME NEW s \in Sessions, NEW c \in Channels, SelectCharacter(s, c)
        PROVE Registered'
    <2>1. \A x \in Places : stored'[x] \in Sessions => stored'[x] = stored[x]
      BY <1>6, NewKeysRegister DEF SelectCharacter
    <2> QED
      BY <1>6, <2>1 DEF SelectCharacter, Go, TypeOK, Registered, Place
  <1>7. ASSUME NEW s \in Sessions, NEW c \in Channels, ArriveByTransfer(s, c)
        PROVE Registered'
    BY <1>7 DEF ArriveByTransfer, Go, account, entry, TypeOK, Registered, Place
  <1>8. ASSUME NEW s \in Sessions, NEW c \in Channels, ArriveByLogin(s, c)
        PROVE Registered'
    BY <1>8 DEF ArriveByLogin, Go, account, world, TypeOK, Registered, Place
  <1>9. ASSUME NEW s \in Sessions, ArriveAtShop(s) PROVE Registered'
    BY <1>9 DEF ArriveAtShop, Go, account, entry, TypeOK, Registered, Place
  <1>10. ASSUME NEW s \in Sessions, Admit(s) PROVE Registered'
    BY <1>10 DEF Admit, Go, Reads, Transition, entry, world, TypeOK, Registered, Place
  <1>11. ASSUME NEW s \in Sessions, AdmitToShop(s) PROVE Registered'
    BY <1>11 DEF AdmitToShop, Go, Transition, account, entry, world, TypeOK,
      Registered, Place
  <1>12. ASSUME NEW s \in Sessions, RefuseKey(s) PROVE Registered'
    BY <1>12 DEF RefuseKey, Go, account, entry, world, TypeOK, Registered, Place
  <1>13. ASSUME NEW s \in Sessions, RefuseAddress(s) PROVE Registered'
    BY <1>13 DEF RefuseAddress, Go, account, entry, world, TypeOK, Registered, Place
  <1>14. ASSUME NEW s \in Sessions, NEW v \in {"out", "in", "transition", "change"}, RefuseState(s, v)
         PROVE Registered'
    BY <1>14 DEF RefuseState, Go, Reads, Transition, entry, world, TypeOK,
      Registered, Place
  <1>15. ASSUME NEW s \in Sessions, Register(s) PROVE Registered'
    <2>1. kind' = kind /\ channel' = channel /\ pc' = [pc EXCEPT ![s] = "enter"]
      BY <1>15 DEF Register, Go
    <2>2. kind[s] \in {"channel", "shop"} /\ stored' = [stored EXCEPT ![Place(s)] = s]
      BY <1>15 DEF Register, Located
    <2>3. \A x \in Places : stored'[x] = s \/ stored'[x] = stored[x]
      BY <2>2 DEF TypeOK
    <2>4. \A x \in Places : stored'[x] = s => x = Place(s)
      BY <1>15, <2>2 DEF Register, Registered, TypeOK
    <2> QED
      BY <2>1, <2>2, <2>3, <2>4 DEF Registered, Place, TypeOK
  <1>16. ASSUME NEW s \in Sessions, Enter(s) PROVE Registered'
    BY <1>16 DEF Enter, Go, account, entry, world, TypeOK, Registered, Place
  <1>17. ASSUME NEW s \in Sessions, NEW d \in Deeds, Play(s, d) PROVE Registered'
    BY <1>17 DEF Play, InGame, account, entry, world, TypeOK, Registered, Place
  <1>18. ASSUME SavePlayer PROVE Registered'
    BY <1>18 DEF SavePlayer, session, Registered, Place
  <1>31. ASSUME NEW c \in Channels, Sweep(c) PROVE Registered'
    BY <1>31 DEF Sweep, session, Registered, Place
  <1>19. ASSUME NEW s \in Sessions, NEW c \in Channels, ChangeChannel(s, c)
         PROVE Registered'
    <2>1. InGame(s) /\ channel[s] \in Places /\ channel[s] = Place(s) /\ Deregister(channel[s])
      BY <1>19 DEF ChangeChannel, InGame, Located, Place, Places
    <2>2. \A y \in Places : stored'[y] \in Sessions => stored'[y] = stored[y] /\ stored[y] # s
      BY <2>1, NoneAssumption DEF Deregister, Registered, TypeOK
    <2>3. kind' = kind /\ channel' = channel /\ \A r \in Sessions : r # s => pc'[r] = pc[r]
      BY <1>19 DEF ChangeChannel, Go, TypeOK
    <2> QED
      BY <2>2, <2>3 DEF Registered, Place
  <1>20. ASSUME NEW s \in Sessions, FinishChange(s) PROVE Registered'
    BY <1>20 DEF FinishChange, Go, account, entry, world, TypeOK, Registered, Place
  <1>21. ASSUME NEW s \in Sessions, EnterShop(s) PROVE Registered'
    <2>1. InGame(s) /\ channel[s] \in Places /\ channel[s] = Place(s) /\ Deregister(channel[s])
      BY <1>21 DEF EnterShop, InGame, Located, Place, Places
    <2>2. \A y \in Places : stored'[y] \in Sessions => stored'[y] = stored[y] /\ stored[y] # s
      BY <2>1, NoneAssumption DEF Deregister, Registered, TypeOK
    <2>3. kind' = kind /\ channel' = channel /\ \A r \in Sessions : r # s => pc'[r] = pc[r]
      BY <1>21 DEF EnterShop, Go, TypeOK
    <2> QED
      BY <2>2, <2>3 DEF Registered, Place
  <1>22. ASSUME NEW s \in Sessions, FinishEnterShop(s) PROVE Registered'
    BY <1>22 DEF FinishEnterShop, Go, account, entry, world, TypeOK, Registered, Place
  <1>23. ASSUME NEW s \in Sessions, LeaveShop(s) PROVE Registered'
    <2>1. InGame(s) /\ Shop \in Places /\ Shop = Place(s) /\ Deregister(Shop)
      BY <1>23 DEF LeaveShop, InGame, Located, Place, Places
    <2>2. \A y \in Places : stored'[y] \in Sessions => stored'[y] = stored[y] /\ stored[y] # s
      BY <2>1, NoneAssumption DEF Deregister, Registered, TypeOK
    <2>3. kind' = kind /\ channel' = channel /\ \A r \in Sessions : r # s => pc'[r] = pc[r]
      BY <1>23 DEF LeaveShop, Go, TypeOK
    <2> QED
      BY <2>2, <2>3 DEF Registered, Place
  <1>24. ASSUME NEW s \in Sessions, FinishLeaveShop(s) PROVE Registered'
    BY <1>24 DEF FinishLeaveShop, Go, account, entry, world, TypeOK, Registered, Place
  <1>25. ASSUME NEW s \in Sessions, Close(s) PROVE Registered'
    BY <1>25 DEF Close, Go, account, entry, world, TypeOK, Registered, Place
  <1>26. ASSUME NEW s \in Sessions, SaveLost(s) PROVE Registered'
    BY <1>26 DEF SaveLost, Go, account, world, TypeOK, Registered, Place
  <1>27. ASSUME NEW s \in Sessions, RemoveLost(s) PROVE Registered'
    <2>1. CASE kind[s] = "channel" /\ find = Nowhere
      <3> DEFINE out == [stored EXCEPT ![channel[s]] = None]
      <3>1. Vanish(s, out)
        BY <1>27, <2>1, PlaceAssumption DEF RemoveLost
      <3>2. \A x \in Places : out[x] \in Sessions => out[x] = stored[x]
        BY NoneAssumption DEF TypeOK
      <3>3. \A x \in Places : stored'[x] \in Sessions => stored'[x] = out[x] /\ out[x] # s
        BY <3>1, VanishGone
      <3>4. \A x \in Places : stored'[x] \in Sessions => stored'[x] = stored[x] /\ stored[x] # s
        BY <3>2, <3>3
      <3> QED
        BY <3>1, <3>4 DEF Vanish, Go, Registered, Place, TypeOK
    <2>2. CASE ~(kind[s] = "channel" /\ find = Nowhere)
      <3>1. \A x \in Places : stored'[x] \in Sessions => stored'[x] = stored[x]
        BY <1>27, <2>2, NoneAssumption DEF RemoveLost, Deregister, TypeOK
      <3> QED
        BY <1>27, <2>2, <3>1 DEF RemoveLost, Go, Located, Tail, Registered, Place, TypeOK
    <2> QED
      BY <2>1, <2>2
  <1>28. ASSUME NEW s \in Sessions, Forget(s) PROVE Registered'
    <2>1. \A x \in Places : stored'[x] \in Sessions => stored'[x] = stored[x] /\ stored[x] # s
      BY <1>28, VanishGone DEF Forget
    <2> QED
      BY <1>28, <2>1 DEF Forget, Vanish, Go, Registered, Place, TypeOK
  <1>29. ASSUME NEW x \in Places, Expire(x) PROVE Registered'
    BY <1>29 DEF Expire, account, entry, session, TypeOK, Registered, Place
  <1>30. CASE UNCHANGED vars
    BY <1>30 DEF vars, Registered, Place
  <1> QED
    BY <1>1, <1>2, <1>3, <1>4, <1>5, <1>6, <1>7, <1>8, <1>9, <1>10, <1>11,
       <1>12, <1>13, <1>14, <1>15, <1>16, <1>17, <1>18, <1>19, <1>20, <1>21,
       <1>22, <1>23, <1>24, <1>25, <1>26, <1>27, <1>28, <1>29, <1>30, <1>31
       DEF Next, LoginStep, ArriveStep, GameStep, LeaveStep

(***************************************************************************)
(* One heir, which has everything.  Each action falls into one of four     *)
(* cases: it makes no new heir, it voids all of them, it leaves one copy,  *)
(* or it leaves one transfer.                                              *)
(***************************************************************************)

\* No copy or transfer becomes an heir that was none.
LEMMA NothingNew ==
    ASSUME OneHeir, NoFork, Held' \subseteq Held, Waiting' \subseteq Waiting,
           auth' => auth, earned' = earned,
           \A s \in Held' : done'[s] = done[s],
           \A x \in Waiting' : pending'[x] = pending[x],
           Shelved, Shelf' \subseteq Shelf,
           \A x \in Shelf' : /\ CopyAt(x)' = CopyAt(x)
                             /\ stored'[x] = stored[x] \/ stored[x] \notin Held'
    PROVE  OneHeir' /\ NoFork' /\ Shelved'
  <1>1. OneHeir'
    BY DEF OneHeir
  <1>2. NoFork'
    BY DEF NoFork
  <1>3. Shelved'
    BY DEF Shelved
  <1> QED
    BY <1>1, <1>2, <1>3

\* All keys are replaced.
LEMMA AllVoid ==
    ASSUME Held' = {}, Waiting' = {}, earned' = {}, Shelf' = {}
    PROVE  OneHeir' /\ NoFork' /\ Shelved'
  BY DEF OneHeir, NoFork, Shelved

\* One copy is the heir.
LEMMA OneCopy ==
    ASSUME NEW s, Held' \subseteq {s}, Waiting' = {}, ~auth',
           earned' \subseteq done'[s],
           \A x \in Shelf' : stored'[x] = s /\ CopyAt(x)'.done = done'[s]
    PROVE  OneHeir' /\ NoFork' /\ Shelved'
  BY DEF OneHeir, NoFork, Shelved

\* One transfer is the heir.
LEMMA OneTransfer ==
    ASSUME NEW x, Held' = {}, Waiting' \subseteq {x}, ~auth',
           earned' \subseteq pending'[x].done, Shelf' = {}
    PROVE  OneHeir' /\ NoFork' /\ Shelved'
  BY DEF OneHeir, NoFork, Shelved

\* What a session with current keys that is in the game inherits.
LEMMA InGameAlone ==
    ASSUME TypeOK, OneHeir, NoFork, Shelved, NEW s \in Sessions, InGame(s), keyed[s]
    PROVE  /\ Held = {s} /\ Waiting = {} /\ ~auth /\ earned \subseteq done[s]
           /\ \A x \in Shelf : stored[x] = s
  <1>1. s \in Held
    BY DEF InGame, Held, Tail
  <1> QED
    BY <1>1 DEF OneHeir, NoFork, Shelved

\* What the only waiting transfer inherits.
LEMMA WaitingAlone ==
    ASSUME OneHeir, NoFork, Shelved, NEW x \in Places, pending[x] # None, pending[x].keyed
    PROVE  /\ Held = {} /\ Waiting = {x} /\ ~auth /\ earned \subseteq pending[x].done
           /\ Shelf = {}
  <1>1. x \in Waiting
    BY DEF Waiting
  <1> QED
    BY <1>1 DEF OneHeir, NoFork, Shelved

\* New keys leave no copy with current keys in a storage: the session that keeps
\* its login is at the login server.
LEMMA NewKeysShelf ==
    ASSUME TypeOK, Registered, NEW but \in SUBSET Sessions, NewKeys(but),
           \A s \in but : kind[s] = "login"
    PROVE  Shelf' = {}
  <1> SUFFICES ASSUME NEW x \in Places, stored'[x] # None PROVE ~CopyAt(x)'.keyed
    BY DEF Shelf
  <1>1. CASE stored[x] \in Sessions
    <2>1. stored'[x] = stored[x] /\ ~keyed'[stored[x]]
      BY <1>1, SessionAssumption DEF NewKeys, Voided, Registered, TypeOK
    <2> QED
      BY <1>1, <2>1 DEF CopyAt, Copy
  <1>2. CASE stored[x] \in Copies
    <2>1. stored'[x] = [stored[x] EXCEPT !.keyed = FALSE]
      BY <1>2 DEF NewKeys, Voided
    <2>2. stored'[x] \in Copies /\ ~stored'[x].keyed
      BY <1>2, <2>1 DEF Copies
    <2> QED
      BY <2>2, SessionAssumption DEF CopyAt, Copy
  <1>3. CASE stored[x] = None
    BY <1>3, NoneAssumption DEF NewKeys, Voided, TypeOK
  <1> QED
    BY <1>1, <1>2, <1>3 DEF TypeOK

\* Taking out of the storage of its place the copy of a session in the game leaves
\* no other with current keys.
LEMMA DeregisterShelf ==
    ASSUME TypeOK, Registered, Shelved, OneHeir, NoFork,
           NEW s \in Sessions, InGame(s), NEW x \in Places, x = Place(s), Deregister(x),
           keyed' = keyed, done' = done
    PROVE  /\ Shelf' = Shelf \ {x}
           /\ \A y \in Shelf' : CopyAt(y)' = CopyAt(y) /\ stored'[y] = stored[y]
           /\ keyed[s] => Shelf' = {}
  <1>1. \A y \in Places : y # x => stored'[y] = stored[y] /\ CopyAt(y)' = CopyAt(y)
    BY DEF Deregister, CopyAt, Copy, TypeOK
  <1>2. stored'[x] = None
    BY DEF Deregister, TypeOK
  <1>3. Shelf' = Shelf \ {x}
    BY <1>1, <1>2 DEF Shelf
  <1>4. ASSUME keyed[s], NEW y \in Shelf, y # x PROVE FALSE
    <2>1. stored[y] = s /\ y \in Places
      BY <1>4, InGameAlone DEF Shelf
    <2> QED
      BY <1>4, <2>1 DEF Registered
  <1> QED
    BY <1>1, <1>3, <1>4 DEF Shelf

\* Each step keeps both.
LEMMA HeirStep ==
    ASSUME TypeOK, Located, Registered, OneHeir, NoFork, Shelved, [Next]_vars
    PROVE  OneHeir' /\ NoFork' /\ Shelved'
  <1>1. ASSUME NEW s \in Sessions, OpenLogin(s) PROVE OneHeir' /\ NoFork' /\ Shelved'
    <2>1. Held' \subseteq Held /\ \A t \in Held' : done'[t] = done[t]
      BY <1>1 DEF
        OpenLogin, account, entry, world, Held, Tail, Located, TypeOK
    <2>2. Waiting' \subseteq Waiting /\ \A x \in Waiting' : pending'[x] = pending[x]
      BY <1>1 DEF
        OpenLogin, account, entry, world, Waiting
    <2>3. Shelf' = Shelf /\ \A x \in Shelf' : CopyAt(x)' = CopyAt(x) /\ stored'[x] = stored[x]
      BY <1>1 DEF OpenLogin, account, entry, world, Shelf, CopyAt, Copy
    <2> QED
      BY <1>1, <2>1, <2>2, <2>3, NothingNew DEF OpenLogin, account, entry,
        world
  <1>2. ASSUME NEW s \in Sessions, LoginRefused(s) PROVE OneHeir' /\ NoFork' /\ Shelved'
    <2>1. Held' \subseteq Held /\ \A t \in Held' : done'[t] = done[t]
      BY <1>2 DEF
        LoginRefused, UpdateLoginState, Transition, entry, world, Held, Tail,
        Located, TypeOK
    <2>2. Waiting' \subseteq Waiting /\ \A x \in Waiting' : pending'[x] = pending[x]
      BY <1>2 DEF
        LoginRefused, entry, world, Waiting
    <2>3. Shelf' = Shelf /\ \A x \in Shelf' : CopyAt(x)' = CopyAt(x) /\ stored'[x] = stored[x]
      BY <1>2 DEF LoginRefused, entry, world, Shelf, CopyAt, Copy
    <2> QED
      BY <1>2, <2>1, <2>2, <2>3, NothingNew DEF LoginRefused, entry, world
  <1>3. ASSUME NEW s \in Sessions, Login(s) PROVE OneHeir' /\ NoFork' /\ Shelved'
    <2>1. (\A t \in Sessions : keyed'[t] <=> t \in {s}) /\ Waiting' = {} /\ earned' = {}
      BY <1>3, NewKeysVoid DEF Login
    <2>2. Held' = {}
      BY <1>3, <2>1 DEF Login, Held, TypeOK
    <2>3. Shelf' = {}
      BY <1>3, NewKeysShelf DEF Login
    <2> QED
      BY <2>1, <2>2, <2>3, AllVoid
  <1>4. ASSUME NEW s \in Sessions, ReplaceKeys(s) PROVE OneHeir' /\ NoFork' /\ Shelved'
    <2>1. (\A t \in Sessions : keyed'[t] <=> t \in {s}) /\ Waiting' = {} /\ earned' = {}
      BY <1>4, NewKeysVoid DEF ReplaceKeys
    <2>2. Held' = {}
      BY <1>4, <2>1 DEF ReplaceKeys, Held, TypeOK
    <2>3. Shelf' = {}
      BY <1>4, NewKeysShelf DEF ReplaceKeys
    <2> QED
      BY <2>1, <2>2, <2>3, AllVoid
  <1>5. ASSUME NEW s \in Sessions, MarkCharacter(s) PROVE OneHeir' /\ NoFork' /\ Shelved'
    <2>1. Held' \subseteq Held /\ \A t \in Held' : done'[t] = done[t]
      BY <1>5 DEF
        MarkCharacter, Go, account, world, Held, Tail, Located, TypeOK
    <2>2. Waiting' \subseteq Waiting /\ \A x \in Waiting' : pending'[x] = pending[x]
      BY <1>5 DEF
        MarkCharacter, account, world, Waiting
    <2>3. Shelf' = Shelf /\ \A x \in Shelf' : CopyAt(x)' = CopyAt(x) /\ stored'[x] = stored[x]
      BY <1>5 DEF MarkCharacter, account, world, Shelf, CopyAt, Copy
    <2> QED
      BY <1>5, <2>1, <2>2, <2>3, NothingNew DEF MarkCharacter, account, world
  <1>6. ASSUME NEW s \in Sessions, NEW c \in Channels, SelectCharacter(s, c)
        PROVE OneHeir' /\ NoFork' /\ Shelved'
    <2>1. (\A t \in Sessions : keyed'[t] <=> t \in {}) /\ Waiting' = {} /\ earned' = {}
      BY <1>6, NewKeysVoid DEF SelectCharacter
    <2>2. Held' = {}
      BY <1>6, <2>1 DEF SelectCharacter, Held, TypeOK
    <2>3. Shelf' = {}
      BY <1>6, NewKeysShelf DEF SelectCharacter
    <2> QED
      BY <2>1, <2>2, <2>3, AllVoid
  <1>7. ASSUME NEW s \in Sessions, NEW c \in Channels, ArriveByTransfer(s, c)
        PROVE OneHeir' /\ NoFork' /\ Shelved'
    <2>1. /\ Held' \subseteq Held \cup {s} /\ \A t \in Held' \ {s} : done'[t] = done[t]
          /\ s \in Held' => pending[c].keyed
      BY <1>7 DEF ArriveByTransfer, Go, Held, Tail, Located, TypeOK
    <2>2. /\ Waiting' \subseteq Waiting \ {c}
          /\ \A x \in Waiting' : pending'[x] = pending[x]
      BY <1>7 DEF ArriveByTransfer, Waiting, TypeOK, Places
    <2>5. \A x \in Places : stored[x] # s
      BY <1>7 DEF ArriveByTransfer, Registered
    <2>6. Shelf' = Shelf /\ \A x \in Shelf' : CopyAt(x)' = CopyAt(x) /\ stored'[x] = stored[x]
      BY <1>7, <2>5 DEF ArriveByTransfer, Shelf, CopyAt, Copy, TypeOK
    <2>3. CASE pending[c].keyed
      <3>1. Held = {} /\ Waiting = {c} /\ ~auth /\ earned \subseteq pending[c].done /\ Shelf = {}
        BY <1>7, <2>3, WaitingAlone DEF ArriveByTransfer, Places
      <3>2. ~auth' /\ earned' \subseteq done'[s]
        BY <1>7, <3>1 DEF ArriveByTransfer, entry, TypeOK
      <3> QED
        BY <2>1, <2>2, <2>6, <3>1, <3>2, OneCopy
    <2>4. CASE ~pending[c].keyed
      <3>1. Held' \subseteq Held /\ \A t \in Held' : done'[t] = done[t]
        BY <2>1, <2>4
      <3> QED
        BY <1>7, <2>2, <2>6, <3>1, NothingNew DEF ArriveByTransfer, entry
    <2> QED
      BY <2>3, <2>4
  <1>8. ASSUME NEW s \in Sessions, NEW c \in Channels, ArriveByLogin(s, c)
        PROVE OneHeir' /\ NoFork' /\ Shelved'
    <2>1. Held' \subseteq Held \cup {s} /\ Waiting' = Waiting
      BY <1>8 DEF ArriveByLogin, Go, world, Held, Waiting, Tail, Located, TypeOK
    <2>4. \A x \in Places : stored[x] # s
      BY <1>8 DEF ArriveByLogin, Registered
    <2>5. Shelf' = Shelf /\ \A x \in Shelf' : CopyAt(x)' = CopyAt(x) /\ stored'[x] = stored[x]
      BY <1>8, <2>4 DEF ArriveByLogin, world, Shelf, CopyAt, Copy, TypeOK
    <2>2. CASE flag /\ auth
      <3>1. Held = {} /\ Waiting = {} /\ earned = {} /\ Shelf = {}
        BY <2>2 DEF OneHeir, NoFork, Shelved
      <3>2. ~auth' /\ earned' \subseteq done'[s]
        BY <1>8, <2>2, <3>1 DEF ArriveByLogin
      <3> QED
        BY <2>1, <2>5, <3>1, <3>2, OneCopy
    <2>3. CASE ~(flag /\ auth)
      <3>1. done' = done /\ keyed' = keyed /\ Go(s, "closed") /\ player' = player
        BY <1>8, <2>3 DEF ArriveByLogin
      <3>2. Held' \subseteq Held
        BY <1>8, <3>1 DEF ArriveByLogin, Go, Held, Tail, Located, TypeOK
      <3>3. pending' = pending /\ earned' = earned /\ (auth' => auth)
        BY <1>8 DEF ArriveByLogin, world
      <3> QED
        BY <2>1, <2>5, <3>1, <3>2, <3>3, NothingNew
    <2> QED
      BY <2>2, <2>3
  <1>9. ASSUME NEW s \in Sessions, ArriveAtShop(s) PROVE OneHeir' /\ NoFork' /\ Shelved'
    <2>1. /\ Held' \subseteq Held \cup {s} /\ \A t \in Held' \ {s} : done'[t] = done[t]
          /\ s \in Held' => pending[Shop] # None /\ pending[Shop].keyed
      BY <1>9 DEF ArriveAtShop, Go, Held, Tail, Located, TypeOK
    <2>2. /\ Waiting' \subseteq Waiting \ {Shop}
          /\ \A x \in Waiting' : pending'[x] = pending[x]
      BY <1>9 DEF ArriveAtShop, Waiting, TypeOK, Places
    <2>5. \A x \in Places : stored[x] # s
      BY <1>9 DEF ArriveAtShop, Registered
    <2>6. Shelf' = Shelf /\ \A x \in Shelf' : CopyAt(x)' = CopyAt(x) /\ stored'[x] = stored[x]
      BY <1>9, <2>5 DEF ArriveAtShop, Shelf, CopyAt, Copy, TypeOK
    <2>3. CASE pending[Shop] # None /\ pending[Shop].keyed
      <3>1. /\ Held = {} /\ Waiting = {Shop} /\ ~auth /\ earned \subseteq pending[Shop].done
            /\ Shelf = {}
        BY <2>3, WaitingAlone DEF Places
      <3>2. ~auth' /\ earned' \subseteq done'[s]
        BY <1>9, <2>3, <3>1 DEF ArriveAtShop, entry, TypeOK
      <3> QED
        BY <2>1, <2>2, <2>6, <3>1, <3>2, OneCopy
    <2>4. CASE ~(pending[Shop] # None /\ pending[Shop].keyed)
      <3>1. Held' \subseteq Held /\ \A t \in Held' : done'[t] = done[t]
        BY <2>1, <2>4
      <3> QED
        BY <1>9, <2>2, <2>6, <3>1, NothingNew DEF ArriveAtShop, entry
    <2> QED
      BY <2>3, <2>4
  <1>10. ASSUME NEW s \in Sessions, Admit(s) PROVE OneHeir' /\ NoFork' /\ Shelved'
    <2>1. Held' \subseteq Held /\ \A t \in Held' : done'[t] = done[t]
      BY <1>10 DEF
        Admit, Go, Reads, Transition, entry, world, Held, Tail, Located, TypeOK
    <2>2. Waiting' \subseteq Waiting /\ \A x \in Waiting' : pending'[x] = pending[x]
      BY <1>10 DEF
        Admit, entry, world, Waiting
    <2>3. Shelf' = Shelf /\ \A x \in Shelf' : CopyAt(x)' = CopyAt(x) /\ stored'[x] = stored[x]
      BY <1>10 DEF Admit, entry, world, Shelf, CopyAt, Copy
    <2> QED
      BY <1>10, <2>1, <2>2, <2>3, NothingNew DEF Admit, entry, world
  <1>11. ASSUME NEW s \in Sessions, AdmitToShop(s) PROVE OneHeir' /\ NoFork' /\ Shelved'
    <2>1. Held' \subseteq Held /\ \A t \in Held' : done'[t] = done[t]
      BY <1>11 DEF
        AdmitToShop, Go, Transition, account, entry, world, Held, Tail, Located,
        TypeOK
    <2>2. Waiting' \subseteq Waiting /\ \A x \in Waiting' : pending'[x] = pending[x]
      BY <1>11 DEF
        AdmitToShop, account, entry, world, Waiting
    <2>3. Shelf' = Shelf /\ \A x \in Shelf' : CopyAt(x)' = CopyAt(x) /\ stored'[x] = stored[x]
      BY <1>11 DEF AdmitToShop, account, entry, world, Shelf, CopyAt, Copy
    <2> QED
      BY <1>11, <2>1, <2>2, <2>3, NothingNew DEF AdmitToShop, account, entry,
        world
  <1>12. ASSUME NEW s \in Sessions, RefuseKey(s) PROVE OneHeir' /\ NoFork' /\ Shelved'
    <2>1. Held' \subseteq Held /\ \A t \in Held' : done'[t] = done[t]
      BY <1>12 DEF
        RefuseKey, Go, account, entry, world, Held, Tail, Located, TypeOK
    <2>2. Waiting' \subseteq Waiting /\ \A x \in Waiting' : pending'[x] = pending[x]
      BY <1>12 DEF
        RefuseKey, account, entry, world, Waiting
    <2>3. Shelf' = Shelf /\ \A x \in Shelf' : CopyAt(x)' = CopyAt(x) /\ stored'[x] = stored[x]
      BY <1>12 DEF RefuseKey, account, entry, world, Shelf, CopyAt, Copy
    <2> QED
      BY <1>12, <2>1, <2>2, <2>3, NothingNew DEF RefuseKey, account, entry,
        world
  <1>13. ASSUME NEW s \in Sessions, RefuseAddress(s) PROVE OneHeir' /\ NoFork' /\ Shelved'
    <2>1. Held' \subseteq Held /\ \A t \in Held' : done'[t] = done[t]
      BY <1>13 DEF
        RefuseAddress, Go, account, entry, world, Held, Tail, Located, TypeOK
    <2>2. Waiting' \subseteq Waiting /\ \A x \in Waiting' : pending'[x] = pending[x]
      BY <1>13 DEF
        RefuseAddress, account, entry, world, Waiting
    <2>3. Shelf' = Shelf /\ \A x \in Shelf' : CopyAt(x)' = CopyAt(x) /\ stored'[x] = stored[x]
      BY <1>13 DEF RefuseAddress, account, entry, world, Shelf, CopyAt, Copy
    <2> QED
      BY <1>13, <2>1, <2>2, <2>3, NothingNew DEF RefuseAddress, account,
        entry, world
  <1>14. ASSUME NEW s \in Sessions, NEW v \in {"out", "in", "transition", "change"}, RefuseState(s, v)
         PROVE OneHeir' /\ NoFork' /\ Shelved'
    <2>1. Held' \subseteq Held /\ \A t \in Held' : done'[t] = done[t]
      BY <1>14 DEF
        RefuseState, Go, Reads, Transition, entry, world, Held, Tail, Located,
        TypeOK
    <2>2. Waiting' \subseteq Waiting /\ \A x \in Waiting' : pending'[x] = pending[x]
      BY <1>14 DEF
        RefuseState, entry, world, Waiting
    <2>3. Shelf' = Shelf /\ \A x \in Shelf' : CopyAt(x)' = CopyAt(x) /\ stored'[x] = stored[x]
      BY <1>14 DEF RefuseState, entry, world, Shelf, CopyAt, Copy
    <2> QED
      BY <1>14, <2>1, <2>2, <2>3, NothingNew DEF RefuseState, entry, world
  <1>15. ASSUME NEW s \in Sessions, Register(s) PROVE OneHeir' /\ NoFork' /\ Shelved'
    <2>1. Held' \subseteq Held /\ \A t \in Held' : done'[t] = done[t]
      BY <1>15 DEF
        Register, Go, UpdateLoginState, Transition, Place, entry, Held, Tail,
        Located, TypeOK
    <2>2. Waiting' \subseteq Waiting /\ \A x \in Waiting' : pending'[x] = pending[x]
      BY <1>15 DEF
        Register, entry, Waiting
    <2>3. /\ Place(s) \in Places /\ stored' = [stored EXCEPT ![Place(s)] = s]
          /\ player[s] /\ kind[s] \in {"channel", "shop"} /\ pc[s] = "register"
          /\ keyed' = keyed /\ done' = done /\ auth' = auth /\ earned' = earned
      BY <1>15 DEF Register, Place, Places, entry, Located
    <2>4. \A x \in Places : x # Place(s) =>
              stored'[x] = stored[x] /\ CopyAt(x)' = CopyAt(x)
      BY <2>3 DEF CopyAt, Copy, TypeOK
    <2>5. \A x \in Places : x = Place(s) =>
              stored'[x] = s /\ CopyAt(x)' = [keyed |-> keyed[s], done |-> done[s]]
      BY <2>3 DEF CopyAt, Copy, TypeOK
    <2>6. CASE keyed[s]
      <3>1. s \in Held
        BY <2>3, <2>6 DEF Held, Tail
      <3>2. Held = {s} /\ Waiting = {} /\ ~auth /\ earned \subseteq done[s]
        BY <3>1 DEF OneHeir, NoFork
      <3>3. ASSUME NEW x \in Shelf PROVE FALSE
        <4>1. stored[x] = s /\ x \in Places
          BY <3>1, <3>3 DEF Shelved, Shelf
        <4> QED
          BY <2>3, <4>1 DEF Registered
      <3>4. \A x \in Shelf' : x = Place(s)
        BY <2>4, <3>3, NoneAssumption DEF Shelf
      <3> QED
        BY <2>1, <2>2, <2>3, <2>5, <3>2, <3>4, OneCopy DEF Shelf
    <2>7. CASE ~keyed[s]
      <3>1. Shelf' \subseteq Shelf \ {Place(s)}
        BY <2>4, <2>5, <2>7 DEF Shelf
      <3> QED
        BY <2>1, <2>2, <2>3, <2>4, <3>1, NothingNew DEF Shelf
    <2> QED
      BY <2>6, <2>7
  <1>16. ASSUME NEW s \in Sessions, Enter(s) PROVE OneHeir' /\ NoFork' /\ Shelved'
    <2>1. Held' \subseteq Held /\ \A t \in Held' : done'[t] = done[t]
      BY <1>16 DEF
        Enter, Go, account, entry, world, Held, Tail, Located, TypeOK
    <2>2. Waiting' \subseteq Waiting /\ \A x \in Waiting' : pending'[x] = pending[x]
      BY <1>16 DEF
        Enter, account, entry, world, Waiting
    <2>3. Shelf' = Shelf /\ \A x \in Shelf' : CopyAt(x)' = CopyAt(x) /\ stored'[x] = stored[x]
      BY <1>16 DEF Enter, account, entry, world, Shelf, CopyAt, Copy
    <2> QED
      BY <1>16, <2>1, <2>2, <2>3, NothingNew DEF Enter, account, entry, world
  <1>17. ASSUME NEW s \in Sessions, NEW d \in Deeds, Play(s, d)
         PROVE OneHeir' /\ NoFork' /\ Shelved'
    <2>1. Held' = Held /\ Waiting' = Waiting /\ \A t \in Sessions \ {s} : done'[t] = done[t]
      BY <1>17 DEF Play, InGame, world, Held, Waiting, TypeOK
    <2>4. /\ Shelf' = Shelf
          /\ \A x \in Shelf' : /\ stored'[x] = stored[x]
                               /\ stored[x] # s => CopyAt(x)' = CopyAt(x)
                               /\ stored[x] = s => CopyAt(x)'.done = done'[s]
      BY <1>17 DEF Play, world, Shelf, CopyAt, Copy, TypeOK
    <2>2. CASE keyed[s]
      <3>1. /\ Held = {s} /\ Waiting = {} /\ ~auth /\ earned \subseteq done[s]
            /\ \A x \in Shelf : stored[x] = s
        BY <1>17, <2>2, InGameAlone DEF Play
      <3>2. ~auth' /\ earned' \subseteq done'[s]
        BY <1>17, <2>2, <3>1 DEF Play, entry, TypeOK
      <3> QED
        BY <2>1, <2>4, <3>1, <3>2, OneCopy
    <2>3. CASE ~keyed[s]
      <3>1. \A t \in Held' : done'[t] = done[t]
        BY <2>1, <2>3 DEF Held
      <3>2. \A x \in Shelf : stored[x] # s
        BY <1>17, <2>3 DEF Shelf, CopyAt, Copy
      <3> QED
        BY <1>17, <2>1, <2>3, <2>4, <3>1, <3>2, NothingNew DEF Play, entry, world
    <2> QED
      BY <2>2, <2>3
  <1>18. ASSUME SavePlayer PROVE OneHeir' /\ NoFork' /\ Shelved'
    <2>1. Held' = Held /\ Waiting' = Waiting /\ Shelf' = Shelf
      BY <1>18 DEF SavePlayer, session, Held, Waiting, Shelf, CopyAt, Copy
    <2>2. \A x \in Shelf' : CopyAt(x)' = CopyAt(x) /\ stored'[x] = stored[x]
      BY <1>18 DEF SavePlayer, session, CopyAt, Copy
    <2>3. done' = done /\ pending' = pending /\ auth' = auth /\ earned' = earned
      BY <1>18 DEF SavePlayer, entry, session
    <2> QED
      BY <2>1, <2>2, <2>3, NothingNew
  <1>31. ASSUME NEW c \in Channels, Sweep(c) PROVE OneHeir' /\ NoFork' /\ Shelved'
    <2>1. Held' = Held /\ Waiting' = Waiting /\ Shelf' = Shelf
      BY <1>31 DEF Sweep, session, Held, Waiting, Shelf, CopyAt, Copy
    <2>2. \A x \in Shelf' : CopyAt(x)' = CopyAt(x) /\ stored'[x] = stored[x]
      BY <1>31 DEF Sweep, session, CopyAt, Copy
    <2>3. done' = done /\ pending' = pending /\ auth' = auth /\ earned' = earned
      BY <1>31 DEF Sweep, entry, session
    <2> QED
      BY <2>1, <2>2, <2>3, NothingNew
  <1>19. ASSUME NEW s \in Sessions, NEW c \in Channels, ChangeChannel(s, c)
         PROVE OneHeir' /\ NoFork' /\ Shelved'
    <2>1. /\ \A t \in Held' : t \in Held /\ (t = s => ~keyed[s])
          /\ \A t \in Held' : done'[t] = done[t]
      BY <1>19 DEF ChangeChannel, InGame, Go, Held, Tail, TypeOK
    <2>2. /\ c \in Places /\ pending' = [pending EXCEPT ![c] = Offer(s)]
          /\ auth' = auth /\ earned' = earned
      BY <1>19 DEF ChangeChannel, InGame, entry, Places, Located
    <2>5. /\ Shelf' \subseteq Shelf /\ (keyed[s] => Shelf' = {})
          /\ \A y \in Shelf' : CopyAt(y)' = CopyAt(y) /\ stored'[y] = stored[y]
      <3>1. channel[s] \in Places /\ channel[s] = Place(s) /\ Deregister(channel[s]) /\ InGame(s)
        BY <1>19 DEF ChangeChannel, InGame, Located, Place, Places
      <3>2. keyed' = keyed /\ done' = done
        BY <1>19 DEF ChangeChannel
      <3> QED
        BY <3>1, <3>2, DeregisterShelf
    <2>3. CASE keyed[s]
      <3>1. Held = {s} /\ Waiting = {} /\ ~auth /\ earned \subseteq done[s]
        BY <1>19, <2>3, InGameAlone DEF ChangeChannel
      <3>2. Held' = {}
        BY <2>1, <2>3, <3>1
      <3>3. Waiting' \subseteq {c}
        BY <2>2, <3>1 DEF Waiting, TypeOK
      <3>4. earned' \subseteq pending'[c].done
        BY <2>2, <3>1 DEF Offer, TypeOK
      <3> QED
        BY <2>2, <3>1, <3>2, <3>3, <3>4, <2>3, <2>5, OneTransfer
    <2>4. CASE ~keyed[s]
      <3>1. Waiting' \subseteq Waiting /\ \A y \in Waiting' : pending'[y] = pending[y]
        BY <2>2, <2>4 DEF Offer, Waiting, TypeOK
      <3> QED
        BY <2>1, <2>2, <2>5, <3>1, NothingNew
    <2> QED
      BY <2>3, <2>4
  <1>20. ASSUME NEW s \in Sessions, FinishChange(s) PROVE OneHeir' /\ NoFork' /\ Shelved'
    <2>1. Held' \subseteq Held /\ \A t \in Held' : done'[t] = done[t]
      BY <1>20 DEF
        FinishChange, Go, account, entry, world, Held, Tail, Located, TypeOK
    <2>2. Waiting' \subseteq Waiting /\ \A x \in Waiting' : pending'[x] = pending[x]
      BY <1>20 DEF
        FinishChange, account, entry, world, Waiting
    <2>3. Shelf' = Shelf /\ \A x \in Shelf' : CopyAt(x)' = CopyAt(x) /\ stored'[x] = stored[x]
      BY <1>20 DEF FinishChange, account, entry, world, Shelf, CopyAt, Copy
    <2> QED
      BY <1>20, <2>1, <2>2, <2>3, NothingNew DEF FinishChange, account, entry,
        world
  <1>21. ASSUME NEW s \in Sessions, EnterShop(s) PROVE OneHeir' /\ NoFork' /\ Shelved'
    <2>1. /\ \A t \in Held' : t \in Held /\ (t = s => ~keyed[s])
          /\ \A t \in Held' : done'[t] = done[t]
      BY <1>21 DEF EnterShop, InGame, Go, Held, Tail, TypeOK
    <2>2. /\ Shop \in Places /\ pending' = [pending EXCEPT ![Shop] = Offer(s)]
          /\ auth' = auth /\ earned' = earned
      BY <1>21 DEF EnterShop, InGame, entry, Places, Located
    <2>5. /\ Shelf' \subseteq Shelf /\ (keyed[s] => Shelf' = {})
          /\ \A y \in Shelf' : CopyAt(y)' = CopyAt(y) /\ stored'[y] = stored[y]
      <3>1. channel[s] \in Places /\ channel[s] = Place(s) /\ Deregister(channel[s]) /\ InGame(s)
        BY <1>21 DEF EnterShop, InGame, Located, Place, Places
      <3>2. keyed' = keyed /\ done' = done
        BY <1>21 DEF EnterShop
      <3> QED
        BY <3>1, <3>2, DeregisterShelf
    <2>3. CASE keyed[s]
      <3>1. Held = {s} /\ Waiting = {} /\ ~auth /\ earned \subseteq done[s]
        BY <1>21, <2>3, InGameAlone DEF EnterShop
      <3>2. Held' = {}
        BY <2>1, <2>3, <3>1
      <3>3. Waiting' \subseteq {Shop}
        BY <2>2, <3>1 DEF Waiting, TypeOK
      <3>4. earned' \subseteq pending'[Shop].done
        BY <2>2, <3>1 DEF Offer, TypeOK
      <3> QED
        BY <2>2, <3>1, <3>2, <3>3, <3>4, <2>3, <2>5, OneTransfer
    <2>4. CASE ~keyed[s]
      <3>1. Waiting' \subseteq Waiting /\ \A y \in Waiting' : pending'[y] = pending[y]
        BY <2>2, <2>4 DEF Offer, Waiting, TypeOK
      <3> QED
        BY <2>1, <2>2, <2>5, <3>1, NothingNew
    <2> QED
      BY <2>3, <2>4
  <1>22. ASSUME NEW s \in Sessions, FinishEnterShop(s) PROVE OneHeir' /\ NoFork' /\ Shelved'
    <2>1. Held' \subseteq Held /\ \A t \in Held' : done'[t] = done[t]
      BY <1>22 DEF
        FinishEnterShop, Go, account, entry, world, Held, Tail, Located, TypeOK
    <2>2. Waiting' \subseteq Waiting /\ \A x \in Waiting' : pending'[x] = pending[x]
      BY <1>22 DEF
        FinishEnterShop, account, entry, world, Waiting
    <2>3. Shelf' = Shelf /\ \A x \in Shelf' : CopyAt(x)' = CopyAt(x) /\ stored'[x] = stored[x]
      BY <1>22 DEF FinishEnterShop, account, entry, world, Shelf, CopyAt, Copy
    <2> QED
      BY <1>22, <2>1, <2>2, <2>3, NothingNew DEF FinishEnterShop, account,
        entry, world
  <1>23. ASSUME NEW s \in Sessions, LeaveShop(s) PROVE OneHeir' /\ NoFork' /\ Shelved'
    <2>1. /\ \A t \in Held' : t \in Held /\ (t = s => ~keyed[s])
          /\ \A t \in Held' : done'[t] = done[t]
      BY <1>23 DEF LeaveShop, InGame, Go, Held, Tail, TypeOK
    <2>2. /\ channel[s] \in Places /\ pending' = [pending EXCEPT ![channel[s]] = Offer(s)]
          /\ auth' = auth /\ earned' = earned
      BY <1>23 DEF LeaveShop, InGame, entry, Places, Located
    <2>5. /\ Shelf' \subseteq Shelf /\ (keyed[s] => Shelf' = {})
          /\ \A y \in Shelf' : CopyAt(y)' = CopyAt(y) /\ stored'[y] = stored[y]
      <3>1. Shop \in Places /\ Shop = Place(s) /\ Deregister(Shop) /\ InGame(s)
        BY <1>23 DEF LeaveShop, InGame, Located, Place, Places
      <3>2. keyed' = keyed /\ done' = done
        BY <1>23 DEF LeaveShop
      <3> QED
        BY <3>1, <3>2, DeregisterShelf
    <2>3. CASE keyed[s]
      <3>1. Held = {s} /\ Waiting = {} /\ ~auth /\ earned \subseteq done[s]
        BY <1>23, <2>3, InGameAlone DEF LeaveShop
      <3>2. Held' = {}
        BY <2>1, <2>3, <3>1
      <3>3. Waiting' \subseteq {channel[s]}
        BY <2>2, <3>1 DEF Waiting, TypeOK
      <3>4. earned' \subseteq pending'[channel[s]].done
        BY <2>2, <3>1 DEF Offer, TypeOK
      <3> QED
        BY <2>2, <3>1, <3>2, <3>3, <3>4, <2>3, <2>5, OneTransfer
    <2>4. CASE ~keyed[s]
      <3>1. Waiting' \subseteq Waiting /\ \A y \in Waiting' : pending'[y] = pending[y]
        BY <2>2, <2>4 DEF Offer, Waiting, TypeOK
      <3> QED
        BY <2>1, <2>2, <2>5, <3>1, NothingNew
    <2> QED
      BY <2>3, <2>4
  <1>24. ASSUME NEW s \in Sessions, FinishLeaveShop(s) PROVE OneHeir' /\ NoFork' /\ Shelved'
    <2>1. Held' \subseteq Held /\ \A t \in Held' : done'[t] = done[t]
      BY <1>24 DEF
        FinishLeaveShop, Go, account, entry, world, Held, Tail, Located, TypeOK
    <2>2. Waiting' \subseteq Waiting /\ \A x \in Waiting' : pending'[x] = pending[x]
      BY <1>24 DEF
        FinishLeaveShop, account, entry, world, Waiting
    <2>3. Shelf' = Shelf /\ \A x \in Shelf' : CopyAt(x)' = CopyAt(x) /\ stored'[x] = stored[x]
      BY <1>24 DEF FinishLeaveShop, account, entry, world, Shelf, CopyAt, Copy
    <2> QED
      BY <1>24, <2>1, <2>2, <2>3, NothingNew DEF FinishLeaveShop, account,
        entry, world
  <1>25. ASSUME NEW s \in Sessions, Close(s) PROVE OneHeir' /\ NoFork' /\ Shelved'
    <2>1. Held' \subseteq Held /\ \A t \in Held' : done'[t] = done[t]
      BY <1>25 DEF
        Close, Go, account, entry, world, Held, Tail, Located, TypeOK
    <2>2. Waiting' \subseteq Waiting /\ \A x \in Waiting' : pending'[x] = pending[x]
      BY <1>25 DEF
        Close, account, entry, world, Waiting
    <2>3. Shelf' = Shelf /\ \A x \in Shelf' : CopyAt(x)' = CopyAt(x) /\ stored'[x] = stored[x]
      BY <1>25 DEF Close, account, entry, world, Shelf, CopyAt, Copy
    <2> QED
      BY <1>25, <2>1, <2>2, <2>3, NothingNew DEF Close, account, entry, world
  <1>26. ASSUME NEW s \in Sessions, SaveLost(s) PROVE OneHeir' /\ NoFork' /\ Shelved'
    <2>1. Held' \subseteq Held /\ \A t \in Held' : done'[t] = done[t]
      BY <1>26 DEF
        SaveLost, Go, account, world, Held, Tail, Located, TypeOK
    <2>2. Waiting' \subseteq Waiting /\ \A x \in Waiting' : pending'[x] = pending[x]
      BY <1>26 DEF
        SaveLost, account, world, Waiting
    <2>3. Shelf' = Shelf /\ \A x \in Shelf' : CopyAt(x)' = CopyAt(x) /\ stored'[x] = stored[x]
      BY <1>26 DEF SaveLost, account, world, Shelf, CopyAt, Copy
    <2> QED
      BY <1>26, <2>1, <2>2, <2>3, NothingNew DEF SaveLost, account, world
  <1>27. ASSUME NEW s \in Sessions, RemoveLost(s) PROVE OneHeir' /\ NoFork' /\ Shelved'
    <2>1. Held' \subseteq Held /\ \A t \in Held' : done'[t] = done[t]
      <3>1. player' = [player EXCEPT ![s] = FALSE] /\ pc[s] = "lost"
        BY <1>27 DEF RemoveLost
      <3>2. CASE Vanish(s, [stored EXCEPT ![channel[s]] = None])
        BY <3>1, <3>2 DEF Vanish, Go, Held, Tail, TypeOK
      <3>3. CASE Go(s, "closed") /\ UNCHANGED <<kind, channel, done, keyed>>
        BY <3>1, <3>3 DEF Go, Held, Tail, TypeOK
      <3> QED
        BY <1>27, <3>2, <3>3, LostGoes
    <2>2. Waiting' \subseteq Waiting /\ \A x \in Waiting' : pending'[x] = pending[x]
      BY <1>27 DEF
        RemoveLost, account, entry, Waiting
    <2>3. /\ Shelf' \subseteq Shelf
          /\ \A x \in Shelf' : /\ CopyAt(x)' = CopyAt(x)
                               /\ stored'[x] = stored[x] \/ stored[x] \notin Held'
      <3>1. CASE kind[s] = "channel" /\ find = Nowhere
        <4> DEFINE out == [stored EXCEPT ![channel[s]] = None]
        <4>1. /\ \A x \in Places : stored'[x] = LeftBehind(out[x], s)
              /\ s \notin Held' /\ Copy(s) \in Copies
              /\ \A t \in Sessions : t # s => keyed'[t] = keyed[t] /\ done'[t] = done[t]
          BY <1>27, <3>1, PlaceAssumption, CopyType DEF RemoveLost, Vanish, Held, TypeOK
        <4>2. ASSUME NEW x \in Places, stored'[x] # None
              PROVE  /\ stored[x] # None /\ CopyAt(x)' = CopyAt(x)
                     /\ stored'[x] = stored[x] \/ stored[x] \notin Held'
          <5>1. out[x] # None /\ out[x] = stored[x]
            <6>1. out[x] = s \/ stored'[x] = out[x]
              BY <4>1 DEF LeftBehind
            <6>2. out[x] # None
              BY <4>2, <6>1, NoneAssumption
            <6> QED
              BY <6>2 DEF TypeOK
          <5>2. CASE stored[x] = s
            <6>1. stored'[x] = Copy(s) /\ stored'[x] \in Copies
              BY <4>1, <5>1, <5>2 DEF LeftBehind
            <6> QED
              BY <4>1, <5>1, <5>2, <6>1, SessionAssumption DEF CopyAt, Copy
          <5>3. CASE stored[x] # s
            <6>1. stored'[x] = stored[x]
              BY <4>1, <5>1, <5>3 DEF LeftBehind
            <6> QED
              BY <4>1, <5>1, <5>3, <6>1 DEF CopyAt, Copy
          <5> QED
            BY <5>2, <5>3
        <4> QED
          BY <4>2 DEF Shelf
      <3>2. CASE ~(kind[s] = "channel" /\ find = Nowhere)
        <4>1. keyed' = keyed /\ done' = done
          BY <1>27, <3>2 DEF RemoveLost, Located
        <4>2. ASSUME NEW x \in Places, stored'[x] # None
              PROVE  stored'[x] = stored[x] /\ CopyAt(x)' = CopyAt(x)
          <5>1. stored'[x] = stored[x]
            BY <1>27, <3>2, <4>2 DEF RemoveLost, Deregister, TypeOK
          <5> QED
            BY <4>1, <5>1 DEF CopyAt, Copy
        <4> QED
          BY <4>2 DEF Shelf
      <3> QED
        BY <3>1, <3>2
    <2> QED
      BY <1>27, <2>1, <2>2, <2>3, NothingNew DEF RemoveLost, account, entry
  <1>28. ASSUME NEW s \in Sessions, Forget(s) PROVE OneHeir' /\ NoFork' /\ Shelved'
    <2>1. Held' \subseteq Held /\ \A t \in Held' : done'[t] = done[t]
      BY <1>28 DEF
        Forget, Go, Vanish, account, entry, world, Held, Tail, Located, TypeOK
    <2>2. Waiting' \subseteq Waiting /\ \A x \in Waiting' : pending'[x] = pending[x]
      BY <1>28 DEF
        Forget, account, entry, world, Waiting
    <2>3. /\ Shelf' \subseteq Shelf
          /\ \A x \in Shelf' : /\ CopyAt(x)' = CopyAt(x)
                               /\ stored'[x] = stored[x] \/ stored[x] \notin Held'
      <3>1. /\ \A x \in Places : stored'[x] = LeftBehind(stored[x], s)
            /\ s \notin Held' /\ Copy(s) \in Copies
            /\ \A t \in Sessions : t # s => keyed'[t] = keyed[t] /\ done'[t] = done[t]
        BY <1>28, CopyType DEF Forget, Vanish, Held, TypeOK
      <3>2. ASSUME NEW x \in Places, stored'[x] # None
            PROVE  /\ stored[x] # None /\ CopyAt(x)' = CopyAt(x)
                   /\ stored'[x] = stored[x] \/ stored[x] \notin Held'
        <4>1. CASE stored[x] = s
          <5>1. stored'[x] = Copy(s) /\ stored'[x] \in Copies
            BY <3>1, <4>1 DEF LeftBehind
          <5> QED
            BY <3>1, <4>1, <5>1, SessionAssumption, NoneAssumption DEF CopyAt, Copy
        <4>2. CASE stored[x] # s
          <5>1. stored'[x] = stored[x]
            BY <3>1, <4>2 DEF LeftBehind
          <5> QED
            BY <3>1, <3>2, <4>2, <5>1 DEF CopyAt, Copy
        <4> QED
          BY <4>1, <4>2
      <3> QED
        BY <3>2 DEF Shelf
    <2> QED
      BY <1>28, <2>1, <2>2, <2>3, NothingNew DEF Forget, account, entry, world
  <1>29. ASSUME NEW x \in Places, Expire(x) PROVE OneHeir' /\ NoFork' /\ Shelved'
    <2>1. Held' = Held /\ done' = done
      BY <1>29 DEF Expire, session, Held
    <2>2. Waiting' \subseteq Waiting /\ \A y \in Waiting' : pending'[y] = pending[y]
      BY <1>29 DEF Expire, Waiting, TypeOK
    <2>3. Shelf' = Shelf /\ \A y \in Shelf' : CopyAt(y)' = CopyAt(y) /\ stored'[y] = stored[y]
      BY <1>29 DEF Expire, session, Shelf, CopyAt, Copy
    <2> QED
      BY <1>29, <2>1, <2>2, <2>3, NothingNew DEF Expire, entry
  <1>30. CASE UNCHANGED vars
    <2>1. Held' = Held /\ Waiting' = Waiting /\ done' = done /\ pending' = pending
      BY <1>30 DEF vars, Held, Waiting
    <2>2. Shelf' = Shelf /\ \A y \in Shelf' : CopyAt(y)' = CopyAt(y) /\ stored'[y] = stored[y]
      BY <1>30 DEF vars, Shelf, CopyAt, Copy
    <2> QED
      BY <1>30, <2>1, <2>2, NothingNew DEF vars
  <1> QED
    BY <1>1, <1>2, <1>3, <1>4, <1>5, <1>6, <1>7, <1>8, <1>9, <1>10, <1>11,
       <1>12, <1>13, <1>14, <1>15, <1>16, <1>17, <1>18, <1>19, <1>20, <1>21,
       <1>22, <1>23, <1>24, <1>25, <1>26, <1>27, <1>28, <1>29, <1>30, <1>31
       DEF Next, LoginStep, ArriveStep, GameStep, LeaveStep

(***************************************************************************)
(* Saves.                                                                  *)
(***************************************************************************)

\* A session that saves, if its keys are current and it has not handed the
\* character on, is the heir; so it saves everything earned.
LEMMA SaverHasAll ==
    ASSUME IInv, NEW s \in Sessions, kind[s] \in {"channel", "shop"}, player[s],
           keyed[s], pc[s] \notin Tail
    PROVE  earned \subseteq done[s]
  <1>1. s \in Held
    BY DEF Held
  <1> QED
    BY <1>1 DEF IInv, NoFork

\* Each step that writes the database does so for one session that has the
\* character, or for the copy that the timer has taken.
LEMMA SaveStep ==
    ASSUME IInv, [Next]_vars, saved' # saved
    PROVE  \/ \E s \in Sessions : /\ player[s] /\ kind[s] \in {"channel", "shop"}
                                   /\ saved' = done[s]
           \/ swept # None /\ saved' = Copy(swept).done
  <1> USE DEF IInv
  <1> DEFINE Written == \E t \in Sessions : /\ player[t] /\ kind[t] \in {"channel", "shop"}
                                             /\ saved' = done[t]
             Swept == swept # None /\ saved' = Copy(swept).done
  <1>1. ASSUME SavePlayer PROVE Swept
    BY <1>1 DEF SavePlayer
  <1>2. ASSUME NEW s \in Sessions, FinishChange(s) PROVE saved' = saved \/ Written
    BY <1>2 DEF FinishChange, Located, Tail
  <1>3. ASSUME NEW s \in Sessions, FinishEnterShop(s) PROVE Written
    BY <1>3 DEF FinishEnterShop, Located, Tail
  <1>4. ASSUME NEW s \in Sessions, AdmitToShop(s) PROVE Written
    BY <1>4 DEF AdmitToShop, Located, Tail
  <1>5. ASSUME NEW s \in Sessions, FinishLeaveShop(s) PROVE Written
    BY <1>5 DEF FinishLeaveShop, Located, Tail
  <1>6. ASSUME NEW s \in Sessions, SaveLost(s) PROVE Written
    BY <1>6 DEF SaveLost, Located, Tail
  <1>7. ASSUME NEW s \in Sessions, RemoveLost(s) PROVE saved' = saved \/ Written
    BY <1>7 DEF RemoveLost, Located, Tail
  <1>8. \/ saved' = saved
        \/ SavePlayer
        \/ \E s \in Sessions :
             \/ FinishChange(s) \/ FinishEnterShop(s) \/ AdmitToShop(s)
             \/ FinishLeaveShop(s) \/ SaveLost(s) \/ RemoveLost(s)
    <2>1. ASSUME NEW s \in Sessions, LoginStep(s) PROVE saved' = saved
      BY <2>1 DEF LoginStep, OpenLogin, LoginRefused, Login, ReplaceKeys,
        MarkCharacter, SelectCharacter
    <2>2. ASSUME NEW s \in Sessions, ArriveStep(s)
          PROVE saved' = saved \/ AdmitToShop(s)
      BY <2>2 DEF ArriveStep, ArriveByTransfer, ArriveByLogin, ArriveAtShop,
        Admit, RefuseKey, RefuseAddress, RefuseState, Register, Enter
    <2>3. ASSUME NEW s \in Sessions, GameStep(s)
          PROVE saved' = saved \/ FinishChange(s) \/ FinishEnterShop(s) \/ FinishLeaveShop(s)
      BY <2>3 DEF GameStep, Play, ChangeChannel, EnterShop, LeaveShop
    <2>4. ASSUME NEW s \in Sessions, LeaveStep(s)
          PROVE saved' = saved \/ SaveLost(s) \/ RemoveLost(s)
      BY <2>4 DEF LeaveStep, Close, Forget
    <2>5. ASSUME NEW x \in Places, Expire(x) PROVE saved' = saved
      BY <2>5 DEF Expire
    <2>6. ASSUME NEW c \in Channels, Sweep(c) PROVE saved' = saved
      BY <2>6 DEF Sweep
    <2> QED
      BY <2>1, <2>2, <2>3, <2>4, <2>5, <2>6 DEF Next, vars
  <1> QED
    BY <1>1, <1>2, <1>3, <1>4, <1>5, <1>6, <1>7, <1>8

(***************************************************************************)
(* The theorems.                                                           *)
(***************************************************************************)

\* The inductive invariant: the properties and the places of the sessions.
THEOREM Inductive == Spec => []IInv
  <1>1. Init => IInv
    <2> SUFFICES ASSUME Init PROVE IInv
      OBVIOUS
    <2>1. TypeOK
      BY DEF Init, TypeOK, Places
    <2>2. Located
      BY DEF Init, Located, Tail
    <2>3. Held = {} /\ Waiting = {}
      BY DEF Init, Held, Waiting, Tail
    <2>4. Registered /\ Shelf = {}
      BY NoneAssumption DEF Init, Registered, Shelf
    <2> QED
      BY <2>1, <2>2, <2>3, <2>4 DEF IInv, OneHeir, NoFork, Shelved, Init
  <1>2. IInv /\ [Next]_vars => IInv'
    BY TypeStep, LocatedStep, RegisteredStep, HeirStep DEF IInv
  <1> QED
    BY <1>1, <1>2, PTL DEF Spec

\* The types of the variables, for any number of sessions and channels.
THEOREM TypeCorrect == Spec => []TypeOK
  <1>1. IInv => TypeOK
    BY DEF IInv
  <1> QED
    BY <1>1, Inductive, PTL

\* The current keys lead to the character in one way only.
THEOREM OneWay == Spec => []OneHeir
  <1>1. IInv => OneHeir
    BY DEF IInv
  <1> QED
    BY <1>1, Inductive, PTL

\* That way carries everything done under these keys.
THEOREM NothingForked == Spec => []NoFork
  <1>1. IInv => NoFork
    BY DEF IInv
  <1> QED
    BY <1>1, Inductive, PTL

\* A save takes something earned out of the database only if it is the late save
\* of a session that has handed the character on, the save of a copy whose keys were
\* replaced, or the timer's save of a copy that has left its storage meanwhile.
THEOREM SavesKeep == Spec => SavedKept
  <1> DEFINE Kept ==
        \A d \in earned \cap saved :
            d \notin saved' =>
               \/ \E s \in Sessions : /\ player[s] /\ saved' = done[s]
                                      /\ pc[s] \in Tail \/ ~keyed[s]
               \/ /\ swept # None /\ saved' = Copy(swept).done
                  /\ ~Copy(swept).keyed \/ \A c \in Channels : stored[c] # swept
  <1>1. IInv /\ [Next]_vars => [Kept]_vars
    <2> DEFINE BySession == \E s \in Sessions : /\ player[s] /\ saved' = done[s]
                                                /\ pc[s] \in Tail \/ ~keyed[s]
               ByTimer == /\ swept # None /\ saved' = Copy(swept).done
                          /\ ~Copy(swept).keyed \/ \A c \in Channels : stored[c] # swept
    <2> SUFFICES ASSUME IInv, [Next]_vars, NEW d \in earned \cap saved, d \notin saved'
                 PROVE  BySession \/ ByTimer
      OBVIOUS
    <2>1. ASSUME NEW s \in Sessions, player[s], kind[s] \in {"channel", "shop"},
                 saved' = done[s]
          PROVE  BySession
      <3>1. pc[s] \in Tail \/ ~keyed[s]
        BY <2>1, SaverHasAll
      <3> QED
        BY <2>1, <3>1
    <2>2. ASSUME swept # None, saved' = Copy(swept).done
          PROVE  ByTimer
      <3>1. ASSUME NEW c \in Channels, stored[c] = swept, Copy(swept).keyed PROVE FALSE
        <4>1. c \in Shelf
          BY <2>2, <3>1 DEF Shelf, Places, CopyAt
        <4>2. earned \subseteq saved'
          BY <2>2, <3>1, <4>1 DEF IInv, Shelved, CopyAt
        <4> QED
          BY <4>2
      <3> QED
        BY <2>2, <3>1
    <2> QED
      BY <2>1, <2>2, SaveStep
  <1> QED
    BY <1>1, Inductive, PTL DEF Spec, SavedKept
==============================================================================
