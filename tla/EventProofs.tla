--------------------------- MODULE EventProofs ---------------------------
(***************************************************************************)
(* Proofs about EventInstance, for any set of well-formed scripts, players *)
(* and instances.  The handlers of the players interleave call by call, so *)
(* the inductive invariant Orderly says of each thread which calls it may  *)
(* have left (Shaped), and of a character whose registration is still to   *)
(* come that its player has nothing to do with the instance (Fresh).       *)
(*                                                                         *)
(* MembersInside and NobodyLeftBehind are about the scripts of the         *)
(* repository, so their proofs go through the calls these are made of: no  *)
(* list warps out who was not unregistered (Guarded), and none unregisters *)
(* who is not warped out afterwards (LetsOut).  InsideInv and LeaveInv are *)
(* their inductive invariants, on top of Orderly.                          *)
(***************************************************************************)
EXTENDS EventInstance, SequenceTheorems, FiniteSetTheorems, TLAPS

(* The calls a handler may have left, and all calls.                       *)
Acting == Handling \cup {Drop, Offline}
Invitation == [do : {"register"}, rest : SUBSET Players]
Naming(what) == [do : {what}, who : Players]
AnyCall ==
    Acting \cup Late \cup {NewInstance} \cup Invitation
        \cup Naming("set") \cup Naming("enter")

(* What is left of a handler that registers members ends with registerParty: *)
(* before newInstance, after it, and while a member is entered.              *)
Registering(q) == q \in Seq(AnyCall) /\ q # << >> /\ q[Len(q)] \in Invitation
Rest(q) == q[Len(q)].rest

BeforeOpen(q) ==
    /\ Registering(q)
    /\ \E i \in 1 .. Len(q) - 1 :
           /\ q[i] = NewInstance
           /\ \A j \in 1 .. Len(q) - 1 : /\ j < i => q[j] \in Early
                                         /\ j > i => q[j] \in Late
AfterOpen(q) == Registering(q) /\ \A j \in 1 .. Len(q) - 1 : q[j] \in Late
Waiting(q) == Registering(q) /\ Len(q) = 1
Entering(q) == Registering(q) /\ Len(q) = 2 /\ q[1] \in Naming("enter")
Setting(q) ==
    /\ Registering(q) /\ Len(q) = 3
    /\ q[1] \in Naming("set") /\ q[2] = Enter(q[1].who)

Handles(t) ==
    /\ todo[t] \in Seq(Acting)
    /\ at[t] = None => todo[t] \in Seq({Offline})
    /\ t \notin Players => todo[t] \in Seq(Handling)
Registers(t) ==
    /\ t \in Players /\ place[t] # "offline"
    /\ IF at[t] = None
       THEN t \in Leaders /\ BeforeOpen(todo[t])
       ELSE \/ t \in Leaders /\ AfterOpen(todo[t])
            \/ Waiting(todo[t]) \/ Entering(todo[t]) \/ Setting(todo[t])
Shape(t) == Handles(t) \/ Registers(t)

-----------------------------------------------------------------------------
(* Lemmas about calls and sequences of calls.                               *)

ActDos == {"unregister", "warp", "advance", "forbid", "state", "dispose",
           "fewer", "drop", "offline"}

(* What a call of each kind is called.                                      *)
LEMMA Kinds ==
    /\ \A c \in Handling : c.do \in ActDos \ {"drop", "offline"}
    /\ \A c \in Acting : c.do \in ActDos
    /\ \A c \in Handling : c.do = "state" => c = SetState("0")
    /\ \A c \in Acting : c.do = "state" => c = SetState("0")
    /\ \A c \in Acting : c.do = "drop" => c = Drop
    /\ \A c \in Late : c.do \in {"state", "timer"}
    /\ \A c \in Late : c.do = "state" => c \in Early
    /\ \A c \in Early : c.do = "state" /\ c.value \in {"null", "1"}
    /\ \A c \in Invitation : c.do = "register"
    /\ \A c \in Naming("set") : c.do = "set"
    /\ \A c \in Naming("enter") : c.do = "enter"
    /\ NewInstance.do = "open"
    /\ \A c \in AnyCall : c.do \in Calls
<1>1. \A c \in Handling : c.do \in ActDos \ {"drop", "offline"}
    BY DEF Handling, Plain, Asking, ActDos, Unregister, WarpOut, AdvanceState,
           Forbid, SetState
<1>2. \A c \in Handling : c.do = "state" => c = SetState("0")
    BY DEF Handling, Plain, Asking, Unregister, WarpOut, AdvanceState,
           Forbid, SetState
<1>3. /\ Drop.do = "drop" /\ Offline.do = "offline"
      /\ \A c \in Late : c.do \in {"state", "timer"}
      /\ \A c \in Late : c.do = "state" => c \in Early
      /\ \A c \in Early : c.do = "state" /\ c.value \in {"null", "1"}
      /\ \A c \in Invitation : c.do = "register"
      /\ \A c \in Naming("set") : c.do = "set"
      /\ \A c \in Naming("enter") : c.do = "enter"
      /\ NewInstance.do = "open"
    BY DEF Drop, Offline, Late, Early, StartTimer, SetState, Invitation, Naming,
           NewInstance
<1> HIDE DEF Handling, Late, Early, Invitation, Naming, NewInstance, Drop, Offline
<1> QED
    BY <1>1, <1>2, <1>3 DEF Acting, AnyCall, ActDos, Calls

(* The calls that follow an answer are calls of a handler, and so are all   *)
(* calls of a script.                                                       *)
LEMMA Answers ==
    /\ Plain \subseteq Handling /\ Shallow \subseteq Handling
    /\ \A c \in Acting : c.do \in {"dispose", "fewer"} =>
           c \in Handling /\ c.yes \in Seq(Handling) /\ c.no \in Seq(Handling)
<1>1. Plain \subseteq Shallow
    BY DEF Shallow
<1>2. Seq(Plain) \subseteq Seq(Shallow)
    BY <1>1, SeqMonotonic
<1>3. Shallow \subseteq Handling
    <2> SUFFICES ASSUME NEW c \in Asking(Plain) PROVE c \in Asking(Shallow)
        BY DEF Shallow, Handling
    <2> QED
        BY <1>2 DEF Asking
<1>4. Seq(Shallow) \subseteq Seq(Handling)
    BY <1>3, SeqMonotonic
<1>5. ASSUME NEW c \in Acting, c.do \in {"dispose", "fewer"}
      PROVE  c \in Asking(Shallow)
    BY <1>5 DEF Acting, Handling, Plain, Unregister, WarpOut, AdvanceState, Forbid,
                SetState, Drop, Offline
<1>6. ASSUME NEW c \in Asking(Shallow)
      PROVE  c.yes \in Seq(Shallow) /\ c.no \in Seq(Shallow)
    BY DEF Asking
<1> QED
    BY <1>1, <1>3, <1>4, <1>5, <1>6 DEF Handling

LEMMA Wider ==
    /\ Seq(Handling) \subseteq Seq(Acting)
    /\ Seq(Acting) \subseteq Seq(AnyCall)
    /\ Seq({Offline}) \subseteq Seq(Acting)
<1> Handling \subseteq Acting /\ Acting \subseteq AnyCall /\ {Offline} \subseteq Acting
    BY DEF Acting, AnyCall
<1> QED
    BY SeqMonotonic

(* Nothing before the rest is the rest.                                     *)
LEMMA NothingFirst ==
    ASSUME NEW S, NEW q \in Seq(S), q # << >>
    PROVE  /\ << >> \o Tail(q) = Tail(q)
           /\ Head(q) = q[1] /\ Head(q) \in S /\ Tail(q) \in Seq(S)
           /\ Len(q) \in Nat \ {0} /\ Len(Tail(q)) = Len(q) - 1
           /\ \A i \in 1 .. Len(q) - 1 : Tail(q)[i] = q[i + 1]
           /\ Len(q) = 1 <=> Tail(q) = << >>
<1>1. Len(q) \in Nat \ {0}
    BY EmptySeq
<1>2. /\ Head(q) \in S /\ Tail(q) \in Seq(S) /\ Len(Tail(q)) = Len(q) - 1
      /\ \A i \in 1 .. Len(q) - 1 : Tail(q)[i] = q[i + 1]
    BY HeadTailProperties
<1>3. << >> \o Tail(q) = Tail(q)
    BY <1>2, ConcatEmptySeq
<1>4. Len(q) = 1 <=> Tail(q) = << >>
    <2>1. Len(<< >>) = 0 /\ (Tail(q) # << >> => Len(Tail(q)) \in Nat \ {0})
        BY <1>2, EmptySeq
    <2> QED
        BY <1>1, <1>2, <2>1
<1>5. Head(q) = q[1]
    BY <1>1
<1> QED
    BY <1>1, <1>2, <1>3, <1>4, <1>5

(* A handler that registers ends with its invitation whatever call it makes.*)
LEMMA LastStays ==
    ASSUME NEW q, Registering(q), Len(q) # 1
    PROVE  /\ Registering(Tail(q)) /\ Rest(Tail(q)) = Rest(q)
           /\ Tail(q) # << >>
           /\ Len(Tail(q)) = Len(q) - 1
           /\ \A i \in 1 .. Len(q) - 1 : Tail(q)[i] = q[i + 1]
           /\ Len(q) \in Nat
BY NothingFirst, LenProperties DEF Registering, Rest

LEMMA CalmIsNotRegistering ==
    ASSUME NEW q \in Seq(Acting)
    PROVE  ~Registering(q)
<1> SUFFICES ASSUME Registering(q) PROVE FALSE
    OBVIOUS
<1>1. q[Len(q)] \in Acting /\ q[Len(q)] \in Invitation
    BY ElementOfSeq, EmptySeq DEF Registering
<1> QED
    BY <1>1, Kinds DEF ActDos

(* The tails of the shapes a registering handler has.                       *)
LEMMA BeforeOpenTail ==
    ASSUME NEW q, BeforeOpen(q)
    PROVE  /\ Len(q) # 1 /\ q[1] = Head(q)
           /\ q[1] \in Early \cup {NewInstance}
           /\ q[1] \in Early => BeforeOpen(Tail(q))
           /\ q[1] = NewInstance => AfterOpen(Tail(q))
<1>1. PICK i \in 1 .. Len(q) - 1 :
          /\ q[i] = NewInstance
          /\ \A j \in 1 .. Len(q) - 1 : /\ j < i => q[j] \in Early
                                        /\ j > i => q[j] \in Late
    BY DEF BeforeOpen
<1> DEFINE n == Len(q)
<1>a. Registering(q) /\ Head(q) = q[1]
    BY NothingFirst DEF BeforeOpen, Registering
<1>b. n \in Nat
    BY <1>a, LenProperties DEF Registering
<1> HIDE DEF n
<1>2. Registering(q) /\ Len(q) \in Nat /\ Head(q) = q[1]
    BY <1>a, <1>b DEF n
<1>3. Len(q) # 1 /\ q[1] \in Early \cup {NewInstance}
    <2> i \in 1 .. n - 1
        BY DEF n
    <2>1. n # 1 /\ 1 \in 1 .. n - 1 /\ i \in Nat
        BY <1>b
    <2>2. i = 1 \/ 1 < i
        BY <2>1
    <2> QED
        BY <1>1, <2>1, <2>2 DEF n
<1>4. /\ Registering(Tail(q)) /\ Len(Tail(q)) = Len(q) - 1
      /\ \A k \in 1 .. Len(q) - 1 : Tail(q)[k] = q[k + 1]
    BY <1>2, <1>3, LastStays
<1>5. ASSUME q[1] \in Early PROVE BeforeOpen(Tail(q))
    <2>1. i # 1
        BY <1>1, <1>5, Kinds
    <2>2. /\ i - 1 \in 1 .. Len(Tail(q)) - 1 /\ Tail(q)[i - 1] = NewInstance
          /\ \A j \in 1 .. Len(Tail(q)) - 1 : /\ j < i - 1 => Tail(q)[j] \in Early
                                              /\ j > i - 1 => Tail(q)[j] \in Late
        BY <1>1, <1>2, <1>3, <1>4, <2>1
    <2> QED
        BY <1>4, <2>2 DEF BeforeOpen
<1>6. ASSUME q[1] = NewInstance PROVE AfterOpen(Tail(q))
    <2>1. i = 1
        BY <1>1, <1>2, <1>6, Kinds
    <2> QED
        BY <1>1, <1>2, <1>3, <1>4, <2>1 DEF AfterOpen
<1> QED
    BY <1>2, <1>3, <1>5, <1>6

LEMMA AfterOpenTail ==
    ASSUME NEW q, AfterOpen(q), Len(q) # 1
    PROVE  q[1] = Head(q) /\ q[1] \in Late /\ AfterOpen(Tail(q))
<1>1. Registering(q) /\ Len(q) \in Nat /\ Head(q) = q[1] /\ Len(q) > 0
    BY NothingFirst, LenProperties DEF AfterOpen, Registering
<1>2. /\ Registering(Tail(q)) /\ Len(Tail(q)) = Len(q) - 1
      /\ \A k \in 1 .. Len(q) - 1 : Tail(q)[k] = q[k + 1]
    BY <1>1, LastStays
<1>3. q[1] \in Late
    <2>1. Len(q) \in Nat /\ Len(q) > 0
        BY <1>1
    <2>2. ASSUME NEW n \in Nat, n > 0, n # 1 PROVE 1 \in 1 .. n - 1
        BY <2>2
    <2>3. 1 \in 1 .. Len(q) - 1
        BY <2>1, <2>2
    <2> QED
        BY <2>3 DEF AfterOpen
<1>4. ASSUME NEW j \in 1 .. Len(Tail(q)) - 1 PROVE Tail(q)[j] \in Late
    <2>1. /\ j \in 1 .. Len(q) - 1 /\ j + 1 \in 1 .. Len(q) - 1
        BY <1>1, <1>2
    <2> QED
        BY <1>2, <2>1 DEF AfterOpen
<1> QED
    BY <1>1, <1>2, <1>3, <1>4 DEF AfterOpen

LEMMA OneCallTail ==
    ASSUME NEW q, Registering(q)
    PROVE  /\ q[1] = Head(q)
           /\ Len(q) = 1 => Head(q) \in Invitation /\ Head(q).rest = Rest(q)
           /\ Entering(q) => Waiting(Tail(q))
           /\ Setting(q) => Entering(Tail(q)) /\ Tail(q)[1] = q[2]
<1>1. Len(q) \in Nat /\ Head(q) = q[1]
    BY NothingFirst, LenProperties DEF Registering
<1>2. ASSUME Entering(q) PROVE Waiting(Tail(q))
    <2>1. Len(q) = 2
        BY <1>2 DEF Entering
    <2>2. Registering(Tail(q)) /\ Len(Tail(q)) = Len(q) - 1
        BY <2>1, LastStays
    <2> QED
        BY <2>1, <2>2 DEF Waiting
<1>3. ASSUME Setting(q) PROVE Entering(Tail(q)) /\ Tail(q)[1] = q[2]
    <2>1. q[1].who \in Players
        BY <1>3 DEF Setting, Naming
    <2>2. q[2] \in Naming("enter")
        BY <1>3, <2>1 DEF Setting, Naming, Enter
    <2> QED
        BY <1>1, <1>3, <2>2, LastStays DEF Setting, Entering
<1> QED
    BY <1>1, <1>2, <1>3 DEF Registering, Rest

-----------------------------------------------------------------------------
(* What the next call of a thread tells of the calls it has left.           *)
LEMMA NextCall ==
    ASSUME NEW t \in Threads, Shape(t), ~Idle(t),
           NEW c, c = Head(todo[t])
    PROVE  /\ c.do \in {"unregister", "warp", "advance", "forbid", "dispose",
                       "fewer", "drop"} => Handles(t) /\ at[t] # None
           /\ c.do \in {"drop", "offline"} => Handles(t) /\ t \in Players
           /\ c.do = "state" =>
                \/ Handles(t) /\ c = SetState("0")
                \/ /\ Registers(t) /\ c \in Early /\ Len(todo[t]) # 1
                   /\ IF at[t] = None THEN BeforeOpen(Tail(todo[t]))
                                      ELSE AfterOpen(Tail(todo[t]))
           /\ c.do = "open" => /\ Registers(t) /\ at[t] = None /\ t \in Leaders
                               /\ Len(todo[t]) # 1 /\ AfterOpen(Tail(todo[t]))
           /\ c.do = "timer" => /\ Registers(t) /\ at[t] # None /\ t \in Leaders
                                /\ Len(todo[t]) # 1 /\ AfterOpen(Tail(todo[t]))
           /\ c.do = "register" => /\ Registers(t) /\ at[t] # None
                                   /\ Waiting(todo[t]) /\ c \in Invitation
                                   /\ c.rest = Rest(todo[t])
           /\ c.do = "enter" => Registers(t) /\ at[t] # None /\ Entering(todo[t])
           /\ c.do = "set" => Registers(t) /\ at[t] # None /\ Setting(todo[t])
<1>1. CASE Handles(t)
    <2>1. c \in Acting
        BY <1>1, NothingFirst DEF Handles, Idle
    <2>2. at[t] = None => c = Offline
        BY <1>1, NothingFirst DEF Handles, Idle
    <2>3. t \notin Players => c \in Handling
        BY <1>1, NothingFirst DEF Handles, Idle
    <2>4. Offline.do = "offline"
        BY DEF Offline
    <2> QED
        BY <1>1, <2>1, <2>2, <2>3, <2>4, Kinds DEF ActDos
<1>2. CASE Registers(t)
    <2> DEFINE q == todo[t]
    <2>1. Registering(q)
        BY <1>2 DEF Registers, BeforeOpen, AfterOpen, Waiting, Entering, Setting
    <2>2. c = q[1]
        BY <2>1, OneCallTail
    <2>3. CASE BeforeOpen(q) /\ at[t] = None
        <3>1. /\ Len(q) # 1 /\ c \in Early \cup {NewInstance}
              /\ c \in Early => BeforeOpen(Tail(q))
              /\ c = NewInstance => AfterOpen(Tail(q))
            BY <2>2, <2>3, BeforeOpenTail
        <3> QED
            BY <1>2, <2>3, <3>1, Kinds DEF Registers
    <2>4. CASE AfterOpen(q) /\ Len(q) # 1 /\ at[t] # None /\ t \in Leaders
        <3>1. c \in Late /\ AfterOpen(Tail(q))
            BY <2>2, <2>4, AfterOpenTail
        <3> QED
            BY <1>2, <2>4, <3>1, Kinds
    <2>5. CASE Len(q) = 1 /\ at[t] # None
        <3>1. Waiting(q) /\ c \in Invitation /\ c.rest = Rest(q)
            BY <2>1, <2>5, OneCallTail DEF Waiting
        <3> QED
            BY <1>2, <2>5, <3>1, Kinds
    <2>6. CASE Entering(q) /\ at[t] # None
        BY <1>2, <2>2, <2>6, Kinds DEF Entering
    <2>7. CASE Setting(q) /\ at[t] # None
        BY <1>2, <2>2, <2>7, Kinds DEF Setting
    <2> QED
        BY <1>2, <2>3, <2>4, <2>5, <2>6, <2>7 DEF Registers, Waiting
<1> QED
    BY <1>1, <1>2 DEF Shape
-----------------------------------------------------------------------------
(* The inductive invariant.                                                 *)

TypedThreads ==
    todo \in [Threads -> Seq(AnyCall)] /\ at \in [Threads -> Instances \cup {None}]
TypedData ==
    /\ script \in Scripts
    /\ state \in {"null", "0", "1", "2", "3"}
    /\ names \in [Names -> Instances \cup {None}]
    /\ name \in [Instances -> Names]
    /\ phase \in [Instances -> {"unborn", "live", "disposed"}]
    /\ chars \in [Instances -> SUBSET Players]
    /\ ticket \in [Instances -> SUBSET Players]
    /\ timer \in [Instances -> BOOLEAN]
    /\ eim \in [Players -> Instances \cup {None}]
    /\ place \in [Players -> {"outside", "inside", "offline"}]
    /\ party \in [Leaders -> SUBSET Players]
Typed == TypedThreads /\ TypedData

Shaped == \A t \in Threads : Shape(t)

(* A character is online with one object at most.                           *)
OneOnline ==
    \A p, q \in Players :
        Char[p] = Char[q] /\ place[p] # "offline" /\ place[q] # "offline" => p = q

(* No player of character c has anything to do with instance e yet.         *)
Fresh(e, c) ==
    /\ c \notin ticket[e]
    /\ \A p \in Players : Char[p] = c => eim[p] # e /\ at[p] # e

(* The characters thread t still registers, itself left out.                *)
Guests(t) == IF Registering(todo[t]) THEN Rest(todo[t]) \ {Char[t]} ELSE {}
GuestsFresh ==
    \A t \in Players : at[t] # None => \A c \in Guests(t) : Fresh(at[t], c)

(* A member between registerPlayer's two halves, and before playerEntry.    *)
HalfRegistered ==
    \A t \in Players : Setting(todo[t]) =>
        LET p == todo[t][1].who IN
        /\ at[t] # None
        /\ Char[p] \notin Rest(todo[t])
        /\ p = t \/ (Char[p] # Char[t] /\ Fresh(at[t], Char[p]))
        /\ Live(at[t]) => p \in chars[at[t]]
BeforeEntry ==
    \A t \in Players : Entering(todo[t]) =>
        LET p == todo[t][1].who IN
        Char[p] \notin Rest(todo[t]) /\ (p = t \/ Char[p] # Char[t])

(* One thread alone registers others in an instance.                        *)
Hosts(t) ==
    \/ Guests(t) # {}
    \/ (Setting(todo[t]) \/ Entering(todo[t])) /\ todo[t][1].who # t
OneHost ==
    \A s, t \in Players :
        Hosts(s) /\ Hosts(t) /\ at[s] # None /\ at[s] = at[t] => s = t

UnbornUnknown ==
    \A e \in Instances : phase[e] = "unborn" =>
        /\ ticket[e] = {} /\ \A n \in Names : names[n] # e
        /\ \A p \in Players : eim[p] # e
        /\ \A t \in Threads : at[t] # e
NamedLive == \A n \in Names : names[n] # None => Live(names[n]) /\ name[names[n]] = n

(* While setup is to close the event, nobody else knows the instance it made.*)
Closes(t) ==
    \E i \in 1 .. Len(todo[t]) : todo[t][i] = SetState("1")
ClosedAlone ==
    \A t \in Leaders : at[t] # None /\ Closes(t) =>
        /\ Live(at[t]) /\ ticket[at[t]] = {}
        /\ \A p \in Players : eim[p] # at[t]
        /\ \A s \in Threads \ {t} : at[s] # at[t]

Closed == state \notin {"null", "0"}
ClosedMeansLater ==
    Closed => \/ \E e \in Instances : Live(e)
              \/ \E t \in Leaders : at[t] = None /\ BeforeOpen(todo[t])

Orderly ==
    /\ Typed /\ Shaped /\ OneOnline
    /\ GuestsFresh /\ HalfRegistered /\ BeforeEntry /\ OneHost
    /\ UnbornUnknown /\ NamedLive
    /\ ClosedAlone /\ ClosedMeansLater
    /\ MemberOfOwnInstance

-----------------------------------------------------------------------------
(* A calm step: thread t goes on with a handler that registers nobody, or   *)
(* begins one.  It may end its instance, leave it, or remember its own      *)
(* character there.                                                         *)

Others(t) ==
    \A s \in Threads \ {t} : todo'[s] = todo[s] /\ at'[s] = at[s]
CalmThreads(t) ==
    /\ Others(t)
    /\ ~BeforeOpen(todo[t]) /\ Handles(t)'
    /\ at'[t] # None =>
           \/ at'[t] = at[t]
           \/ t \in Players /\ at'[t] = eim[t]
           \/ /\ t \in Instances /\ at'[t] = t /\ Live(t)
              /\ \A l \in Leaders : at[l] = t => ~Closes(l)
CalmMembers(t) ==
    /\ \A p \in Players : eim'[p] \in {eim[p], None}
    /\ \A e \in Instances : \A c \in ticket'[e] :
           \/ c \in ticket[e]
           \/ t \in Players /\ at[t] = e /\ c = Char[t]
    /\ \A e \in Instances : \A p \in chars[e] :
           \/ p \in chars'[e]
           \/ phase'[e] = "disposed"
           \/ p = t /\ at[t] = e /\ eim'[t] = None
CalmInstances(t) ==
    /\ name' = name
    /\ \A n \in Names : names'[n] \in {names[n], None}
    /\ \A e \in Instances :
           \/ phase'[e] = phase[e]
           \/ /\ phase[e] = "live" /\ phase'[e] = "disposed" /\ at[t] = e
              /\ names'[name[e]] = None
    /\ Closed' => /\ Closed
                  /\ \/ phase' = phase
                     \/ \E n \in Names : names'[n] # None
CalmPlaces(t) ==
    /\ \A p \in Players :
           p # t /\ place[p] # "offline" => place'[p] # "offline"
    /\ \A p, q \in Players :
           Char[p] = Char[q] /\ place'[p] # "offline" /\ place'[q] # "offline"
           => p = q \/ (place[p] # "offline" /\ place[q] # "offline")
Calm(t) ==
    CalmThreads(t) /\ CalmMembers(t) /\ CalmInstances(t) /\ CalmPlaces(t)

LEMMA CalmKinds ==
    ASSUME NEW q, ~Registering(q)
    PROVE  ~BeforeOpen(q) /\ ~AfterOpen(q) /\ ~Waiting(q) /\ ~Entering(q) /\ ~Setting(q)
BY DEF BeforeOpen, AfterOpen, Waiting, Entering, Setting

LEMMA CalmShaped ==
    ASSUME Shaped, NEW t \in Threads, Calm(t)
    PROVE  Shaped'
<1> SUFFICES ASSUME NEW s \in Threads PROVE Shape(s)'
    BY DEF Shaped
<1>1. CASE s = t
    BY <1>1 DEF Calm, CalmThreads, Shape
<1>2. CASE s # t
    <2>1. todo'[s] = todo[s] /\ at'[s] = at[s] /\ Shape(s)
        BY <1>2 DEF Calm, CalmThreads, Others, Shaped
    <2>2. s \in Players /\ place[s] # "offline" => place'[s] # "offline"
        BY <1>2 DEF Calm, CalmPlaces
    <2> QED
        BY <2>1, <2>2 DEF Shape, Handles, Registers
<1> QED
    BY <1>1, <1>2

LEMMA CalmOnline ==
    ASSUME OneOnline, NEW t \in Threads, Calm(t)
    PROVE  OneOnline'
BY DEF OneOnline, Calm, CalmPlaces

(* Who is fresh stays so.                                                   *)
StaysFresh(e, c) ==
    /\ c \notin ticket'[e]
    /\ \A p \in Players : Char[p] = c => eim'[p] # e /\ at'[p] # e

LEMMA CalmFresh ==
    ASSUME Typed, NEW t \in Threads, Calm(t),
           NEW e \in Instances, NEW c \in Players, Fresh(e, c)
    PROVE  StaysFresh(e, c)
<1>1. c \notin ticket'[e]
    BY DEF Calm, CalmMembers, Fresh
<1>2. ASSUME NEW p \in Players, Char[p] = c PROVE eim'[p] # e /\ at'[p] # e
    <2>1. eim[p] # e /\ at[p] # e /\ e # None /\ p \notin Instances
        BY <1>2, NoneAssumption, PlayersAssumption DEF Fresh
    <2>2. eim'[p] # e
        BY <2>1 DEF Calm, CalmMembers
    <2>3. p # t => at'[p] = at[p]
        BY DEF Calm, CalmThreads, Others, Threads
    <2>4. p = t => at'[p] # e
        BY <2>1 DEF Calm, CalmThreads
    <2> QED
        BY <2>1, <2>2, <2>3, <2>4
<1> QED
    BY <1>1, <1>2 DEF StaysFresh

LEMMA CalmGuests ==
    ASSUME Typed, NEW t \in Threads, Calm(t)
    PROVE  /\ Guests(t)' = {} /\ ~Hosts(t)'
           /\ ~Setting(todo'[t]) /\ ~Entering(todo'[t])
           /\ \A s \in Threads \ {t} : /\ Guests(s)' = Guests(s)
                                       /\ Hosts(s)' = Hosts(s)
<1>1. ~Registering(todo'[t])
    BY CalmIsNotRegistering DEF Calm, CalmThreads, Handles
<1>2. \A s \in Threads \ {t} : todo'[s] = todo[s]
    BY DEF Calm, CalmThreads, Others
<1> QED
    BY <1>1, <1>2, CalmKinds DEF Guests, Hosts

LEMMA CalmGuestsFresh ==
    ASSUME Typed, GuestsFresh, NEW t \in Threads, Calm(t)
    PROVE  GuestsFresh'
<1> SUFFICES ASSUME NEW s \in Players, at'[s] # None, NEW c \in Guests(s)'
             PROVE  Fresh(at[s], c)'
    BY DEF GuestsFresh
<1>1. s # t /\ c \in Guests(s) /\ at'[s] = at[s] /\ s \in Threads
    BY CalmGuests DEF Calm, CalmThreads, Others, Threads
<1>2. at[s] \in Instances
    BY <1>1 DEF Typed, TypedThreads
<1>3. c \in Players
    <2>1. Registering(todo[s]) /\ c \in Rest(todo[s])
        BY <1>1 DEF Guests
    <2> QED
        BY <2>1 DEF Registering, Rest, Invitation
<1>4. Fresh(at[s], c)
    BY <1>1 DEF GuestsFresh
<1>5. StaysFresh(at[s], c)
    BY <1>2, <1>3, <1>4, CalmFresh
<1> QED
    BY <1>1, <1>5 DEF Fresh, StaysFresh

LEMMA CalmHalfRegistered ==
    ASSUME Typed, HalfRegistered, BeforeEntry, NEW t \in Threads, Calm(t)
    PROVE  HalfRegistered' /\ BeforeEntry'
<1>1. ASSUME NEW s \in Players, Setting(todo'[s]),
             NEW p, p = todo'[s][1].who
      PROVE  /\ at'[s] # None
             /\ Char[p] \notin Rest(todo'[s])
             /\ p = s \/ (Char[p] # Char[s] /\ Fresh(at[s], Char[p])')
             /\ Live(at[s])' => p \in chars'[at'[s]]
    <2> DEFINE e == at[s]
    <2>1. /\ s # t /\ s \in Threads /\ at'[s] = e /\ todo'[s] = todo[s]
          /\ Setting(todo[s])
        BY <1>1, CalmGuests DEF Calm, CalmThreads, Others, Threads
    <2>2. p \in Players /\ Char[p] \in Players /\ Char[s] \in Players
        BY <1>1, CharAssumption DEF Setting, Naming
    <2>3. /\ Char[p] \notin Rest(todo[s]) /\ e # None
          /\ p = s \/ (Char[p] # Char[s] /\ Fresh(e, Char[p]))
          /\ Live(e) => p \in chars[e]
        BY <1>1, <2>1 DEF HalfRegistered
    <2>4. e # None => e \in Instances
        BY <2>1 DEF Typed, TypedThreads
    <2> HIDE DEF e
    <2>6. p # s => StaysFresh(e, Char[p])
        BY <2>2, <2>3, <2>4, CalmFresh
    <2>7. ASSUME phase'[e] = "live" PROVE p \in chars'[e]
        <3>1. Live(e) /\ p \in chars[e] /\ phase'[e] # "disposed"
            BY <2>3, <2>4, <2>7 DEF Live, Calm, CalmInstances
        <3>2. CASE p = t /\ at[t] = e
            BY <2>1, <2>2, <2>3, <3>2 DEF Fresh
        <3> QED
            BY <2>2, <2>3, <2>4, <3>1, <3>2 DEF Calm, CalmMembers
    <2> QED
        BY <2>1, <2>3, <2>6, <2>7 DEF Fresh, StaysFresh, Live
<1>2. ASSUME NEW s \in Players, Entering(todo'[s])
      PROVE  Entering(todo[s]) /\ todo'[s] = todo[s]
    BY <1>2, CalmGuests DEF Calm, CalmThreads, Others, Threads
<1> QED
    BY <1>1, <1>2 DEF HalfRegistered, BeforeEntry

LEMMA CalmOneHost ==
    ASSUME Typed, OneHost, NEW t \in Threads, Calm(t)
    PROVE  OneHost'
<1> SUFFICES ASSUME NEW r \in Players, NEW s \in Players, Hosts(r)', Hosts(s)',
                    at'[r] # None, at'[r] = at'[s]
             PROVE  r = s
    BY DEF OneHost
<1>1. /\ Hosts(r) /\ Hosts(s) /\ at'[r] = at[r] /\ at'[s] = at[s]
    BY CalmGuests DEF Calm, CalmThreads, Others, Threads
<1> QED
    BY <1>1 DEF OneHost

LEMMA CalmUnborn ==
    ASSUME Typed, UnbornUnknown, NEW t \in Threads, Calm(t)
    PROVE  UnbornUnknown'
<1> SUFFICES ASSUME NEW e \in Instances, phase'[e] = "unborn"
             PROVE  /\ ticket'[e] = {} /\ \A n \in Names : names'[n] # e
                    /\ \A p \in Players : eim'[p] # e
                    /\ \A s \in Threads : at'[s] # e
    BY DEF UnbornUnknown
<1>1. phase[e] = "unborn" /\ e # None
    BY NoneAssumption DEF Calm, CalmInstances
<1>2. /\ ticket[e] = {} /\ \A n \in Names : names[n] # e
      /\ \A p \in Players : eim[p] # e
      /\ \A s \in Threads : at[s] # e
    BY <1>1 DEF UnbornUnknown
<1>3. ticket'[e] = {}
    BY <1>2 DEF Calm, CalmMembers
<1>4. /\ \A n \in Names : names'[n] # e
      /\ \A p \in Players : eim'[p] # e
    BY <1>1, <1>2 DEF Calm, CalmMembers, CalmInstances
<1>5. \A s \in Threads : at'[s] # e
    BY <1>1, <1>2 DEF Calm, CalmThreads, Others, Live
<1> QED
    BY <1>3, <1>4, <1>5

LEMMA CalmNamed ==
    ASSUME Typed, NamedLive, NEW t \in Threads, Calm(t)
    PROVE  NamedLive'
<1> SUFFICES ASSUME NEW n \in Names, names'[n] # None
             PROVE  phase'[names'[n]] = "live" /\ name'[names'[n]] = n
    BY DEF NamedLive, Live
<1>1. names'[n] = names[n] /\ names[n] \in Instances /\ name' = name
    BY DEF Calm, CalmInstances, Typed, TypedData
<1>2. phase[names[n]] = "live" /\ name[names[n]] = n
    BY <1>1 DEF NamedLive, Live
<1>3. phase'[names[n]] = phase[names[n]]
    BY <1>1, <1>2 DEF Calm, CalmInstances
<1> QED
    BY <1>1, <1>2, <1>3

LEMMA CalmClosedAlone ==
    ASSUME Typed, Shaped, ClosedAlone, NEW t \in Threads, Calm(t)
    PROVE  ClosedAlone'
<1> SUFFICES ASSUME NEW l \in Leaders, at'[l] # None, Closes(l)'
             PROVE  /\ phase'[at'[l]] = "live" /\ ticket'[at'[l]] = {}
                    /\ \A p \in Players : eim'[p] # at'[l]
                    /\ \A s \in Threads \ {l} : at'[s] # at'[l]
    BY DEF ClosedAlone, Live
<1>1. l # t
    <2> SUFFICES ASSUME l = t PROVE FALSE
        OBVIOUS
    <2>1. PICK i \in 1 .. Len(todo'[t]) : todo'[t][i] = SetState("1")
        BY DEF Closes
    <2>2. todo'[t][i] \in Acting
        BY <2>1, ElementOfSeq DEF Calm, CalmThreads, Handles
    <2>3. SetState("1") # SetState("0") /\ SetState("1").do = "state"
        BY DEF SetState
    <2> QED
        BY <2>1, <2>2, <2>3, Kinds
<1>2. /\ l \in Threads /\ l \in Players /\ at'[l] = at[l] /\ Closes(l)
    BY <1>1, LeadersAssumption DEF Calm, CalmThreads, Others, Threads, Closes
<1> DEFINE e == at[l]
<1>3. /\ Live(e) /\ ticket[e] = {} /\ e \in Instances /\ e # None
      /\ \A p \in Players : eim[p] # e
      /\ \A s \in Threads \ {l} : at[s] # e
      /\ at'[l] = e
    BY <1>2 DEF ClosedAlone, Typed, TypedThreads
<1>4. \A s \in Leaders : at[s] = e => s = l
    BY <1>3, LeadersAssumption DEF Threads
<1>5. Closes(l)
    BY <1>2
<1> HIDE DEF e
<1>6. at[t] # e
    BY <1>1, <1>3
<1>7. phase'[e] = "live"
    BY <1>3, <1>6 DEF Live, Calm, CalmInstances
<1>8. ticket'[e] = {}
    BY <1>3, <1>6 DEF Calm, CalmMembers
<1>9. \A p \in Players : eim'[p] # e
    BY <1>3 DEF Calm, CalmMembers
<1>10. ASSUME NEW s \in Threads \ {l} PROVE at'[s] # e
    <2>1. CASE s # t
        BY <1>3, <2>1 DEF Calm, CalmThreads, Others
    <2>2. CASE s = t
        <3>1. e = t => ~(\A k \in Leaders : at[k] = t => ~Closes(k))
            BY <1>2, <1>3, <1>5 DEF e
        <3> QED
            BY <1>3, <1>6, <2>2, <3>1 DEF Calm, CalmThreads
    <2> QED
        BY <2>1, <2>2
<1> QED
    BY <1>3, <1>7, <1>8, <1>9, <1>10

LEMMA CalmClosed ==
    ASSUME Typed, NamedLive, ClosedMeansLater, NEW t \in Threads, Calm(t), Typed'
    PROVE  ClosedMeansLater'
<1> SUFFICES ASSUME Closed'
             PROVE  \/ \E e \in Instances : phase'[e] = "live"
                    \/ \E l \in Leaders : at'[l] = None /\ BeforeOpen(todo'[l])
    BY DEF ClosedMeansLater, Live
<1>1. CASE \E n \in Names : names'[n] # None
    <2>1. PICK n \in Names : names'[n] # None
        BY <1>1
    <2>2. names'[n] \in Instances /\ phase'[names'[n]] = "live"
        BY <2>1, CalmNamed DEF NamedLive, Live, Typed, TypedData
    <2> QED
        BY <2>2
<1>2. CASE phase' = phase
    <2>1. \/ \E e \in Instances : phase[e] = "live"
          \/ \E l \in Leaders : at[l] = None /\ BeforeOpen(todo[l])
        BY DEF Calm, CalmInstances, ClosedMeansLater, Live
    <2>2. ASSUME NEW l \in Leaders, at[l] = None, BeforeOpen(todo[l])
          PROVE  at'[l] = None /\ BeforeOpen(todo'[l])
        <3>1. l # t /\ l \in Threads
            BY <2>2, LeadersAssumption DEF Calm, CalmThreads, Threads
        <3> QED
            BY <2>2, <3>1 DEF Calm, CalmThreads, Others
    <2> QED
        BY <1>2, <2>1, <2>2
<1> QED
    BY <1>1, <1>2 DEF Calm, CalmInstances

LEMMA CalmMember ==
    ASSUME Typed, MemberOfOwnInstance, NEW t \in Threads, Calm(t)
    PROVE  MemberOfOwnInstance'
<1> SUFFICES ASSUME NEW p \in Players, eim'[p] # None, phase'[eim'[p]] = "live"
             PROVE  p \in chars'[eim'[p]]
    BY DEF MemberOfOwnInstance, In, Live
<1> DEFINE e == eim[p]
<1>1. eim'[p] = e /\ e \in Instances /\ e # None
    BY DEF Calm, CalmMembers, Typed, TypedData
<1>2. phase[e] = "live"
    BY <1>1 DEF Calm, CalmInstances
<1>3. p \in chars[e]
    BY <1>1, <1>2 DEF MemberOfOwnInstance, In, Live
<1> QED
    BY <1>1, <1>3 DEF Calm, CalmMembers

LEMMA CalmKeeps ==
    ASSUME Orderly, NEW t \in Threads, Calm(t), Typed'
    PROVE  Orderly'
BY CalmShaped, CalmOnline, CalmGuestsFresh, CalmHalfRegistered, CalmOneHost,
   CalmUnborn, CalmNamed, CalmClosedAlone, CalmClosed, CalmMember DEF Orderly

-----------------------------------------------------------------------------
(* The steps that are calm.                                                 *)

LEMMA TypedIsTypeOK == Typed => TypeOK
<1>1. ASSUME TypedThreads, NEW t \in Threads, NEW i \in 1 .. Len(todo[t])
      PROVE  todo[t][i].do \in Calls
    <2>1. todo[t] \in Seq(AnyCall)
        BY <1>1 DEF TypedThreads
    <2>2. todo[t][i] \in AnyCall
        BY <2>1, ElementOfSeq
    <2> QED
        BY <2>2, Kinds
<1> QED
    BY <1>1 DEF Typed, TypedThreads, TypedData, TypeOK

LEMMA ScriptCalls ==
    ASSUME TypedData
    PROVE  /\ script.setup \in Setups /\ script.init \in {"null", "0"}
           /\ script.outside \in Seq(Handling) /\ script.disconnected \in Seq(Handling)
           /\ script.left \in Seq(Handling) /\ script.disband \in Seq(Handling)
           /\ script.timeout \in Seq(Handling) /\ script.killed \in Seq(Handling)
           /\ script.dead \in Seq(Handling) /\ script.finish \in Seq(Handling)
<1>1. script \in ScriptForms
    BY ScriptsAssumption DEF TypedData
<1> QED
    BY <1>1 DEF ScriptForms

LEMMA Begins ==
    ASSUME TypedThreads, NEW t \in Threads, NEW e \in Instances \cup {None},
           NEW calls \in Seq(AnyCall), Begin(t, e, calls)
    PROVE  /\ TypedThreads' /\ Others(t)
           /\ todo'[t] = calls
           /\ at'[t] = IF calls = << >> THEN None ELSE e
BY DEF TypedThreads, Begin, Others

LEMMA Continues ==
    ASSUME TypedThreads, NEW t \in Threads, ~Idle(t),
           NEW calls \in Seq(AnyCall), Continue(t, calls)
    PROVE  /\ TypedThreads' /\ Others(t)
           /\ todo'[t] = calls \o Tail(todo[t])
           /\ at'[t] = IF todo'[t] = << >> THEN None ELSE at[t]
<1> DEFINE rest == calls \o Tail(todo[t])
<1>1. todo[t] \in Seq(AnyCall) /\ Tail(todo[t]) \in Seq(AnyCall)
    BY NothingFirst DEF TypedThreads, Idle
<1>2. rest \in Seq(AnyCall)
    BY <1>1, ConcatProperties
<1>3. /\ todo' = [todo EXCEPT ![t] = rest]
      /\ at' = [at EXCEPT ![t] = IF rest = << >> THEN None ELSE @]
    BY DEF Continue
<1> HIDE DEF rest
<1>4. /\ TypedThreads' /\ Others(t) /\ todo'[t] = rest
      /\ at'[t] = IF rest = << >> THEN None ELSE at[t]
    BY <1>2, <1>3 DEF TypedThreads, Others
<1> QED
    BY <1>4 DEF rest

LEMMA IdleCalm ==
    ASSUME TypedThreads, NEW t \in Threads, Idle(t)
    PROVE  /\ ~Registering(todo[t]) /\ ~BeforeOpen(todo[t])
           /\ todo[t] \in Seq(Acting)
BY EmptySeq DEF Idle, Registering, BeforeOpen

(* A handler begins, about the player's own instance or without one.        *)
LEMMA BeginsCalm ==
    ASSUME TypedThreads, NEW t \in Threads, Idle(t),
           NEW e \in Instances \cup {None},
           NEW calls \in Seq(Acting), Begin(t, e, calls),
           t \notin Players => calls \in Seq(Handling),
           e = None => calls \in Seq({Offline}),
           \/ e = None
           \/ t \in Players /\ e = eim[t]
           \/ /\ t \in Instances /\ e = t /\ Live(t)
              /\ \A l \in Leaders : at[l] = t => ~Closes(l)
    PROVE  CalmThreads(t) /\ TypedThreads'
<1>1. /\ TypedThreads' /\ Others(t)
      /\ todo'[t] = calls
      /\ at'[t] = IF calls = << >> THEN None ELSE e
    BY Begins, Wider
<1>2. << >> \in Seq({Offline})
    BY EmptySeq
<1>3. Handles(t)'
    BY <1>1, <1>2 DEF Handles
<1> QED
    BY <1>1, <1>3, IdleCalm DEF CalmThreads

LEMMA StaysIdle ==
    ASSUME TypedThreads, NEW t \in Threads, Idle(t), UNCHANGED << todo, at >>
    PROVE  CalmThreads(t) /\ TypedThreads'
<1>1. \A S : << >> \in Seq(S)
    BY EmptySeq
<1> QED
    BY <1>1, IdleCalm DEF CalmThreads, TypedThreads, Handles, Idle, Others

(* A handler goes on.                                                       *)
LEMMA ContinuesCalm ==
    ASSUME TypedThreads, NEW t \in Threads, ~Idle(t), Handles(t),
           NEW calls \in Seq(Handling), Continue(t, calls),
           at[t] = None => calls = << >>
    PROVE  CalmThreads(t) /\ TypedThreads'
<1> DEFINE q == todo[t]
<1>0. calls \in Seq(AnyCall) /\ calls \in Seq(Acting)
    BY Wider
<1>1. /\ TypedThreads' /\ Others(t)
      /\ todo'[t] = calls \o Tail(q)
      /\ at'[t] = IF todo'[t] = << >> THEN None ELSE at[t]
    BY <1>0, Continues
<1>2. q \in Seq(Acting) /\ Tail(q) \in Seq(Acting) /\ q # << >>
    BY NothingFirst DEF Handles, Idle
<1>3. calls \o Tail(q) \in Seq(Acting)
    BY <1>0, <1>2, ConcatProperties
<1>4. ASSUME at'[t] = None PROVE todo'[t] \in Seq({Offline})
    <2>1. CASE todo'[t] = << >>
        BY <2>1, EmptySeq
    <2>2. CASE at[t] = None
        <3>1. calls = << >> /\ Tail(q) \in Seq({Offline}) /\ << >> \o Tail(q) = Tail(q)
            BY <1>2, <2>2, NothingFirst DEF Handles
        <3> QED
            BY <1>1, <3>1
    <2> QED
        BY <1>1, <1>4, <2>1, <2>2
<1>5. ASSUME t \notin Players PROVE todo'[t] \in Seq(Handling)
    <2>1. Tail(q) \in Seq(Handling)
        BY <1>2, <1>5, NothingFirst DEF Handles
    <2> QED
        BY <1>1, <2>1, ConcatProperties
<1>6. Handles(t)'
    BY <1>1, <1>3, <1>4, <1>5 DEF Handles
<1>7. ~BeforeOpen(q)
    BY <1>2, CalmIsNotRegistering, CalmKinds
<1> QED
    BY <1>1, <1>6, <1>7 DEF CalmThreads

LEMMA Unmoved ==
    ASSUME NEW t
    PROVE  /\ UNCHANGED << chars, ticket, eim >> => CalmMembers(t)
           /\ UNCHANGED << state, names, name, phase >> => CalmInstances(t)
           /\ UNCHANGED place => CalmPlaces(t)
BY DEF CalmMembers, CalmInstances, CalmPlaces, Closed

(* A player's handlers, from an entry point of the script.                  *)
LEMMA EntryCalm ==
    ASSUME TypedThreads, TypedData, NEW p \in Players, Idle(p), In(p),
           NEW calls \in Seq(Handling), Begin(p, eim[p], calls)
    PROVE  CalmThreads(p) /\ TypedThreads'
<1>1. p \in Threads /\ calls \in Seq(Acting) /\ eim[p] \in Instances /\ eim[p] # None
    BY Wider DEF Threads, In, TypedData
<1> QED
    BY <1>1, BeginsCalm

LEMMA WalkOutCalm ==
    ASSUME Orderly, NEW p \in Players, WalkOut(p)
    PROVE  Calm(p) /\ Typed'
<1>1. TypedThreads /\ TypedData /\ p \in Threads /\ Idle(p)
    BY DEF Orderly, Typed, WalkOut, Threads
<1>2. CalmThreads(p) /\ TypedThreads'
    <2>1. CASE In(p)
        <3>1. << WarpOut >> \in Seq(Handling) /\ script.outside \in Seq(Handling)
            BY <1>1, ScriptCalls DEF Handling, Plain
        <3>2. script.outside \o << WarpOut >> \in Seq(Handling)
            BY <3>1, ConcatProperties
        <3> QED
            BY <1>1, <2>1, <3>1, <3>2, EntryCalm DEF WalkOut
    <2>2. CASE ~In(p)
        BY <1>1, <2>2, StaysIdle DEF WalkOut
    <2> QED
        BY <2>1, <2>2
<1>3. CalmPlaces(p) /\ TypedData'
    BY <1>1 DEF WalkOut, CalmPlaces, TypedData, instance
<1> QED
    BY <1>2, <1>3, Unmoved DEF Calm, Typed, WalkOut, instance

LEMMA ScriptedCalm ==
    ASSUME Orderly, NEW p \in Players, Die(p) \/ MonstersDead(p) \/ FinishPQ(p)
    PROVE  Calm(p) /\ Typed'
<1>1. TypedThreads /\ TypedData /\ p \in Threads
    BY DEF Orderly, Typed, Threads
<1>2. Idle(p) /\ In(p) /\ UNCHANGED << script, state, instance, eim, place, party >>
    BY DEF Die, MonstersDead, FinishPQ
<1>3. CalmThreads(p) /\ TypedThreads'
    BY <1>1, <1>2, ScriptCalls, EntryCalm DEF Die, MonstersDead, FinishPQ
<1>4. TypedData'
    BY <1>1, <1>2 DEF TypedData, instance
<1> QED
    BY <1>2, <1>3, <1>4, Unmoved DEF Calm, Typed, instance

LEMMA LeavePartyCalm ==
    ASSUME Orderly, NEW l \in Leaders, NEW p \in Players, LeaveParty(l, p)
    PROVE  Calm(p) /\ Typed'
<1>1. TypedThreads /\ TypedData /\ p \in Threads /\ Idle(p)
    BY DEF Orderly, Typed, LeaveParty, Threads
<1>2. CalmThreads(p) /\ TypedThreads'
    <2>1. CASE In(p)
        BY <1>1, <2>1, ScriptCalls, EntryCalm DEF LeaveParty
    <2>2. CASE ~In(p)
        BY <1>1, <2>2, StaysIdle DEF LeaveParty
    <2> QED
        BY <2>1, <2>2
<1>3. TypedData'
    BY <1>1 DEF LeaveParty, TypedData, instance
<1> QED
    BY <1>2, <1>3, Unmoved DEF Calm, Typed, LeaveParty, instance

LEMMA DisbandCalm ==
    ASSUME Orderly, NEW l \in Leaders, Disband(l)
    PROVE  Calm(l) /\ Typed'
<1>1. TypedThreads /\ TypedData /\ l \in Players /\ l \in Threads /\ Idle(l)
    BY LeadersAssumption DEF Orderly, Typed, Disband, Threads
<1>2. CalmThreads(l) /\ TypedThreads'
    <2>1. CASE In(l)
        BY <1>1, <2>1, ScriptCalls, EntryCalm DEF Disband
    <2>2. CASE ~In(l)
        BY <1>1, <2>2, StaysIdle DEF Disband
    <2> QED
        BY <2>1, <2>2
<1>3. TypedData'
    <2>1. party' \in [Leaders -> SUBSET Players]
        BY <1>1 DEF Disband, TypedData
    <2> QED
        BY <1>1, <2>1 DEF Disband, TypedData, instance
<1> QED
    BY <1>2, <1>3, Unmoved DEF Calm, Typed, Disband, instance

LEMMA DisconnectCalm ==
    ASSUME Orderly, NEW p \in Players, Disconnect(p)
    PROVE  Calm(p) /\ Typed'
<1>1. TypedThreads /\ TypedData /\ p \in Threads /\ Idle(p)
    BY DEF Orderly, Typed, Disconnect, Threads
<1>2. CalmThreads(p) /\ TypedThreads'
    <2>1. CASE In(p)
        <3>1. << Drop, Offline >> \in Seq(Acting) /\ script.disconnected \in Seq(Acting)
            BY <1>1, ScriptCalls, Wider DEF Acting
        <3>2. script.disconnected \o << Drop, Offline >> \in Seq(Acting)
            BY <3>1, ConcatProperties
        <3>3. eim[p] \in Instances /\ eim[p] # None
            BY <1>1, <2>1 DEF In, TypedData
        <3> QED
            BY <1>1, <2>1, <3>2, <3>3, BeginsCalm DEF Disconnect
    <2>2. CASE ~In(p)
        <3>1. << Offline >> \in Seq({Offline}) /\ << Offline >> \in Seq(Acting)
            BY DEF Acting
        <3> QED
            BY <1>1, <2>2, <3>1, BeginsCalm DEF Disconnect
    <2> QED
        BY <2>1, <2>2
<1>3. TypedData'
    BY <1>1 DEF Disconnect, TypedData, instance
<1> QED
    BY <1>2, <1>3, Unmoved DEF Calm, Typed, Disconnect, instance

LEMMA LoginCalm ==
    ASSUME Orderly, NEW p \in Players, Login(p)
    PROVE  Calm(p) /\ Typed'
<1>1. TypedThreads /\ TypedData /\ p \in Threads /\ Idle(p)
    BY DEF Orderly, Typed, Login, Threads
<1>2. CalmThreads(p) /\ TypedThreads'
    BY <1>1, StaysIdle DEF Login
<1>3. CalmPlaces(p) /\ TypedData'
    BY <1>1 DEF Login, CalmPlaces, TypedData, instance
<1> QED
    BY <1>2, <1>3, Unmoved DEF Calm, Typed, Login, instance

LEMMA TimeoutCalm ==
    ASSUME Orderly, NEW e \in Instances, Timeout(e)
    PROVE  Calm(e) /\ Typed'
<1>1. TypedThreads /\ TypedData /\ e \in Threads /\ e \notin Players /\ Idle(e)
    BY PlayersAssumption DEF Orderly, Typed, Timeout, Threads
<1>2. CalmThreads(e) /\ TypedThreads'
    <2>1. CASE Live(e)
        <3>1. script.timeout \in Seq(Handling) /\ script.timeout \in Seq(Acting)
            BY <1>1, ScriptCalls, Wider
        <3>2. \A l \in Leaders : at[l] = e => ~Closes(l)
            BY DEF Timeout, Closes
        <3> QED
            BY <1>1, <2>1, <3>1, <3>2, BeginsCalm, NoneAssumption DEF Timeout
    <2>2. CASE ~Live(e)
        BY <1>1, <2>2, StaysIdle DEF Timeout
    <2> QED
        BY <2>1, <2>2
<1>3. TypedData'
    BY <1>1 DEF Timeout, TypedData
<1> QED
    BY <1>2, <1>3, Unmoved DEF Calm, Typed, Timeout

LEMMA SpawnCalm ==
    ASSUME Orderly, NEW e \in Instances, Spawn(e)
    PROVE  Calm(e) /\ Typed'
<1>1. TypedThreads /\ TypedData /\ e \in Threads /\ Idle(e)
    BY DEF Orderly, Typed, Spawn, Threads
<1>2. CalmThreads(e) /\ TypedThreads'
    BY <1>1, StaysIdle DEF Spawn
<1>3. TypedData'
    BY <1>1 DEF Spawn, TypedData
<1> QED
    BY <1>2, <1>3, Unmoved DEF Calm, Typed, Spawn

(* What a call that asks nothing of the instance leaves calm.               *)
LEMMA PlainCalm ==
    ASSUME Orderly, NEW t \in Threads, ~Idle(t), Handles(t), Continue(t, << >>)
    PROVE  CalmThreads(t) /\ TypedThreads'
BY EmptySeq, ContinuesCalm DEF Orderly, Typed

LEMMA DoUnregisterCalm ==
    ASSUME Orderly, NEW t \in Threads, DoUnregister(t)
    PROVE  Calm(t) /\ Typed'
<1>1. TypedThreads /\ TypedData /\ Handles(t) /\ at[t] \in Instances /\ ~Idle(t)
    BY NextCall DEF Orderly, Shaped, Typed, TypedThreads, DoUnregister, Doing
<1>2. CalmThreads(t) /\ TypedThreads'
    BY <1>1, PlainCalm DEF DoUnregister
<1>3. eim' \in [Players -> Instances \cup {None}]
      /\ \A p \in Players : eim'[p] = IF p = t THEN None ELSE eim[p]
    BY <1>1 DEF DoUnregister, ClearEvent, TypedData
<1>4. chars' = [chars EXCEPT ![at[t]] = @ \ {t}]
    BY DEF DoUnregister
<1>5. CalmMembers(t)
    BY <1>1, <1>3, <1>4 DEF DoUnregister, CalmMembers, TypedData
<1>6. TypedData'
    BY <1>1, <1>3, <1>4 DEF DoUnregister, TypedData
<1> QED
    BY <1>2, <1>5, <1>6, Unmoved DEF Calm, Typed, DoUnregister

LEMMA DoWarpCalm ==
    ASSUME Orderly, NEW t \in Threads, DoWarp(t)
    PROVE  Calm(t) /\ Typed'
<1>1. TypedThreads /\ TypedData /\ Handles(t) /\ ~Idle(t)
    BY NextCall DEF Orderly, Shaped, Typed, DoWarp, Doing
<1>2. CalmThreads(t) /\ TypedThreads'
    BY <1>1, PlainCalm DEF DoWarp
<1>3. CalmPlaces(t) /\ TypedData'
    BY <1>1 DEF DoWarp, CalmPlaces, TypedData, instance
<1> QED
    BY <1>2, <1>3, Unmoved DEF Calm, Typed, DoWarp, instance

LEMMA DoAdvanceCalm ==
    ASSUME Orderly, NEW t \in Threads, DoAdvance(t)
    PROVE  Calm(t) /\ Typed'
<1>1. TypedThreads /\ TypedData /\ Handles(t) /\ ~Idle(t)
    BY NextCall DEF Orderly, Shaped, Typed, DoAdvance, Doing
<1>2. CalmThreads(t) /\ TypedThreads'
    BY <1>1, PlainCalm DEF DoAdvance
<1>3. /\ state' \in {"null", "0", "1", "2", "3"}
      /\ state' \notin {"null", "0"} => state \notin {"null", "0"}
    BY <1>1 DEF DoAdvance, TypedData
<1>4. CalmInstances(t) /\ TypedData'
    BY <1>1, <1>3 DEF DoAdvance, CalmInstances, Closed, TypedData, instance
<1> QED
    BY <1>2, <1>4, Unmoved DEF Calm, Typed, DoAdvance, instance

LEMMA DoForbidCalm ==
    ASSUME Orderly, NEW t \in Threads, DoForbid(t)
    PROVE  Calm(t) /\ Typed'
<1>1. TypedThreads /\ TypedData /\ Handles(t) /\ ~Idle(t)
    BY NextCall DEF Orderly, Shaped, Typed, DoForbid, Doing
<1>2. CalmThreads(t) /\ TypedThreads'
    BY <1>1, PlainCalm DEF DoForbid
<1>3. CalmMembers(t) /\ TypedData'
    BY <1>1 DEF DoForbid, CalmMembers, TypedData
<1> QED
    BY <1>2, <1>3, Unmoved DEF Calm, Typed, DoForbid

LEMMA DoFewerCalm ==
    ASSUME Orderly, NEW t \in Threads, DoFewer(t)
    PROVE  Calm(t) /\ Typed'
<1>1. /\ TypedThreads /\ TypedData /\ Handles(t) /\ at[t] # None /\ ~Idle(t)
      /\ Call(t).do = "fewer"
    BY NextCall DEF Orderly, Shaped, Typed, DoFewer, Doing, Call
<1>2. Call(t).yes \in Seq(Handling) /\ Call(t).no \in Seq(Handling)
    BY <1>1, Answers, NothingFirst DEF Handles, Idle, Call
<1>3. CalmThreads(t) /\ TypedThreads'
    BY <1>1, <1>2, ContinuesCalm DEF DoFewer
<1>4. TypedData'
    BY <1>1 DEF DoFewer, TypedData, instance
<1> QED
    BY <1>3, <1>4, Unmoved DEF Calm, Typed, DoFewer, instance

LEMMA DoOfflineCalm ==
    ASSUME Orderly, NEW t \in Threads, DoOffline(t)
    PROVE  Calm(t) /\ Typed'
<1>1. TypedThreads /\ TypedData /\ Handles(t) /\ ~Idle(t)
    BY NextCall DEF Orderly, Shaped, Typed, DoOffline, Doing
<1>2. CalmThreads(t) /\ TypedThreads'
    BY <1>1, PlainCalm DEF DoOffline
<1>3. CalmPlaces(t) /\ TypedData'
    BY <1>1 DEF DoOffline, CalmPlaces, TypedData, instance
<1> QED
    BY <1>2, <1>3, Unmoved DEF Calm, Typed, DoOffline, instance

(* dispose_NoLock of the instance a handler is about.                       *)
LEMMA DisposeCalm ==
    ASSUME Typed, NEW t \in Threads, at[t] \in Instances, Live(at[t]), Dispose(at[t]),
           NEW gone, ClearEvent(gone)
    PROVE  /\ CalmMembers(t) /\ CalmInstances(t)
           /\ state' \in {"null", "0", "1", "2", "3"}
           /\ names' \in [Names -> Instances \cup {None}]
           /\ name' = name
           /\ phase' \in [Instances -> {"unborn", "live", "disposed"}]
           /\ chars' \in [Instances -> SUBSET Players]
           /\ ticket' \in [Instances -> SUBSET Players]
           /\ timer' \in [Instances -> BOOLEAN]
           /\ eim' \in [Players -> Instances \cup {None}]
<1> DEFINE e == at[t]
<1>1. e \in Instances /\ TypedData /\ phase[e] = "live" /\ name[e] \in Names
    BY DEF Typed, TypedData, Live
<1>2. /\ phase' = [phase EXCEPT ![e] = "disposed"]
      /\ chars' = [chars EXCEPT ![e] = {}]
      /\ ticket' = [ticket EXCEPT ![e] = {}]
      /\ timer' = [timer EXCEPT ![e] = FALSE]
      /\ names' = [names EXCEPT ![name[e]] = None]
      /\ name' = name
    BY DEF Dispose
<1>3. /\ state' \in {state, "0"}
      /\ state' \notin {"null", "0"} =>
             state' = state /\ \E n \in Names : names'[n] # None
    BY DEF Dispose
<1>4. eim' = [p \in Players |-> IF p \in gone THEN None ELSE eim[p]]
    BY DEF ClearEvent
<1> HIDE DEF e
<1>5. CalmMembers(t)
    BY <1>1, <1>2, <1>4 DEF CalmMembers, TypedData
<1>6. CalmInstances(t)
    BY <1>1, <1>2, <1>3 DEF CalmInstances, TypedData, Closed, e
<1> QED
    BY <1>1, <1>2, <1>3, <1>4, <1>5, <1>6 DEF TypedData

LEMMA DoDisposeCalm ==
    ASSUME Orderly, NEW t \in Threads, DoDispose(t)
    PROVE  Calm(t) /\ Typed'
<1>1. /\ Typed /\ TypedThreads /\ TypedData /\ Handles(t) /\ at[t] # None /\ ~Idle(t)
      /\ Call(t).do = "dispose" /\ at[t] \in Instances
    BY NextCall DEF Orderly, Shaped, Typed, TypedThreads, DoDispose, Doing, Call
<1>2. Call(t).yes \in Seq(Handling) /\ Call(t).no \in Seq(Handling)
    BY <1>1, Answers, NothingFirst DEF Handles, Idle, Call
<1>3. CalmThreads(t) /\ TypedThreads'
    BY <1>1, <1>2, ContinuesCalm DEF DoDispose
<1>4. CASE Live(at[t]) /\ Cardinality(chars[at[t]]) <= Call(t).below
    <2>1. /\ Dispose(at[t]) /\ ClearEvent(chars[at[t]])
          /\ UNCHANGED << script, party >>
          /\ place' = [p \in Players |->
                 IF p \in chars[at[t]] /\ Call(t).warp /\ place[p] = "inside"
                 THEN "outside" ELSE place[p]]
        BY <1>4 DEF DoDispose
    <2>2. CalmMembers(t) /\ CalmInstances(t)
        BY <1>1, <1>4, <2>1, DisposeCalm
    <2>3. TypedData'
        BY <1>1, <1>4, <2>1, DisposeCalm DEF TypedData
    <2>4. CalmPlaces(t)
        BY <1>1, <2>1 DEF CalmPlaces
    <2> QED
        BY <1>3, <2>2, <2>3, <2>4 DEF Calm, Typed
<1>5. CASE ~(Live(at[t]) /\ Cardinality(chars[at[t]]) <= Call(t).below)
    <2>1. UNCHANGED << script, party, state, instance, eim, place >>
        BY <1>5 DEF DoDispose
    <2>2. TypedData'
        BY <1>1, <2>1 DEF TypedData, instance
    <2> QED
        BY <1>3, <2>1, <2>2, Unmoved DEF Calm, Typed, instance
<1> QED
    BY <1>4, <1>5

LEMMA DoDropCalm ==
    ASSUME Orderly, NEW t \in Threads, DoDrop(t)
    PROVE  Calm(t) /\ Typed'
<1>1. /\ Typed /\ TypedThreads /\ TypedData /\ Handles(t) /\ at[t] \in Instances
      /\ ~Idle(t) /\ t \in Players
    BY NextCall DEF Orderly, Shaped, Typed, TypedThreads, DoDrop, Doing
<1>2. CalmThreads(t) /\ TypedThreads'
    BY <1>1, PlainCalm DEF DoDrop
<1>3. CalmPlaces(t) /\ UNCHANGED << script, place, party >>
    BY Unmoved DEF DoDrop
<1>4. CASE ~Live(at[t])
    <2>1. UNCHANGED << state, instance, eim >>
        BY <1>4 DEF DoDrop
    <2>2. TypedData'
        BY <1>1, <1>3, <2>1 DEF TypedData, instance
    <2> QED
        BY <1>2, <1>3, <2>1, <2>2, Unmoved DEF Calm, Typed, instance
<1>5. CASE Live(at[t]) /\ chars[at[t]] \subseteq {t}
    <2>1. Dispose(at[t]) /\ ClearEvent({t})
        BY <1>5 DEF DoDrop
    <2>2. CalmMembers(t) /\ CalmInstances(t)
        BY <1>1, <1>5, <2>1, DisposeCalm
    <2>3. TypedData'
        BY <1>1, <1>3, <1>5, <2>1, DisposeCalm DEF TypedData
    <2> QED
        BY <1>2, <1>3, <2>2, <2>3 DEF Calm, Typed
<1>6. CASE Live(at[t]) /\ ~(chars[at[t]] \subseteq {t})
    <2> DEFINE e == at[t]
    <2>1. /\ chars' = [chars EXCEPT ![e] = @ \ {t}]
          /\ eim' = [p \in Players |-> IF p \in {t} THEN None ELSE eim[p]]
          /\ \/ ticket' = [ticket EXCEPT ![e] = @ \cup {Char[t]}]
             \/ ticket' = ticket
          /\ UNCHANGED << state, names, name, phase, timer >>
        BY <1>6 DEF DoDrop, ClearEvent
    <2>2. Char[t] \in Players /\ e \in Instances
        BY <1>1, CharAssumption
    <2>3. CalmMembers(t)
        BY <1>1, <2>1, <2>2 DEF CalmMembers, TypedData
    <2>4. TypedData'
        BY <1>1, <1>3, <2>1, <2>2 DEF TypedData
    <2> QED
        BY <1>2, <1>3, <2>1, <2>3, <2>4, Unmoved DEF Calm, Typed
<1> QED
    BY <1>4, <1>5, <1>6

-----------------------------------------------------------------------------
(* A planning step: thread t has members to register and enters none.       *)

Plans(t) ==
    /\ Others(t) /\ Registers(t)'
    /\ ~Setting(todo'[t]) /\ ~Entering(todo'[t])
    /\ at'[t] # None =>
           \/ /\ at'[t] = at[t] /\ Guests(t)' \subseteq Guests(t)
              /\ Closes(t)' => Closes(t)
           \/ \E n \in Names :
                  /\ at'[t] = names[n] /\ Char[t] \in ticket[names[n]]
                  /\ Guests(t)' = {} /\ ~Closes(t)'
    /\ UNCHANGED << names, name, phase, chars, ticket, eim, place >>

LEMMA PlansShaped ==
    ASSUME Shaped, NEW t \in Threads, Plans(t)
    PROVE  Shaped'
<1> SUFFICES ASSUME NEW s \in Threads PROVE Shape(s)'
    BY DEF Shaped
<1>1. s # t => todo'[s] = todo[s] /\ at'[s] = at[s] /\ Shape(s)
    BY DEF Plans, Others, Shaped
<1> QED
    BY <1>1 DEF Shape, Handles, Registers, Plans

LEMMA PlansFresh ==
    ASSUME Typed, NEW t \in Players, Plans(t),
           NEW e \in Instances, NEW c \in Players, Fresh(e, c)
    PROVE  StaysFresh(e, c)
<1>1. c \notin ticket'[e] /\ \A p \in Players : Char[p] = c => eim'[p] # e
    BY DEF Plans, Fresh
<1>2. ASSUME NEW p \in Players, Char[p] = c PROVE at'[p] # e
    <2>1. at[p] # e /\ e # None
        BY <1>2, NoneAssumption DEF Fresh
    <2>2. p # t => at'[p] = at[p]
        BY DEF Plans, Others, Threads
    <2>3. ASSUME p = t, at'[p] = e PROVE FALSE
        <3>1. Char[t] = c /\ c \notin ticket[e]
            BY <1>2, <2>3 DEF Fresh
        <3> QED
            BY <2>1, <2>3, <3>1 DEF Plans
    <2> QED
        BY <2>1, <2>2, <2>3
<1> QED
    BY <1>1, <1>2 DEF StaysFresh

LEMMA GuestsAreCharacters ==
    ASSUME NEW t
    PROVE  /\ Guests(t) \subseteq Players
           /\ Guests(t)' \subseteq Players
BY DEF Guests, Registering, Rest, Invitation

LEMMA OthersSame ==
    ASSUME NEW t, Others(t), NEW s \in Threads \ {t}
    PROVE  /\ Guests(s)' = Guests(s) /\ Hosts(s)' = Hosts(s)
           /\ todo'[s] = todo[s] /\ at'[s] = at[s]
           /\ Closes(s)' = Closes(s)
BY DEF Others, Guests, Hosts, Closes

LEMMA PlansGuestsFresh ==
    ASSUME Typed, GuestsFresh, NEW t \in Players, Plans(t)
    PROVE  GuestsFresh'
<1> SUFFICES ASSUME NEW s \in Players, at'[s] # None, NEW c \in Guests(s)'
             PROVE  Fresh(at[s], c)'
    BY DEF GuestsFresh
<1>1. c \in Guests(s) /\ at'[s] = at[s] /\ s \in Threads
    BY OthersSame DEF Plans, Threads
<1>2. at[s] \in Instances /\ c \in Players /\ Fresh(at[s], c)
    BY <1>1, GuestsAreCharacters DEF Typed, TypedThreads, GuestsFresh
<1>3. StaysFresh(at[s], c)
    BY <1>2, PlansFresh
<1> QED
    BY <1>1, <1>3 DEF Fresh, StaysFresh

LEMMA PlansHalfRegistered ==
    ASSUME Typed, HalfRegistered, BeforeEntry, NEW t \in Players, Plans(t)
    PROVE  HalfRegistered' /\ BeforeEntry'
<1>1. ASSUME NEW s \in Players, Setting(todo'[s]),
             NEW p, p = todo'[s][1].who
      PROVE  /\ at'[s] # None
             /\ Char[p] \notin Rest(todo'[s])
             /\ p = s \/ (Char[p] # Char[s] /\ Fresh(at[s], Char[p])')
             /\ Live(at[s])' => p \in chars'[at'[s]]
    <2>1. /\ s # t /\ s \in Threads /\ at'[s] = at[s] /\ todo'[s] = todo[s]
          /\ Setting(todo[s])
        BY <1>1, OthersSame DEF Plans, Threads
    <2>2. p \in Players /\ Char[p] \in Players
        BY <1>1, CharAssumption DEF Setting, Naming
    <2>3. /\ Char[p] \notin Rest(todo[s]) /\ at[s] # None
          /\ p = s \/ (Char[p] # Char[s] /\ Fresh(at[s], Char[p]))
          /\ Live(at[s]) => p \in chars[at[s]]
        BY <1>1, <2>1 DEF HalfRegistered
    <2>4. at[s] \in Instances
        BY <2>1, <2>3 DEF Typed, TypedThreads
    <2>5. p # s => StaysFresh(at[s], Char[p])
        BY <2>2, <2>3, <2>4, PlansFresh
    <2> QED
        BY <2>1, <2>3, <2>5 DEF Fresh, StaysFresh, Live, Plans
<1>2. ASSUME NEW s \in Players, Entering(todo'[s])
      PROVE  Entering(todo[s]) /\ todo'[s] = todo[s]
    BY <1>2, OthersSame DEF Plans, Threads
<1> QED
    BY <1>1, <1>2 DEF HalfRegistered, BeforeEntry

LEMMA PlansOneHost ==
    ASSUME Typed, OneHost, NEW t \in Players, Plans(t)
    PROVE  OneHost'
<1> SUFFICES ASSUME NEW r \in Players, NEW s \in Players, Hosts(r)', Hosts(s)',
                    at'[r] # None, at'[r] = at'[s]
             PROVE  r = s
    BY DEF OneHost
<1>1. ASSUME NEW q \in Players, Hosts(q)', at'[q] # None
      PROVE  Hosts(q) /\ at'[q] = at[q]
    <2>1. CASE q # t
        BY <1>1, <2>1, OthersSame DEF Plans, Threads
    <2>2. CASE q = t
        <3>1. Guests(t)' # {}
            BY <1>1, <2>2 DEF Hosts, Plans
        <3> QED
            BY <1>1, <2>2, <3>1 DEF Plans, Hosts
    <2> QED
        BY <2>1, <2>2
<1> QED
    BY <1>1 DEF OneHost

LEMMA PlansUnborn ==
    ASSUME Typed, UnbornUnknown, NamedLive, NEW t \in Players, Plans(t)
    PROVE  UnbornUnknown'
<1> SUFFICES ASSUME NEW e \in Instances, phase[e] = "unborn", NEW s \in Threads
             PROVE  at'[s] # e
    BY DEF UnbornUnknown, Plans
<1>1. e # None /\ at[s] # e /\ \A n \in Names : names[n] # e
    BY NoneAssumption DEF UnbornUnknown
<1> QED
    BY <1>1 DEF Plans, Others

LEMMA PlansClosedAlone ==
    ASSUME Typed, ClosedAlone, NEW t \in Players, Plans(t)
    PROVE  ClosedAlone'
<1> SUFFICES ASSUME NEW l \in Leaders, at'[l] # None, Closes(l)'
             PROVE  /\ phase'[at'[l]] = "live" /\ ticket'[at'[l]] = {}
                    /\ \A p \in Players : eim'[p] # at'[l]
                    /\ \A s \in Threads \ {l} : at'[s] # at'[l]
    BY DEF ClosedAlone, Live
<1>1. l \in Threads /\ at'[l] = at[l] /\ Closes(l)
    BY OthersSame, LeadersAssumption DEF Plans, Threads
<1>2. /\ phase[at[l]] = "live" /\ ticket[at[l]] = {}
      /\ \A p \in Players : eim[p] # at[l]
      /\ \A s \in Threads \ {l} : at[s] # at[l]
    BY <1>1 DEF ClosedAlone, Live
<1>3. ASSUME NEW s \in Threads \ {l} PROVE at'[s] # at[l]
    <2>1. s # t => at'[s] = at[s]
        BY DEF Plans, Others
    <2>2. ASSUME s = t, at'[t] = at[l] PROVE FALSE
        BY <1>1, <1>2, <2>2 DEF Plans
    <2> QED
        BY <1>2, <2>1, <2>2
<1> QED
    BY <1>1, <1>2, <1>3 DEF Plans

LEMMA PlansKeep ==
    ASSUME Orderly, NEW t \in Players, Plans(t), Typed', ClosedMeansLater'
    PROVE  Orderly'
<1>1. t \in Threads
    BY DEF Threads
<1>2. OneOnline' /\ NamedLive' /\ MemberOfOwnInstance'
    BY DEF Orderly, OneOnline, NamedLive, MemberOfOwnInstance, In, Live, Plans
<1> QED
    BY <1>1, <1>2, PlansShaped, PlansGuestsFresh, PlansHalfRegistered, PlansOneHost,
       PlansUnborn, PlansClosedAlone DEF Orderly

-----------------------------------------------------------------------------
(* The steps that plan.                                                     *)

LEMMA KindsApart ==
    ASSUME NEW q, BeforeOpen(q) \/ AfterOpen(q) \/ Waiting(q)
    PROVE  ~Setting(q) /\ ~Entering(q)
<1>1. ASSUME Setting(q) \/ Entering(q) PROVE Len(q) \in {2, 3} /\ q[1].do \in {"set", "enter"}
    BY <1>1, Kinds DEF Setting, Entering
<1>2. ASSUME BeforeOpen(q) \/ AfterOpen(q), Len(q) \in {2, 3}
      PROVE  q[1].do \notin {"set", "enter"}
    <2>1. CASE BeforeOpen(q)
        <3>1. q[1] \in Early \cup {NewInstance}
            BY <2>1, BeforeOpenTail
        <3> QED
            BY <3>1, Kinds
    <2>2. CASE AfterOpen(q)
        <3>1. q[1] \in Late
            BY <1>2, <2>2, AfterOpenTail
        <3> QED
            BY <3>1, Kinds
    <2> QED
        BY <1>2, <2>1, <2>2
<1> QED
    BY <1>1, <1>2 DEF Waiting

LEMMA LateIsLate ==
    ASSUME NEW q, BeforeOpen(q) \/ AfterOpen(q) \/ Waiting(q)
    PROVE  Registering(q)
BY DEF BeforeOpen, AfterOpen, Waiting

(* setup's next call, newInstance apart.                                    *)
LEMMA SetupPlans ==
    ASSUME Typed, NEW t \in Threads, ~Idle(t), Registers(t), Continue(t, << >>),
           Len(todo[t]) # 1,
           IF at[t] = None THEN BeforeOpen(Tail(todo[t]))
                           ELSE t \in Leaders /\ AfterOpen(Tail(todo[t])),
           UNCHANGED << names, name, phase, chars, ticket, eim, place >>
    PROVE  Plans(t) /\ TypedThreads' /\ todo'[t] = Tail(todo[t]) /\ at'[t] = at[t]
<1> DEFINE q == todo[t]
<1>1. /\ q \in Seq(AnyCall) /\ q # << >> /\ << >> \o Tail(q) = Tail(q)
      /\ << >> \in Seq(AnyCall) /\ TypedThreads
    BY NothingFirst, EmptySeq DEF Typed, TypedThreads, Idle
<1>2. /\ TypedThreads' /\ Others(t) /\ todo'[t] = Tail(q)
      /\ at'[t] = IF todo'[t] = << >> THEN None ELSE at[t]
    BY <1>1, Continues
<1>3. Registering(q)
    BY LateIsLate DEF Registers, Entering, Setting
<1>4. /\ Registering(Tail(q)) /\ Rest(Tail(q)) = Rest(q) /\ Tail(q) # << >>
      /\ Len(Tail(q)) = Len(q) - 1 /\ Len(q) \in Nat
      /\ \A i \in 1 .. Len(q) - 1 : Tail(q)[i] = q[i + 1]
    BY <1>3, LastStays
<1>5. at'[t] = at[t] /\ Guests(t)' = Guests(t)
    BY <1>2, <1>3, <1>4 DEF Guests
<1>6. ASSUME Closes(t)' PROVE Closes(t)
    <2>1. PICK i \in 1 .. Len(Tail(q)) : Tail(q)[i] = SetState("1")
        BY <1>2, <1>6 DEF Closes
    <2>2. i + 1 \in 1 .. Len(q) /\ q[i + 1] = SetState("1")
        BY <1>4, <2>1
    <2> QED
        BY <2>2 DEF Closes
<1>7. Registers(t)'
    BY <1>2, <1>5 DEF Registers
<1>8. ~Setting(Tail(q)) /\ ~Entering(Tail(q))
    BY KindsApart
<1> QED
    BY <1>2, <1>5, <1>6, <1>7, <1>8 DEF Plans

LEMMA DoStateKeeps ==
    ASSUME Orderly, NEW t \in Threads, DoState(t)
    PROVE  Orderly'
<1>1. Typed /\ TypedThreads /\ TypedData /\ Shape(t) /\ ~Idle(t) /\ Call(t).do = "state"
    BY DEF Orderly, Shaped, Typed, DoState, Doing, Call
<1>2. /\ state' = Call(t).value /\ Continue(t, << >>)
      /\ UNCHANGED << script, instance, eim, place, party >>
    BY DEF DoState
<1>3. CASE Handles(t) /\ Call(t) = SetState("0")
    <2>1. CalmThreads(t) /\ TypedThreads'
        BY <1>1, <1>2, <1>3, PlainCalm
    <2>2. state' = "0"
        BY <1>2, <1>3 DEF SetState
    <2>3. CalmInstances(t) /\ TypedData'
        BY <1>1, <1>2, <2>2 DEF CalmInstances, Closed, TypedData, instance
    <2>4. Calm(t) /\ Typed'
        BY <1>2, <2>1, <2>3, Unmoved DEF Calm, Typed, instance
    <2> QED
        BY <2>4, CalmKeeps
<1>4. CASE /\ Registers(t) /\ Call(t) \in Early /\ Len(todo[t]) # 1
           /\ IF at[t] = None THEN BeforeOpen(Tail(todo[t])) ELSE AfterOpen(Tail(todo[t]))
    <2>1. state' \in {"null", "1"}
        BY <1>2, <1>4, Kinds
    <2>2. t \in Players /\ t \in Leaders
        <3>1. CASE at[t] = None
            BY <1>4, <3>1 DEF Registers
        <3>2. CASE at[t] # None
            <4>1. ~Waiting(todo[t])
                BY <1>4 DEF Waiting
            <4>2. ~Setting(todo[t]) /\ ~Entering(todo[t])
                <5>1. Registering(todo[t])
                    BY <1>4, LateIsLate DEF Registers, Entering, Setting
                <5>2. Call(t) = todo[t][1]
                    BY <5>1, OneCallTail DEF Call
                <5> QED
                    BY <1>1, <5>2, Kinds DEF Setting, Entering
            <4> QED
                BY <1>4, <3>2, <4>1, <4>2 DEF Registers
        <3> QED
            BY <1>4, <3>1, <3>2 DEF Registers
    <2>3. Plans(t) /\ TypedThreads' /\ todo'[t] = Tail(todo[t]) /\ at'[t] = at[t]
        BY <1>1, <1>2, <1>4, <2>2, SetupPlans DEF instance
    <2>4. TypedData'
        BY <1>1, <1>2, <2>1 DEF TypedData, instance
    <2>5. ClosedMeansLater'
        <3>1. CASE at[t] = None
            BY <1>4, <2>2, <2>3, <3>1 DEF ClosedMeansLater
        <3>2. CASE at[t] # None /\ state' = "null"
            BY <3>2 DEF ClosedMeansLater, Closed
        <3>3. CASE at[t] # None /\ state' = "1"
            <4>1. Call(t) = SetState("1")
                <5>1. Call(t) \in {SetState("null"), SetState("1")}
                    BY <1>4 DEF Early
                <5>2. SetState("null").value # "1"
                    BY DEF SetState
                <5> QED
                    BY <1>2, <3>3, <5>1, <5>2
            <4>2. Call(t) = todo[t][1] /\ 1 \in 1 .. Len(todo[t])
                BY <1>1, NothingFirst DEF Call, TypedThreads, Idle
            <4>3. Closes(t)
                BY <4>1, <4>2 DEF Closes
            <4>4. at[t] \in Instances /\ phase[at[t]] = "live"
                BY <1>1, <2>2, <3>3, <4>3 DEF Orderly, ClosedAlone, Live, TypedThreads
            <4> QED
                BY <1>2, <4>4 DEF ClosedMeansLater, Live, instance
        <3> QED
            BY <2>1, <3>1, <3>2, <3>3
    <2> QED
        BY <2>2, <2>3, <2>4, <2>5, PlansKeep DEF Typed
<1> QED
    BY <1>1, <1>3, <1>4, NextCall DEF Call

LEMMA LaterStays ==
    ASSUME Typed, ClosedMeansLater, NEW t \in Players, Plans(t), at[t] # None \/ Idle(t),
           state' = state
    PROVE  ClosedMeansLater'
<1>1. \A l \in Leaders : at[l] = None /\ BeforeOpen(todo[l]) =>
          l # t /\ l \in Threads
    BY IdleCalm, LeadersAssumption DEF Typed, Threads
<1>2. \A l \in Threads \ {t} : todo'[l] = todo[l] /\ at'[l] = at[l]
    BY DEF Plans, Others
<1> QED
    BY <1>1, <1>2 DEF ClosedMeansLater, Closed, Live, Plans

LEMMA DoTimerKeeps ==
    ASSUME Orderly, NEW t \in Threads, DoTimer(t)
    PROVE  Orderly'
<1>1. /\ Typed /\ TypedThreads /\ TypedData /\ ~Idle(t) /\ Registers(t)
      /\ at[t] # None /\ t \in Leaders /\ t \in Players
      /\ Len(todo[t]) # 1 /\ AfterOpen(Tail(todo[t]))
    BY NextCall, LeadersAssumption DEF Orderly, Shaped, Typed, DoTimer, Doing
<1>2. Plans(t) /\ TypedThreads'
    BY <1>1, SetupPlans DEF DoTimer
<1>3. TypedData'
    <2>1. Live(at[t]) \in BOOLEAN
        BY DEF Live
    <2> QED
        BY <1>1, <2>1 DEF DoTimer, TypedData
<1>4. ClosedMeansLater'
    BY <1>1, <1>2, LaterStays DEF DoTimer, Orderly
<1> QED
    BY <1>1, <1>2, <1>3, <1>4, PlansKeep DEF Typed

LEMMA AnInvitation ==
    ASSUME NEW cs \in SUBSET Players
    PROVE  /\ Register(cs) \in Invitation /\ Register(cs).rest = cs
           /\ << Register(cs) >> \in Seq(AnyCall)
           /\ Waiting(<< Register(cs) >>) /\ Rest(<< Register(cs) >>) = cs
           /\ << Register(cs) >> # << >>
<1>1. Register(cs) \in Invitation /\ Register(cs).rest = cs
    BY DEF Register, Invitation
<1> DEFINE r == Register(cs)
<1>2. r \in Invitation /\ r \in AnyCall /\ r.rest = cs
    BY <1>1 DEF AnyCall
<1> HIDE DEF r
<1>3. /\ << r >> \in Seq(AnyCall) /\ Len(<< r >>) = 1 /\ << r >>[1] = r
      /\ << r >> # << >>
    BY <1>2
<1> QED
    BY <1>2, <1>3 DEF Waiting, Registering, Rest, r

(* A setup, and the registration of the party that follows it.              *)
LEMMA SetupThenRegister ==
    ASSUME NEW u \in Setups, NEW cs \in SUBSET Players
    PROVE  /\ u \o << Register(cs) >> \in Seq(AnyCall)
           /\ BeforeOpen(u \o << Register(cs) >>)
           /\ u \o << Register(cs) >> # << >>
<1>1. u \in Seq(Late \cup {NewInstance}) /\ u \in Seq(AnyCall)
    <2>1. Late \cup {NewInstance} \subseteq AnyCall
        BY DEF AnyCall
    <2>2. u \in Seq(Late \cup {NewInstance})
        BY DEF Setups
    <2> QED
        BY <2>1, <2>2, SeqMonotonic
<1> DEFINE r == << Register(cs) >>
           q == u \o r
<1>2. r \in Seq(AnyCall) /\ Len(r) = 1 /\ r[1] \in Invitation
    BY AnInvitation DEF Waiting
<1> HIDE DEF r
<1>3. /\ q \in Seq(AnyCall) /\ Len(u) \in Nat /\ Len(q) = Len(u) + 1
      /\ \A i \in 1 .. Len(u) + 1 : q[i] = IF i <= Len(u) THEN u[i] ELSE r[i - Len(u)]
    <2>1. Len(u) \in Nat
        BY <1>1, LenProperties
    <2>2. /\ q \in Seq(AnyCall) /\ Len(q) = Len(u) + Len(r)
          /\ \A i \in 1 .. Len(u) + Len(r) : q[i] = IF i <= Len(u) THEN u[i] ELSE r[i - Len(u)]
        BY <1>1, <1>2, ConcatProperties
    <2> HIDE DEF q
    <2> QED
        BY <1>2, <2>1, <2>2
<1> HIDE DEF q
<1>4. q[Len(q)] = r[1]
    BY <1>3
<1>5. q # << >>
    BY <1>3, EmptySeq
<1>6. \A j \in 1 .. Len(q) - 1 : q[j] = u[j]
    BY <1>3
<1>7. Registering(q)
    BY <1>2, <1>3, <1>4, <1>5 DEF Registering
<1>8. PICK i \in 1 .. Len(u) :
          /\ u[i] = NewInstance
          /\ \A j \in 1 .. Len(u) : /\ j < i => u[j] \in Early
                                    /\ j > i => u[j] \in Late
    BY DEF Setups
<1>9. /\ i \in 1 .. Len(q) - 1 /\ q[i] = NewInstance
      /\ \A j \in 1 .. Len(q) - 1 : /\ j < i => q[j] \in Early
                                    /\ j > i => q[j] \in Late
    BY <1>3, <1>6, <1>8
<1>10. BeforeOpen(q)
    BY <1>7, <1>9 DEF BeforeOpen
<1> QED
    BY <1>3, <1>5, <1>10 DEF q, r

LEMMA StartEventKeeps ==
    ASSUME Orderly, NEW l \in Leaders, StartEvent(l)
    PROVE  Orderly'
<1> DEFINE q == script.setup \o << Register(party[l]) >>
<1>1. /\ Typed /\ TypedThreads /\ TypedData /\ l \in Players /\ l \in Threads
      /\ Idle(l) /\ place[l] = "outside"
    BY LeadersAssumption DEF Orderly, Typed, Threads, StartEvent
<1>2. script.setup \in Setups /\ party[l] \in SUBSET Players
    BY <1>1, ScriptCalls DEF TypedData
<1>3. q \in Seq(AnyCall) /\ BeforeOpen(q) /\ q # << >>
    BY <1>2, SetupThenRegister
<1>4. Begin(l, None, q) /\ UNCHANGED << script, state, instance, eim, place, party >>
    BY DEF StartEvent
<1> HIDE DEF q
<1>5. TypedThreads' /\ Others(l) /\ todo'[l] = q /\ at'[l] = None
    BY <1>1, <1>3, <1>4, Begins
<1>6. Registers(l)'
    BY <1>1, <1>3, <1>4, <1>5 DEF Registers
<1>7. Plans(l)
    BY <1>3, <1>4, <1>5, <1>6, KindsApart DEF Plans, instance
<1>8. TypedData'
    BY <1>1, <1>4 DEF TypedData, instance
<1>9. ClosedMeansLater'
    BY <1>1, <1>4, <1>7, LaterStays DEF Orderly
<1> QED
    BY <1>1, <1>5, <1>7, <1>8, <1>9, PlansKeep DEF Typed

LEMMA RejoinKeeps ==
    ASSUME Orderly, NEW p \in Players, NEW n \in Names, Rejoin(p, n)
    PROVE  Orderly'
<1> DEFINE q == << Register({Char[p]}) >>
<1>1. /\ Typed /\ TypedThreads /\ TypedData /\ p \in Threads
      /\ Idle(p) /\ place[p] = "outside" /\ names[n] # None
      /\ Char[p] \in ticket[names[n]] /\ names[n] \in Instances
    BY DEF Orderly, Typed, TypedData, Threads, Rejoin
<1>2. {Char[p]} \in SUBSET Players
    BY CharAssumption
<1>3. q \in Seq(AnyCall) /\ Waiting(q) /\ Rest(q) = {Char[p]} /\ q # << >>
    BY <1>2, AnInvitation
<1>4. Begin(p, names[n], q) /\ UNCHANGED << script, state, instance, eim, place, party >>
    BY DEF Rejoin
<1> HIDE DEF q
<1>5. TypedThreads' /\ Others(p) /\ todo'[p] = q /\ at'[p] = names[n]
    BY <1>1, <1>3, <1>4, Begins
<1>6. Registers(p)'
    BY <1>1, <1>3, <1>4, <1>5 DEF Registers
<1>7. Guests(p)' = {} /\ ~Closes(p)'
    <2>1. q[1].do = "register" /\ Len(q) = 1
        BY <1>3, Kinds DEF Waiting, Registering
    <2>2. SetState("1").do = "state"
        BY DEF SetState
    <2> QED
        BY <1>3, <1>5, <2>1, <2>2 DEF Guests, Closes
<1>8. Plans(p)
    BY <1>1, <1>3, <1>4, <1>5, <1>6, <1>7, KindsApart DEF Plans, instance
<1>9. TypedData'
    BY <1>1, <1>4 DEF TypedData, instance
<1>10. ClosedMeansLater'
    BY <1>1, <1>4, <1>8, LaterStays DEF Orderly
<1> QED
    BY <1>5, <1>8, <1>9, <1>10, PlansKeep DEF Typed

-----------------------------------------------------------------------------
(* The other steps of a registration.                                       *)

(* newInstance: nobody knows the instance it makes.                         *)
LEMMA DoOpenKeeps ==
    ASSUME Orderly, NEW l \in Threads, DoOpen(l)
    PROVE  Orderly'
<1> DEFINE q == todo[l]
           nm == NameOf(l)
<1>1. /\ Typed /\ TypedThreads /\ TypedData /\ ~Idle(l) /\ Registers(l) /\ at[l] = None
      /\ l \in Leaders /\ l \in Players /\ Len(q) # 1 /\ AfterOpen(Tail(q))
    BY NextCall, LeadersAssumption DEF Orderly, Shaped, Typed, DoOpen, Doing
<1>2. PICK e \in Instances :
          /\ phase[e] = "unborn"
          /\ phase' = [phase EXCEPT ![e] = "live"]
          /\ name' = [name EXCEPT ![e] = nm]
          /\ names' = [names EXCEPT ![nm] = e]
          /\ todo' = [todo EXCEPT ![l] = Tail(@)]
          /\ at' = [at EXCEPT ![l] = e]
    BY DEF DoOpen
<1>3. UNCHANGED << script, state, chars, ticket, timer, eim, place, party >>
    BY DEF DoOpen
<1>4. nm \in Names
    BY <1>1 DEF NameOf, Names
<1>5. /\ q \in Seq(AnyCall) /\ Registering(q) /\ Registering(Tail(q))
      /\ Rest(Tail(q)) = Rest(q) /\ Tail(q) \in Seq(AnyCall)
    <2>1. Registering(q)
        BY <1>1, LateIsLate DEF Registers
    <2> QED
        BY <1>1, <2>1, LastStays, NothingFirst DEF Registering
<1>6. /\ ticket[e] = {} /\ \A n \in Names : names[n] # e
      /\ \A p \in Players : eim[p] # e
      /\ \A t \in Threads : at[t] # e
      /\ e # None
    BY <1>2, NoneAssumption DEF Orderly, UnbornUnknown
<1> HIDE DEF q, nm
<1>7. Others(l) /\ todo'[l] = Tail(q) /\ at'[l] = e
    BY <1>1, <1>2 DEF Others, TypedThreads, q
<1>8. Guests(l)' = Guests(l) /\ ~Setting(todo'[l]) /\ ~Entering(todo'[l])
    BY <1>1, <1>5, <1>7, KindsApart DEF Guests, q
<1>9. Typed'
    <2>1. TypedThreads'
        BY <1>1, <1>2, <1>5 DEF TypedThreads, q
    <2>2. TypedData'
        BY <1>1, <1>2, <1>3, <1>4 DEF TypedData
    <2> QED
        BY <2>1, <2>2 DEF Typed
<1>10. Shaped'
    <2>1. Registers(l)'
        BY <1>1, <1>3, <1>6, <1>7 DEF Registers
    <2>2. ASSUME NEW s \in Threads \ {l} PROVE Shape(s)'
        <3>1. todo'[s] = todo[s] /\ at'[s] = at[s] /\ Shape(s) /\ place' = place
            BY <1>3, <1>7 DEF Others, Orderly, Shaped
        <3> QED
            BY <3>1 DEF Shape, Handles, Registers
    <2> QED
        BY <2>1, <2>2 DEF Shaped, Shape
<1>11. \A s \in Threads \ {l} : at'[s] = at[s] /\ todo'[s] = todo[s] /\ at[s] # e
    BY <1>6, <1>7 DEF Others
<1>12. ASSUME NEW s \in Players, at'[s] # None, NEW c \in Guests(s)'
       PROVE  Fresh(at[s], c)'
    <2>1. CASE s = l
        <3>1. c # Char[l]
            BY <1>8, <1>12, <2>1 DEF Guests
        <3> QED
            BY <1>3, <1>6, <1>7, <1>11, <2>1, <3>1 DEF Fresh, Threads
    <2>2. CASE s # l
        <3>1. /\ s \in Threads /\ c \in Guests(s) /\ at'[s] = at[s] /\ at[s] # e
            BY <1>7, <1>11, <1>12, <2>2, OthersSame DEF Threads
        <3>2. Fresh(at[s], c)
            BY <1>12, <3>1 DEF Orderly, GuestsFresh
        <3>3. \A p \in Players : at'[p] = at[p] \/ at'[p] = e
            BY <1>7, <1>11 DEF Threads
        <3> QED
            BY <1>3, <3>1, <3>2, <3>3 DEF Fresh
    <2> QED
        BY <2>1, <2>2
<1>13. ASSUME NEW s \in Players, Setting(todo'[s]), NEW p, p = todo'[s][1].who
       PROVE  /\ at'[s] # None
              /\ Char[p] \notin Rest(todo'[s])
              /\ p = s \/ (Char[p] # Char[s] /\ Fresh(at[s], Char[p])')
              /\ Live(at[s])' => p \in chars'[at'[s]]
    <2>1. /\ s # l /\ s \in Threads /\ at'[s] = at[s] /\ todo'[s] = todo[s]
          /\ at[s] # e
        BY <1>8, <1>11, <1>13 DEF Threads
    <2>2. /\ Char[p] \notin Rest(todo[s]) /\ at[s] # None
          /\ p = s \/ (Char[p] # Char[s] /\ Fresh(at[s], Char[p]))
          /\ Live(at[s]) => p \in chars[at[s]]
        BY <1>13, <2>1 DEF Orderly, HalfRegistered
    <2>3. \A r \in Players : at'[r] = at[r] \/ at'[r] = e
        BY <1>7, <1>11 DEF Threads
    <2>4. Fresh(at[s], Char[p]) => Fresh(at[s], Char[p])'
        BY <1>3, <2>1, <2>3 DEF Fresh
    <2>5. at[s] \in Instances /\ phase'[at[s]] = phase[at[s]]
        BY <1>1, <1>2, <2>1, <2>2 DEF TypedThreads, TypedData
    <2> QED
        BY <1>3, <2>1, <2>2, <2>4, <2>5 DEF Live
<1>14. BeforeEntry'
    <2>1. ASSUME NEW s \in Players, Entering(todo'[s])
          PROVE  Entering(todo[s]) /\ todo'[s] = todo[s]
        BY <1>8, <1>11, <2>1 DEF Threads
    <2> QED
        BY <2>1 DEF Orderly, BeforeEntry
<1>15. OneHost'
    <2> SUFFICES ASSUME NEW r \in Players, NEW s \in Players, Hosts(r)', Hosts(s)',
                        at'[r] # None, at'[r] = at'[s]
                 PROVE  r = s
        BY DEF OneHost
    <2>1. CASE r # l /\ s # l
        <3>1. Hosts(r) /\ Hosts(s) /\ at[r] = at'[r] /\ at[s] = at'[s]
            BY <1>7, <2>1, OthersSame DEF Threads
        <3> QED
            BY <3>1 DEF Orderly, OneHost
    <2>2. CASE r = l \/ s = l
        BY <1>7, <1>11, <2>2 DEF Threads
    <2> QED
        BY <2>1, <2>2
<1>16. UnbornUnknown'
    <2> SUFFICES ASSUME NEW f \in Instances, phase'[f] = "unborn"
                 PROVE  /\ ticket'[f] = {} /\ \A n \in Names : names'[n] # f
                        /\ \A p \in Players : eim'[p] # f
                        /\ \A t \in Threads : at'[t] # f
        BY DEF UnbornUnknown
    <2>1. f # e /\ phase[f] = "unborn"
        BY <1>1, <1>2 DEF TypedData
    <2>2. /\ ticket[f] = {} /\ \A n \in Names : names[n] # f
          /\ \A p \in Players : eim[p] # f
          /\ \A t \in Threads : at[t] # f
        BY <2>1 DEF Orderly, UnbornUnknown
    <2> QED
        BY <1>1, <1>2, <1>3, <1>4, <1>7, <1>11, <2>1, <2>2 DEF TypedData
<1>17. NamedLive'
    <2> SUFFICES ASSUME NEW n \in Names, names'[n] # None
                 PROVE  phase'[names'[n]] = "live" /\ name'[names'[n]] = n
        BY DEF NamedLive, Live
    <2>1. CASE n = nm
        BY <1>1, <1>2, <2>1 DEF TypedData
    <2>2. CASE n # nm
        <3>1. names'[n] = names[n] /\ names[n] \in Instances
            BY <1>1, <1>2, <2>2 DEF TypedData
        <3>2. phase[names[n]] = "live" /\ name[names[n]] = n
            BY <3>1 DEF Orderly, NamedLive, Live
        <3> QED
            BY <1>1, <1>2, <3>1, <3>2 DEF TypedData
    <2> QED
        BY <2>1, <2>2
<1>18. ClosedAlone'
    <2> SUFFICES ASSUME NEW k \in Leaders, at'[k] # None, Closes(k)'
                 PROVE  /\ phase'[at'[k]] = "live" /\ ticket'[at'[k]] = {}
                        /\ \A p \in Players : eim'[p] # at'[k]
                        /\ \A s \in Threads \ {k} : at'[s] # at'[k]
        BY DEF ClosedAlone, Live
    <2>1. CASE k = l
        BY <1>1, <1>2, <1>3, <1>6, <1>7, <1>11, <2>1 DEF TypedData
    <2>2. CASE k # l
        <3>1. /\ k \in Threads /\ at'[k] = at[k] /\ at[k] # e /\ Closes(k)
              /\ at[k] \in Instances
            BY <1>1, <1>7, <1>11, <2>2, OthersSame, LeadersAssumption
            DEF Threads, TypedThreads
        <3>2. /\ phase[at[k]] = "live" /\ ticket[at[k]] = {}
              /\ \A p \in Players : eim[p] # at[k]
              /\ \A s \in Threads \ {k} : at[s] # at[k]
            BY <3>1 DEF Orderly, ClosedAlone, Live
        <3>3. \A s \in Threads \ {k} : at'[s] = at[s] \/ at'[s] = e
            BY <1>7, <1>11
        <3> QED
            BY <1>1, <1>2, <1>3, <3>1, <3>2, <3>3 DEF TypedData
    <2> QED
        BY <2>1, <2>2
<1>19. ClosedMeansLater'
    BY <1>1, <1>2 DEF ClosedMeansLater, Live, TypedData
<1>20. MemberOfOwnInstance'
    <2> SUFFICES ASSUME NEW p \in Players, eim'[p] # None, phase'[eim'[p]] = "live"
                 PROVE  p \in chars'[eim'[p]]
        BY DEF MemberOfOwnInstance, In, Live
    <2>1. eim'[p] = eim[p] /\ eim[p] # e /\ eim[p] \in Instances
        BY <1>1, <1>3, <1>6 DEF TypedData
    <2>2. phase[eim[p]] = "live"
        BY <1>1, <1>2, <2>1 DEF TypedData
    <2> QED
        BY <1>3, <2>1, <2>2 DEF Orderly, MemberOfOwnInstance, In, Live
<1>21. OneOnline'
    BY <1>3 DEF Orderly, OneOnline
<1> QED
    BY <1>9, <1>10, <1>12, <1>13, <1>14, <1>15, <1>16, <1>17, <1>18, <1>19, <1>20, <1>21
    DEF Orderly, GuestsFresh, HalfRegistered

(* registerParty's next member, or its end.                                 *)
LEMMA DoRegisterKeeps ==
    ASSUME Orderly, NEW t \in Threads, DoRegister(t)
    PROVE  Orderly'
<1> DEFINE q == todo[t]
           e == at[t]
           cs == Call(t).rest
<1>1. /\ Typed /\ TypedThreads /\ TypedData /\ ~Idle(t) /\ Registers(t) /\ t \in Players
      /\ at[t] # None /\ at[t] \in Instances /\ Waiting(q) /\ Registering(q)
      /\ Call(t) \in Invitation /\ cs = Rest(q)
    <2>1. Registers(t) /\ at[t] # None /\ Waiting(q) /\ Call(t) \in Invitation /\ cs = Rest(q)
        BY NextCall DEF Orderly, Shaped, DoRegister, Doing, Call
    <2> QED
        BY <2>1, LateIsLate
        DEF Orderly, Typed, TypedThreads, DoRegister, Doing, Registers
<1>2. /\ cs \in SUBSET Players /\ Guests(t) = cs \ {Char[t]} /\ place[t] # "offline"
    BY <1>1 DEF Invitation, Guests, Registers
<1>3. /\ q \in Seq(AnyCall) /\ q # << >> /\ Tail(q) = << >>
    BY <1>1, NothingFirst DEF Waiting, Registering
<1>4. UNCHANGED << script, state, names, name, phase, ticket, timer, eim, place, party >>
    BY DEF DoRegister
<1>5. CASE Continue(t, << >>) /\ UNCHANGED chars
    <2>1. /\ TypedThreads' /\ Others(t) /\ todo'[t] = << >> \o Tail(q)
          /\ at'[t] = IF todo'[t] = << >> THEN None ELSE at[t]
        BY <1>1, <1>5, Continues, EmptySeq
    <2>2. todo'[t] = << >> /\ \A S : << >> \in Seq(S)
        BY <1>3, <2>1, NothingFirst, EmptySeq
    <2>3. ~BeforeOpen(q)
        BY <1>1, BeforeOpenTail DEF Waiting
    <2>4. CalmThreads(t)
        BY <2>1, <2>2, <2>3 DEF CalmThreads, Handles
    <2>5. TypedData'
        BY <1>1, <1>4, <1>5 DEF TypedData
    <2> QED
        BY <1>4, <1>5, <2>1, <2>4, <2>5, Unmoved, CalmKeeps DEF Calm, Typed
<1>6. ASSUME NEW c \in cs, Continue(t, << Register(cs \ {c}) >>), UNCHANGED chars
      PROVE  Orderly'
    <2> DEFINE r == << Register(cs \ {c}) >>
    <2>1. /\ r \in Seq(AnyCall) /\ Waiting(r) /\ Rest(r) = cs \ {c} /\ r # << >>
        BY <1>2, AnInvitation
    <2> HIDE DEF r
    <2>2. /\ TypedThreads' /\ Others(t) /\ todo'[t] = r \o Tail(q)
          /\ at'[t] = IF todo'[t] = << >> THEN None ELSE at[t]
        BY <1>1, <1>6, <2>1, Continues DEF r
    <2>3. todo'[t] = r /\ at'[t] = at[t]
        BY <1>3, <2>1, <2>2, ConcatEmptySeq
    <2>4. Registers(t)'
        BY <1>1, <1>2, <1>4, <2>1, <2>3 DEF Registers
    <2>5. Guests(t)' \subseteq Guests(t)
        BY <1>2, <2>1, <2>3 DEF Guests
    <2>6. ~Closes(t)'
        <3>1. r[1].do = "register" /\ Len(r) = 1
            BY <2>1, Kinds DEF Waiting, Registering
        <3>2. SetState("1").do = "state"
            BY DEF SetState
        <3> QED
            BY <2>3, <3>1, <3>2 DEF Closes
    <2>7. Plans(t)
        BY <1>4, <1>6, <2>1, <2>2, <2>3, <2>4, <2>5, <2>6, KindsApart DEF Plans
    <2>8. TypedData'
        BY <1>1, <1>4, <1>6 DEF TypedData
    <2>9. ClosedMeansLater'
        BY <1>1, <1>4, <2>7, LaterStays DEF Orderly
    <2> QED
        BY <1>1, <2>2, <2>7, <2>8, <2>9, PlansKeep DEF Typed
<1>7. ASSUME NEW c \in cs, NEW p \in Players, Char[p] = c, place[p] = "outside",
             chars' = [chars EXCEPT ![e] = @ \cup {p}],
             Continue(t, << SetEvent(p), Enter(p), Register(cs \ {c}) >>)
      PROVE  Orderly'
    <2> DEFINE g == Register(cs \ {c})
               r == << SetEvent(p), Enter(p), g >>
    <2>1. g \in Invitation /\ g.rest = cs \ {c}
        BY <1>2, AnInvitation
    <2>2. /\ SetEvent(p) \in Naming("set") /\ SetEvent(p).who = p
          /\ Enter(p) \in Naming("enter")
        BY DEF SetEvent, Enter, Naming
    <2> HIDE DEF g
    <2>3. /\ r \in Seq(AnyCall) /\ Len(r) = 3 /\ r # << >> /\ r[1] = SetEvent(p)
          /\ r[2] = Enter(p) /\ r[3] = g
        BY <2>1, <2>2 DEF AnyCall
    <2>4. Setting(r) /\ Rest(r) = cs \ {c} /\ r[1].who = p /\ Registering(r)
        BY <2>1, <2>2, <2>3 DEF Setting, Registering, Rest
    <2>5. \A i \in 1 .. Len(r) : r[i].do # "state"
        BY <2>1, <2>2, <2>3, Kinds
    <2>6. Continue(t, r)
        BY <1>7 DEF g
    <2> HIDE DEF r
    <2>7. /\ TypedThreads' /\ Others(t) /\ todo'[t] = r \o Tail(q)
          /\ at'[t] = IF todo'[t] = << >> THEN None ELSE at[t]
        BY <1>1, <2>3, <2>6, Continues
    <2>8. todo'[t] = r /\ at'[t] = at[t]
        BY <1>3, <2>3, <2>7, ConcatEmptySeq
    <2>9. ~Entering(r) /\ ~BeforeOpen(q)
        BY <1>1, <2>3, BeforeOpenTail DEF Entering, Waiting
    <2>10. at' = at
        BY <1>1, <2>7, <2>8 DEF TypedThreads, Others
    <2>11. Typed'
        BY <1>1, <1>4, <1>7, <2>7 DEF Typed, TypedData
    <2>12. Guests(t)' \subseteq Guests(t)
        BY <1>2, <2>4, <2>8 DEF Guests
    <2>13. c # Char[t] => c \in Guests(t)
        BY <1>2
    <2>14. c = Char[t] => p = t
        BY <1>1, <1>2, <1>7 DEF Orderly, OneOnline
    <2>15. Shaped'
        <3>1. Registers(t)'
            BY <1>1, <1>2, <1>4, <2>4, <2>8 DEF Registers
        <3>2. ASSUME NEW s \in Threads \ {t} PROVE Shape(s)'
            <4>1. todo'[s] = todo[s] /\ at'[s] = at[s] /\ Shape(s) /\ place' = place
                BY <1>4, <2>7 DEF Others, Orderly, Shaped
            <4> QED
                BY <4>1 DEF Shape, Handles, Registers
        <3> QED
            BY <3>1, <3>2 DEF Shaped, Shape
    <2>16. \A f, d : Fresh(f, d) => Fresh(f, d)'
        BY <1>4, <2>10 DEF Fresh
    <2>17. GuestsFresh'
        <3> SUFFICES ASSUME NEW s \in Players, at'[s] # None, NEW d \in Guests(s)'
                     PROVE  Fresh(at[s], d)'
            BY DEF GuestsFresh
        <3>1. d \in Guests(s)
            BY <2>7, <2>12, OthersSame DEF Threads
        <3>2. Fresh(at[s], d)
            BY <2>10, <3>1 DEF Orderly, GuestsFresh
        <3> QED
            BY <1>4, <2>10, <3>2 DEF Fresh
    <2>18. ASSUME NEW s \in Players, Setting(todo'[s]), NEW m, m = todo'[s][1].who
           PROVE  /\ at'[s] # None
                  /\ Char[m] \notin Rest(todo'[s])
                  /\ m = s \/ (Char[m] # Char[s] /\ Fresh(at[s], Char[m])')
                  /\ Live(at[s])' => m \in chars'[at'[s]]
        <3>1. CASE s = t
            <4>1. m = p /\ Char[m] = c /\ Rest(todo'[s]) = cs \ {c}
                BY <1>7, <2>4, <2>8, <2>18, <3>1
            <4>2. p # t => Char[p] # Char[t] /\ Fresh(at[t], c)
                BY <1>1, <1>7, <2>13, <2>14 DEF Orderly, GuestsFresh
            <4>3. p # t => Fresh(at[s], Char[m])'
                BY <1>4, <2>10, <3>1, <4>1, <4>2 DEF Fresh
            <4>4. p \in chars'[at'[s]]
                BY <1>1, <1>7, <2>8, <3>1 DEF TypedData
            <4> QED
                BY <1>1, <2>8, <3>1, <4>1, <4>2, <4>3, <4>4
        <3>2. CASE s # t
            <4>1. todo'[s] = todo[s] /\ s \in Threads
                BY <2>7, <3>2 DEF Others, Threads
            <4>2. /\ Char[m] \notin Rest(todo[s]) /\ at[s] # None
                  /\ m = s \/ (Char[m] # Char[s] /\ Fresh(at[s], Char[m]))
                  /\ Live(at[s]) => m \in chars[at[s]]
                BY <2>18, <4>1 DEF Orderly, HalfRegistered
            <4>3. Fresh(at[s], Char[m]) => Fresh(at[s], Char[m])'
                BY <1>4, <2>10 DEF Fresh
            <4>4. at[s] \in Instances
                BY <1>1, <4>1, <4>2 DEF TypedThreads
            <4> QED
                BY <1>1, <1>4, <1>7, <2>10, <4>1, <4>2, <4>3, <4>4 DEF Live, TypedData
        <3> QED
            BY <3>1, <3>2
    <2>19. BeforeEntry'
        <3>1. ASSUME NEW s \in Players, Entering(todo'[s])
              PROVE  Entering(todo[s]) /\ todo'[s] = todo[s]
            BY <2>7, <2>8, <2>9, <3>1 DEF Others, Threads
        <3> QED
            BY <3>1 DEF Orderly, BeforeEntry
    <2>20. OneHost'
        <3>1. ASSUME NEW s \in Players, Hosts(s)' PROVE Hosts(s)
            <4>1. CASE s # t
                BY <2>7, <3>1, <4>1, OthersSame DEF Threads
            <4>2. CASE s = t
                <5>1. CASE Guests(t)' # {}
                    BY <2>12, <4>2, <5>1 DEF Hosts
                <5>2. CASE todo'[t][1].who # t
                    BY <1>7, <2>4, <2>8, <2>13, <2>14, <4>2, <5>2 DEF Hosts
                <5> QED
                    BY <3>1, <4>2, <5>1, <5>2 DEF Hosts
            <4> QED
                BY <4>1, <4>2
        <3> QED
            BY <2>10, <3>1 DEF Orderly, OneHost
    <2>21. UnbornUnknown' /\ NamedLive' /\ OneOnline'
        BY <1>4, <2>10 DEF Orderly, UnbornUnknown, NamedLive, OneOnline, Live
    <2>22. ClosedAlone'
        <3>1. ASSUME NEW k \in Leaders, Closes(k)' PROVE Closes(k)
            <4>1. CASE k = t
                BY <2>5, <2>8, <3>1, <4>1 DEF Closes, SetState
            <4>2. CASE k # t
                BY <2>7, <3>1, <4>2, LeadersAssumption DEF Closes, Others, Threads
            <4> QED
                BY <4>1, <4>2
        <3> QED
            BY <1>4, <2>10, <3>1 DEF Orderly, ClosedAlone, Live
    <2>23. ClosedMeansLater'
        <3>1. ASSUME NEW k \in Leaders, at[k] = None PROVE todo'[k] = todo[k]
            BY <1>1, <2>7, <3>1, LeadersAssumption DEF Others, Threads
        <3> QED
            BY <1>4, <2>10, <3>1 DEF Orderly, ClosedMeansLater, Closed, Live
    <2>24. MemberOfOwnInstance'
        BY <1>1, <1>4, <1>7 DEF Orderly, MemberOfOwnInstance, In, Live, TypedData
    <2> QED
        BY <2>11, <2>15, <2>17, <2>18, <2>19, <2>20, <2>21, <2>22, <2>23, <2>24
        DEF Orderly, HalfRegistered
<1> QED
    BY <1>5, <1>6, <1>7 DEF DoRegister

-----------------------------------------------------------------------------
(* The two halves of an entry: the member is set, then enters.              *)

(* Nobody else waits to register the character that enters.                 *)
LEMMA NotAwaited ==
    ASSUME Orderly, NEW t \in Players, Setting(todo[t]) \/ Entering(todo[t]),
           NEW p \in Players, p = todo[t][1].who,
           NEW s \in Players, s # t, at[s] # None, at[s] = at[t]
    PROVE  /\ Char[p] \notin Guests(s)
           /\ Setting(todo[s]) /\ todo[s][1].who # s
                  => Char[todo[s][1].who] # Char[p]
<1>1. CASE p # t
    BY <1>1 DEF Orderly, OneHost, Hosts
<1>2. CASE p = t
    <2>1. Char[p] \in Guests(s) => Fresh(at[s], Char[p])
        BY DEF Orderly, GuestsFresh
    <2>2. Setting(todo[s]) /\ todo[s][1].who # s => Fresh(at[s], Char[todo[s][1].who])
        BY DEF Orderly, HalfRegistered
    <2> QED
        BY <1>2, <2>1, <2>2 DEF Fresh
<1> QED
    BY <1>1, <1>2

Joins(t, p, e) ==
    /\ todo'[t] = Tail(todo[t]) /\ Others(t) /\ at' = at
    /\ UNCHANGED << script, state, names, name, phase, chars, timer, party >>
    /\ \A f \in Instances : \A c \in ticket'[f] :
           c \in ticket[f] \/ (f = e /\ c = Char[p] /\ Live(e))
    /\ \A r \in Players :
           eim'[r] = eim[r] \/ (r = p /\ eim'[r] = e /\ Setting(todo[t]))
    /\ \A r \in Players : place'[r] = "offline" <=> place[r] = "offline"

LEMMA JoinsKeep ==
    ASSUME Orderly, NEW t \in Players, Setting(todo[t]) \/ Entering(todo[t]),
           NEW e \in Instances, e = at[t],
           NEW p, p = todo[t][1].who, Joins(t, p, e), Typed'
    PROVE  Orderly'
<1> DEFINE q == todo[t]
<1>1. /\ Typed /\ TypedThreads /\ TypedData /\ t \in Threads /\ p \in Players
      /\ Char[p] \in Players /\ Registering(q) /\ Char[p] \notin Rest(q)
      /\ p = t \/ Char[p] # Char[t]
      /\ e # None
    BY NoneAssumption, CharAssumption
    DEF Orderly, Typed, Threads, Setting, Entering, Naming, HalfRegistered, BeforeEntry
<1>2. /\ Registering(Tail(q)) /\ Rest(Tail(q)) = Rest(q)
      /\ Setting(q) => Entering(Tail(q)) /\ Tail(q)[1].who = p
      /\ Entering(q) => Waiting(Tail(q)) /\ ~Entering(Tail(q))
      /\ Setting(q) \/ Entering(q)
      /\ ~Setting(Tail(q))
    <2>1. Len(q) # 1
        BY DEF Setting, Entering
    <2>2. Setting(q) => q[2].who = p
        BY DEF Setting, Enter
    <2>3. Len(Tail(q)) \in {1, 2}
        BY <1>1, <2>1, LastStays DEF Setting, Entering
    <2>0. \A u : /\ Setting(u) => Len(u) = 3
                 /\ Entering(u) => Len(u) = 2
                 /\ Waiting(u) => Len(u) = 1
        BY DEF Setting, Entering, Waiting
    <2>4. ~Setting(Tail(q))
        <3> DEFINE u == Tail(q)
        <3>1. Len(u) \in {1, 2}
            BY <2>3
        <3> HIDE DEF u
        <3>2. ~Setting(u)
            BY <2>0, <3>1
        <3> QED
            BY <3>2 DEF u
    <2>5. Waiting(Tail(q)) => ~Entering(Tail(q))
        BY <2>0
    <2> QED
        BY <1>1, <2>1, <2>2, <2>4, <2>5, LastStays, OneCallTail
<1> HIDE DEF q
<1>3. /\ todo'[t] = Tail(q) /\ Others(t) /\ at' = at
      /\ \A s \in Threads \ {t} : todo'[s] = todo[s]
      /\ UNCHANGED << script, state, names, name, phase, chars, timer, party >>
    BY DEF Joins, Others, q
<1>4. Guests(t)' = Guests(t) /\ ~Setting(todo'[t])
    BY <1>1, <1>2, <1>3 DEF Guests, q
<1>5. ASSUME NEW f \in Instances, NEW d \in Players, Fresh(f, d), f # e \/ d # Char[p]
      PROVE  StaysFresh(f, d)
    BY <1>3, <1>5 DEF Fresh, StaysFresh, Joins
<1>6. Shaped'
    <2> SUFFICES ASSUME NEW s \in Threads PROVE Shape(s)'
        BY DEF Shaped
    <2>1. CASE s = t
        <3>1. Registers(t)
            BY <1>1, CalmIsNotRegistering DEF Orderly, Shaped, Shape, Handles, q
        <3> QED
            BY <1>1, <1>2, <1>3, <2>1, <3>1 DEF Shape, Registers, Joins, q
    <2>2. CASE s # t
        <3>1. todo'[s] = todo[s] /\ at'[s] = at[s] /\ Shape(s)
            BY <1>3, <2>2 DEF Orderly, Shaped
        <3> QED
            BY <3>1 DEF Shape, Handles, Registers, Joins
    <2> QED
        BY <2>1, <2>2
<1>7. OneOnline'
    BY DEF Orderly, OneOnline, Joins
<1>8. GuestsFresh'
    <2> SUFFICES ASSUME NEW s \in Players, at'[s] # None, NEW d \in Guests(s)'
                 PROVE  Fresh(at[s], d)'
        BY DEF GuestsFresh
    <2>1. /\ d \in Guests(s) /\ at[s] \in Instances /\ d \in Players
        <3>1. s \in Threads /\ at[s] # None /\ Guests(s)' = Guests(s)
            BY <1>3, <1>4, OthersSame DEF Threads
        <3> QED
            BY <1>1, <3>1, GuestsAreCharacters DEF TypedThreads
    <2>2. Fresh(at[s], d)
        BY <2>1, <1>3 DEF Orderly, GuestsFresh
    <2>3. at[s] # e \/ d # Char[p]
        <3>1. CASE s = t
            BY <1>1, <2>1, <3>1 DEF Guests, q
        <3>2. CASE s # t
            BY <1>1, <1>3, <2>1, <3>2, NotAwaited
        <3> QED
            BY <3>1, <3>2
    <2>4. StaysFresh(at[s], d)
        BY <2>1, <2>2, <2>3, <1>5
    <2> QED
        BY <1>3, <2>4 DEF Fresh, StaysFresh
<1>9. ASSUME NEW s \in Players, Setting(todo'[s]), NEW m, m = todo'[s][1].who
      PROVE  /\ at'[s] # None
             /\ Char[m] \notin Rest(todo'[s])
             /\ m = s \/ (Char[m] # Char[s] /\ Fresh(at[s], Char[m])')
             /\ Live(at[s])' => m \in chars'[at'[s]]
    <2>1. s # t /\ todo'[s] = todo[s] /\ s \in Threads
        BY <1>3, <1>4, <1>9 DEF Threads
    <2>2. /\ Char[m] \notin Rest(todo[s]) /\ at[s] # None
          /\ m = s \/ (Char[m] # Char[s] /\ Fresh(at[s], Char[m]))
          /\ Live(at[s]) => m \in chars[at[s]]
        BY <1>9, <2>1 DEF Orderly, HalfRegistered
    <2>3. m \in Players /\ Char[m] \in Players /\ at[s] \in Instances
        BY <1>1, <1>9, <2>1, <2>2, CharAssumption DEF Setting, Naming, TypedThreads
    <2>4. m # s => at[s] # e \/ Char[m] # Char[p]
        BY <1>1, <1>9, <2>1, <2>2, NotAwaited
    <2>5. m # s => StaysFresh(at[s], Char[m])
        BY <1>5, <2>2, <2>3, <2>4
    <2> QED
        BY <1>3, <2>1, <2>2, <2>5 DEF Live, Fresh, StaysFresh
<1>10. BeforeEntry'
    <2> SUFFICES ASSUME NEW s \in Players, Entering(todo'[s]),
                        NEW m, m = todo'[s][1].who
                 PROVE  Char[m] \notin Rest(todo'[s]) /\ (m = s \/ Char[m] # Char[s])
        BY DEF BeforeEntry
    <2>1. CASE s = t
        <3>1. Setting(q)
            BY <1>2, <1>3, <2>1
        <3> QED
            BY <1>1, <1>2, <1>3, <2>1, <3>1
    <2>2. CASE s # t
        BY <1>3, <2>2 DEF Orderly, BeforeEntry, Threads
    <2> QED
        BY <2>1, <2>2
<1>11. OneHost'
    <2> SUFFICES ASSUME NEW s \in Players, Hosts(s)' PROVE Hosts(s)
        BY <1>3 DEF Orderly, OneHost
    <2>1. CASE s = t
        <3>1. Setting(q) \/ ~Entering(todo'[t])
            BY <1>2, <1>3
        <3> QED
            BY <1>2, <1>3, <1>4, <2>1, <3>1 DEF Hosts, q
    <2>2. CASE s # t
        BY <1>3, <2>2, OthersSame DEF Threads
    <2> QED
        BY <2>1, <2>2
<1>12. UnbornUnknown'
    <2> SUFFICES ASSUME NEW f \in Instances, phase'[f] = "unborn"
                 PROVE  /\ ticket'[f] = {} /\ \A n \in Names : names'[n] # f
                        /\ \A r \in Players : eim'[r] # f
                        /\ \A s \in Threads : at'[s] # f
        BY DEF UnbornUnknown
    <2>1. /\ ticket[f] = {} /\ \A n \in Names : names[n] # f
          /\ \A r \in Players : eim[r] # f
          /\ \A s \in Threads : at[s] # f
        BY <1>3 DEF Orderly, UnbornUnknown
    <2>2. f # e
        BY <1>1, <2>1
    <2> QED
        BY <1>3, <2>1, <2>2 DEF Joins
<1>13. NamedLive'
    BY <1>3 DEF Orderly, NamedLive, Live
<1>14. ClosedAlone'
    <2> SUFFICES ASSUME NEW k \in Leaders, at'[k] # None, Closes(k)'
                 PROVE  /\ phase'[at'[k]] = "live" /\ ticket'[at'[k]] = {}
                        /\ \A r \in Players : eim'[r] # at'[k]
                        /\ \A s \in Threads \ {k} : at'[s] # at'[k]
        BY DEF ClosedAlone, Live
    <2>1. k # t
        <3> SUFFICES ASSUME k = t PROVE FALSE
            OBVIOUS
        <3>1. PICK i \in 1 .. Len(Tail(q)) : Tail(q)[i] = SetState("1")
            BY <1>3 DEF Closes
        <3>2. SetState("1").do = "state"
            BY DEF SetState
        <3>3. Len(Tail(q)) \in {1, 2} /\ Tail(q)[Len(Tail(q))].do = "register"
            BY <1>2, Kinds DEF Waiting, Entering, Registering, q
        <3>4. Len(Tail(q)) = 2 => Tail(q)[1].do = "enter"
            BY <1>2, Kinds DEF Waiting, Entering, q
        <3> QED
            BY <3>1, <3>2, <3>3, <3>4
    <2>2. /\ k \in Threads /\ at'[k] = at[k] /\ Closes(k) /\ at[k] \in Instances
        BY <1>1, <1>3, <2>1, OthersSame, LeadersAssumption DEF Threads, TypedThreads
    <2>3. /\ phase[at[k]] = "live" /\ ticket[at[k]] = {}
          /\ \A r \in Players : eim[r] # at[k]
          /\ \A s \in Threads \ {k} : at[s] # at[k]
        BY <1>3, <2>2 DEF Orderly, ClosedAlone, Live
    <2>4. e # at[k]
        BY <1>1, <2>1, <2>3
    <2> QED
        BY <1>3, <2>2, <2>3, <2>4 DEF Joins
<1>15. ClosedMeansLater'
    <2>1. ASSUME NEW k \in Leaders, at[k] = None PROVE todo'[k] = todo[k]
        BY <1>1, <1>3, <2>1, LeadersAssumption DEF Threads
    <2> QED
        BY <1>3, <2>1 DEF Orderly, ClosedMeansLater, Closed, Live
<1>16. MemberOfOwnInstance'
    <2> SUFFICES ASSUME NEW r \in Players, eim'[r] # None, phase'[eim'[r]] = "live"
                 PROVE  r \in chars'[eim'[r]]
        BY DEF MemberOfOwnInstance, In, Live
    <2>1. CASE eim'[r] = eim[r]
        BY <1>3, <2>1 DEF Orderly, MemberOfOwnInstance, In, Live
    <2>2. CASE r = p /\ eim'[r] = e /\ Setting(todo[t])
        BY <1>3, <2>2 DEF Orderly, HalfRegistered, Live
    <2> QED
        BY <2>1, <2>2 DEF Joins
<1> QED
    BY <1>6, <1>7, <1>8, <1>9, <1>10, <1>11, <1>12, <1>13, <1>14, <1>15, <1>16
    DEF Orderly, HalfRegistered

(* setEventInstance, and playerEntry.                                       *)
LEMMA DoSetKeeps ==
    ASSUME Orderly, NEW t \in Threads, DoSet(t)
    PROVE  Orderly'
<1> DEFINE q == todo[t]
           e == at[t]
           p == q[1].who
<1>1. /\ Typed /\ TypedThreads /\ TypedData /\ ~Idle(t) /\ t \in Players
      /\ e \in Instances /\ Setting(q) /\ Registering(q)
    <2>1. Registers(t) /\ at[t] # None /\ Setting(q)
        BY NextCall DEF Orderly, Shaped, DoSet, Doing, Call
    <2> QED
        BY <2>1 DEF Orderly, Typed, TypedThreads, DoSet, Doing, Registers, Setting
<1>2. /\ q \in Seq(AnyCall) /\ q # << >> /\ << >> \o Tail(q) = Tail(q)
      /\ Call(t) = q[1] /\ Tail(q) # << >> /\ << >> \in Seq(AnyCall)
    BY <1>1, NothingFirst, EmptySeq DEF Registering, Setting, Call
<1>3. /\ Continue(t, << >>) /\ eim' = [eim EXCEPT ![p] = e]
      /\ UNCHANGED << script, state, instance, place, party >>
    BY <1>2 DEF DoSet
<1>4. p \in Players
    BY <1>1 DEF Setting, Naming
<1>5. TypedThreads' /\ Others(t) /\ todo'[t] = Tail(q) /\ at'[t] = at[t]
    BY <1>1, <1>2, <1>3, Continues
<1>6. at' = at
    BY <1>1, <1>5 DEF TypedThreads, Others
<1>7. TypedData'
    BY <1>1, <1>3, <1>4 DEF TypedData, instance
<1>8. Joins(t, p, e)
    BY <1>1, <1>3, <1>4, <1>5, <1>6 DEF Joins, TypedData, instance
<1> QED
    BY <1>1, <1>4, <1>5, <1>7, <1>8, JoinsKeep DEF Typed

LEMMA DoEnterKeeps ==
    ASSUME Orderly, NEW t \in Threads, DoEnter(t)
    PROVE  Orderly'
<1> DEFINE q == todo[t]
           e == at[t]
           p == q[1].who
<1>1. /\ Typed /\ TypedThreads /\ TypedData /\ ~Idle(t) /\ t \in Players
      /\ e \in Instances /\ Entering(q) /\ Registering(q)
    <2>1. Registers(t) /\ at[t] # None /\ Entering(q)
        BY NextCall DEF Orderly, Shaped, DoEnter, Doing, Call
    <2> QED
        BY <2>1 DEF Orderly, Typed, TypedThreads, DoEnter, Doing, Registers, Entering
<1>2. /\ q \in Seq(AnyCall) /\ q # << >> /\ << >> \o Tail(q) = Tail(q)
      /\ Call(t) = q[1] /\ << >> \in Seq(AnyCall)
    BY <1>1, NothingFirst, EmptySeq DEF Registering, Call
<1>a. Len(q) # 1
    BY <1>1 DEF Entering
<1>b. Tail(q) # << >>
    BY <1>1, <1>a, LastStays
<1>3. /\ Continue(t, << >>)
      /\ place' = [place EXCEPT ![p] =
             IF @ = "offline" \/ (script.entry = "eim" /\ ~Live(e))
             THEN @ ELSE "inside"]
      /\ ticket' = IF script.rejoin = "squad" /\ Live(e)
                   THEN [ticket EXCEPT ![e] = @ \cup {Char[p]}] ELSE ticket
      /\ UNCHANGED << script, state, names, name, phase, chars, timer, eim, party >>
    BY <1>2 DEF DoEnter
<1>4. p \in Players /\ Char[p] \in Players
    BY <1>1, CharAssumption DEF Entering, Naming
<1>5. TypedThreads' /\ Others(t) /\ todo'[t] = Tail(q) /\ at'[t] = at[t]
    BY <1>1, <1>2, <1>3, <1>b, Continues
<1>6. at' = at
    BY <1>1, <1>5 DEF TypedThreads, Others
<1> HIDE DEF p, e, q
<1>7. TypedData'
    BY <1>1, <1>3, <1>4 DEF TypedData
<1>8. /\ \A f \in Instances : \A c \in ticket'[f] :
             c \in ticket[f] \/ (f = e /\ c = Char[p] /\ Live(e))
      /\ \A r \in Players : place'[r] = "offline" <=> place[r] = "offline"
    BY <1>1, <1>3, <1>4 DEF TypedData
<1>9. Joins(t, p, e)
    BY <1>3, <1>5, <1>6, <1>8 DEF Joins, q
<1> QED
    BY <1>1, <1>4, <1>5, <1>7, <1>9, JoinsKeep DEF Typed, p, q, e

-----------------------------------------------------------------------------
(* The theorems.                                                            *)

LEMMA OrderlyAtStart == Init => Orderly
<1> SUFFICES ASSUME Init PROVE Orderly
    OBVIOUS
<1>1. \A t \in Threads : todo[t] = << >> /\ at[t] = None
    BY DEF Init
<1>2. \A S : << >> \in Seq(S)
    BY EmptySeq
<1>3. script \in ScriptForms /\ script.init \in {"null", "0"}
    BY ScriptsAssumption DEF Init, ScriptForms
<1>4. \A l \in Leaders : l \in Names
    BY DEF Names
<1>5. "event" \in Names
    BY DEF Names
<1>6. ~Registering(<< >>)
    BY DEF Registering
<1>7. Typed
    <2>1. TypedThreads
        BY <1>2 DEF Init, TypedThreads
    <2>2. TypedData
        BY <1>3, <1>5, PartyAssumption DEF Init, TypedData
    <2> QED
        BY <2>1, <2>2 DEF Typed
<1>8. Shaped
    BY <1>1, <1>2 DEF Shaped, Shape, Handles
<1>9. OneOnline
    BY CharAssumption DEF Init, OneOnline
<1>10. \A t \in Players : /\ ~Setting(todo[t]) /\ ~Entering(todo[t]) /\ Guests(t) = {}
                          /\ ~Hosts(t)
    BY <1>1, <1>6, CalmKinds DEF Threads, Guests, Hosts
<1>11. GuestsFresh /\ HalfRegistered /\ BeforeEntry /\ OneHost
    BY <1>10 DEF GuestsFresh, HalfRegistered, BeforeEntry, OneHost
<1>12. UnbornUnknown /\ NamedLive
    BY NoneAssumption DEF Init, UnbornUnknown, NamedLive
<1>13. ClosedAlone
    BY <1>1, LeadersAssumption DEF ClosedAlone, Threads
<1>14. ClosedMeansLater /\ MemberOfOwnInstance
    BY <1>3 DEF Init, ClosedMeansLater, Closed, MemberOfOwnInstance, In
<1> QED
    BY <1>7, <1>8, <1>9, <1>11, <1>12, <1>13, <1>14 DEF Orderly

LEMMA OrderlyStays == Orderly /\ UNCHANGED vars => Orderly'
<1> SUFFICES ASSUME Orderly, UNCHANGED vars PROVE Orderly'
    OBVIOUS
<1>1. UNCHANGED << script, state, names, name, phase, chars, ticket, timer, eim, place,
                   party, todo, at >>
    BY DEF vars, instance
<1>2. Typed' /\ Shaped' /\ OneOnline'
    BY <1>1 DEF Orderly, Typed, TypedThreads, TypedData, Shaped, Shape, Handles,
       Registers, OneOnline
<1>3. \A e, c : Fresh(e, c) => StaysFresh(e, c)
    BY <1>1 DEF Fresh, StaysFresh
<1>4. GuestsFresh' /\ HalfRegistered' /\ BeforeEntry'
    BY <1>1 DEF Orderly, GuestsFresh, HalfRegistered, BeforeEntry, Fresh, Guests, Live
<1>5. OneHost'
    BY <1>1 DEF Orderly, OneHost, Hosts, Guests
<1>6. UnbornUnknown' /\ NamedLive' /\ ClosedAlone'
    BY <1>1 DEF Orderly, UnbornUnknown, NamedLive, ClosedAlone, Closes, Live
<1>7. ClosedMeansLater' /\ MemberOfOwnInstance'
    BY <1>1 DEF Orderly, ClosedMeansLater, Closed, MemberOfOwnInstance, In, Live
<1> QED
    BY <1>2, <1>4, <1>5, <1>6, <1>7 DEF Orderly

LEMMA CallsKeep ==
    ASSUME Orderly, NEW t \in Threads, Step(t)
    PROVE  Orderly'
<1>1. CASE DoUnregister(t)
    BY <1>1, DoUnregisterCalm, CalmKeeps
<1>2. CASE DoWarp(t)
    BY <1>2, DoWarpCalm, CalmKeeps
<1>3. CASE DoState(t)
    BY <1>3, DoStateKeeps
<1>4. CASE DoAdvance(t)
    BY <1>4, DoAdvanceCalm, CalmKeeps
<1>5. CASE DoForbid(t)
    BY <1>5, DoForbidCalm, CalmKeeps
<1>6. CASE DoDispose(t)
    BY <1>6, DoDisposeCalm, CalmKeeps
<1>7. CASE DoFewer(t)
    BY <1>7, DoFewerCalm, CalmKeeps
<1>8. CASE DoTimer(t)
    BY <1>8, DoTimerKeeps
<1>9. CASE DoRegister(t)
    BY <1>9, DoRegisterKeeps
<1>10. CASE DoSet(t)
    BY <1>10, DoSetKeeps
<1>11. CASE DoEnter(t)
    BY <1>11, DoEnterKeeps
<1>12. CASE DoDrop(t)
    BY <1>12, DoDropCalm, CalmKeeps
<1>13. CASE DoOffline(t)
    BY <1>13, DoOfflineCalm, CalmKeeps
<1>14. CASE DoOpen(t)
    BY <1>14, DoOpenKeeps
<1> QED
    BY <1>1, <1>2, <1>3, <1>4, <1>5, <1>6, <1>7, <1>8, <1>9, <1>10, <1>11, <1>12,
       <1>13, <1>14 DEF Step

(* A handler is set going only on a thread that has none under way.         *)
LEMMA EntryPointsKeep ==
    ASSUME Orderly, Next, ~\E t \in Threads : Step(t)
    PROVE  Orderly'
<1> \A p \in Players : p \in Threads
    BY DEF Threads
<1> \A e \in Instances : e \in Threads
    BY DEF Threads
<1> \A l \in Leaders : l \in Players
    BY LeadersAssumption
<1>1. CASE \E l \in Leaders : StartEvent(l)
    BY <1>1, StartEventKeeps
<1>2. CASE \E l \in Leaders : Disband(l)
    BY <1>2, DisbandCalm, CalmKeeps
<1>3. CASE \E l \in Leaders, p \in Players : LeaveParty(l, p)
    BY <1>3, LeavePartyCalm, CalmKeeps
<1>4. ASSUME NEW p \in Players, WalkOut(p) PROVE Orderly'
    BY <1>4, WalkOutCalm, CalmKeeps
<1>5. ASSUME NEW p \in Players, Die(p) \/ MonstersDead(p) \/ FinishPQ(p) PROVE Orderly'
    BY <1>5, ScriptedCalm, CalmKeeps
<1>6. ASSUME NEW p \in Players, Disconnect(p) PROVE Orderly'
    BY <1>6, DisconnectCalm, CalmKeeps
<1>7. ASSUME NEW p \in Players, Login(p) PROVE Orderly'
    BY <1>7, LoginCalm, CalmKeeps
<1>8. ASSUME NEW p \in Players, NEW n \in Names, Rejoin(p, n) PROVE Orderly'
    BY <1>8, RejoinKeeps
<1>9. ASSUME NEW e \in Instances, Timeout(e) PROVE Orderly'
    BY <1>9, TimeoutCalm, CalmKeeps
<1>10. ASSUME NEW e \in Instances, Spawn(e) PROVE Orderly'
    BY <1>10, SpawnCalm, CalmKeeps
<1> QED
    BY <1>1, <1>2, <1>3, <1>4, <1>5, <1>6, <1>7, <1>8, <1>9, <1>10 DEF Next

(* The invariant is inductive: it holds at the start and after every call.  *)
THEOREM OrderlyAlways == Spec => []Orderly
<1>1. ASSUME Orderly, [Next]_vars PROVE Orderly'
    BY <1>1, CallsKeep, EntryPointsKeep, OrderlyStays
<1> QED
    BY <1>1, OrderlyAtStart, PTL DEF Spec

(* Every variable keeps its type: state, of a handful of values, among      *)
(* others, which the scripts compare as strings and count up.               *)
THEOREM TypeCorrect == Spec => []TypeOK
<1>1. Orderly => TypeOK
    BY TypedIsTypeOK DEF Orderly
<1> QED
    BY <1>1, OrderlyAlways, PTL

(* However the calls of leaving, disconnecting, ending and registering      *)
(* interleave, a player's instance, while it lives, has the player among    *)
(* its members: unregisterPlayer and setEventInstance never come apart.     *)
THEOREM MembersOfTheirOwnInstance == Spec => []MemberOfOwnInstance
<1>1. Orderly => MemberOfOwnInstance
    BY DEF Orderly
<1> QED
    BY <1>1, OrderlyAlways, PTL

(* An event that says it is closed, when no handler is under way, has an    *)
(* instance that lives: whichever thread was last to dispose of one put the *)
(* state back, so no event stays closed with nobody in it.                  *)
THEOREM ClosedEventsLive == Spec => []ClosedMeansLive
<1>1. Orderly => ClosedMeansLive
    <2> SUFFICES ASSUME Orderly, AtRest, state \notin {"null", "0"}
                 PROVE  \E e \in Instances : Live(e)
        BY DEF ClosedMeansLive
    <2>1. ASSUME NEW l \in Leaders PROVE ~BeforeOpen(todo[l])
        <3>1. todo[l] = << >>
            BY LeadersAssumption DEF AtRest, Idle, Threads
        <3> QED
            BY <3>1 DEF BeforeOpen, Registering
    <2> QED
        BY <2>1 DEF Orderly, ClosedMeansLater, Closed
<1> QED
    BY <1>1, OrderlyAlways, PTL

-----------------------------------------------------------------------------
(* Lists of calls written out.                                              *)
LEMMA OneAndOne ==
    ASSUME NEW a, NEW b
    PROVE  << a >> \o << b >> = << a, b >>
<1> DEFINE S == {a, b}
<1>1. << a >> \in Seq(S) /\ << b >> \in Seq(S) /\ << a, b >> \in Seq(S)
    OBVIOUS
<1>2. /\ << a >> \o << b >> \in Seq(S) /\ Len(<< a >> \o << b >>) = 2
      /\ (<< a >> \o << b >>)[1] = a /\ (<< a >> \o << b >>)[2] = b
    <2>1. Len(<< a >>) = 1 /\ Len(<< b >>) = 1
        OBVIOUS
    <2> HIDE DEF S
    <2> QED
        BY <1>1, <2>1, ConcatProperties
<1>3. \A i \in 1 .. 2 : (<< a >> \o << b >>)[i] = << a, b >>[i]
    BY <1>2
<1>4. Len(<< a, b >>) = 2
    OBVIOUS
<1> HIDE DEF S
<1> QED
    BY <1>1, <1>2, <1>3, <1>4, SeqEqual

LEMMA TwoAndOne ==
    ASSUME NEW a, NEW b, NEW c
    PROVE  << a, b >> \o << c >> = << a, b, c >>
<1> DEFINE S == {a, b, c}
<1>1. << a, b >> \in Seq(S) /\ << c >> \in Seq(S) /\ << a, b, c >> \in Seq(S)
    OBVIOUS
<1>2. /\ << a, b >> \o << c >> \in Seq(S) /\ Len(<< a, b >> \o << c >>) = 3
      /\ (<< a, b >> \o << c >>)[1] = a /\ (<< a, b >> \o << c >>)[2] = b
      /\ (<< a, b >> \o << c >>)[3] = c
    <2>1. Len(<< a, b >>) = 2 /\ Len(<< c >>) = 1
        OBVIOUS
    <2> HIDE DEF S
    <2> QED
        BY <1>1, <2>1, ConcatProperties
<1>3. \A i \in 1 .. 3 : (<< a, b >> \o << c >>)[i] = << a, b, c >>[i]
    BY <1>2
<1>4. Len(<< a, b, c >>) = 3
    OBVIOUS
<1> HIDE DEF S
<1> QED
    BY <1>1, <1>2, <1>3, <1>4, SeqEqual

(* Each answer to what a list of calls asks is again in S.                  *)
Asks(c) == c.do \in {"dispose", "fewer"}
BranchesIn(q, S) ==
    \A i \in 1 .. Len(q) : Asks(q[i]) => q[i].yes \in S /\ q[i].no \in S

(* Who is warped out has been unregistered; who is unregistered is warped   *)
(* out or goes offline; nobody is; and an instance that still has members   *)
(* is not ended where they are.                                             *)
Guarded(q) ==
    \A i \in 1 .. Len(q) :
        q[i].do = "warp" => \E j \in 1 .. i - 1 : q[j].do = "unregister"
LetsOut(q) ==
    \A i \in 1 .. Len(q) : q[i].do \in {"unregister", "drop"} =>
        \E j \in i + 1 .. Len(q) : q[j].do \in {"warp", "offline"}
Stays(q) == \A i \in 1 .. Len(q) : q[i].do \notin {"unregister", "drop"}
Firm(q) == \A i \in 1 .. Len(q) : q[i].do = "dispose" => q[i].warp \/ q[i].below = 0

(* The lists of calls the scripts are made of.                              *)
ExitNoState == << Unregister, DisposeIf(0, FALSE, Nothing, Nothing) >>
ExitsByWarp == {ExitByWarp, ExitByWarp \o DisposeEmpty}
Staying == {Nothing, Reset, End, EndOnly}
Clean == Staying \cup {Revived, EndIf, << Forbid >>, << AdvanceState >>}
Bodies ==
    Clean \cup {Exit, ExitNoState} \cup ExitsByWarp
        \cup {LeftOrBelow(n, x) : n \in Nat, x \in ExitsByWarp}
        \cup {LeftIfFewer(n) : n \in Nat}

(* The calls these lists are made of.                                       *)
DropEmpty == DisposeIf(0, FALSE, Reset, Nothing)
DropQuietly == DisposeIf(0, FALSE, Nothing, Nothing)
DropAll == DisposeIf(Everyone, TRUE, Nothing, Nothing)
DropReset == DisposeIf(Everyone, TRUE, Reset, Nothing)

LEMMA KindOfCall ==
    /\ Unregister.do = "unregister" /\ WarpOut.do = "warp" /\ Forbid.do = "forbid"
    /\ AdvanceState.do = "advance" /\ Drop.do = "drop" /\ Offline.do = "offline"
    /\ SetState("0").do = "state"
    /\ DropEmpty.do = "dispose" /\ DropEmpty.yes = Reset /\ DropEmpty.no = Nothing
    /\ DropEmpty.below = 0
    /\ DropQuietly.do = "dispose" /\ DropQuietly.yes = Nothing /\ DropQuietly.no = Nothing
    /\ DropQuietly.below = 0
    /\ DropAll.do = "dispose" /\ DropAll.yes = Nothing /\ DropAll.no = Nothing
    /\ DropAll.warp
    /\ DropReset.do = "dispose" /\ DropReset.yes = Reset /\ DropReset.no = Nothing
    /\ DropReset.warp
BY DEF Unregister, WarpOut, Forbid, AdvanceState, Drop, Offline, SetState,
       DisposeIf, DropEmpty, DropQuietly, DropAll, DropReset

(* The lists, written out.                                                  *)
LEMMA Spelled ==
    /\ Nothing = << >> /\ Reset = << SetState("0") >>
    /\ Exit = << Unregister, DropEmpty >> /\ ExitNoState = << Unregister, DropQuietly >>
    /\ Revived = << Unregister, DropEmpty, WarpOut >>
    /\ End = << DropAll, SetState("0") >>
    /\ EndIf = << DropReset >> /\ EndOnly = << DropAll >>
    /\ ExitByWarp = << Unregister, WarpOut >>
    /\ ExitByWarp \o DisposeEmpty = << Unregister, WarpOut, DropEmpty >>
<1>1. Exit = << Unregister, DropEmpty >>
    BY OneAndOne DEF Exit, DisposeEmpty, DropEmpty
<1>2. Revived = << Unregister, DropEmpty, WarpOut >>
    BY <1>1, TwoAndOne DEF Revived
<1>3. End = << DropAll, SetState("0") >>
    BY OneAndOne DEF End, Reset, DropAll
<1>4. ExitByWarp \o DisposeEmpty = << Unregister, WarpOut, DropEmpty >>
    BY TwoAndOne DEF ExitByWarp, DisposeEmpty, DropEmpty
<1>5. /\ Nothing = << >> /\ Reset = << SetState("0") >>
      /\ ExitNoState = << Unregister, DropQuietly >>
      /\ EndIf = << DropReset >> /\ EndOnly = << DropAll >>
      /\ ExitByWarp = << Unregister, WarpOut >>
    BY DEF Nothing, Reset, ExitNoState, DropQuietly, EndIf, DropReset, EndOnly, DropAll,
           ExitByWarp
<1> QED
    BY <1>1, <1>2, <1>3, <1>4, <1>5

(* What the four say of a list of one, two or three calls.                  *)
Branch(c, S) == Asks(c) => c.yes \in S /\ c.no \in S
Kept(c) == c.do \notin {"unregister", "drop"}
Ended(c) == c.do = "dispose" => c.warp \/ c.below = 0
Away(c) == c.do \in {"warp", "offline"}

LEMMA NoCall ==
    ASSUME NEW S
    PROVE  Guarded(<< >>) /\ LetsOut(<< >>) /\ Stays(<< >>) /\ Firm(<< >>)
           /\ BranchesIn(<< >>, S)
BY DEF Guarded, LetsOut, Stays, Firm, BranchesIn

LEMMA OneCall ==
    ASSUME NEW a, NEW S
    PROVE  /\ a.do # "warp" => Guarded(<< a >>)
           /\ Kept(a) => LetsOut(<< a >>) /\ Stays(<< a >>)
           /\ Ended(a) => Firm(<< a >>)
           /\ Branch(a, S) => BranchesIn(<< a >>, S)
<1>1. Len(<< a >>) = 1 /\ << a >>[1] = a /\ \A i \in 1 .. 1 : i = 1
    OBVIOUS
<1> QED
    BY <1>1 DEF Guarded, LetsOut, Stays, Firm, BranchesIn, Kept, Ended, Branch

LEMMA TwoCalls ==
    ASSUME NEW a, NEW b, NEW S
    PROVE  /\ a.do # "warp" /\ (b.do = "warp" => a.do = "unregister")
                  => Guarded(<< a, b >>)
           /\ (Kept(a) \/ Away(b)) /\ Kept(b) => LetsOut(<< a, b >>)
           /\ Kept(a) /\ Kept(b) => Stays(<< a, b >>)
           /\ Ended(a) /\ Ended(b) => Firm(<< a, b >>)
           /\ Branch(a, S) /\ Branch(b, S) => BranchesIn(<< a, b >>, S)
<1>1. /\ Len(<< a, b >>) = 2 /\ << a, b >>[1] = a /\ << a, b >>[2] = b
      /\ \A i \in 1 .. 2 : i = 1 \/ i = 2
      /\ 1 \in 1 .. 2 - 1 /\ 2 \in 1 + 1 .. 2
    OBVIOUS
<1> DEFINE q == << a, b >>
<1>2. Len(q) = 2 /\ q[1] = a /\ q[2] = b
    BY <1>1
<1> HIDE DEF q
<1>3. a.do # "warp" /\ (b.do = "warp" => a.do = "unregister") => Guarded(q)
    BY <1>1, <1>2 DEF Guarded
<1>4. (Kept(a) \/ Away(b)) /\ Kept(b) => LetsOut(q)
    BY <1>1, <1>2 DEF LetsOut, Kept, Away
<1>5. /\ Kept(a) /\ Kept(b) => Stays(q)
      /\ Ended(a) /\ Ended(b) => Firm(q)
      /\ Branch(a, S) /\ Branch(b, S) => BranchesIn(q, S)
    BY <1>1, <1>2 DEF Stays, Firm, BranchesIn, Kept, Ended, Branch
<1> QED
    BY <1>3, <1>4, <1>5 DEF q

LEMMA ThreeCalls ==
    ASSUME NEW a, NEW b, NEW c, NEW S
    PROVE  /\ a.do = "unregister" => Guarded(<< a, b, c >>)
           /\ Away(c) => LetsOut(<< a, b, c >>)
           /\ Ended(a) /\ Ended(b) /\ Ended(c) => Firm(<< a, b, c >>)
           /\ Branch(a, S) /\ Branch(b, S) /\ Branch(c, S)
                  => BranchesIn(<< a, b, c >>, S)
<1> DEFINE q == << a, b, c >>
<1>1. Len(q) = 3 /\ q[1] = a /\ q[2] = b /\ q[3] = c
    OBVIOUS
<1>2. /\ \A i \in 1 .. 3 : i = 1 \/ i = 2 \/ i = 3
      /\ 1 \in 1 .. 2 - 1 /\ 1 \in 1 .. 3 - 1 /\ 3 \in 1 + 1 .. 3 /\ 3 \in 2 + 1 .. 3
    OBVIOUS
<1> HIDE DEF q
<1>3. a.do = "unregister" => Guarded(q)
    BY <1>1, <1>2 DEF Guarded
<1>4. Away(c) => LetsOut(q)
    BY <1>1, <1>2 DEF LetsOut, Away
<1>5. /\ Ended(a) /\ Ended(b) /\ Ended(c) => Firm(q)
      /\ Branch(a, S) /\ Branch(b, S) /\ Branch(c, S) => BranchesIn(q, S)
    BY <1>1, <1>2 DEF Firm, BranchesIn, Ended, Branch
<1> QED
    BY <1>3, <1>4, <1>5 DEF q

(* No list of these lets somebody stay who is unregistered, and so on for   *)
(* every answer in it.                                                      *)
LEMMA CallForm ==
    ASSUME NEW S, Nothing \in S, Reset \in S
    PROVE  /\ Branch(Unregister, S) /\ Branch(WarpOut, S) /\ Branch(Forbid, S)
           /\ Branch(AdvanceState, S) /\ Branch(SetState("0"), S)
           /\ Branch(DropEmpty, S) /\ Branch(DropQuietly, S) /\ Branch(DropAll, S)
           /\ Branch(DropReset, S)
           /\ Ended(Unregister) /\ Ended(WarpOut) /\ Ended(Forbid)
           /\ Ended(AdvanceState) /\ Ended(SetState("0"))
           /\ Ended(DropEmpty) /\ Ended(DropQuietly) /\ Ended(DropAll) /\ Ended(DropReset)
           /\ Kept(WarpOut) /\ Kept(Forbid) /\ Kept(AdvanceState) /\ Kept(SetState("0"))
           /\ Kept(DropEmpty) /\ Kept(DropQuietly) /\ Kept(DropAll) /\ Kept(DropReset)
           /\ Away(WarpOut) /\ Unregister.do = "unregister" /\ WarpOut.do = "warp"
           /\ \A c \in {Forbid, AdvanceState, SetState("0"), DropEmpty, DropQuietly,
                         DropAll, DropReset} : c.do # "warp"
BY KindOfCall DEF Asks, Branch, Kept, Ended, Away

LEMMA StayingForm ==
    ASSUME NEW q \in Staying
    PROVE  Stays(q) /\ BranchesIn(q, Staying)
<1>1. Nothing \in Staying /\ Reset \in Staying
    BY DEF Staying
<1>2. CASE q = Nothing
    BY <1>2, Spelled, NoCall
<1>3. CASE q = Reset
    BY <1>1, <1>3, Spelled, CallForm, OneCall
<1>4. CASE q = End
    BY <1>1, <1>4, Spelled, CallForm, TwoCalls
<1>5. CASE q = EndOnly
    BY <1>1, <1>5, Spelled, CallForm, OneCall
<1> QED
    BY <1>2, <1>3, <1>4, <1>5 DEF Staying

LEMMA CleanForm ==
    ASSUME NEW q \in Clean
    PROVE  LetsOut(q) /\ Firm(q) /\ BranchesIn(q, Clean)
<1>1. Nothing \in Clean /\ Reset \in Clean
    BY DEF Clean, Staying
<1>2. CASE q = Nothing
    BY <1>2, Spelled, NoCall
<1>3. CASE q = Reset
    BY <1>1, <1>3, Spelled, CallForm, OneCall
<1>4. CASE q = End
    BY <1>1, <1>4, Spelled, CallForm, TwoCalls
<1>5. CASE q = EndOnly
    BY <1>1, <1>5, Spelled, CallForm, OneCall
<1>6. CASE q = Revived
    BY <1>1, <1>6, Spelled, CallForm, ThreeCalls
<1>7. CASE q = EndIf
    BY <1>1, <1>7, Spelled, CallForm, OneCall
<1>8. CASE q = << Forbid >>
    BY <1>1, <1>8, CallForm, OneCall
<1>9. CASE q = << AdvanceState >>
    BY <1>1, <1>9, CallForm, OneCall
<1> QED
    BY <1>2, <1>3, <1>4, <1>5, <1>6, <1>7, <1>8, <1>9 DEF Clean, Staying

LEMMA BodiesForm ==
    ASSUME NEW q \in Bodies
    PROVE  Guarded(q) /\ BranchesIn(q, Bodies)
<1>1. Nothing \in Bodies /\ Reset \in Bodies /\ Exit \in Bodies
      /\ End \in Bodies /\ ExitsByWarp \subseteq Bodies
    BY DEF Bodies, Clean, Staying
<1>2. CASE q = Nothing
    BY <1>2, Spelled, NoCall
<1>3. CASE q = Reset
    BY <1>1, <1>3, Spelled, CallForm, OneCall
<1>4. CASE q = End
    BY <1>1, <1>4, Spelled, CallForm, TwoCalls
<1>5. CASE q = EndOnly
    BY <1>1, <1>5, Spelled, CallForm, OneCall
<1>6. CASE q = Revived
    BY <1>1, <1>6, Spelled, CallForm, ThreeCalls
<1>7. CASE q = EndIf
    BY <1>1, <1>7, Spelled, CallForm, OneCall
<1>8. CASE q = << Forbid >>
    BY <1>1, <1>8, CallForm, OneCall
<1>9. CASE q = << AdvanceState >>
    BY <1>1, <1>9, CallForm, OneCall
<1>10. CASE q = Exit
    BY <1>1, <1>10, Spelled, CallForm, TwoCalls
<1>11. CASE q = ExitNoState
    BY <1>1, <1>11, Spelled, CallForm, TwoCalls
<1>12. CASE q = ExitByWarp
    BY <1>1, <1>12, Spelled, CallForm, TwoCalls
<1>13. CASE q = ExitByWarp \o DisposeEmpty
    <2>1. q = << Unregister, WarpOut, DropEmpty >>
        BY <1>13, Spelled
    <2> QED
        BY <1>1, <2>1, CallForm, ThreeCalls
<1>14. ASSUME NEW n \in Nat, NEW x \in ExitsByWarp, q = LeftOrBelow(n, x)
       PROVE  Guarded(q) /\ BranchesIn(q, Bodies)
    <2> DEFINE c == DisposeIf(n, TRUE, Reset, x)
    <2>1. q = << c >> /\ c.do = "dispose" /\ c.yes = Reset /\ c.no = x
        BY <1>14 DEF LeftOrBelow, DisposeIf
    <2> HIDE DEF c
    <2> QED
        BY <1>1, <2>1, OneCall DEF Branch
<1>15. ASSUME NEW n \in Nat, q = LeftIfFewer(n)
       PROVE  Guarded(q) /\ BranchesIn(q, Bodies)
    <2> DEFINE c == IfFewer(n, End, Exit)
    <2>1. q = << c >> /\ c.do = "fewer" /\ c.yes = End /\ c.no = Exit
        BY <1>15 DEF LeftIfFewer, IfFewer
    <2> HIDE DEF c
    <2>2. Branch(c, Bodies) /\ c.do # "warp"
        BY <1>1, <2>1 DEF Branch
    <2> QED
        BY <2>1, <2>2, OneCall
<1>16. \/ q \in {Nothing, Reset, End, EndOnly, Revived, EndIf, << Forbid >>,
                 << AdvanceState >>, Exit, ExitNoState, ExitByWarp}
       \/ q = ExitByWarp \o DisposeEmpty
       \/ \E n \in Nat, x \in ExitsByWarp : q = LeftOrBelow(n, x)
       \/ \E n \in Nat : q = LeftIfFewer(n)
    BY DEF Bodies, Clean, Staying, ExitsByWarp
<1> QED
    BY <1>2, <1>3, <1>4, <1>5, <1>6, <1>7, <1>8, <1>9, <1>10, <1>11, <1>12,
       <1>13, <1>14, <1>15, <1>16

-----------------------------------------------------------------------------
(* The scripts: PartyQuest and Battle, and what each changes of them.       *)
MadeOf(s) ==
    /\ s.ways = "all" /\ s.outside \in {Exit, ExitNoState}
    /\ \A q \in {s.disconnected, s.left, s.disband, s.timeout, s.killed, s.dead,
                  s.finish} : q \in Bodies
Evicts(s) ==
    /\ s.entry = "eim"
    /\ s.outside \in {Exit, ExitNoState} /\ s.disconnected \in {Nothing, Exit, End}
    /\ s.left \in Staying /\ s.disband \in Staying
    /\ \A q \in {s.timeout, s.killed, s.dead, s.finish} : q \in Clean

LEMMA KnownLists ==
    /\ \A q \in {Nothing, Reset, End, EndOnly} : q \in Staying
    /\ \A q \in {Nothing, Reset, End, EndOnly, Revived, EndIf, << Forbid >>,
                  << AdvanceState >>} : q \in Clean
    /\ \A q \in Clean \cup {Exit, ExitNoState, ExitByWarp, ExitByWarp \o DisposeEmpty} :
           q \in Bodies
    /\ \A n \in Nat : \A q \in {LeftOrBelow(n, ExitByWarp),
                                LeftOrBelow(n, ExitByWarp \o DisposeEmpty),
                                LeftIfFewer(n)} : q \in Bodies
BY DEF Staying, Clean, Bodies, ExitsByWarp

LEMMA PartyQuestForms ==
    ASSUME NEW s \in PartyQuests
    PROVE  /\ MadeOf(s)
           /\ \/ Evicts(s) \/ s.entry = "em"
              \/ s \in {KerningPQ, HenesysPQ, Juliet, ProtectPig}
<1> USE KnownLists DEF PartyQuest
<1>1. CASE s = WuGongPQ
    BY <1>1 DEF WuGongPQ, OldQuest, MadeOf
<1>2. CASE s = HontalePQ
    BY <1>2 DEF HontalePQ, OldQuest, MadeOf
<1>3. CASE s = shaoling
    BY <1>3 DEF shaoling, OldQuest, MadeOf
<1>4. CASE s = LudiPQ
    BY <1>4 DEF LudiPQ, OldQuest, MadeOf
<1>5. CASE s = ZakumPQ
    <2> DEFINE x == ExitByWarp \o DisposeEmpty
    <2>1. x \in Bodies
        OBVIOUS
    <2>2. s = [OldQuest(6) EXCEPT !.left = x, !.finish = End]
        BY <1>5 DEF ZakumPQ
    <2> HIDE DEF x
    <2> QED
        BY <2>1, <2>2 DEF OldQuest, MadeOf
<1>6. CASE s = KerningPQ
    BY <1>6 DEF KerningPQ, MadeOf
<1>7. CASE s = HenesysPQ
    BY <1>7 DEF HenesysPQ, MadeOf
<1>8. CASE s = Juliet
    BY <1>8 DEF Juliet, MadeOf
<1>9. CASE s = ProtectPig
    BY <1>9 DEF ProtectPig, MadeOf
<1>10. CASE s \in {Pirate, Ellin, MV, Dragonica}
    <2>1. s = PartyQuest
        BY <1>10 DEF Pirate, Ellin, MV, Dragonica
    <2> QED
        BY <2>1 DEF MadeOf, Evicts
<1>15. CASE s = OrbisPQ
    BY <1>15 DEF OrbisPQ, MadeOf, Evicts
<1>16. CASE s = Romeo
    BY <1>16 DEF Romeo, MadeOf, Evicts
<1>11. CASE s = Rex
    BY <1>11 DEF Rex, MadeOf, Evicts
<1>12. CASE s = BossFairyQueen
    BY <1>12 DEF BossFairyQueen, MadeOf, Evicts
<1>13. CASE s = MonsterPark
    <2>1. s.outside = ExitNoState /\ s.ways = "all"
        BY <1>13 DEF MonsterPark, ExitNoState
    <2>2. /\ s.disconnected = Nothing /\ s.left = EndOnly
          /\ s.disband = EndOnly /\ s.timeout = EndOnly /\ s.killed = Nothing
          /\ s.dead = Nothing /\ s.finish = Nothing /\ s.entry = "eim"
        BY <1>13 DEF MonsterPark
    <2> QED
        BY <2>1, <2>2 DEF MadeOf, Evicts
<1>14. CASE s = Olivia
    BY <1>14 DEF Olivia, MonsterPark, MadeOf, Evicts
<1> QED
    BY <1>1, <1>2, <1>3, <1>4, <1>5, <1>6, <1>7, <1>8, <1>9, <1>10, <1>11, <1>12,
       <1>13, <1>14, <1>15, <1>16 DEF PartyQuests

LEMMA BossForms ==
    ASSUME NEW s \in Bosses
    PROVE  /\ MadeOf(s) \/ s = Tokyo2095
           /\ Evicts(s) \/ s.entry = "em"
<1> USE KnownLists DEF PartyQuest, Battle
<1>1. CASE s \in {Ravana_EASY, Ravana_MED, Ravana_HARD}
    <2>1. s = [Battle EXCEPT !.fixed = FALSE]
        BY <1>1 DEF Ravana_EASY, Ravana_MED, Ravana_HARD
    <2> QED
        BY <2>1 DEF MadeOf, Evicts
<1>2. CASE s = ProtectTylus
    BY <1>2 DEF ProtectTylus, MadeOf
<1>3. CASE s \in {HorntailBattle, ChaosHorntail}
    <2>1. s = SquadBattle
        BY <1>3 DEF HorntailBattle, ChaosHorntail
    <2> QED
        BY <2>1 DEF SquadBattle, MadeOf, Evicts
<1>4. CASE s \in {ZakumBattle, ChaosZakum}
    <2>1. s = [SquadBattle EXCEPT !.killed = << AdvanceState >>]
        BY <1>4 DEF ZakumBattle, ChaosZakum
    <2> QED
        BY <2>1 DEF SquadBattle, MadeOf, Evicts
<1>5. CASE s \in {CygnusBattle, PinkBeanBattle}
    <2>1. s = [LateBattle EXCEPT !.dead = Nothing]
        BY <1>5 DEF CygnusBattle, PinkBeanBattle
    <2> QED
        BY <2>1 DEF LateBattle, SquadBattle, MadeOf, Evicts
<1>6. CASE s \in {ScarTarBattle, ArkariumBattle, HillaBattle}
    <2>1. s = LateBattle
        BY <1>6 DEF ScarTarBattle, ArkariumBattle, HillaBattle
    <2> QED
        BY <2>1 DEF LateBattle, SquadBattle, MadeOf, Evicts
<1>7. CASE s = VonLeonBattle
    BY <1>7 DEF VonLeonBattle, MadeOf
<1>8. CASE s = BossBalrog_EASY
    BY <1>8 DEF BossBalrog_EASY, MadeOf, Evicts
<1>9. CASE s \in {BossBalrog_NORMAL, Vergamot, CoreBlaze, Aufhaven, Nibergen}
    <2>1. s = Battle
        BY <1>9 DEF BossBalrog_NORMAL, Vergamot, CoreBlaze, Aufhaven, Nibergen
    <2> QED
        BY <2>1 DEF MadeOf, Evicts
<1>10. CASE s \in {NamelessMagicMonster, Dunas, Dunas2}
    <2>1. s = [Battle EXCEPT !.timeout = EndIf]
        BY <1>10 DEF NamelessMagicMonster, Dunas, Dunas2
    <2> QED
        BY <2>1 DEF MadeOf, Evicts
<1>11. CASE s = Tokyo2095
    BY <1>11 DEF Tokyo2095, Evicts
<1>12. CASE s = ZChaosPQ2
    BY <1>12 DEF ZChaosPQ2, MadeOf, Evicts
<1>13. CASE s \in {BossBelen, BossMagnus, BossArkarium, BossHillah, BossRanmaru,
                  BossPrincess}
    <2>1. s = [Battle EXCEPT !.rejoin = "nobody"]
        BY <1>13 DEF HighBoss, BossBelen, BossMagnus, BossArkarium, BossHillah, BossRanmaru,
                     BossPrincess
    <2> QED
        BY <2>1 DEF MadeOf, Evicts
<1> QED
    BY <1>1, <1>2, <1>3, <1>4, <1>5, <1>6, <1>7, <1>8, <1>9, <1>10, <1>11, <1>12, <1>13
       DEF Bosses

LEMMA ScriptsForms ==
    /\ \A s \in KnowsWayOut : MadeOf(s)
    /\ \A s \in Evicting : Evicts(s)
<1>1. "em" # "eim"
    OBVIOUS
<1> QED
    BY <1>1, PartyQuestForms, BossForms DEF KnowsWayOut, Evicting, AllScripts

Pending(q) == \E i \in 1 .. Len(q) : Away(q[i])
GoesOffline(q) == \E i \in 1 .. Len(q) : q[i].do = "offline"

(* What is left of a list when its first call is made.                      *)
LEMMA TailForm ==
    ASSUME NEW q \in Seq(AnyCall), q # << >>, NEW S
    PROVE  /\ BranchesIn(q, S) => BranchesIn(Tail(q), S)
           /\ Guarded(q) /\ Head(q).do # "unregister" => Guarded(Tail(q))
           /\ Guarded(q) => Head(q).do # "warp"
           /\ LetsOut(q) => LetsOut(Tail(q))
           /\ Firm(q) => Firm(Tail(q))
           /\ Stays(q) => Stays(Tail(q)) /\ Head(q).do \notin {"unregister", "drop"}
           /\ Pending(q) => Away(Head(q)) \/ Pending(Tail(q))
           /\ GoesOffline(q) => Head(q).do = "offline" \/ GoesOffline(Tail(q))
           /\ LetsOut(q) /\ Head(q).do \in {"unregister", "drop"} => Pending(Tail(q))
           /\ Firm(q) /\ Head(q).do = "dispose" => Head(q).warp \/ Head(q).below = 0
           /\ BranchesIn(q, S) /\ Asks(Head(q)) => Head(q).yes \in S /\ Head(q).no \in S
<1> DEFINE n == Len(q)
           r == Tail(q)
<1>1. /\ n \in Nat \ {0} /\ Head(q) = q[1] /\ Len(r) = n - 1
      /\ \A i \in 1 .. n - 1 : r[i] = q[i + 1]
    BY NothingFirst
<1> HIDE DEF n, r
<1>2. \A i \in 1 .. n : i = 1 \/ (i - 1 \in 1 .. n - 1 /\ q[i] = r[i - 1])
    BY <1>1
<1>3. \A i \in 1 .. n - 1 : i + 1 \in 1 .. n
    BY <1>1
<1>0. 1 \in 1 .. n /\ ~(\E j \in 1 .. 1 - 1 : TRUE)
    BY <1>1
<1>4. BranchesIn(q, S) => BranchesIn(r, S)
    BY <1>1, <1>3 DEF BranchesIn, n
<1>5. ASSUME Guarded(q), Head(q).do # "unregister" PROVE Guarded(r)
    <2> SUFFICES ASSUME NEW i \in 1 .. n - 1, r[i].do = "warp"
                 PROVE  \E j \in 1 .. i - 1 : r[j].do = "unregister"
        BY <1>1 DEF Guarded
    <2>1. PICK j \in 1 .. (i + 1) - 1 : q[j].do = "unregister"
        BY <1>1, <1>3, <1>5 DEF Guarded, n
    <2>2. j \in 1 .. n /\ j # 1
        BY <1>1, <1>5, <2>1
    <2>3. j - 1 \in 1 .. i - 1 /\ r[j - 1] = q[j]
        BY <1>1, <1>2, <2>1, <2>2
    <2> QED
        BY <2>1, <2>3
<1>6. Guarded(q) => Head(q).do # "warp"
    BY <1>0, <1>1 DEF Guarded, n
<1>7. ASSUME LetsOut(q), NEW i \in 1 .. n, q[i].do \in {"unregister", "drop"}
      PROVE  \E j \in i .. n - 1 : Away(r[j])
    <2>1. PICK j \in i + 1 .. n : q[j].do \in {"warp", "offline"}
        BY <1>7 DEF LetsOut, n
    <2>2. j - 1 \in i .. n - 1 /\ r[j - 1] = q[j]
        BY <1>1, <1>2, <2>1
    <2> QED
        BY <2>1, <2>2 DEF Away
<1>8. LetsOut(q) => LetsOut(r)
    <2> SUFFICES ASSUME LetsOut(q), NEW i \in 1 .. n - 1,
                        r[i].do \in {"unregister", "drop"}
                 PROVE  \E j \in i + 1 .. n - 1 : r[j].do \in {"warp", "offline"}
        BY <1>1 DEF LetsOut
    <2>1. i + 1 \in 1 .. n /\ q[i + 1].do \in {"unregister", "drop"}
        BY <1>1, <1>3
    <2> QED
        BY <1>7, <2>1 DEF Away
<1>9. /\ Firm(q) => Firm(r)
      /\ Stays(q) => Stays(r) /\ Head(q).do \notin {"unregister", "drop"}
    BY <1>0, <1>1, <1>3 DEF Firm, Stays, n
<1>10. /\ Pending(q) => Away(Head(q)) \/ Pending(r)
       /\ GoesOffline(q) => Head(q).do = "offline" \/ GoesOffline(r)
    BY <1>1, <1>2 DEF Pending, GoesOffline, n
<1>11. LetsOut(q) /\ Head(q).do \in {"unregister", "drop"} => Pending(r)
    BY <1>0, <1>1, <1>7 DEF Pending
<1>12. /\ Firm(q) /\ Head(q).do = "dispose" => Head(q).warp \/ Head(q).below = 0
       /\ BranchesIn(q, S) /\ Asks(Head(q)) => Head(q).yes \in S /\ Head(q).no \in S
    BY <1>0, <1>1 DEF Firm, BranchesIn, n
<1> QED
    BY <1>4, <1>5, <1>6, <1>8, <1>9, <1>10, <1>11, <1>12 DEF r

(* Two lists, one after the other.                                          *)
LEMMA JoinForm ==
    ASSUME NEW a \in Seq(AnyCall), NEW b \in Seq(AnyCall), NEW S
    PROVE  /\ BranchesIn(a, S) /\ BranchesIn(b, S) => BranchesIn(a \o b, S)
           /\ Guarded(a) /\ Guarded(b) => Guarded(a \o b)
           /\ LetsOut(a) /\ LetsOut(b) => LetsOut(a \o b)
           /\ Firm(a) /\ Firm(b) => Firm(a \o b)
           /\ Stays(a) /\ Stays(b) => Stays(a \o b)
           /\ Pending(b) => Pending(a \o b)
           /\ GoesOffline(b) => GoesOffline(a \o b)
<1> DEFINE q == a \o b
           m == Len(a)
           n == Len(b)
<1>1. /\ m \in Nat /\ n \in Nat /\ Len(q) = m + n
      /\ \A i \in 1 .. m + n : q[i] = IF i <= m THEN a[i] ELSE b[i - m]
    BY ConcatProperties, LenProperties
<1> HIDE DEF q, m, n
<1>2. /\ \A i \in 1 .. m : i \in 1 .. m + n /\ q[i] = a[i]
      /\ \A i \in 1 .. n : i + m \in 1 .. m + n /\ q[i + m] = b[i]
      /\ \A i \in 1 .. m + n :
             \/ i \in 1 .. m /\ q[i] = a[i]
             \/ i - m \in 1 .. n /\ q[i] = b[i - m]
    BY <1>1
<1>3. /\ BranchesIn(a, S) /\ BranchesIn(b, S) => BranchesIn(q, S)
      /\ Firm(a) /\ Firm(b) => Firm(q)
      /\ Stays(a) /\ Stays(b) => Stays(q)
    <2>1. \A i \in 1 .. Len(q) : \/ \E j \in 1 .. Len(a) : q[i] = a[j]
                               \/ \E j \in 1 .. Len(b) : q[i] = b[j]
        BY <1>1, <1>2 DEF m, n
    <2>2. BranchesIn(a, S) /\ BranchesIn(b, S) => BranchesIn(q, S)
        BY <2>1 DEF BranchesIn
    <2>3. Firm(a) /\ Firm(b) => Firm(q)
        BY <2>1 DEF Firm
    <2>4. Stays(a) /\ Stays(b) => Stays(q)
        BY <2>1 DEF Stays
    <2> QED
        BY <2>2, <2>3, <2>4
<1>4. /\ Pending(b) => Pending(q)
      /\ GoesOffline(b) => GoesOffline(q)
    <2>1. \A i \in 1 .. Len(b) : \E j \in 1 .. Len(q) : q[j] = b[i]
        BY <1>1, <1>2 DEF n
    <2>2. Pending(b) => Pending(q)
        BY <2>1 DEF Pending
    <2>3. GoesOffline(b) => GoesOffline(q)
        BY <2>1 DEF GoesOffline
    <2> QED
        BY <2>2, <2>3
<1>5. ASSUME Guarded(a), Guarded(b) PROVE Guarded(q)
    <2> SUFFICES ASSUME NEW i \in 1 .. m + n, q[i].do = "warp"
                 PROVE  \E j \in 1 .. i - 1 : q[j].do = "unregister"
        BY <1>1 DEF Guarded
    <2>1. CASE i \in 1 .. m /\ q[i] = a[i]
        <3>1. PICK j \in 1 .. i - 1 : a[j].do = "unregister"
            BY <1>5, <2>1 DEF Guarded, m
        <3> QED
            BY <1>1, <1>2, <2>1, <3>1
    <2>2. CASE i - m \in 1 .. n /\ q[i] = b[i - m]
        <3>1. PICK j \in 1 .. (i - m) - 1 : b[j].do = "unregister"
            BY <1>5, <2>2 DEF Guarded, n
        <3>2. j \in 1 .. n /\ j + m \in 1 .. i - 1
            BY <1>1, <2>2, <3>1
        <3> QED
            BY <1>2, <3>1, <3>2
    <2> QED
        BY <1>2, <2>1, <2>2
<1>6. ASSUME LetsOut(a), LetsOut(b) PROVE LetsOut(q)
    <2> SUFFICES ASSUME NEW i \in 1 .. m + n, q[i].do \in {"unregister", "drop"}
                 PROVE  \E j \in i + 1 .. m + n : q[j].do \in {"warp", "offline"}
        BY <1>1 DEF LetsOut
    <2>1. CASE i \in 1 .. m /\ q[i] = a[i]
        <3>1. PICK j \in i + 1 .. m : a[j].do \in {"warp", "offline"}
            BY <1>6, <2>1 DEF LetsOut, m
        <3>2. j \in 1 .. m /\ j \in i + 1 .. m + n
            BY <1>1, <2>1, <3>1
        <3> QED
            BY <1>2, <3>1, <3>2
    <2>2. CASE i - m \in 1 .. n /\ q[i] = b[i - m]
        <3>1. PICK j \in (i - m) + 1 .. n : b[j].do \in {"warp", "offline"}
            BY <1>6, <2>2 DEF LetsOut, n
        <3>2. j \in 1 .. n /\ j + m \in i + 1 .. m + n
            BY <1>1, <2>2, <3>1
        <3> QED
            BY <1>2, <3>1, <3>2
    <2> QED
        BY <1>2, <2>1, <2>2
<1> QED
    BY <1>3, <1>4, <1>5, <1>6 DEF q

(* A list that ends with a warp or going offline lets everybody out.        *)
LEMMA AwayAtLast ==
    ASSUME NEW a \in Seq(AnyCall), NEW c \in AnyCall, Away(c)
    PROVE  LetsOut(a \o << c >>) /\ Pending(a \o << c >>)
<1> DEFINE q == a \o << c >>
           m == Len(a)
<1>1. /\ m \in Nat /\ Len(q) = m + 1 /\ q[m + 1] = c
    <2>1. << c >> \in Seq(AnyCall) /\ Len(<< c >>) = 1 /\ << c >>[1] = c
        OBVIOUS
    <2>2. m \in Nat
        BY LenProperties
    <2> QED
        BY <2>1, <2>2, ConcatProperties
<1> HIDE DEF q, m
<1>2. ASSUME NEW i \in 1 .. m + 1, q[i].do \in {"unregister", "drop"}
      PROVE  m + 1 \in i + 1 .. m + 1
    <2>1. i # m + 1
        BY <1>1, <1>2 DEF Away
    <2> QED
        BY <1>1, <2>1
<1>3. LetsOut(q) /\ Pending(q)
    BY <1>1, <1>2 DEF LetsOut, Pending, Away
<1> QED
    BY <1>3 DEF q

-----------------------------------------------------------------------------
(* No list of a handler that registers members takes anybody out.           *)
LEMMA RegisteringForm ==
    ASSUME NEW q, NEW S,
           BeforeOpen(q) \/ AfterOpen(q) \/ Waiting(q) \/ Entering(q) \/ Setting(q)
    PROVE  /\ Guarded(q) /\ LetsOut(q) /\ Stays(q) /\ Firm(q) /\ BranchesIn(q, S)
           /\ ~Pending(q) /\ ~GoesOffline(q)
<1> DEFINE dos == {"state", "timer", "open", "register", "set", "enter"}
           n == Len(q)
<1>1. Registering(q) /\ n \in Nat /\ q[n].do = "register"
    BY LateIsLate, LenProperties, Kinds DEF Registering, Entering, Setting
<1>2. ASSUME NEW i \in 1 .. n, i # n PROVE q[i].do \in dos
    <2>0. n \in Nat /\ i \in 1 .. n - 1
        BY <1>1, <1>2
    <2>1. CASE BeforeOpen(q)
        <3>1. q[i] \in Early \cup Late \cup {NewInstance}
            <4>1. PICK k \in 1 .. Len(q) - 1 :
                      /\ q[k] = NewInstance
                      /\ \A j \in 1 .. Len(q) - 1 : /\ j < k => q[j] \in Early
                                                    /\ j > k => q[j] \in Late
                BY <2>1 DEF BeforeOpen
            <4>2. i < k \/ i = k \/ i > k
                BY <2>0
            <4> QED
                BY <2>0, <4>1, <4>2
        <3> QED
            BY <3>1, Kinds
    <2>2. CASE AfterOpen(q)
        BY <2>0, <2>2, Kinds DEF AfterOpen
    <2>3. CASE Waiting(q)
        BY <1>1, <2>0, <2>3 DEF Waiting
    <2>4. CASE Entering(q)
        BY <1>1, <2>0, <2>4, Kinds DEF Entering
    <2>5. CASE Setting(q)
        <3>1. q[1].who \in Players
            BY <2>5 DEF Setting, Naming
        <3>2. q[2] \in Naming("enter")
            BY <2>5, <3>1 DEF Setting, Naming, Enter
        <3>3. i = 1 \/ i = 2
            BY <2>0, <2>5 DEF Setting
        <3> QED
            BY <2>5, <3>2, <3>3, Kinds DEF Setting
    <2> QED
        BY <2>1, <2>2, <2>3, <2>4, <2>5
<1>3. \A i \in 1 .. Len(q) : q[i].do \in dos
    BY <1>1, <1>2
<1> QED
    BY <1>3 DEF Guarded, LetsOut, Stays, Firm, BranchesIn, Asks, Pending, GoesOffline, Away

-----------------------------------------------------------------------------
(* An instance that is over, or not yet made, has no members.               *)
MembersLive == \A e \in Instances : ~Live(e) => chars[e] = {}

(* Every member is inside, offline, or on the way in: thread t brings p.    *)
Brings(t, p) == (Setting(todo[t]) \/ Entering(todo[t])) /\ todo[t][1].who = p
Seen ==
    \A e \in Instances : \A p \in chars[e] :
        place[p] = "outside" => \E t \in Players : at[t] = e /\ Brings(t, p)

(* Who is inside, or about to be, knows the instance that has it as member. *)
Owns(p, e) == eim[p] = e \/ (Setting(todo[p]) /\ todo[p][1].who = p /\ at[p] = e)
EntersBy(t, p) == Entering(todo[t]) /\ todo[t][1].who = p
OwnMember ==
    \A e \in Instances : \A p \in chars[e] :
        place[p] = "inside" \/ (\E t \in Players : EntersBy(t, p)) => Owns(p, e)

(* Nobody is warped out of the maps while still a member.                   *)
Member(p) == \E e \in Instances : p \in chars[e]
Ways(p) == BranchesIn(todo[p], Bodies) /\ (Member(p) => Guarded(todo[p]))

MemberRules == Seen /\ OwnMember /\ \A p \in Players : Ways(p)

InsideInv ==
    MembersLive /\ (script \in KnowsWayOut /\ FirstInstance => MemberRules)

(* What a step leaves of the instances.                                     *)
LEMMA InstancesGoOn ==
    ASSUME Orderly, MembersLive, Next
    PROVE  /\ MembersLive' /\ script' = script
           /\ \A e \in Instances : phase[e] # "unborn" => phase'[e] # "unborn"
<1>1. TypedData /\ TypedThreads
    BY DEF Orderly, Typed
<1>2. ASSUME UNCHANGED << script, phase, chars >>
      PROVE  /\ MembersLive' /\ script' = script
             /\ \A e \in Instances : phase[e] # "unborn" => phase'[e] # "unborn"
    BY <1>2 DEF MembersLive, Live
<1>3. ASSUME NEW e, Dispose(e), script' = script
      PROVE  /\ MembersLive' /\ script' = script
             /\ \A f \in Instances : phase[f] # "unborn" => phase'[f] # "unborn"
    <2>1. /\ phase' = [phase EXCEPT ![e] = "disposed"]
          /\ chars' = [chars EXCEPT ![e] = {}]
        BY <1>3 DEF Dispose
    <2> QED
        BY <1>1, <1>3, <2>1 DEF MembersLive, Live, TypedData
<1>4. ASSUME NEW t \in Threads, Step(t)
      PROVE  /\ MembersLive' /\ script' = script
             /\ \A e \in Instances : phase[e] # "unborn" => phase'[e] # "unborn"
    <2>1. CASE DoUnregister(t)
        <3>1. chars' = [chars EXCEPT ![at[t]] = @ \ {t}] /\ UNCHANGED << script, phase >>
            BY <2>1 DEF DoUnregister
        <3>2. \A e \in Instances : chars'[e] \subseteq chars[e]
            BY <1>1, <3>1 DEF TypedData
        <3> QED
            BY <3>1, <3>2 DEF MembersLive, Live
    <2>2. CASE DoWarp(t) \/ DoState(t) \/ DoAdvance(t) \/ DoFewer(t) \/ DoSet(t) \/ DoOffline(t)
        <3>1. UNCHANGED << script, instance >>
            BY <2>2 DEF DoWarp, DoState, DoAdvance, DoFewer, DoSet, DoOffline
        <3> QED
            BY <1>2, <3>1 DEF instance
    <2>3. CASE DoForbid(t) \/ DoTimer(t) \/ DoEnter(t)
        BY <1>2, <2>3 DEF DoForbid, DoTimer, DoEnter
    <2>4. CASE DoDispose(t)
        <3>1. (Dispose(at[t]) /\ script' = script) \/ UNCHANGED << script, instance >>
            BY <2>4 DEF DoDispose
        <3> QED
            BY <1>2, <1>3, <3>1 DEF instance
    <2>5. CASE DoRegister(t)
        <3>1. UNCHANGED << script, phase >>
            BY <2>5 DEF DoRegister
        <3>2. \/ UNCHANGED chars
              \/ Live(at[t]) /\ \E p : chars' = [chars EXCEPT ![at[t]] = @ \cup {p}]
            BY <2>5 DEF DoRegister
        <3>3. \A e \in Instances : ~Live(e) => chars'[e] = chars[e]
            BY <1>1, <3>2 DEF TypedData
        <3> QED
            BY <3>1, <3>3 DEF MembersLive, Live
    <2>6. CASE DoDrop(t)
        <3>1. \/ UNCHANGED << script, instance >>
              \/ Dispose(at[t]) /\ script' = script
              \/ UNCHANGED << script, phase >> /\ chars' = [chars EXCEPT ![at[t]] = @ \ {t}]
            BY <2>6 DEF DoDrop
        <3>2. ASSUME UNCHANGED << script, phase >>, chars' = [chars EXCEPT ![at[t]] = @ \ {t}]
              PROVE  MembersLive'
            <4>1. \A e \in Instances : chars'[e] \subseteq chars[e]
                BY <1>1, <3>2 DEF TypedData
            <4> QED
                BY <3>2, <4>1 DEF MembersLive, Live
        <3> QED
            BY <1>2, <1>3, <3>1, <3>2 DEF instance
    <2>7. CASE DoOpen(t)
        <3>1. PICK e \in Instances : phase' = [phase EXCEPT ![e] = "live"]
            BY <2>7 DEF DoOpen
        <3>2. UNCHANGED << script, chars >>
            BY <2>7 DEF DoOpen
        <3> QED
            BY <1>1, <3>1, <3>2 DEF MembersLive, Live, TypedData
    <2> QED
        BY <1>4, <2>1, <2>2, <2>3, <2>4, <2>5, <2>6, <2>7 DEF Step
<1>5. ASSUME ~\E t \in Threads : Step(t) PROVE UNCHANGED << script, phase, chars >>
    <2>1. CASE \E l \in Leaders : StartEvent(l) \/ Disband(l)
        BY <2>1 DEF StartEvent, Disband, instance
    <2>2. CASE \E l \in Leaders, p \in Players : LeaveParty(l, p)
        BY <2>2 DEF LeaveParty, instance
    <2>3. ASSUME NEW p \in Players,
                 WalkOut(p) \/ Die(p) \/ MonstersDead(p) \/ FinishPQ(p) \/ Disconnect(p)
                     \/ Login(p) \/ \E n \in Names : Rejoin(p, n)
          PROVE  UNCHANGED << script, phase, chars >>
        BY <2>3 DEF WalkOut, Die, MonstersDead, FinishPQ, Disconnect, Login, Rejoin, instance
    <2>4. CASE \E e \in Instances : Timeout(e) \/ Spawn(e)
        BY <2>4 DEF Timeout, Spawn
    <2> QED
        BY <1>5, <2>1, <2>2, <2>3, <2>4 DEF Next
<1> QED
    BY <1>2, <1>4, <1>5

(* While one instance has been made, members and handlers are all of it.    *)
LEMMA OnlyInstance ==
    ASSUME Orderly, MembersLive, FirstInstance
    PROVE  /\ \A e, f \in Instances : chars[e] # {} /\ chars[f] # {} => e = f
           /\ \A e \in Instances : \A t \in Threads :
                  chars[e] # {} /\ at[t] # None => at[t] = e
           /\ \A s, t \in Threads : at[s] # None /\ at[t] # None => at[s] = at[t]
<1>1. \A t \in Threads : at[t] # None => at[t] \in Instances /\ phase[at[t]] # "unborn"
    BY DEF Orderly, UnbornUnknown, Typed, TypedThreads
<1>2. \A e \in Instances : chars[e] # {} => phase[e] # "unborn"
    BY DEF MembersLive, Live
<1> QED
    BY <1>1, <1>2 DEF FirstInstance

-----------------------------------------------------------------------------
(* A step that brings nobody in: members leave, or stay where they are.     *)
Brisk(q) == Setting(q) \/ Entering(q)
Lets(t) ==
    /\ Others(t) /\ ~Brisk(todo[t]) /\ ~Brisk(todo'[t])
    /\ \A e \in Instances : \A p \in chars'[e] :
           p \in chars[e] /\ eim'[p] = eim[p] /\ place'[p] \in {place[p], "offline"}
    /\ t \in Players => Ways(t)'

LEMMA LetsKeeps ==
    ASSUME MemberRules, NEW t \in Threads, Lets(t)
    PROVE  MemberRules'
<1>0. \A s \in Players : s \in Threads
    BY DEF Threads
<1>1. \A s \in Players : s # t => todo'[s] = todo[s] /\ at'[s] = at[s]
    BY <1>0 DEF Lets, Others
<1>2. \A e \in Instances : \A p \in chars'[e] :
          p \in chars[e] /\ eim'[p] = eim[p] /\ place'[p] \in {place[p], "offline"}
    BY DEF Lets
<1>3. \A p : ~Brings(t, p) /\ ~Brings(t, p)'
    BY DEF Lets, Brings, Brisk
<1>4. Seen'
    <2> SUFFICES ASSUME NEW e \in Instances, NEW p \in chars'[e], place'[p] = "outside"
                 PROVE  \E s \in Players : at'[s] = e /\ Brings(s, p)'
        BY DEF Seen
    <2>1. PICK s \in Players : at[s] = e /\ Brings(s, p)
        BY <1>2 DEF MemberRules, Seen
    <2>2. s # t
        BY <1>3, <2>1
    <2>3. at'[s] = e /\ Brings(s, p)'
        BY <1>1, <2>1, <2>2 DEF Brings
    <2> QED
        BY <2>3
<1>5. OwnMember'
    <2> SUFFICES ASSUME NEW e \in Instances, NEW p \in chars'[e],
                        place'[p] = "inside" \/ \E s \in Players : EntersBy(s, p)'
                 PROVE  Owns(p, e)'
        BY DEF OwnMember
    <2>1. ASSUME NEW s \in Players, EntersBy(s, p)' PROVE EntersBy(s, p)
        <3>1. s # t
            BY <2>1 DEF EntersBy, Lets, Brisk
        <3> QED
            BY <1>1, <2>1, <3>1 DEF EntersBy
    <2>2. place[p] = "inside" \/ \E s \in Players : EntersBy(s, p)
        BY <1>2, <2>1
    <2>3. Owns(p, e)
        BY <1>2, <2>2 DEF MemberRules, OwnMember
    <2>4. CASE eim[p] = e
        BY <1>2, <2>4 DEF Owns
    <2>5. CASE Setting(todo[p]) /\ todo[p][1].who = p /\ at[p] = e
        <3>1. p # t
            BY <2>5 DEF Lets, Brisk
        <3>2. p \in Players
            BY <2>5 DEF Setting, Naming
        <3> QED
            BY <1>1, <2>5, <3>1, <3>2 DEF Owns
    <2> QED
        BY <2>3, <2>4, <2>5 DEF Owns
<1>6. ASSUME NEW p \in Players PROVE Ways(p)'
    <2>1. CASE p = t
        BY <2>1 DEF Lets
    <2>2. CASE p # t
        <3>1. Member(p)' => Member(p)
            BY <1>2 DEF Member
        <3> QED
            BY <1>1, <2>2, <3>1 DEF MemberRules, Ways
    <2> QED
        BY <2>1, <2>2
<1> QED
    BY <1>4, <1>5, <1>6 DEF MemberRules

-----------------------------------------------------------------------------
LEMMA ScriptMade ==
    ASSUME script \in KnowsWayOut
    PROVE  /\ script.ways = "all" /\ script.outside \in {Exit, ExitNoState}
           /\ script.disconnected \in Bodies /\ script.left \in Bodies
           /\ script.disband \in Bodies /\ script.timeout \in Bodies
           /\ script.killed \in Bodies /\ script.dead \in Bodies
           /\ script.finish \in Bodies
BY ScriptsForms DEF MadeOf

(* The way out: whoever's changedMap is called is unregistered first.       *)
LEMMA OutsideForm ==
    ASSUME NEW q \in {Exit, ExitNoState}
    PROVE  /\ q \o << WarpOut >> \in {<< Unregister, c, WarpOut >> : c \in {DropEmpty, DropQuietly}}
           /\ Guarded(q \o << WarpOut >>) /\ BranchesIn(q \o << WarpOut >>, Bodies)
<1>1. Nothing \in Bodies /\ Reset \in Bodies
    BY KnownLists DEF Clean, Staying
<1>2. PICK c \in {DropEmpty, DropQuietly} : q = << Unregister, c >>
    BY Spelled
<1> DEFINE r == q \o << WarpOut >>
<1>3. r = << Unregister, c, WarpOut >>
    BY <1>2, TwoAndOne
<1> HIDE DEF r
<1>4. Branch(Unregister, Bodies) /\ Branch(c, Bodies) /\ Branch(WarpOut, Bodies)
      /\ Unregister.do = "unregister"
    BY <1>1, CallForm
<1>5. Guarded(r) /\ BranchesIn(r, Bodies)
    BY <1>3, <1>4, ThreeCalls
<1> QED
    BY <1>3, <1>5 DEF r

LEMMA DropOfflineForm ==
    ASSUME NEW S
    PROVE  /\ << Drop, Offline >> \in Seq(AnyCall) /\ << Offline >> \in Seq(AnyCall)
           /\ Guarded(<< Drop, Offline >>) /\ BranchesIn(<< Drop, Offline >>, S)
           /\ Guarded(<< Offline >>) /\ BranchesIn(<< Offline >>, S)
           /\ LetsOut(<< Drop, Offline >>) /\ Firm(<< Drop, Offline >>)
           /\ LetsOut(<< Offline >>) /\ Firm(<< Offline >>)
           /\ GoesOffline(<< Drop, Offline >>) /\ GoesOffline(<< Offline >>)
<1>1. Drop \in AnyCall /\ Offline \in AnyCall
    BY DEF AnyCall, Acting
<1> DEFINE d == Drop
           o == Offline
<1>2. d.do = "drop" /\ o.do = "offline"
    BY KindOfCall
<1> HIDE DEF d, o
<1>3. /\ Guarded(<< d, o >>) /\ BranchesIn(<< d, o >>, S) /\ Firm(<< d, o >>)
    BY <1>2, TwoCalls DEF Branch, Asks, Ended
<1>4. /\ Guarded(<< o >>) /\ BranchesIn(<< o >>, S) /\ Firm(<< o >>) /\ LetsOut(<< o >>)
    BY <1>2, OneCall DEF Branch, Asks, Ended, Kept
<1>5. LetsOut(<< d, o >>)
    <2>1. Len(<< d, o >>) = 2 /\ << d, o >>[1] = d /\ << d, o >>[2] = o
        OBVIOUS
    <2>2. \A i \in 1 .. 2 : (i = 1 \/ i = 2) /\ 2 \in 1 + 1 .. 2
        OBVIOUS
    <2> DEFINE q == << d, o >>
    <2>3. Len(q) = 2 /\ q[1] = d /\ q[2] = o
        BY <2>1
    <2> HIDE DEF q
    <2>4. LetsOut(q)
        BY <1>2, <2>2, <2>3 DEF LetsOut
    <2> QED
        BY <2>4 DEF q
<1>6. GoesOffline(<< d, o >>) /\ GoesOffline(<< o >>)
    <2>1. /\ Len(<< d, o >>) = 2 /\ << d, o >>[2] = o /\ 2 \in 1 .. 2
          /\ Len(<< o >>) = 1 /\ << o >>[1] = o /\ 1 \in 1 .. 1
        OBVIOUS
    <2> QED
        BY <1>2, <2>1 DEF GoesOffline
<1>7. << d, o >> \in Seq(AnyCall) /\ << o >> \in Seq(AnyCall)
    BY <1>1 DEF d, o
<1> QED
    BY <1>3, <1>4, <1>5, <1>6, <1>7 DEF d, o

-----------------------------------------------------------------------------
(* A handler on its way.                                                    *)
LEMMA WayBegins ==
    ASSUME NEW p, Guarded(todo'[p]), BranchesIn(todo'[p], Bodies)
    PROVE  Ways(p)'
BY DEF Ways

(* The thread goes on with calls, which follow an answer, or with none.     *)
LEMMA WayGoesOn ==
    ASSUME Orderly, NEW t \in Players, ~Idle(t), Ways(t),
           NEW calls \in Seq(AnyCall), calls \in Bodies, Continue(t, calls),
           Member(t)' => Member(t) /\ Head(todo[t]).do # "unregister"
    PROVE  Ways(t)'
<1> DEFINE q == todo[t]
<1>1. t \in Threads /\ TypedThreads /\ q \in Seq(AnyCall) /\ q # << >>
      /\ Tail(q) \in Seq(AnyCall)
    BY NothingFirst DEF Threads, Orderly, Typed, TypedThreads, Idle
<1>2. todo'[t] = calls \o Tail(q)
    BY <1>1, Continues
<1>3. Guarded(calls) /\ BranchesIn(calls, Bodies)
    BY BodiesForm
<1>4. /\ BranchesIn(q, Bodies) => BranchesIn(Tail(q), Bodies)
      /\ Guarded(q) /\ Head(q).do # "unregister" => Guarded(Tail(q))
    BY <1>1, TailForm
<1>5. /\ BranchesIn(Tail(q), Bodies) => BranchesIn(calls \o Tail(q), Bodies)
      /\ Guarded(Tail(q)) => Guarded(calls \o Tail(q))
    BY <1>1, <1>3, JoinForm
<1> QED
    BY <1>2, <1>4, <1>5 DEF Ways

(* The same, with the thread's handler and what it leaves of the members.   *)
LEMMA HandlerLets ==
    ASSUME Orderly, MemberRules, NEW t \in Threads, ~Idle(t), Handles(t),
           NEW calls \in Seq(Handling), t \in Players => calls \in Bodies,
           Continue(t, calls),
           \A e \in Instances : \A p \in chars'[e] :
               p \in chars[e] /\ eim'[p] = eim[p] /\ place'[p] \in {place[p], "offline"},
           Head(todo[t]).do = "unregister" => ~Member(t)'
    PROVE  Lets(t)
<1>1. TypedThreads /\ calls \in Seq(AnyCall)
    BY Wider DEF Orderly, Typed
<1>2. Others(t) /\ todo'[t] = calls \o Tail(todo[t])
    BY <1>1, Continues
<1>3. todo[t] \in Seq(Acting) /\ calls \o Tail(todo[t]) \in Seq(Acting)
    <2>1. todo[t] \in Seq(Acting) /\ Tail(todo[t]) \in Seq(Acting) /\ calls \in Seq(Acting)
        BY Wider, NothingFirst DEF Handles, Idle
    <2> QED
        BY <2>1, ConcatProperties
<1>4. ~Brisk(todo[t]) /\ ~Brisk(todo'[t])
    BY <1>2, <1>3, CalmIsNotRegistering, CalmKinds DEF Brisk
<1>5. Member(t)' => Member(t)
    BY DEF Member
<1>6. t \in Players => Ways(t)'
    BY <1>1, <1>5, WayGoesOn DEF MemberRules
<1> QED
    BY <1>2, <1>4, <1>6 DEF Lets

LEMMA NoCallsBodies == << >> \in Bodies /\ << >> \in Seq(Handling)
BY KnownLists, Spelled, EmptySeq DEF Clean, Staying

(* A handler begins or nothing does.                                        *)
LEMMA BeginLets ==
    ASSUME Orderly, NEW p \in Threads, Idle(p),
           NEW e \in Instances \cup {None},
           NEW calls \in Seq(Acting), Begin(p, e, calls),
           p \in Players => Guarded(calls) /\ BranchesIn(calls, Bodies),
           \A f \in Instances : \A r \in chars'[f] :
               r \in chars[f] /\ eim'[r] = eim[r] /\ place'[r] \in {place[r], "offline"}
    PROVE  Lets(p)
<1>1. TypedThreads /\ calls \in Seq(AnyCall) /\ todo[p] \in Seq(Acting)
    BY Wider, IdleCalm DEF Orderly, Typed
<1>2. Others(p) /\ todo'[p] = calls
    BY <1>1, Begins
<1>3. ~Brisk(todo[p]) /\ ~Brisk(todo'[p])
    BY <1>1, <1>2, CalmIsNotRegistering, CalmKinds DEF Brisk
<1>4. p \in Players => Ways(p)'
    BY <1>2, WayBegins
<1> QED
    BY <1>2, <1>3, <1>4 DEF Lets

LEMMA NoBeginLets ==
    ASSUME Orderly, MemberRules, NEW p \in Threads, Idle(p), UNCHANGED << todo, at >>,
           \A f \in Instances : \A r \in chars'[f] :
               r \in chars[f] /\ eim'[r] = eim[r] /\ place'[r] \in {place[r], "offline"}
    PROVE  Lets(p)
<1>1. TypedThreads /\ todo[p] \in Seq(Acting)
    BY IdleCalm DEF Orderly, Typed
<1>2. ~Brisk(todo[p])
    BY <1>1, CalmIsNotRegistering, CalmKinds DEF Brisk
<1>3. Member(p)' => Member(p)
    BY DEF Member
<1> QED
    BY <1>2, <1>3 DEF Lets, Others, MemberRules, Ways

-----------------------------------------------------------------------------
(* The steps that bring nobody in.                                          *)
LEMMA Still ==
    ASSUME UNCHANGED << chars, eim, place >>
    PROVE  \A f \in Instances : \A r \in chars'[f] :
               r \in chars[f] /\ eim'[r] = eim[r] /\ place'[r] \in {place[r], "offline"}
OBVIOUS

LEMMA EntryLets ==
    ASSUME Orderly, MemberRules, script \in KnowsWayOut, NEW p \in Players,
           Die(p) \/ MonstersDead(p) \/ FinishPQ(p)
               \/ (\E l \in Leaders : LeaveParty(l, p)) \/ Disband(p)
    PROVE  Lets(p)
<1>1. TypedThreads /\ TypedData /\ p \in Threads /\ Idle(p)
    BY DEF Orderly, Typed, Threads, Die, MonstersDead, FinishPQ, LeaveParty, Disband
<1>2. UNCHANGED << chars, eim, place >>
    BY DEF Die, MonstersDead, FinishPQ, LeaveParty, Disband, instance
<1>3. \/ ~In(p) /\ UNCHANGED << todo, at >>
      \/ In(p) /\ \E calls \in {script.dead, script.killed, script.finish, script.left,
                                 script.disband} : Begin(p, eim[p], calls)
    BY DEF Die, MonstersDead, FinishPQ, LeaveParty, Disband
<1>4. CASE ~In(p) /\ UNCHANGED << todo, at >>
    BY <1>1, <1>2, <1>4, Still, NoBeginLets
<1>5. ASSUME In(p), NEW calls \in {script.dead, script.killed, script.finish, script.left,
                                  script.disband}, Begin(p, eim[p], calls)
      PROVE  Lets(p)
    <2>1. calls \in Bodies /\ calls \in Seq(Acting)
        BY <1>1, ScriptMade, ScriptCalls, Wider
    <2>2. Guarded(calls) /\ BranchesIn(calls, Bodies)
        BY <2>1, BodiesForm
    <2>3. eim[p] \in Instances \cup {None}
        BY <1>1 DEF TypedData
    <2> QED
        BY <1>1, <1>2, <1>5, <2>1, <2>2, <2>3, Still, BeginLets
<1> QED
    BY <1>3, <1>4, <1>5

LEMMA WalkOutLets ==
    ASSUME Orderly, MembersLive, MemberRules, script \in KnowsWayOut,
           NEW p \in Players, WalkOut(p)
    PROVE  Lets(p)
<1>1. TypedThreads /\ TypedData /\ p \in Threads /\ Idle(p) /\ place[p] = "inside"
      /\ UNCHANGED << chars, eim >>
    BY DEF Orderly, Typed, Threads, WalkOut, instance
<1>2. CASE In(p)
    <2> DEFINE calls == script.outside \o << WarpOut >>
    <2>1. Begin(p, eim[p], calls) /\ place' = place
        BY <1>2, ScriptMade DEF WalkOut
    <2>2. Guarded(calls) /\ BranchesIn(calls, Bodies)
        BY ScriptMade, OutsideForm
    <2>3. calls \in Seq(Acting) /\ eim[p] \in Instances \cup {None}
        <3>1. << WarpOut >> \in Seq(Handling) /\ script.outside \in Seq(Handling)
            BY <1>1, ScriptCalls DEF Handling, Plain
        <3>2. script.outside \o << WarpOut >> \in Seq(Handling)
            BY <3>1, ConcatProperties
        <3> QED
            BY <1>1, <3>2, Wider DEF TypedData
    <2> HIDE DEF calls
    <2> QED
        BY <1>1, <2>1, <2>2, <2>3, Still, BeginLets
<1>3. CASE ~In(p)
    <2>1. place' = [place EXCEPT ![p] = "outside"] /\ UNCHANGED << todo, at >>
        BY <1>3 DEF WalkOut
    <2>2. ~Member(p)
        <3>1. ASSUME NEW e \in Instances, p \in chars[e] PROVE FALSE
            <4>1. Owns(p, e)
                BY <1>1, <3>1 DEF MemberRules, OwnMember
            <4>2. ~Setting(todo[p])
                BY <1>1, IdleCalm, CalmKinds
            <4>3. eim[p] = e /\ e # None
                BY <4>1, <4>2, NoneAssumption DEF Owns
            <4>4. ~Live(e)
                BY <1>3, <4>3 DEF In
            <4> QED
                BY <1>1, <3>1, <4>4 DEF Orderly, MembersLive, Live
        <3> QED
            BY <3>1 DEF Member
    <2>3. \A f \in Instances : \A r \in chars'[f] :
               r \in chars[f] /\ eim'[r] = eim[r] /\ place'[r] \in {place[r], "offline"}
        BY <1>1, <2>1, <2>2 DEF Member, TypedData
    <2> QED
        BY <1>1, <2>1, <2>3, NoBeginLets
<1> QED
    BY <1>2, <1>3

LEMMA TimerLets ==
    ASSUME Orderly, MemberRules, script \in KnowsWayOut,
           NEW e \in Instances, Timeout(e) \/ Spawn(e)
    PROVE  Lets(e)
<1>1. TypedThreads /\ TypedData /\ e \in Threads /\ e \notin Players /\ Idle(e)
      /\ UNCHANGED << chars, eim, place >>
    BY PlayersAssumption DEF Orderly, Typed, Threads, Timeout, Spawn
<1>2. CASE UNCHANGED << todo, at >>
    BY <1>1, <1>2, Still, NoBeginLets
<1>3. CASE Begin(e, e, script.timeout)
    <2>1. script.timeout \in Seq(Acting)
        BY <1>1, ScriptCalls, Wider
    <2> QED
        BY <1>1, <1>3, <2>1, Still, BeginLets
<1> QED
    BY <1>2, <1>3 DEF Timeout, Spawn

LEMMA DisconnectLets ==
    ASSUME Orderly, MemberRules, script \in KnowsWayOut, NEW p \in Players, Disconnect(p)
    PROVE  Lets(p)
<1>1. TypedThreads /\ TypedData /\ p \in Threads /\ Idle(p)
      /\ UNCHANGED << chars, eim, place >>
    BY DEF Orderly, Typed, Threads, Disconnect, instance
<1>2. PICK calls \in {script.disconnected \o << Drop, Offline >>, << Offline >>},
            e \in {eim[p], None} : Begin(p, e, calls)
    BY DEF Disconnect
<1>3. script.disconnected \in Bodies /\ script.disconnected \in Seq(Acting)
    BY <1>1, ScriptMade, ScriptCalls, Wider
<1>4. << Drop, Offline >> \in Seq(Acting) /\ << Offline >> \in Seq(Acting)
    BY DEF Acting
<1>5. calls \in Seq(Acting)
    BY <1>3, <1>4, ConcatProperties
<1>6. Guarded(calls) /\ BranchesIn(calls, Bodies)
    <2>1. Guarded(script.disconnected) /\ BranchesIn(script.disconnected, Bodies)
        BY <1>3, BodiesForm
    <2>2. script.disconnected \in Seq(AnyCall)
        BY <1>3, Wider
    <2>3. Guarded(<< Offline >>) /\ BranchesIn(<< Offline >>, Bodies)
        BY DropOfflineForm
    <2>4. /\ << Drop, Offline >> \in Seq(AnyCall) /\ Guarded(<< Drop, Offline >>)
          /\ BranchesIn(<< Drop, Offline >>, Bodies)
        BY DropOfflineForm
    <2>5. /\ Guarded(script.disconnected \o << Drop, Offline >>)
          /\ BranchesIn(script.disconnected \o << Drop, Offline >>, Bodies)
        BY <2>1, <2>2, <2>4, JoinForm
    <2> QED
        BY <2>3, <2>5
<1>7. e \in Instances \cup {None}
    BY <1>1 DEF TypedData
<1> QED
    BY <1>1, <1>2, <1>5, <1>6, <1>7, Still, BeginLets

LEMMA LoginLets ==
    ASSUME Orderly, MemberRules, NEW p \in Players, Login(p)
    PROVE  Lets(p)
<1>1. TypedData /\ p \in Threads /\ Idle(p) /\ UNCHANGED << todo, at, chars, eim >>
    BY DEF Orderly, Typed, Threads, Login, instance
<1>2. \A f \in Instances : \A r \in chars'[f] :
               r \in chars[f] /\ eim'[r] = eim[r] /\ place'[r] \in {place[r], "offline"}
    BY <1>1 DEF Login, TypedData
<1> QED
    BY <1>1, <1>2, NoBeginLets

(* A list that is to register members, or to make the instance first.       *)
LEMMA PlanLets ==
    ASSUME NEW t \in Threads, Others(t), ~Brisk(todo[t]),
           BeforeOpen(todo'[t]) \/ AfterOpen(todo'[t]) \/ Waiting(todo'[t]),
           UNCHANGED << chars, eim, place >>
    PROVE  Lets(t)
<1>1. ~Brisk(todo'[t])
    BY KindsApart DEF Brisk
<1>2. Guarded(todo'[t]) /\ BranchesIn(todo'[t], Bodies)
    BY RegisteringForm
<1>3. Ways(t)'
    BY <1>2, WayBegins
<1> QED
    BY <1>1, <1>3, Still DEF Lets

LEMMA StartEventLets ==
    ASSUME Orderly, NEW l \in Leaders, StartEvent(l)
    PROVE  Lets(l)
<1> DEFINE q == script.setup \o << Register(party[l]) >>
<1>1. /\ TypedThreads /\ TypedData /\ l \in Threads /\ Idle(l)
      /\ UNCHANGED << chars, eim, place >>
    BY LeadersAssumption DEF Orderly, Typed, Threads, StartEvent, instance
<1>2. script.setup \in Setups /\ party[l] \in SUBSET Players
    BY <1>1, ScriptCalls DEF TypedData
<1>3. q \in Seq(AnyCall) /\ BeforeOpen(q)
    BY <1>2, SetupThenRegister
<1>4. Begin(l, None, q)
    BY DEF StartEvent
<1> HIDE DEF q
<1>5. Others(l) /\ todo'[l] = q
    BY <1>1, <1>3, <1>4, Begins
<1>6. ~Brisk(todo[l])
    BY <1>1, IdleCalm, CalmKinds DEF Brisk
<1> QED
    BY <1>1, <1>3, <1>5, <1>6, PlanLets

LEMMA RejoinLets ==
    ASSUME Orderly, NEW p \in Players, NEW n \in Names, Rejoin(p, n)
    PROVE  Lets(p)
<1> DEFINE q == << Register({Char[p]}) >>
<1>1. /\ TypedThreads /\ TypedData /\ p \in Threads /\ Idle(p)
      /\ UNCHANGED << chars, eim, place >>
      /\ names[n] \in Instances \cup {None}
    BY DEF Orderly, Typed, TypedData, Threads, Rejoin, instance
<1>2. {Char[p]} \in SUBSET Players
    BY CharAssumption
<1>3. q \in Seq(AnyCall) /\ Waiting(q)
    BY <1>2, AnInvitation
<1>4. Begin(p, names[n], q)
    BY DEF Rejoin
<1> HIDE DEF q
<1>5. Others(p) /\ todo'[p] = q
    BY <1>1, <1>3, <1>4, Begins
<1>6. ~Brisk(todo[p])
    BY <1>1, IdleCalm, CalmKinds DEF Brisk
<1> QED
    BY <1>1, <1>3, <1>5, <1>6, PlanLets

LEMMA DoOpenLets ==
    ASSUME Orderly, NEW l \in Threads, DoOpen(l)
    PROVE  Lets(l)
<1>1. /\ TypedThreads /\ ~Idle(l) /\ Registers(l) /\ at[l] = None
      /\ AfterOpen(Tail(todo[l])) /\ UNCHANGED << chars, eim, place >>
    BY NextCall DEF Orderly, Shaped, Typed, DoOpen, Doing
<1>2. \E e \in Instances : /\ todo' = [todo EXCEPT ![l] = Tail(@)]
                           /\ at' = [at EXCEPT ![l] = e]
    BY DEF DoOpen
<1>3. Others(l) /\ todo'[l] = Tail(todo[l])
    BY <1>1, <1>2 DEF Others, TypedThreads
<1>4. ~Brisk(todo[l])
    BY <1>1, KindsApart DEF Registers, Brisk
<1> QED
    BY <1>1, <1>3, <1>4, PlanLets

LEMMA SetupCallLets ==
    ASSUME Orderly, MemberRules, NEW t \in Threads, DoState(t) \/ DoTimer(t)
    PROVE  Lets(t)
<1> DEFINE c == Head(todo[t])
<1>1. /\ TypedThreads /\ ~Idle(t) /\ Shape(t) /\ Continue(t, << >>)
      /\ UNCHANGED << chars, eim, place >> /\ c.do \in {"state", "timer"}
    BY DEF Orderly, Shaped, Typed, DoState, DoTimer, Doing, instance
<1>2. CASE Handles(t)
    <2>1. c.do # "unregister"
        BY <1>1
    <2> QED
        BY <1>1, <1>2, <2>1, NoCallsBodies, Still, HandlerLets
<1>3. CASE ~Handles(t)
    <2>1. /\ Registers(t) /\ Len(todo[t]) # 1
          /\ BeforeOpen(Tail(todo[t])) \/ AfterOpen(Tail(todo[t]))
        BY <1>1, <1>3, NextCall
    <2>2. Others(t) /\ todo'[t] = << >> \o Tail(todo[t])
        BY <1>1, Continues, EmptySeq
    <2>3. << >> \o Tail(todo[t]) = Tail(todo[t])
        BY <1>1, NothingFirst DEF TypedThreads, Idle
    <2>4. ~Brisk(todo[t])
        <3>1. c = todo[t][1]
            BY <1>1, NothingFirst DEF TypedThreads, Idle
        <3> QED
            BY <1>1, <3>1, Kinds DEF Brisk, Setting, Entering
    <2> QED
        BY <1>1, <2>1, <2>2, <2>3, <2>4, PlanLets
<1> QED
    BY <1>2, <1>3

-----------------------------------------------------------------------------
(* The calls of a handler.                                                  *)
LEMMA PlainCallLets ==
    ASSUME Orderly, MemberRules, NEW t \in Threads,
           DoAdvance(t) \/ DoForbid(t) \/ DoOffline(t)
    PROVE  Lets(t)
<1>1. /\ TypedThreads /\ TypedData /\ ~Idle(t) /\ Handles(t) /\ Continue(t, << >>)
      /\ UNCHANGED << chars, eim >> /\ Head(todo[t]).do \in {"advance", "forbid", "offline"}
    BY NextCall DEF Orderly, Shaped, Typed, DoAdvance, DoForbid, DoOffline, Doing, instance
<1>2. \A p \in Players : place'[p] \in {place[p], "offline"}
    BY <1>1 DEF DoAdvance, DoForbid, DoOffline, TypedData
<1>3. \A f \in Instances : \A r \in chars'[f] :
               r \in chars[f] /\ eim'[r] = eim[r] /\ place'[r] \in {place[r], "offline"}
    BY <1>1, <1>2 DEF TypedData
<1>4. Head(todo[t]).do # "unregister"
    BY <1>1
<1> QED
    BY <1>1, <1>3, <1>4, NoCallsBodies, HandlerLets

LEMMA DoWarpLets ==
    ASSUME Orderly, MemberRules, NEW t \in Threads, DoWarp(t)
    PROVE  Lets(t)
<1>1. /\ TypedThreads /\ TypedData /\ ~Idle(t) /\ Handles(t) /\ Continue(t, << >>)
      /\ UNCHANGED << chars, eim >> /\ Head(todo[t]).do = "warp"
      /\ place' = [place EXCEPT ![t] = IF @ = "inside" THEN "outside" ELSE @]
    BY NextCall DEF Orderly, Shaped, Typed, DoWarp, Doing, instance
<1>2. ~Member(t)
    <2> SUFFICES ASSUME Member(t) PROVE FALSE
        OBVIOUS
    <2>1. t \in Players
        BY <1>1 DEF Member, TypedData
    <2>2. Guarded(todo[t])
        BY <2>1 DEF MemberRules, Ways
    <2>3. todo[t] \in Seq(AnyCall) /\ todo[t] # << >>
        BY <1>1 DEF TypedThreads, Idle
    <2> QED
        BY <1>1, <2>2, <2>3, TailForm
<1>3. \A f \in Instances : \A r \in chars'[f] :
               r \in chars[f] /\ eim'[r] = eim[r] /\ place'[r] \in {place[r], "offline"}
    BY <1>1, <1>2 DEF Member, TypedData
<1>4. Head(todo[t]).do # "unregister"
    BY <1>1
<1> QED
    BY <1>1, <1>3, <1>4, NoCallsBodies, HandlerLets

LEMMA DoUnregisterLets ==
    ASSUME Orderly, MembersLive, FirstInstance, MemberRules, NEW t \in Threads,
           DoUnregister(t)
    PROVE  Lets(t)
<1>1. /\ TypedThreads /\ TypedData /\ ~Idle(t) /\ Handles(t) /\ Continue(t, << >>)
      /\ place' = place /\ at[t] # None /\ at[t] \in Instances
      /\ chars' = [chars EXCEPT ![at[t]] = @ \ {t}]
    BY NextCall DEF Orderly, Shaped, Typed, TypedThreads, DoUnregister, Doing
<1>2. \A p \in Players : p # t => eim'[p] = eim[p]
    BY DEF DoUnregister, ClearEvent
<1>3. \A f \in Instances : chars[f] # {} => at[t] = f
    BY <1>1, OnlyInstance
<1>4. \A f \in Instances : t \notin chars'[f] /\ chars'[f] \subseteq chars[f]
    BY <1>1, <1>3 DEF TypedData
<1>5. \A f \in Instances : \A r \in chars'[f] :
               r \in chars[f] /\ eim'[r] = eim[r] /\ place'[r] \in {place[r], "offline"}
    BY <1>1, <1>2, <1>4 DEF TypedData
<1>6. ~Member(t)'
    BY <1>4 DEF Member
<1> QED
    BY <1>1, <1>5, <1>6, NoCallsBodies, HandlerLets

(* What a question to the instance is answered with.                        *)
LEMMA AnswersMade ==
    ASSUME Orderly, NEW t \in Threads, ~Idle(t), Asks(Call(t)), NEW S,
           BranchesIn(todo[t], S)
    PROVE  /\ Handles(t) /\ at[t] # None /\ at[t] \in Instances
           /\ Call(t).yes \in S /\ Call(t).no \in S
           /\ Call(t).yes \in Seq(Handling) /\ Call(t).no \in Seq(Handling)
<1>1. TypedThreads /\ Handles(t) /\ at[t] # None
    BY NextCall DEF Orderly, Shaped, Typed, Asks, Call
<1>2. Call(t).yes \in Seq(Handling) /\ Call(t).no \in Seq(Handling)
    BY <1>1, Answers, NothingFirst DEF Handles, Idle, Call, Asks
<1>3. todo[t] \in Seq(AnyCall) /\ todo[t] # << >>
    BY <1>1 DEF TypedThreads, Idle
<1>4. Call(t).yes \in S /\ Call(t).no \in S
    BY <1>3, TailForm DEF Call
<1> QED
    BY <1>1, <1>2, <1>4 DEF TypedThreads

LEMMA AskedLets ==
    ASSUME Orderly, MembersLive, FirstInstance, MemberRules, NEW t \in Threads,
           DoFewer(t) \/ DoDispose(t)
    PROVE  Lets(t)
<1>1. TypedThreads /\ TypedData /\ ~Idle(t) /\ Asks(Call(t))
    BY DEF Orderly, Typed, DoFewer, DoDispose, Doing, Asks, Call
<1>2. /\ Handles(t) /\ at[t] # None /\ at[t] \in Instances
      /\ Call(t).yes \in Seq(Handling) /\ Call(t).no \in Seq(Handling)
    <2>1. BranchesIn(todo[t], Seq(AnyCall) \cup {todo[t][i].yes : i \in 1 .. Len(todo[t])}
                                 \cup {todo[t][i].no : i \in 1 .. Len(todo[t])})
        BY DEF BranchesIn
    <2> QED
        BY <1>1, <2>1, AnswersMade
<1>3. t \in Players => Call(t).yes \in Bodies /\ Call(t).no \in Bodies
    BY <1>1, AnswersMade DEF MemberRules, Ways
<1>4. PICK calls \in {Call(t).yes, Call(t).no} : Continue(t, calls)
    BY DEF DoFewer, DoDispose
<1>5. \A f \in Instances : chars[f] # {} => at[t] = f
    BY <1>2, OnlyInstance
<1>6. \A f \in Instances : \A r \in chars'[f] :
               r \in chars[f] /\ eim'[r] = eim[r] /\ place'[r] \in {place[r], "offline"}
    <2>1. CASE UNCHANGED << chars, eim, place >>
        BY <2>1, Still
    <2>2. CASE chars' = [chars EXCEPT ![at[t]] = {}]
        <3>1. \A f \in Instances : chars'[f] = {}
            BY <1>1, <1>5, <2>2 DEF TypedData
        <3> QED
            BY <3>1
    <2>3. UNCHANGED << chars, eim, place >> \/ chars' = [chars EXCEPT ![at[t]] = {}]
        BY DEF DoFewer, DoDispose, Dispose, instance
    <2> QED
        BY <2>1, <2>2, <2>3
<1>7. Head(todo[t]).do # "unregister"
    BY <1>1 DEF Asks, Call
<1>8. calls \in Seq(Handling) /\ (t \in Players => calls \in Bodies)
    BY <1>2, <1>3, <1>4
<1> QED
    BY <1>1, <1>2, <1>4, <1>6, <1>7, <1>8, HandlerLets

LEMMA DoDropLets ==
    ASSUME Orderly, MembersLive, FirstInstance, MemberRules, NEW t \in Threads, DoDrop(t)
    PROVE  Lets(t)
<1>1. /\ TypedThreads /\ TypedData /\ ~Idle(t) /\ Handles(t) /\ Continue(t, << >>)
      /\ place' = place /\ at[t] # None /\ at[t] \in Instances
      /\ Head(todo[t]).do = "drop"
    BY NextCall DEF Orderly, Shaped, Typed, TypedThreads, DoDrop, Doing
<1>2. \A f \in Instances : chars[f] # {} => at[t] = f
    BY <1>1, OnlyInstance
<1>3. \/ UNCHANGED << chars, eim >>
      \/ ClearEvent({t}) /\ chars' = [chars EXCEPT ![at[t]] = {}]
      \/ ClearEvent({t}) /\ chars' = [chars EXCEPT ![at[t]] = @ \ {t}]
    BY DEF DoDrop, Dispose, instance
<1>4. \A f \in Instances : \A r \in chars'[f] :
               r \in chars[f] /\ eim'[r] = eim[r] /\ place'[r] \in {place[r], "offline"}
    <2>1. CASE UNCHANGED << chars, eim >>
        BY <1>1, <2>1
    <2>2. CASE ClearEvent({t}) /\ chars' = [chars EXCEPT ![at[t]] = {}]
        <3>1. \A f \in Instances : chars'[f] = {}
            BY <1>1, <1>2, <2>2 DEF TypedData
        <3> QED
            BY <3>1
    <2>3. CASE ClearEvent({t}) /\ chars' = [chars EXCEPT ![at[t]] = @ \ {t}]
        <3>1. \A f \in Instances : t \notin chars'[f] /\ chars'[f] \subseteq chars[f]
            BY <1>1, <1>2, <2>3 DEF TypedData
        <3>2. \A p \in Players : p # t => eim'[p] = eim[p]
            BY <2>3 DEF ClearEvent
        <3> QED
            BY <1>1, <3>1, <3>2 DEF TypedData
    <2> QED
        BY <1>3, <2>1, <2>2, <2>3
<1>5. Head(todo[t]).do # "unregister"
    BY <1>1
<1> QED
    BY <1>1, <1>4, <1>5, NoCallsBodies, HandlerLets

(* A member set, or inside, has the list it had.                            *)
LEMMA OthersWays ==
    ASSUME MemberRules, NEW t \in Players, Others(t), chars' = chars,
           AfterOpen(todo'[t]) \/ Waiting(todo'[t]) \/ Entering(todo'[t])
               \/ Setting(todo'[t])
    PROVE  \A p \in Players : Ways(p)'
<1> SUFFICES ASSUME NEW p \in Players PROVE Ways(p)'
    OBVIOUS
<1>1. CASE p = t
    BY <1>1, RegisteringForm, WayBegins
<1>2. CASE p # t
    <2>1. todo'[p] = todo[p]
        BY <1>2 DEF Others, Threads
    <2> QED
        BY <2>1 DEF MemberRules, Ways, Member
<1> QED
    BY <1>1, <1>2

LEMMA DoSetRules ==
    ASSUME Orderly, MembersLive, FirstInstance, MemberRules, NEW t \in Threads, DoSet(t)
    PROVE  MemberRules'
<1> DEFINE q == todo[t]
           e == at[t]
           p == q[1].who
<1>1. /\ TypedThreads /\ TypedData /\ ~Idle(t) /\ t \in Players
      /\ e \in Instances /\ e # None /\ Setting(q) /\ Registering(q)
    <2>1. Registers(t) /\ at[t] # None /\ Setting(q)
        BY NextCall DEF Orderly, Shaped, DoSet, Doing, Call
    <2> QED
        BY <2>1 DEF Orderly, Typed, TypedThreads, DoSet, Doing, Registers, Setting
<1>2. /\ q \in Seq(AnyCall) /\ q # << >> /\ << >> \o Tail(q) = Tail(q)
      /\ Call(t) = q[1] /\ << >> \in Seq(AnyCall)
    BY <1>1, NothingFirst, EmptySeq DEF Registering, Setting, Call
<1>3. /\ Continue(t, << >>) /\ eim' = [eim EXCEPT ![p] = e]
      /\ UNCHANGED << chars, place >>
    BY <1>2 DEF DoSet, instance
<1>4. p \in Players
    BY <1>1 DEF Setting, Naming
<1>5. Others(t) /\ todo'[t] = Tail(q) /\ Entering(Tail(q)) /\ Tail(q)[1] = q[2]
      /\ Tail(q) # << >> /\ at'[t] = e
    <2>1. Entering(Tail(q)) /\ Tail(q)[1] = q[2]
        BY <1>1, OneCallTail
    <2>2. Tail(q) # << >>
        BY <2>1 DEF Entering, Registering
    <2>3. /\ Others(t) /\ todo'[t] = << >> \o Tail(q)
          /\ at'[t] = IF todo'[t] = << >> THEN None ELSE e
        <3>1. t \in Threads
            BY <1>1 DEF Threads
        <3> QED
            BY <1>1, <1>2, <1>3, <3>1, Continues
    <2> QED
        BY <1>2, <2>1, <2>2, <2>3
<1>6. Tail(q)[1].who = p
    BY <1>1, <1>5 DEF Setting, Enter
<1>7. \A f \in Instances : chars[f] # {} => f = e
    BY <1>1, OnlyInstance
<1> HIDE DEF p, e, q
<1>8. ~Setting(todo'[t]) /\ Entering(todo'[t]) /\ todo'[t][1].who = p
    <2>1. \A x : Entering(x) => ~Setting(x)
        BY DEF Setting, Entering
    <2>2. Entering(todo'[t]) /\ todo'[t][1].who = p
        BY <1>5, <1>6
    <2> QED
        BY <2>1, <2>2
<1>9. \A s \in Players : s # t => todo'[s] = todo[s] /\ at'[s] = at[s]
    BY <1>5 DEF Others, Threads
<1>10. Seen'
    <2> SUFFICES ASSUME NEW f \in Instances, NEW r \in chars'[f], place'[r] = "outside"
                 PROVE  \E s \in Players : at'[s] = f /\ Brings(s, r)'
        BY DEF Seen
    <2>1. PICK s \in Players : at[s] = f /\ Brings(s, r)
        BY <1>3 DEF MemberRules, Seen
    <2>2. CASE s = t
        <3>1. r = p /\ f = e
            BY <2>1, <2>2 DEF Brings, p, q, e
        <3>2. at'[t] = f /\ Brings(t, r)'
            BY <1>5, <1>8, <3>1 DEF Brings
        <3> QED
            BY <1>1, <3>2
    <2>3. CASE s # t
        <3>1. at'[s] = f /\ Brings(s, r)'
            BY <1>9, <2>1, <2>3 DEF Brings
        <3> QED
            BY <3>1
    <2> QED
        BY <2>2, <2>3
<1>11. OwnMember'
    <2> SUFFICES ASSUME NEW f \in Instances, NEW r \in chars'[f],
                        place'[r] = "inside" \/ \E s \in Players : EntersBy(s, r)'
                 PROVE  Owns(r, f)'
        BY DEF OwnMember
    <2>1. f = e /\ r \in chars[f] /\ r \in Players
        BY <1>1, <1>3, <1>7 DEF TypedData
    <2>2. CASE r = p
        <3>1. eim'[r] = f
            BY <1>1, <1>3, <1>4, <2>1, <2>2 DEF TypedData
        <3> QED
            BY <3>1 DEF Owns
    <2>3. CASE r # p
        <3>1. ASSUME NEW s \in Players, EntersBy(s, r)' PROVE EntersBy(s, r)
            BY <1>8, <1>9, <2>3, <3>1 DEF EntersBy
        <3>2. Owns(r, f)
            BY <1>3, <2>1, <3>1 DEF MemberRules, OwnMember
        <3>3. CASE eim[r] = f
            <4>1. eim'[r] = f
                BY <1>1, <1>3, <1>4, <2>1, <2>3, <3>3 DEF TypedData
            <4> QED
                BY <4>1 DEF Owns
        <3>4. CASE Setting(todo[r]) /\ todo[r][1].who = r /\ at[r] = f
            <4>1. r # t
                BY <2>3, <3>4 DEF p, q
            <4> QED
                BY <1>9, <2>1, <3>4, <4>1 DEF Owns
        <3> QED
            BY <3>2, <3>3, <3>4 DEF Owns
    <2> QED
        BY <2>2, <2>3
<1>12. \A r \in Players : Ways(r)'
    BY <1>1, <1>3, <1>5, <1>8, OthersWays
<1> QED
    BY <1>10, <1>11, <1>12 DEF MemberRules

LEMMA DoEnterRules ==
    ASSUME Orderly, MembersLive, FirstInstance, MemberRules, NEW t \in Threads, DoEnter(t)
    PROVE  MemberRules'
<1> DEFINE q == todo[t]
           e == at[t]
           p == q[1].who
<1>1. /\ TypedThreads /\ TypedData /\ ~Idle(t) /\ t \in Players
      /\ e \in Instances /\ e # None /\ Entering(q) /\ Registering(q)
    <2>1. Registers(t) /\ at[t] # None /\ Entering(q)
        BY NextCall DEF Orderly, Shaped, DoEnter, Doing, Call
    <2> QED
        BY <2>1 DEF Orderly, Typed, TypedThreads, DoEnter, Doing, Registers, Entering
<1>2. /\ q \in Seq(AnyCall) /\ q # << >> /\ << >> \o Tail(q) = Tail(q)
      /\ Call(t) = q[1] /\ << >> \in Seq(AnyCall)
    BY <1>1, NothingFirst, EmptySeq DEF Registering, Entering, Call
<1>3. /\ Continue(t, << >>) /\ UNCHANGED << chars, eim >>
      /\ place' = [place EXCEPT ![p] =
             IF @ = "offline" \/ (script.entry = "eim" /\ ~Live(e))
             THEN @ ELSE "inside"]
    BY <1>2 DEF DoEnter
<1>4. p \in Players
    BY <1>1 DEF Entering, Naming
<1>5. Others(t) /\ todo'[t] = Tail(q) /\ Waiting(Tail(q))
    <2>1. Waiting(Tail(q))
        BY <1>1, OneCallTail
    <2> QED
        BY <1>1, <1>2, <1>3, <2>1, Continues
<1>7. \A f \in Instances : chars[f] # {} => f = e
    BY <1>1, OnlyInstance
<1> HIDE DEF p, e, q
<1>8. ~Setting(todo'[t]) /\ ~Entering(todo'[t])
    BY <1>5, KindsApart
<1>9. \A s \in Players : s # t => todo'[s] = todo[s] /\ at'[s] = at[s]
    BY <1>5 DEF Others, Threads
<1>6. \A r \in Players : r # p => place'[r] = place[r]
    BY <1>1, <1>3 DEF TypedData
<1>a. \A f \in Instances : p \in chars[f] => place'[p] # "outside"
    <2> SUFFICES ASSUME NEW f \in Instances, p \in chars[f] PROVE place'[p] # "outside"
        OBVIOUS
    <2>1. f = e /\ Live(e)
        BY <1>7 DEF MembersLive
    <2> QED
        BY <1>1, <1>3, <1>4, <2>1 DEF TypedData
<1>10. Seen'
    <2> SUFFICES ASSUME NEW f \in Instances, NEW r \in chars'[f], place'[r] = "outside"
                 PROVE  \E s \in Players : at'[s] = f /\ Brings(s, r)'
        BY DEF Seen
    <2>0. r # p /\ r \in Players /\ place[r] = "outside"
        BY <1>1, <1>3, <1>6, <1>a DEF TypedData
    <2>1. PICK s \in Players : at[s] = f /\ Brings(s, r)
        BY <1>3, <2>0 DEF MemberRules, Seen
    <2>2. s # t
        BY <2>0, <2>1 DEF Brings, p, q
    <2>3. at'[s] = f /\ Brings(s, r)'
        BY <1>9, <2>1, <2>2 DEF Brings
    <2> QED
        BY <2>3
<1>11. OwnMember'
    <2> SUFFICES ASSUME NEW f \in Instances, NEW r \in chars'[f],
                        place'[r] = "inside" \/ \E s \in Players : EntersBy(s, r)'
                 PROVE  Owns(r, f)'
        BY DEF OwnMember
    <2>1. r \in chars[f] /\ r \in Players
        BY <1>1, <1>3 DEF TypedData
    <2>2. Owns(r, f)
        <3>1. CASE r = p
            <4>1. EntersBy(t, r)
                BY <1>1, <3>1 DEF EntersBy, p, q
            <4> QED
                BY <1>1, <2>1, <4>1 DEF MemberRules, OwnMember
        <3>2. CASE r # p
            <4>1. ASSUME NEW s \in Players, EntersBy(s, r)' PROVE EntersBy(s, r)
                BY <1>8, <1>9, <4>1 DEF EntersBy
            <4> QED
                BY <1>6, <2>1, <3>2, <4>1 DEF MemberRules, OwnMember
        <3> QED
            BY <3>1, <3>2
    <2>3. r # t \/ ~Setting(todo[r])
        BY <1>1 DEF Setting, Entering, q
    <2> QED
        BY <1>3, <1>9, <2>1, <2>2, <2>3 DEF Owns
<1>12. \A r \in Players : Ways(r)'
    BY <1>1, <1>3, <1>5, OthersWays
<1> QED
    BY <1>10, <1>11, <1>12 DEF MemberRules

LEMMA DoRegisterRules ==
    ASSUME Orderly, Orderly', MembersLive, FirstInstance, MemberRules, NEW t \in Threads,
           DoRegister(t)
    PROVE  MemberRules'
<1> DEFINE q == todo[t]
           e == at[t]
           cs == Call(t).rest
<1>1. /\ TypedThreads /\ TypedData /\ ~Idle(t) /\ t \in Players
      /\ e # None /\ e \in Instances /\ Waiting(q) /\ Registering(q)
      /\ q \in Seq(AnyCall) /\ q # << >> /\ Tail(q) = << >> /\ cs \in SUBSET Players
      /\ UNCHANGED << eim, place >>
    <2>1. Registers(t) /\ at[t] # None /\ Waiting(q) /\ Call(t) \in Invitation
        BY NextCall DEF Orderly, Shaped, DoRegister, Doing, Call
    <2>2. Registering(q) /\ q \in Seq(AnyCall) /\ q # << >> /\ Len(q) = 1
        BY <2>1 DEF Waiting, Registering
    <2>3. cs \in SUBSET Players
        BY <2>1 DEF Invitation
    <2> QED
        BY <2>1, <2>2, <2>3, NothingFirst
        DEF Orderly, Typed, TypedThreads, DoRegister, Doing, Registers
<1>2. ~Brisk(q)
    BY <1>1, KindsApart DEF Brisk
<1>3. CASE Continue(t, << >>) /\ UNCHANGED chars
    <2>1. Others(t) /\ todo'[t] = << >> \o Tail(q)
        BY <1>1, <1>3, Continues, EmptySeq
    <2>2. todo'[t] = << >>
        BY <1>1, <2>1, ConcatEmptySeq, EmptySeq
    <2>3. /\ ~Brisk(todo'[t]) /\ Guarded(todo'[t]) /\ BranchesIn(todo'[t], Bodies)
        BY <2>2, NoCall DEF Brisk, Setting, Entering, Registering
    <2>4. Ways(t)'
        BY <2>3, WayBegins
    <2>5. Lets(t)
        BY <1>1, <1>2, <1>3, <2>1, <2>3, <2>4, Still DEF Lets
    <2> QED
        BY <2>5, LetsKeeps
<1>4. ASSUME NEW c \in cs, Continue(t, << Register(cs \ {c}) >>), UNCHANGED chars
      PROVE  MemberRules'
    <2> DEFINE r == << Register(cs \ {c}) >>
    <2>1. r \in Seq(AnyCall) /\ Waiting(r) /\ r # << >>
        BY <1>1, AnInvitation
    <2> HIDE DEF r
    <2>2. Others(t) /\ todo'[t] = r \o Tail(q)
        BY <1>1, <1>4, <2>1, Continues DEF r
    <2>3. todo'[t] = r
        BY <1>1, <2>1, <2>2, ConcatEmptySeq
    <2>4. Lets(t)
        BY <1>1, <1>2, <1>4, <2>1, <2>2, <2>3, PlanLets
    <2> QED
        BY <2>4, LetsKeeps
<1>5. ASSUME NEW c \in cs, NEW p \in Players, Char[p] = c, place[p] = "outside",
             chars' = [chars EXCEPT ![e] = @ \cup {p}],
             Continue(t, << SetEvent(p), Enter(p), Register(cs \ {c}) >>)
      PROVE  MemberRules'
    <2> DEFINE g == Register(cs \ {c})
               r == << SetEvent(p), Enter(p), g >>
    <2>1. g \in Invitation
        BY <1>1, AnInvitation
    <2>2. /\ SetEvent(p) \in Naming("set") /\ SetEvent(p).who = p
          /\ Enter(p) \in Naming("enter")
        BY DEF SetEvent, Enter, Naming
    <2> HIDE DEF g
    <2>3. /\ r \in Seq(AnyCall) /\ Len(r) = 3 /\ r # << >> /\ r[1] = SetEvent(p)
          /\ r[2] = Enter(p) /\ r[3] = g
        BY <2>1, <2>2 DEF AnyCall
    <2>4. Setting(r) /\ r[1].who = p
        BY <2>1, <2>2, <2>3 DEF Setting, Registering
    <2>6. Continue(t, r)
        BY <1>5 DEF g
    <2> HIDE DEF r
    <2>7. /\ Others(t) /\ todo'[t] = r \o Tail(q)
          /\ at'[t] = IF todo'[t] = << >> THEN None ELSE at[t]
        BY <1>1, <2>3, <2>6, Continues
    <2>8. todo'[t] = r /\ at'[t] = e
        BY <1>1, <2>3, <2>7, ConcatEmptySeq
    <2>9. Setting(todo'[t]) /\ todo'[t][1].who = p
        BY <2>4, <2>8
    <2> HIDE DEF q, e, cs
    <2>10. \A s \in Players : s # t => todo'[s] = todo[s] /\ at'[s] = at[s]
        BY <2>7 DEF Others, Threads
    <2>11. \A f \in Instances : \A x \in chars'[f] : x \in chars[f] \/ (x = p /\ f = e)
        BY <1>1, <1>5 DEF TypedData
    <2>12. ASSUME NEW s \in Threads, at[s] # None PROVE at[s] = e
        BY <1>1, <2>12, OnlyInstance DEF e
    (* The thread of another player who enters is not at the instance yet.    *)
    <2>13. p # t => at[p] = None
        <3>1. ASSUME p # t PROVE at'[p] # e
            <4>1. /\ Setting(todo[t])' /\ (todo[t][1].who)' = p /\ (at[t])' = e
                BY <2>8, <2>9
            <4>2. (p = t \/ (Char[p] # Char[t] /\ Fresh(at[t], Char[p])'))
                BY <1>1, <2>9 DEF Orderly, HalfRegistered
            <4> QED
                BY <2>8, <3>1, <4>2 DEF Fresh
        <3> QED
            BY <2>10, <2>12, <3>1 DEF Threads
    <2>14. ASSUME p # t, NEW s \in Players, EntersBy(s, p) PROVE FALSE
        <3>1. s # t
            BY <1>2, <2>14 DEF EntersBy, Brisk, q
        <3>2. at[s] # None
            <4>1. todo[s] \notin Seq(Acting)
                BY <2>14, CalmIsNotRegistering, CalmKinds DEF EntersBy
            <4>2. Registers(s)
                BY <4>1 DEF Orderly, Shaped, Shape, Handles, Threads
            <4>3. ~BeforeOpen(todo[s])
                BY <2>14, KindsApart DEF EntersBy
            <4> QED
                BY <4>2, <4>3 DEF Registers
        <3>3. at[s] = e
            BY <2>12, <3>2 DEF Threads
        <3>4. s # p
            BY <2>13, <2>14, <3>2
        <3>5. Hosts(s)' /\ Hosts(t)' /\ at'[s] = at'[t]
            <4>1. todo'[s] = todo[s] /\ at'[s] = at[s]
                BY <2>10, <3>1
            <4> QED
                BY <2>8, <2>9, <2>14, <3>3, <3>4, <4>1 DEF Hosts, EntersBy
        <3> QED
            BY <1>1, <2>8, <3>1, <3>5 DEF Orderly, OneHost
    <2>15. \A x : \A s \in Players : EntersBy(s, x)' => s # t /\ EntersBy(s, x)
        BY <2>9, <2>10 DEF EntersBy, Setting, Entering
    <2>16. Seen'
        <3> SUFFICES ASSUME NEW f \in Instances, NEW x \in chars'[f], place'[x] = "outside"
                     PROVE  \E s \in Players : at'[s] = f /\ Brings(s, x)'
            BY DEF Seen
        <3>1. CASE x = p /\ f = e
            BY <1>1, <2>8, <2>9, <3>1 DEF Brings
        <3>2. CASE x \in chars[f]
            <4>1. PICK s \in Players : at[s] = f /\ Brings(s, x)
                BY <1>1, <3>2 DEF MemberRules, Seen
            <4>2. s # t
                BY <1>2, <4>1 DEF Brings, Brisk, q
            <4>3. at'[s] = f /\ Brings(s, x)'
                BY <2>10, <4>1, <4>2 DEF Brings
            <4> QED
                BY <4>3
        <3> QED
            BY <2>11, <3>1, <3>2
    <2>17. OwnMember'
        <3> SUFFICES ASSUME NEW f \in Instances, NEW x \in chars'[f],
                            place'[x] = "inside" \/ \E s \in Players : EntersBy(s, x)'
                     PROVE  Owns(x, f)'
            BY DEF OwnMember
        <3>1. CASE x = p /\ f = e
            <4>1. CASE p = t
                BY <2>8, <2>9, <3>1, <4>1 DEF Owns
            <4>2. CASE p # t
                BY <1>1, <1>5, <2>14, <2>15, <3>1, <4>2
            <4> QED
                BY <4>1, <4>2
        <3>2. CASE x \in chars[f]
            <4>1. Owns(x, f) /\ x \in Players
                BY <1>1, <2>15, <3>2 DEF MemberRules, OwnMember, TypedData
            <4>2. x = t => ~Setting(todo[x])
                BY <1>2 DEF Brisk, q
            <4> QED
                BY <1>1, <2>10, <4>1, <4>2 DEF Owns
        <3> QED
            BY <2>11, <3>1, <3>2
    <2>18. ASSUME NEW x \in Players PROVE Ways(x)'
        <3>1. CASE x = t
            BY <2>9, <3>1, RegisteringForm, WayBegins
        <3>2. CASE x # t
            <4>1. todo'[x] = todo[x] /\ BranchesIn(todo[x], Bodies)
                  /\ (Member(x) => Guarded(todo[x]))
                BY <2>10, <3>2 DEF MemberRules, Ways
            <4>2. x # p => (Member(x)' => Member(x))
                BY <2>11 DEF Member
            <4>3. ASSUME x = p PROVE Guarded(todo[x])
                <5>1. Handles(x) \/ Registers(x)
                    BY DEF Orderly, Shaped, Shape, Threads
                <5>2. CASE Registers(x)
                    BY <5>2, RegisteringForm DEF Registers
                <5>3. CASE Handles(x)
                    <6>1. todo[x] \in Seq({Offline})
                        BY <2>13, <3>2, <4>3, <5>3 DEF Handles
                    <6>2. \A i \in 1 .. Len(todo[x]) : todo[x][i].do = "offline"
                        BY <6>1, ElementOfSeq, KindOfCall
                    <6> QED
                        BY <6>2 DEF Guarded
                <5> QED
                    BY <5>1, <5>2, <5>3
            <4> QED
                BY <4>1, <4>2, <4>3 DEF Ways
        <3> QED
            BY <3>1, <3>2
    <2> QED
        BY <2>16, <2>17, <2>18 DEF MemberRules
<1> QED
    BY <1>3, <1>4, <1>5 DEF DoRegister

LEMMA MembersRules ==
    ASSUME Orderly, Orderly', MembersLive, FirstInstance, MemberRules,
           script \in KnowsWayOut, Next
    PROVE  MemberRules'
<1> \A p \in Players : p \in Threads
    BY DEF Threads
<1> \A e \in Instances : e \in Threads
    BY DEF Threads
<1> \A l \in Leaders : l \in Players
    BY LeadersAssumption
<1>1. ASSUME NEW t \in Threads, Lets(t) PROVE MemberRules'
    BY <1>1, LetsKeeps
<1>2. ASSUME NEW t \in Threads, Step(t) PROVE MemberRules'
    <2>1. CASE DoUnregister(t)
        BY <2>1, <1>1, DoUnregisterLets
    <2>2. CASE DoWarp(t)
        BY <2>2, <1>1, DoWarpLets
    <2>3. CASE DoState(t) \/ DoTimer(t)
        BY <2>3, <1>1, SetupCallLets
    <2>4. CASE DoAdvance(t) \/ DoForbid(t) \/ DoOffline(t)
        BY <2>4, <1>1, PlainCallLets
    <2>5. CASE DoDispose(t) \/ DoFewer(t)
        BY <2>5, <1>1, AskedLets
    <2>6. CASE DoRegister(t)
        BY <2>6, DoRegisterRules
    <2>7. CASE DoSet(t)
        BY <2>7, DoSetRules
    <2>8. CASE DoEnter(t)
        BY <2>8, DoEnterRules
    <2>9. CASE DoDrop(t)
        BY <2>9, <1>1, DoDropLets
    <2>10. CASE DoOpen(t)
        BY <2>10, <1>1, DoOpenLets
    <2> QED
        BY <1>2, <2>1, <2>2, <2>3, <2>4, <2>5, <2>6, <2>7, <2>8, <2>9, <2>10 DEF Step
<1>3. CASE \E l \in Leaders : StartEvent(l)
    BY <1>1, <1>3, StartEventLets
<1>4. CASE \E l \in Leaders : Disband(l)
    BY <1>1, <1>4, EntryLets
<1>5. CASE \E l \in Leaders, p \in Players : LeaveParty(l, p)
    BY <1>1, <1>5, EntryLets
<1>6. ASSUME NEW p \in Players, WalkOut(p) PROVE MemberRules'
    BY <1>1, <1>6, WalkOutLets
<1>7. ASSUME NEW p \in Players, Die(p) \/ MonstersDead(p) \/ FinishPQ(p)
      PROVE  MemberRules'
    BY <1>1, <1>7, EntryLets
<1>8. ASSUME NEW p \in Players, Disconnect(p) PROVE MemberRules'
    BY <1>1, <1>8, DisconnectLets
<1>9. ASSUME NEW p \in Players, Login(p) PROVE MemberRules'
    BY <1>1, <1>9, LoginLets
<1>10. ASSUME NEW p \in Players, NEW n \in Names, Rejoin(p, n) PROVE MemberRules'
    BY <1>1, <1>10, RejoinLets
<1>11. ASSUME NEW e \in Instances, Timeout(e) \/ Spawn(e) PROVE MemberRules'
    BY <1>1, <1>11, TimerLets
<1> QED
    BY <1>2, <1>3, <1>4, <1>5, <1>6, <1>7, <1>8, <1>9, <1>10, <1>11 DEF Next

(* While the event has made its first instance, nobody who has left its     *)
(* maps stays a member: whoever is warped out was unregistered before, and  *)
(* whoever is still outside is on the way in.                               *)
THEOREM MembersAreInside == Spec => []MembersInside
<1>1. ASSUME Init PROVE InsideInv
    <2>1. \A t \in Threads : todo[t] = << >>
        BY <1>1 DEF Init
    <2>2. \A p \in Players : Ways(p) /\ ~Brisk(todo[p])
        BY <2>1, NoCall DEF Ways, Brisk, Setting, Entering, Registering, Threads
    <2> QED
        BY <1>1, <2>2 DEF Init, InsideInv, MembersLive, MemberRules, Seen, OwnMember, Live
<1>2. ASSUME Orderly, Orderly', InsideInv, [Next]_vars PROVE InsideInv'
    <2>1. CASE UNCHANGED vars
        <3>1. UNCHANGED << script, phase, chars, eim, place, todo, at >>
            BY <2>1 DEF vars, instance
        <3>2. MembersLive' /\ (FirstInstance' => FirstInstance)
            BY <1>2, <3>1 DEF InsideInv, MembersLive, FirstInstance, Live
        <3>3. MemberRules => MemberRules'
            BY <3>1 DEF MemberRules, Seen, OwnMember, Ways, Member, Brings, Owns, EntersBy
        <3> QED
            BY <1>2, <3>1, <3>2, <3>3 DEF InsideInv
    <2>2. CASE Next
        <3>1. /\ MembersLive' /\ script' = script
              /\ \A e \in Instances : phase[e] # "unborn" => phase'[e] # "unborn"
            BY <1>2, <2>2, InstancesGoOn DEF InsideInv
        <3>2. FirstInstance' => FirstInstance
            BY <3>1 DEF FirstInstance
        <3> QED
            BY <1>2, <2>2, <3>1, <3>2, MembersRules DEF InsideInv
    <2> QED
        BY <1>2, <2>1, <2>2
<1>3. ASSUME Orderly, InsideInv PROVE MembersInside
    <2> SUFFICES ASSUME AtRest, script \in KnowsWayOut, FirstInstance,
                        NEW e \in Instances, NEW p \in chars[e], place[p] = "outside"
                 PROVE  FALSE
        BY DEF MembersInside
    <2>1. PICK t \in Players : Brings(t, p)
        BY <1>3 DEF InsideInv, MemberRules, Seen
    <2>2. todo[t] = << >>
        BY DEF AtRest, Idle, Threads
    <2> QED
        BY <2>1, <2>2 DEF Brings, Setting, Entering, Registering
<1> QED
    BY <1>1, <1>2, <1>3, OrderlyAlways, PTL DEF Spec

-----------------------------------------------------------------------------
(* The lists of a script whose instance lets everybody out in the end.      *)
SoundList(q) == BranchesIn(q, Clean) /\ LetsOut(q) /\ Firm(q)

(* A list that neither takes anybody out nor lets anybody in.               *)
Waits(t) ==
    todo[t] \in Seq(Acting) /\ Stays(todo[t]) /\ BranchesIn(todo[t], Staying)

(* Whoever is inside is a member, or about to leave the maps.               *)
InsideKept ==
    \A p \in Players : place[p] = "inside" =>
        Pending(todo[p]) \/ \E e \in Instances : Live(e) /\ p \in chars[e]

(* A player whom thread t lets in is a member that does nothing meanwhile,  *)
(* or on the way offline.                                                   *)
OnTheWay(t, p) ==
    \/ place[p] = "offline" \/ GoesOffline(todo[p])
    \/ /\ place[p] = "outside" /\ Char[p] \notin ticket[at[t]]
       /\ Live(at[t]) => p \in chars[at[t]]
       /\ at[p] = at[t] => Waits(p)
       /\ \A q \in Players : q # p /\ Char[q] = Char[p] => at[q] # at[t]
LetIn ==
    \A t, p \in Players : EntersBy(t, p) =>
        IF t = p THEN Live(at[t]) => p \in chars[at[t]] ELSE OnTheWay(t, p)
StillOutside ==
    \A t \in Players : Setting(todo[t]) =>
        todo[t][1].who = t \/ place[todo[t][1].who] # "inside"

LeaveRules ==
    /\ \A t \in Threads : SoundList(todo[t])
    /\ InsideKept /\ LetIn /\ StillOutside

-----------------------------------------------------------------------------
(* A step of thread t that lets nobody in: what it makes of the lists, and  *)
(* what it makes of members, places and tickets.                            *)
ListMoves(t) ==
    /\ Others(t) /\ ~Brisk(todo[t]) /\ ~Brisk(todo'[t]) /\ SoundList(todo'[t])
    /\ t \in Players =>
        /\ Pending(todo[t]) => Pending(todo'[t]) \/ place'[t] # "inside"
        /\ GoesOffline(todo[t]) => GoesOffline(todo'[t]) \/ place'[t] = "offline"
        /\ at'[t] # None /\ at'[t] # at[t] => place[t] # "offline"
        /\ place[t] = "outside" /\ (\E s \in Players \ {t} : at[s] = at'[t]) =>
             \/ at'[t] = None
             \/ Waits(t)' \/ GoesOffline(todo'[t])
             \/ at'[t] = at[t] /\ ~Waits(t)
             \/ Char[t] \in ticket[at'[t]]
DataMoves(t) ==
    /\ \A p \in Players : place'[p] = "inside" => place[p] = "inside"
    /\ \A p \in Players : place[p] = "offline" =>
           place'[p] = "offline" \/ ~\E s \in Players : EntersBy(s, p)
    /\ \A e \in Instances : Live(e)' => Live(e) \/ \A s \in Players : at[s] # e
    /\ \A e \in Instances : \A p \in chars[e] :
           IF Live(e)'
           THEN \/ p \in chars'[e]
                \/ p = t /\ at[t] = e /\ ~Stays(todo[t]) /\ Pending(todo'[t])
           ELSE Live(e) => place'[p] # "inside" \/ Pending(todo'[p])
    /\ \A e \in Instances : \A c \in ticket'[e] :
           \/ c \in ticket[e]
           \/ t \in Players /\ at[t] = e /\ c = Char[t] /\ ~Stays(todo[t])

LEMMA MovesKeep ==
    ASSUME Orderly, Typed', LeaveRules, NEW t \in Threads, ListMoves(t), DataMoves(t)
    PROVE  LeaveRules'
<1>0. \A s \in Players : s \in Threads
    BY DEF Threads
<1>1. \A s \in Threads : s # t => todo'[s] = todo[s] /\ at'[s] = at[s]
    BY DEF ListMoves, Others
<1>2. \A s \in Threads : SoundList(todo'[s])
    BY <1>1 DEF ListMoves, LeaveRules
<1>3. ~Brisk(todo[t]) /\ ~Brisk(todo'[t])
    BY DEF ListMoves
<1>4. InsideKept'
    <2> SUFFICES ASSUME NEW p \in Players, place'[p] = "inside", ~Pending(todo'[p])
                 PROVE  \E e \in Instances : Live(e)' /\ p \in chars'[e]
        BY DEF InsideKept
    <2>1. place[p] = "inside"
        BY DEF DataMoves
    <2>2. ~Pending(todo[p])
        <3>1. p = t => ~Pending(todo[p])
            BY DEF ListMoves
        <3> QED
            BY <1>0, <1>1, <3>1
    <2>3. PICK e \in Instances : Live(e) /\ p \in chars[e]
        BY <2>1, <2>2 DEF LeaveRules, InsideKept
    <2>4. Live(e)' /\ p \in chars'[e]
        BY <2>3 DEF DataMoves
    <2> QED
        BY <2>4
<1>5. StillOutside'
    <2> SUFFICES ASSUME NEW s \in Players, Setting(todo'[s]), todo'[s][1].who # s
                 PROVE  place'[todo'[s][1].who] # "inside"
        BY DEF StillOutside
    <2>1. s # t
        BY <1>3 DEF Brisk
    <2>2. todo'[s] = todo[s]
        BY <1>0, <1>1, <2>1
    <2>3. place[todo[s][1].who] # "inside" /\ todo[s][1].who \in Players
        BY <2>2 DEF LeaveRules, StillOutside, Setting, Naming
    <2> QED
        BY <2>2, <2>3 DEF DataMoves
<1>6. ASSUME NEW s \in Players, NEW p \in Players, EntersBy(s, p)'
      PROVE  IF s = p THEN Live(at[s])' => p \in chars'[at'[s]] ELSE OnTheWay(s, p)'
    <2>0. PICK e : e = at[s]
        OBVIOUS
    <2>1. s # t
        BY <1>3, <1>6 DEF EntersBy, Brisk
    <2>2. todo'[s] = todo[s] /\ at'[s] = e /\ at[s] = e /\ EntersBy(s, p)
        BY <1>0, <1>1, <1>6, <2>0, <2>1 DEF EntersBy
    <2>3. e \in Instances
        <3>1. todo[s] \notin Seq(Acting)
            BY <2>2, CalmIsNotRegistering, CalmKinds DEF EntersBy
        <3>2. Registers(s)
            BY <1>0, <3>1 DEF Orderly, Shaped, Shape, Handles
        <3>3. ~BeforeOpen(todo[s])
            BY <2>2, KindsApart DEF EntersBy
        <3> QED
            BY <1>0, <2>2, <3>2, <3>3 DEF Registers, Orderly, Typed, TypedThreads
    <2>4. IF s = p THEN Live(e) => p \in chars[e] ELSE OnTheWay(s, p)
        BY <2>2 DEF LeaveRules, LetIn
    <2>5. phase'[e] = "live" => phase[e] = "live"
        BY <2>2, <2>3 DEF DataMoves, Live
    <2>8. ASSUME phase'[e] = "live", p \in chars[e], t = p => at[t] # e \/ Stays(todo[t])
          PROVE  p \in chars'[e]
        BY <2>3, <2>8 DEF DataMoves, Live
    <2>6. CASE s = p
        <3>1. phase'[e] = "live" => p \in chars'[e]
            BY <2>1, <2>4, <2>5, <2>6, <2>8 DEF Live
        <3> QED
            BY <2>2, <2>6, <3>1 DEF Live
    <2>7. CASE s # p
        <3>1. CASE place[p] = "offline"
            BY <2>2, <2>7, <3>1 DEF DataMoves, OnTheWay
        <3>2. CASE GoesOffline(todo[p])
            <4>1. GoesOffline(todo'[p]) \/ place'[p] = "offline"
                BY <1>0, <1>1, <3>2 DEF ListMoves
            <4> QED
                BY <2>7, <4>1 DEF OnTheWay
        <3>3. CASE /\ place[p] = "outside" /\ Char[p] \notin ticket[e]
                   /\ Live(e) => p \in chars[e]
                   /\ at[p] = e => Waits(p)
                   /\ \A q \in Players : q # p /\ Char[q] = Char[p] => at[q] # e
            <4>1. place'[p] = "outside" \/ place'[p] = "offline"
                BY <3>3 DEF DataMoves, Typed, TypedData
            <4>2. ASSUME t = p, at[t] = e PROVE Stays(todo[t])
                BY <3>3, <4>2 DEF Waits
            <4>3. Char[p] \notin ticket'[e]
                BY <2>3, <3>3, <4>2 DEF DataMoves
            <4>4. phase'[e] = "live" => p \in chars'[e]
                BY <2>5, <2>8, <3>3, <4>2 DEF Live
            <4>5. e # None
                BY <2>3, NoneAssumption
            <4>6. at'[p] = e => Waits(p)' \/ GoesOffline(todo'[p])
                <5>1. CASE p # t
                    BY <1>0, <1>1, <3>3, <5>1 DEF Waits
                <5>2. CASE p = t
                    BY <2>1, <2>2, <3>3, <4>5, <5>2 DEF ListMoves
                <5> QED
                    BY <5>1, <5>2
            <4>7. ASSUME NEW q \in Players, q # p, Char[q] = Char[p] PROVE at'[q] # e
                <5>1. at[q] # e
                    BY <3>3, <4>7
                <5>2. CASE q # t
                    BY <1>0, <1>1, <5>1, <5>2
                <5>3. CASE q = t
                    <6>1. place[q] = "offline"
                        BY <3>3, <4>7 DEF Orderly, OneOnline
                    <6> QED
                        BY <4>5, <5>1, <5>3, <6>1 DEF ListMoves
                <5> QED
                    BY <5>2, <5>3
            <4>8. at'[s] = e
                BY <2>2
            <4>9. OnTheWay(s, p)'
                BY <4>1, <4>3, <4>4, <4>6, <4>7, <4>8 DEF OnTheWay, Live
            <4> QED
                BY <2>7, <4>9
        <3> QED
            BY <2>2, <2>4, <2>7, <3>1, <3>2, <3>3 DEF OnTheWay
    <2> QED
        BY <2>6, <2>7
<1>7. LetIn'
    BY <1>6 DEF LetIn
<1> QED
    BY <1>2, <1>4, <1>5, <1>7 DEF LeaveRules

-----------------------------------------------------------------------------
LEMMA ScriptEvicts ==
    ASSUME script \in Evicting
    PROVE  /\ script.entry = "eim" /\ script.outside \in {Exit, ExitNoState}
           /\ script.disconnected \in {Nothing, Exit, End}
           /\ script.left \in Staying /\ script.disband \in Staying
           /\ script.timeout \in Clean /\ script.killed \in Clean
           /\ script.dead \in Clean /\ script.finish \in Clean
           /\ script.left \in Clean /\ script.disband \in Clean
BY ScriptsForms DEF Evicts, Clean

LEMMA CleanIsSound ==
    ASSUME NEW q \in Clean PROVE SoundList(q)
BY CleanForm DEF SoundList

(* What the two exits say of the calls they start with.                     *)
LEMMA AskingForm ==
    ASSUME NEW n \in Nat, NEW w \in BOOLEAN, NEW y \in Seq(Shallow), NEW z \in Seq(Shallow)
    PROVE  DisposeIf(n, w, y, z) \in AnyCall
<1>1. [do |-> "dispose", below |-> n, warp |-> w, yes |-> y, no |-> z]
          \in [do : {"dispose"}, below : Nat, warp : BOOLEAN,
              yes : Seq(Shallow), no : Seq(Shallow)]
    OBVIOUS
<1>2. DisposeIf(n, w, y, z) \in Asking(Shallow)
    BY <1>1 DEF DisposeIf, Asking
<1> QED
    BY <1>2 DEF AnyCall, Acting, Handling

LEMMA ExitCalls ==
    /\ Unregister \in AnyCall /\ SetState("0") \in AnyCall /\ DropAll \in AnyCall
    /\ DropEmpty \in AnyCall /\ DropQuietly \in AnyCall
<1>1. Unregister \in AnyCall /\ SetState("0") \in AnyCall
    BY DEF AnyCall, Acting, Handling, Plain
<1>2. SetState("0") \in Shallow
    BY DEF Shallow, Plain
<1>3. Nothing \in Seq(Shallow)
    BY EmptySeq DEF Nothing
<1>4. Reset \in Seq(Shallow)
    <2> DEFINE c == SetState("0")
    <2>1. c \in Shallow
        BY <1>2
    <2> HIDE DEF c
    <2>2. << c >> \in Seq(Shallow)
        BY <2>1
    <2> QED
        BY <2>2 DEF c, Reset
<1>5. DropEmpty \in AnyCall
    BY <1>3, <1>4, AskingForm DEF DropEmpty
<1>6. DropQuietly \in AnyCall
    BY <1>3, AskingForm DEF DropQuietly
<1>7. DropAll \in AnyCall
    <2>1. Everyone \in Nat
        BY DEF Everyone
    <2> QED
        BY <1>3, <2>1, AskingForm DEF DropAll
<1> QED
    BY <1>1, <1>5, <1>6, <1>7

LEMMA ExitForm ==
    ASSUME NEW q \in {Nothing, Exit, ExitNoState, End}
    PROVE  q \in Seq(AnyCall) /\ Firm(q) /\ BranchesIn(q, Clean)
<1>1. Nothing \in Clean /\ Reset \in Clean
    BY DEF Clean, Staying
<1>2. CASE q = Exit \/ q = ExitNoState
    <2>1. PICK c \in {DropEmpty, DropQuietly} : q = << Unregister, c >>
        BY <1>2, Spelled
    <2>2. /\ Branch(Unregister, Clean) /\ Branch(c, Clean) /\ Ended(Unregister) /\ Ended(c)
        BY <1>1, CallForm
    <2>3. Firm(q) /\ BranchesIn(q, Clean)
        BY <2>1, <2>2, TwoCalls
    <2>4. Unregister \in AnyCall /\ c \in AnyCall
        BY ExitCalls
    <2> DEFINE u == Unregister
    <2>5. u \in AnyCall /\ q = << u, c >>
        BY <2>1, <2>4
    <2> HIDE DEF u
    <2>6. << u, c >> \in Seq(AnyCall)
        BY <2>4, <2>5
    <2> QED
        BY <2>3, <2>5, <2>6
<1>3. CASE q = Nothing \/ q = End
    <2>1. q \in Clean
        BY <1>3 DEF Clean, Staying
    <2>2. q \in Seq(AnyCall)
        <3> DEFINE a == DropAll
                   b == SetState("0")
        <3>1. a \in AnyCall /\ b \in AnyCall /\ (q = << >> \/ q = << a, b >>)
            BY <1>3, ExitCalls, Spelled
        <3> HIDE DEF a, b
        <3>2. << a, b >> \in Seq(AnyCall)
            BY <3>1
        <3> QED
            BY <3>1, <3>2, EmptySeq
    <2> QED
        BY <2>1, <2>2, CleanForm
<1> QED
    BY <1>2, <1>3

LEMMA WayOutSound ==
    ASSUME NEW q \in {Nothing, Exit, ExitNoState}
    PROVE  SoundList(q \o << WarpOut >>)
<1>1. q \in Seq(AnyCall) /\ Firm(q) /\ BranchesIn(q, Clean)
    BY ExitForm
<1>2. WarpOut \in AnyCall /\ Away(WarpOut) /\ << WarpOut >> \in Seq(AnyCall)
    BY KindOfCall DEF Away, AnyCall, Acting, Handling, Plain
<1> DEFINE w == WarpOut
<1>3. w.do = "warp"
    BY KindOfCall
<1>4. w \in AnyCall /\ Away(w) /\ << w >> \in Seq(AnyCall)
    BY <1>2
<1> HIDE DEF w
<1>5. Firm(<< w >>) /\ BranchesIn(<< w >>, Clean)
    BY <1>3, OneCall DEF Ended, Branch, Asks
<1>6. LetsOut(q \o << w >>)
    BY <1>1, <1>4, AwayAtLast
<1>7. Firm(q \o << w >>) /\ BranchesIn(q \o << w >>, Clean)
    BY <1>1, <1>4, <1>5, JoinForm
<1> QED
    BY <1>6, <1>7 DEF SoundList, w

LEMMA GoneSound ==
    ASSUME NEW q \in {Nothing, Exit, ExitNoState, End}
    PROVE  SoundList(q \o << Drop, Offline >>) /\ GoesOffline(q \o << Drop, Offline >>)
<1>1. q \in Seq(AnyCall) /\ Firm(q) /\ BranchesIn(q, Clean)
    BY ExitForm
<1>2. /\ << Drop, Offline >> \in Seq(AnyCall) /\ Firm(<< Drop, Offline >>)
      /\ BranchesIn(<< Drop, Offline >>, Clean) /\ GoesOffline(<< Drop, Offline >>)
    BY DropOfflineForm
<1>3. /\ Firm(q \o << Drop, Offline >>) /\ BranchesIn(q \o << Drop, Offline >>, Clean)
      /\ GoesOffline(q \o << Drop, Offline >>)
    BY <1>1, <1>2, JoinForm
<1> DEFINE d == Drop
           o == Offline
<1>4. d \in AnyCall /\ o \in AnyCall /\ Away(o)
    BY KindOfCall DEF AnyCall, Acting, Away
<1> HIDE DEF d, o
<1>5. << d >> \in Seq(AnyCall) /\ << o >> \in Seq(AnyCall)
    BY <1>4
<1>6. q \o << d >> \in Seq(AnyCall)
    BY <1>1, <1>5, ConcatProperties
<1>7. q \o << d, o >> = (q \o << d >>) \o << o >>
    <2>1. << d >> \o << o >> = << d, o >>
        BY OneAndOne
    <2>2. (q \o << d >>) \o << o >> = q \o (<< d >> \o << o >>)
        BY <1>1, <1>5, ConcatAssociative
    <2> QED
        BY <2>1, <2>2
<1>8. LetsOut((q \o << d >>) \o << o >>)
    BY <1>4, <1>6, AwayAtLast
<1> QED
    BY <1>3, <1>7, <1>8 DEF SoundList, d, o

-----------------------------------------------------------------------------
(* The lists of a step that lets nobody in.                                 *)
LEMMA IdleForm ==
    ASSUME NEW t, Idle(t)
    PROVE  ~Pending(todo[t]) /\ ~GoesOffline(todo[t]) /\ Waits(t)
<1>1. << >> \in Seq(Acting)
    BY EmptySeq
<1> QED
    BY <1>1, NoCall DEF Idle, Pending, GoesOffline, Waits

LEMMA BeginMoves ==
    ASSUME Orderly, NEW p \in Threads, Idle(p),
           NEW e \in Instances \cup {None},
           NEW calls \in Seq(Acting), Begin(p, e, calls), SoundList(calls),
           p \in Players => /\ place[p] # "offline"
                            /\ \/ place[p] = "inside" \/ GoesOffline(calls)
                               \/ Stays(calls) /\ BranchesIn(calls, Staying)
    PROVE  ListMoves(p)
<1>1. TypedThreads /\ calls \in Seq(AnyCall) /\ todo[p] \in Seq(Acting)
    BY Wider, IdleCalm DEF Orderly, Typed
<1>2. Others(p) /\ todo'[p] = calls
    BY <1>1, Begins
<1>3. ~Brisk(todo[p]) /\ ~Brisk(todo'[p])
    BY <1>1, <1>2, CalmIsNotRegistering, CalmKinds DEF Brisk
<1>4. ~Pending(todo[p]) /\ ~GoesOffline(todo[p])
    BY IdleForm
<1>5. p \in Players /\ place[p] # "inside" => Waits(p)' \/ GoesOffline(todo'[p])
    BY <1>2 DEF Waits
<1>6. "inside" # "outside"
    OBVIOUS
<1> QED
    BY <1>2, <1>3, <1>4, <1>5, <1>6 DEF ListMoves

LEMMA NoBeginMoves ==
    ASSUME Orderly, LeaveRules, NEW p \in Threads, Idle(p), UNCHANGED << todo, at >>
    PROVE  ListMoves(p)
<1>1. TypedThreads /\ todo[p] \in Seq(Acting)
    BY IdleCalm DEF Orderly, Typed
<1>2. ~Brisk(todo[p])
    BY <1>1, CalmIsNotRegistering, CalmKinds DEF Brisk
<1>3. ~Pending(todo[p]) /\ ~GoesOffline(todo[p]) /\ Waits(p)
    BY IdleForm
<1>4. Waits(p)'
    BY <1>3 DEF Waits
<1> QED
    BY <1>2, <1>3, <1>4 DEF ListMoves, Others, LeaveRules

LEMMA PlanMoves ==
    ASSUME NEW t \in Threads, Others(t), ~Brisk(todo[t]),
           ~Pending(todo[t]) /\ ~GoesOffline(todo[t]),
           BeforeOpen(todo'[t]) \/ AfterOpen(todo'[t]) \/ Waiting(todo'[t]),
           place[t] # "offline",
           \/ at'[t] = None
           \/ at'[t] = at[t] /\ ~Waits(t)
           \/ Char[t] \in ticket[at'[t]]
           \/ \A s \in Players \ {t} : at[s] # at'[t]
    PROVE  ListMoves(t)
<1>1. ~Brisk(todo'[t])
    BY KindsApart DEF Brisk
<1>2. SoundList(todo'[t])
    BY RegisteringForm DEF SoundList
<1> QED
    BY <1>1, <1>2 DEF ListMoves

(* A handler goes on: the calls follow an answer, or are none.              *)
LEMMA GoOnMoves ==
    ASSUME Orderly, NEW t \in Threads, ~Idle(t), Handles(t), SoundList(todo[t]),
           NEW calls \in Seq(Handling), calls \in Clean,
           BranchesIn(todo[t], Staying) => calls \in Staying,
           Continue(t, calls),
           t \in Players =>
               /\ Head(todo[t]).do = "warp" => place'[t] # "inside"
               /\ Head(todo[t]).do = "offline" => place'[t] = "offline"
    PROVE  /\ ListMoves(t)
           /\ Head(todo[t]).do \in {"unregister", "drop"} =>
                  ~Stays(todo[t]) /\ Pending(todo'[t])
<1> DEFINE q == todo[t]
<1>1. /\ TypedThreads /\ q \in Seq(AnyCall) /\ q # << >> /\ Tail(q) \in Seq(AnyCall)
      /\ calls \in Seq(AnyCall)
    BY NothingFirst, Wider DEF Orderly, Typed, TypedThreads, Idle
<1>2. /\ Others(t) /\ todo'[t] = calls \o Tail(q)
      /\ at'[t] = IF todo'[t] = << >> THEN None ELSE at[t]
    BY <1>1, Continues
<1>3. q \in Seq(Acting) /\ calls \o Tail(q) \in Seq(Acting)
    <2>1. q \in Seq(Acting) /\ Tail(q) \in Seq(Acting) /\ calls \in Seq(Acting)
        BY Wider, NothingFirst DEF Handles, Idle
    <2> QED
        BY <2>1, ConcatProperties
<1>4. ~Brisk(q) /\ ~Brisk(todo'[t])
    BY <1>2, <1>3, CalmIsNotRegistering, CalmKinds DEF Brisk
<1>5. BranchesIn(calls, Clean) /\ LetsOut(calls) /\ Firm(calls)
    BY CleanForm
<1>6. /\ BranchesIn(q, Clean) => BranchesIn(Tail(q), Clean)
      /\ LetsOut(q) => LetsOut(Tail(q))
      /\ Firm(q) => Firm(Tail(q))
      /\ Stays(q) => Stays(Tail(q)) /\ Head(q).do \notin {"unregister", "drop"}
      /\ Pending(q) => Away(Head(q)) \/ Pending(Tail(q))
      /\ GoesOffline(q) => Head(q).do = "offline" \/ GoesOffline(Tail(q))
      /\ LetsOut(q) /\ Head(q).do \in {"unregister", "drop"} => Pending(Tail(q))
    BY <1>1, TailForm
<1>7. BranchesIn(q, Staying) => BranchesIn(Tail(q), Staying)
    BY <1>1, TailForm
<1>8. SoundList(todo'[t])
    BY <1>1, <1>2, <1>5, <1>6, JoinForm DEF SoundList
<1>9. /\ Pending(Tail(q)) => Pending(todo'[t])
      /\ GoesOffline(Tail(q)) => GoesOffline(todo'[t])
    BY <1>1, <1>2, JoinForm
<1>10. ASSUME Waits(t) PROVE Waits(t)'
    <2>1. Stays(calls) /\ BranchesIn(calls, Staying)
        BY <1>10, StayingForm DEF Waits
    <2>2. Stays(Tail(q)) /\ BranchesIn(Tail(q), Staying)
        BY <1>6, <1>7, <1>10 DEF Waits
    <2>3. Stays(calls \o Tail(q)) /\ BranchesIn(calls \o Tail(q), Staying)
        BY <1>1, <2>1, <2>2, JoinForm
    <2> QED
        BY <1>2, <1>3, <2>3 DEF Waits
<1>11. at'[t] # None => at'[t] = at[t]
    BY <1>2
<1>12. "offline" # "inside"
    OBVIOUS
<1>13. t \in Players =>
          /\ Pending(q) => Pending(todo'[t]) \/ place'[t] # "inside"
          /\ GoesOffline(q) => GoesOffline(todo'[t]) \/ place'[t] = "offline"
    BY <1>6, <1>9, <1>12 DEF Away
<1>14. ListMoves(t)
    BY <1>2, <1>4, <1>8, <1>10, <1>11, <1>13 DEF ListMoves
<1> QED
    BY <1>6, <1>9, <1>14 DEF SoundList

-----------------------------------------------------------------------------
(* The entry points, while nobody changes place.                            *)
LEMMA StillData ==
    ASSUME UNCHANGED << phase, chars, ticket, place >>, NEW t
    PROVE  DataMoves(t)
BY DEF DataMoves, Live

LEMMA EntryMoves ==
    ASSUME Orderly, LeaveRules, script \in Evicting, NEW p \in Players,
           Die(p) \/ MonstersDead(p) \/ FinishPQ(p)
               \/ (\E l \in Leaders : LeaveParty(l, p)) \/ Disband(p)
    PROVE  ListMoves(p) /\ DataMoves(p)
<1>1. TypedThreads /\ TypedData /\ p \in Threads /\ Idle(p) /\ place[p] # "offline"
    <2>1. "inside" # "offline"
        OBVIOUS
    <2> QED
        BY <2>1 DEF Orderly, Typed, Threads, Die, MonstersDead, FinishPQ, LeaveParty, Disband
<1>2. DataMoves(p)
    <2>1. UNCHANGED << phase, chars, ticket, place >>
        BY DEF Die, MonstersDead, FinishPQ, LeaveParty, Disband, instance
    <2> QED
        BY <2>1, StillData
<1>3. \/ UNCHANGED << todo, at >>
      \/ In(p) /\ \E calls \in {script.dead, script.killed, script.finish} :
                      place[p] = "inside" /\ Begin(p, eim[p], calls)
      \/ In(p) /\ \E calls \in {script.left, script.disband} : Begin(p, eim[p], calls)
    BY DEF Die, MonstersDead, FinishPQ, LeaveParty, Disband
<1>4. CASE UNCHANGED << todo, at >>
    BY <1>1, <1>2, <1>4, NoBeginMoves
<1>5. ASSUME NEW calls \in {script.dead, script.killed, script.finish, script.left,
                            script.disband},
             place[p] = "inside" \/ calls \in {script.left, script.disband},
             Begin(p, eim[p], calls)
      PROVE  ListMoves(p)
    <2>1. calls \in Seq(Acting) /\ calls \in Clean
        BY <1>1, ScriptEvicts, ScriptCalls, Wider
    <2>2. SoundList(calls)
        BY <2>1, CleanIsSound
    <2>3. calls \in {script.left, script.disband} => Stays(calls) /\ BranchesIn(calls, Staying)
        BY ScriptEvicts, StayingForm
    <2>4. eim[p] \in Instances \cup {None}
        BY <1>1 DEF TypedData
    <2> QED
        BY <1>1, <1>5, <2>1, <2>2, <2>3, <2>4, BeginMoves
<1> QED
    BY <1>2, <1>3, <1>4, <1>5

LEMMA WalkOutMoves ==
    ASSUME Orderly, LeaveRules, script \in Evicting, NEW p \in Players, WalkOut(p)
    PROVE  ListMoves(p) /\ DataMoves(p)
<1>1. TypedThreads /\ TypedData /\ p \in Threads /\ Idle(p) /\ place[p] = "inside"
      /\ UNCHANGED << phase, chars, ticket >>
    BY DEF Orderly, Typed, Threads, WalkOut, instance
<1>2. CASE In(p)
    <2>1. Nothing \o << WarpOut >> = << WarpOut >>
        <3> DEFINE w == WarpOut
        <3> HIDE DEF w
        <3>1. << >> \o << w >> = << w >>
            OBVIOUS
        <3> QED
            BY <3>1 DEF Nothing, w
    <2>2. PICK q \in {Nothing, Exit, ExitNoState} :
              Begin(p, eim[p], q \o << WarpOut >>) /\ q \in Seq(Handling)
        <3>1. script.outside \in Seq(Handling) /\ Nothing \in Seq(Handling)
            BY <1>1, ScriptCalls DEF Nothing
        <3> QED
            BY <1>2, <2>1, <3>1, ScriptEvicts DEF WalkOut
    <2>3. q \o << WarpOut >> \in Seq(Acting) /\ eim[p] \in Instances \cup {None}
        <3>1. << WarpOut >> \in Seq(Handling)
            BY DEF Handling, Plain
        <3>2. q \o << WarpOut >> \in Seq(Handling)
            BY <2>2, <3>1, ConcatProperties
        <3> QED
            BY <1>1, <3>2, Wider DEF TypedData
    <2>4. place' = place /\ place[p] # "offline"
        BY <1>1, <1>2 DEF WalkOut
    <2> DEFINE calls == q \o << WarpOut >>
    <2>5. calls \in Seq(Acting) /\ SoundList(calls) /\ Begin(p, eim[p], calls)
        BY <2>2, <2>3, WayOutSound
    <2> HIDE DEF calls
    <2>6. ListMoves(p)
        BY <1>1, <2>3, <2>4, <2>5, BeginMoves
    <2> QED
        BY <1>1, <2>4, <2>6, StillData
<1>3. CASE ~In(p)
    <2>1. UNCHANGED << todo, at >> /\ place' = [place EXCEPT ![p] = "outside"]
        BY <1>3 DEF WalkOut
    <2>2. DataMoves(p)
        BY <1>1, <2>1 DEF DataMoves, Live, TypedData
    <2> QED
        BY <1>1, <2>1, <2>2, NoBeginMoves
<1> QED
    BY <1>2, <1>3

LEMMA DisconnectMoves ==
    ASSUME Orderly, script \in Evicting, NEW p \in Players, Disconnect(p)
    PROVE  ListMoves(p) /\ DataMoves(p)
<1>1. TypedThreads /\ TypedData /\ p \in Threads /\ Idle(p) /\ place[p] # "offline"
      /\ UNCHANGED << phase, chars, ticket, place >>
    BY DEF Orderly, Typed, Threads, Disconnect, instance
<1>2. PICK calls \in {script.disconnected \o << Drop, Offline >>, << Offline >>},
            e \in {eim[p], None} : Begin(p, e, calls)
    BY DEF Disconnect
<1>3. calls \in Seq(Acting)
    <2>1. script.disconnected \in Seq(Acting)
        BY <1>1, ScriptCalls, Wider
    <2>2. << Drop, Offline >> \in Seq(Acting) /\ << Offline >> \in Seq(Acting)
        BY DEF Acting
    <2> QED
        BY <2>1, <2>2, ConcatProperties
<1>4. SoundList(calls) /\ GoesOffline(calls)
    <2>1. SoundList(script.disconnected \o << Drop, Offline >>)
          /\ GoesOffline(script.disconnected \o << Drop, Offline >>)
        <3>1. script.disconnected \in {Nothing, Exit, ExitNoState, End}
            BY ScriptEvicts
        <3> QED
            BY <3>1, GoneSound
    <2>2. SoundList(<< Offline >>) /\ GoesOffline(<< Offline >>)
        BY DropOfflineForm DEF SoundList
    <2> QED
        BY <2>1, <2>2
<1>5. e \in Instances \cup {None}
    BY <1>1 DEF TypedData
<1>6. ListMoves(p)
    BY <1>1, <1>2, <1>3, <1>4, <1>5, BeginMoves
<1> QED
    BY <1>1, <1>6, StillData

LEMMA LoginMoves ==
    ASSUME Orderly, LeaveRules, NEW p \in Players, Login(p)
    PROVE  ListMoves(p) /\ DataMoves(p)
<1>1. TypedData /\ p \in Threads /\ Idle(p) /\ UNCHANGED << todo, at, phase, chars, ticket >>
      /\ place' = [place EXCEPT ![p] = "outside"] /\ place[p] = "offline"
    BY DEF Orderly, Typed, Threads, Login, instance
<1>2. ASSUME NEW s \in Players, EntersBy(s, p) PROVE FALSE
    <2>1. todo[s][1] = Enter(p) /\ 1 \in 1 .. Len(todo[s])
        BY <1>2 DEF EntersBy, Entering, Naming, Enter
    <2> QED
        BY <2>1 DEF Login
<1>3. ListMoves(p)
    BY <1>1, NoBeginMoves
<1>4. /\ \A r \in Players : r # p => place'[r] = place[r]
      /\ place'[p] = "outside"
    BY <1>1 DEF TypedData
<1>5. \A r \in Players : place'[r] = "inside" => place[r] = "inside"
    BY <1>4
<1>6. \A r \in Players : place[r] = "offline" =>
          place'[r] = "offline" \/ ~\E s \in Players : EntersBy(s, r)
    BY <1>2, <1>4
<1>7. DataMoves(p)
    BY <1>1, <1>5, <1>6 DEF DataMoves, Live
<1> QED
    BY <1>3, <1>7

LEMMA TimerMoves ==
    ASSUME Orderly, LeaveRules, script \in Evicting, NEW e \in Instances,
           Timeout(e) \/ Spawn(e)
    PROVE  ListMoves(e) /\ DataMoves(e)
<1>1. TypedThreads /\ TypedData /\ e \in Threads /\ e \notin Players /\ Idle(e)
      /\ UNCHANGED << phase, chars, ticket, place >>
    BY PlayersAssumption DEF Orderly, Typed, Threads, Timeout, Spawn
<1>2. CASE UNCHANGED << todo, at >>
    BY <1>1, <1>2, StillData, NoBeginMoves
<1>3. CASE Begin(e, e, script.timeout)
    <2>1. script.timeout \in Seq(Acting) /\ SoundList(script.timeout)
        BY <1>1, ScriptEvicts, CleanIsSound, ScriptCalls, Wider
    <2> QED
        BY <1>1, <1>3, <2>1, StillData, BeginMoves
<1> QED
    BY <1>2, <1>3 DEF Timeout, Spawn

LEMMA StartEventMoves ==
    ASSUME Orderly, NEW l \in Leaders, StartEvent(l)
    PROVE  ListMoves(l) /\ DataMoves(l)
<1> DEFINE q == script.setup \o << Register(party[l]) >>
<1>1. /\ TypedThreads /\ TypedData /\ l \in Threads /\ Idle(l) /\ place[l] # "offline"
      /\ UNCHANGED << phase, chars, ticket, place >>
    <2>1. "outside" # "offline"
        OBVIOUS
    <2> QED
        BY <2>1, LeadersAssumption DEF Orderly, Typed, Threads, StartEvent, instance
<1>2. script.setup \in Setups /\ party[l] \in SUBSET Players
    BY <1>1, ScriptCalls DEF TypedData
<1>3. q \in Seq(AnyCall) /\ BeforeOpen(q)
    BY <1>2, SetupThenRegister
<1>4. Begin(l, None, q)
    BY DEF StartEvent
<1> HIDE DEF q
<1>5. Others(l) /\ todo'[l] = q /\ at'[l] = None
    BY <1>1, <1>3, <1>4, Begins
<1>6. ~Brisk(todo[l]) /\ ~Pending(todo[l]) /\ ~GoesOffline(todo[l])
    BY <1>1, IdleForm, IdleCalm, CalmKinds DEF Brisk
<1>7. ListMoves(l)
    BY <1>1, <1>3, <1>5, <1>6, PlanMoves
<1> QED
    BY <1>1, <1>7, StillData

LEMMA RejoinMoves ==
    ASSUME Orderly, NEW p \in Players, NEW n \in Names, Rejoin(p, n)
    PROVE  ListMoves(p) /\ DataMoves(p)
<1> DEFINE q == << Register({Char[p]}) >>
<1>1. /\ TypedThreads /\ TypedData /\ p \in Threads /\ Idle(p) /\ place[p] # "offline"
      /\ UNCHANGED << phase, chars, ticket, place >>
      /\ names[n] \in Instances \cup {None} /\ Char[p] \in ticket[names[n]]
    <2>1. "outside" # "offline"
        OBVIOUS
    <2> QED
        BY <2>1 DEF Orderly, Typed, TypedData, Threads, Rejoin, instance
<1>2. {Char[p]} \in SUBSET Players
    BY CharAssumption
<1>3. q \in Seq(AnyCall) /\ Waiting(q)
    BY <1>2, AnInvitation
<1>4. Begin(p, names[n], q)
    BY DEF Rejoin
<1>8. q # << >>
    OBVIOUS
<1> HIDE DEF q
<1>5. Others(p) /\ todo'[p] = q /\ at'[p] = names[n]
    BY <1>1, <1>3, <1>4, <1>8, Begins
<1>6. ~Brisk(todo[p]) /\ ~Pending(todo[p]) /\ ~GoesOffline(todo[p])
    BY <1>1, IdleForm, IdleCalm, CalmKinds DEF Brisk
<1>7. ListMoves(p)
    BY <1>1, <1>3, <1>5, <1>6, PlanMoves
<1> QED
    BY <1>1, <1>7, StillData

-----------------------------------------------------------------------------
LEMMA NothingNext ==
    /\ << >> \in Clean /\ << >> \in Staying /\ << >> \in Seq(Handling)
    /\ SoundList(<< >>) /\ ~Brisk(<< >>)
<1>1. << >> \in Clean /\ << >> \in Staying /\ << >> \in Seq(Handling)
    BY Spelled, EmptySeq DEF Clean, Staying
<1>2. SoundList(<< >>)
    BY <1>1, CleanIsSound
<1>3. ~Brisk(<< >>)
    BY DEF Brisk, Setting, Entering, Registering
<1> QED
    BY <1>1, <1>2, <1>3

(* Members and instances stay, players leave the maps and tickets expire.   *)
LEMMA LeavingData ==
    ASSUME NEW t, UNCHANGED << phase, chars >>,
           \A e \in Instances : ticket'[e] \subseteq ticket[e],
           \A p \in Players : \/ place'[p] \in {place[p], "offline"}
                              \/ place[p] = "inside" /\ place'[p] = "outside"
    PROVE  DataMoves(t)
<1>1. "inside" # "offline" /\ "outside" # "inside"
    OBVIOUS
<1>2. /\ \A p \in Players : place'[p] = "inside" => place[p] = "inside"
      /\ \A p \in Players : place[p] = "offline" => place'[p] = "offline"
    BY <1>1
<1> QED
    BY <1>2 DEF DataMoves, Live

LEMMA DoOpenMoves ==
    ASSUME Orderly, NEW l \in Threads, DoOpen(l)
    PROVE  ListMoves(l) /\ DataMoves(l)
<1>1. /\ TypedThreads /\ TypedData /\ ~Idle(l) /\ Registers(l) /\ at[l] = None
      /\ AfterOpen(Tail(todo[l])) /\ UNCHANGED << chars, ticket, place >>
    BY NextCall DEF Orderly, Shaped, Typed, DoOpen, Doing
<1>2. PICK e \in Instances :
          /\ phase[e] = "unborn" /\ phase' = [phase EXCEPT ![e] = "live"]
          /\ todo' = [todo EXCEPT ![l] = Tail(@)] /\ at' = [at EXCEPT ![l] = e]
    BY DEF DoOpen
<1>3. Others(l) /\ todo'[l] = Tail(todo[l]) /\ at'[l] = e
    BY <1>1, <1>2 DEF Others, TypedThreads
<1>4. /\ ~Brisk(todo[l]) /\ ~Pending(todo[l]) /\ ~GoesOffline(todo[l])
      /\ place[l] # "offline"
    BY <1>1, KindsApart, RegisteringForm DEF Registers, Brisk
<1>5. \A s \in Players : at[s] # e
    BY <1>2 DEF Orderly, UnbornUnknown, Threads
<1>6. ListMoves(l)
    BY <1>1, <1>3, <1>4, <1>5, PlanMoves
<1>7. DataMoves(l)
    BY <1>1, <1>2, <1>5 DEF DataMoves, Live, TypedData
<1> QED
    BY <1>6, <1>7

LEMMA SetupCallMoves ==
    ASSUME Orderly, LeaveRules, NEW t \in Threads, DoState(t) \/ DoTimer(t)
    PROVE  ListMoves(t) /\ DataMoves(t)
<1> DEFINE c == Head(todo[t])
<1>1. /\ TypedThreads /\ ~Idle(t) /\ Shape(t) /\ Continue(t, << >>)
      /\ UNCHANGED << phase, chars, ticket, place >> /\ c.do \in {"state", "timer"}
    BY DEF Orderly, Shaped, Typed, DoState, DoTimer, Doing, instance
<1>2. CASE Handles(t)
    <2>1. c.do \notin {"warp", "offline"} /\ SoundList(todo[t])
        BY <1>1 DEF LeaveRules
    <2>2. ListMoves(t)
        BY <1>1, <1>2, <2>1, NothingNext, GoOnMoves
    <2> QED
        BY <1>1, <2>2, StillData
<1>3. CASE ~Handles(t)
    <2>1. /\ Registers(t) /\ Len(todo[t]) # 1
          /\ BeforeOpen(Tail(todo[t])) \/ AfterOpen(Tail(todo[t]))
        BY <1>1, <1>3, NextCall
    <2>2. /\ Others(t) /\ todo'[t] = << >> \o Tail(todo[t])
          /\ at'[t] = None \/ at'[t] = at[t]
        BY <1>1, Continues, EmptySeq
    <2>3. << >> \o Tail(todo[t]) = Tail(todo[t])
        BY <1>1, NothingFirst DEF TypedThreads, Idle
    <2>4. ~Brisk(todo[t])
        <3>1. c = todo[t][1]
            BY <1>1, NothingFirst DEF TypedThreads, Idle
        <3> QED
            BY <1>1, <3>1, Kinds DEF Brisk, Setting, Entering
    <2>5. /\ ~Pending(todo[t]) /\ ~GoesOffline(todo[t]) /\ place[t] # "offline"
        BY <2>1, RegisteringForm DEF Registers
    <2>6. ~Waits(t)
        <3>1. Registering(todo[t])
            BY <2>1 DEF Registers, BeforeOpen, AfterOpen, Waiting, Entering, Setting
        <3> QED
            BY <3>1, CalmIsNotRegistering DEF Waits
    <2>7. ListMoves(t)
        BY <2>1, <2>2, <2>3, <2>4, <2>5, <2>6, PlanMoves
    <2> QED
        BY <1>1, <2>7, StillData
<1> QED
    BY <1>2, <1>3

LEMMA PlainCallMoves ==
    ASSUME Orderly, LeaveRules, NEW t \in Threads,
           DoAdvance(t) \/ DoForbid(t) \/ DoOffline(t) \/ DoWarp(t)
    PROVE  ListMoves(t) /\ DataMoves(t)
<1>1. /\ TypedThreads /\ TypedData /\ ~Idle(t) /\ Handles(t) /\ Continue(t, << >>)
      /\ UNCHANGED << phase, chars >> /\ SoundList(todo[t])
    BY NextCall
    DEF Orderly, Shaped, Typed, DoAdvance, DoForbid, DoOffline, DoWarp, Doing, instance,
        LeaveRules
<1>2. \/ Head(todo[t]).do \in {"advance", "forbid"} /\ place' = place
      \/ Head(todo[t]).do = "offline" /\ place' = [place EXCEPT ![t] = "offline"]
      \/ /\ Head(todo[t]).do = "warp"
         /\ place' = [place EXCEPT ![t] = IF @ = "inside" THEN "outside" ELSE @]
    BY DEF DoAdvance, DoForbid, DoOffline, DoWarp, Doing
<1>3. \A e \in Instances : ticket'[e] \subseteq ticket[e]
    BY <1>1 DEF DoAdvance, DoForbid, DoOffline, DoWarp, TypedData, instance
<1>4. t \in Players => /\ Head(todo[t]).do = "warp" => place'[t] # "inside"
                       /\ Head(todo[t]).do = "offline" => place'[t] = "offline"
    <2>1. "outside" # "inside"
        OBVIOUS
    <2> QED
        BY <1>1, <1>2, <2>1 DEF TypedData
<1>5. \A p \in Players : \/ place'[p] \in {place[p], "offline"}
                         \/ place[p] = "inside" /\ place'[p] = "outside"
    BY <1>1, <1>2 DEF TypedData
<1>6. ListMoves(t)
    BY <1>1, <1>4, NothingNext, GoOnMoves
<1> QED
    BY <1>1, <1>3, <1>5, <1>6, LeavingData

LEMMA DoUnregisterMoves ==
    ASSUME Orderly, LeaveRules, NEW t \in Threads, DoUnregister(t)
    PROVE  ListMoves(t) /\ DataMoves(t)
<1>1. /\ TypedThreads /\ TypedData /\ ~Idle(t) /\ Handles(t) /\ Continue(t, << >>)
      /\ UNCHANGED << phase, ticket, place >> /\ SoundList(todo[t])
      /\ chars' = [chars EXCEPT ![at[t]] = @ \ {t}]
      /\ Head(todo[t]).do = "unregister"
    BY NextCall DEF Orderly, Shaped, Typed, DoUnregister, Doing, LeaveRules
<1>2. Head(todo[t]).do \notin {"warp", "offline"}
    BY <1>1
<1>3. ListMoves(t) /\ ~Stays(todo[t]) /\ Pending(todo'[t])
    BY <1>1, <1>2, NothingNext, GoOnMoves
<1>4. \A e \in Instances : \A p \in chars[e] : p \in chars'[e] \/ (p = t /\ at[t] = e)
    BY <1>1 DEF TypedData
<1>5. DataMoves(t)
    BY <1>1, <1>3, <1>4 DEF DataMoves, Live
<1> QED
    BY <1>3, <1>5

LEMMA AskedMoves ==
    ASSUME Orderly, LeaveRules, NEW t \in Threads, DoFewer(t) \/ DoDispose(t)
    PROVE  ListMoves(t) /\ DataMoves(t)
<1> DEFINE e == at[t]
           gone == chars[e]
<1>1. /\ TypedThreads /\ TypedData /\ ~Idle(t) /\ Asks(Call(t)) /\ SoundList(todo[t])
      /\ todo[t] \in Seq(AnyCall) /\ todo[t] # << >>
    BY DEF Orderly, Typed, TypedThreads, DoFewer, DoDispose, Doing, Asks, Call, LeaveRules, Idle
<1>2. /\ Handles(t) /\ at[t] # None /\ at[t] \in Instances
      /\ Call(t).yes \in Seq(Handling) /\ Call(t).no \in Seq(Handling)
      /\ Call(t).yes \in Clean /\ Call(t).no \in Clean
    BY <1>1, AnswersMade DEF SoundList
<1>3. BranchesIn(todo[t], Staying) => Call(t).yes \in Staying /\ Call(t).no \in Staying
    BY <1>1, AnswersMade
<1>4. PICK calls \in {Call(t).yes, Call(t).no} : Continue(t, calls)
    BY DEF DoFewer, DoDispose
<1>5. Head(todo[t]).do \notin {"warp", "offline"}
    BY <1>1 DEF Asks, Call
<1>6. calls \in Seq(Handling) /\ calls \in Clean
      /\ (BranchesIn(todo[t], Staying) => calls \in Staying)
    BY <1>2, <1>3, <1>4
<1>7. ListMoves(t)
    BY <1>1, <1>2, <1>4, <1>5, <1>6, GoOnMoves
<1>8. CASE UNCHANGED << phase, chars, ticket, place >>
    BY <1>7, <1>8, StillData
<1>9. CASE /\ DoDispose(t) /\ Cardinality(gone) <= Call(t).below /\ Dispose(e)
           /\ place' = [p \in Players |->
                  IF p \in gone /\ Call(t).warp /\ place[p] = "inside"
                  THEN "outside" ELSE place[p]]
    <2>1. Call(t).warp \/ Call(t).below = 0
        BY <1>1, <1>9, TailForm DEF SoundList, DoDispose, Doing, Call
    <2>2. ~Call(t).warp => gone = {}
        <3> SUFFICES ASSUME Call(t).below = 0 PROVE gone = {}
            BY <2>1
        <3>1. IsFiniteSet(gone)
            <4>1. gone \subseteq Players
                BY <1>1, <1>2 DEF TypedData
            <4> QED
                BY <4>1, PlayersAssumption, FS_Subset
        <3>2. Cardinality(gone) \in Nat /\ Cardinality(gone) <= 0
            BY <1>9, <3>1, FS_CardinalityType
        <3> QED
            BY <3>1, <3>2, FS_EmptySet
    <2>3. /\ phase' = [phase EXCEPT ![e] = "disposed"]
          /\ chars' = [chars EXCEPT ![e] = {}]
          /\ ticket' = [ticket EXCEPT ![e] = {}]
        BY <1>9 DEF Dispose
    <2>4. \A p \in gone : place'[p] # "inside"
        <3>1. gone \subseteq Players
            BY <1>1, <1>2 DEF TypedData
        <3>2. CASE Call(t).warp
            <4>1. \A p \in gone : place'[p] = IF place[p] = "inside" THEN "outside" ELSE place[p]
                BY <1>9, <3>1, <3>2
            <4>2. "outside" # "inside"
                OBVIOUS
            <4> QED
                BY <4>1, <4>2
        <3> QED
            BY <2>2, <3>2
    <2>5. \A p \in Players : \/ place'[p] = place[p]
                             \/ place[p] = "inside" /\ place'[p] = "outside"
        BY <1>9
    <2>6. /\ \A p \in Players : place'[p] = "inside" => place[p] = "inside"
          /\ \A p \in Players : place[p] = "offline" => place'[p] = "offline"
        <3>1. "inside" # "offline" /\ "outside" # "inside"
            OBVIOUS
        <3> QED
            BY <2>5, <3>1
    <2>7. \A f \in Instances : ticket'[f] \subseteq ticket[f]
        BY <1>1, <2>3 DEF TypedData
    <2>8. phase'[e] # "live" /\ \A f \in Instances : f # e =>
              phase'[f] = phase[f] /\ chars'[f] = chars[f]
        BY <1>1, <1>2, <2>3 DEF TypedData
    <2> HIDE DEF e
    <2>9. \A f \in Instances : \A p \in chars[f] :
              IF Live(f)' THEN p \in chars'[f] ELSE Live(f) => place'[p] # "inside"
        BY <2>4, <2>8 DEF Live
    <2>10. \A f \in Instances : Live(f)' => Live(f)
        BY <2>8 DEF Live
    <2>11. DataMoves(t)
        BY <2>6, <2>7, <2>9, <2>10 DEF DataMoves
    <2> QED
        BY <1>7, <2>11
<1> QED
    BY <1>8, <1>9 DEF DoFewer, DoDispose, instance

LEMMA DoDropMoves ==
    ASSUME Orderly, LeaveRules, NEW t \in Threads, DoDrop(t)
    PROVE  ListMoves(t) /\ DataMoves(t)
<1> DEFINE e == at[t]
<1>1. /\ TypedThreads /\ TypedData /\ ~Idle(t) /\ Handles(t) /\ Continue(t, << >>)
      /\ SoundList(todo[t]) /\ place' = place /\ t \in Players
      /\ Head(todo[t]).do = "drop" /\ e \in Instances
    BY NextCall DEF Orderly, Shaped, Typed, TypedThreads, DoDrop, Doing, LeaveRules
<1>2. Head(todo[t]).do \notin {"warp", "offline"}
    BY <1>1
<1>3. ListMoves(t) /\ ~Stays(todo[t]) /\ Pending(todo'[t])
    BY <1>1, <1>2, NothingNext, GoOnMoves
<1>4. CASE UNCHANGED << phase, chars, ticket >>
    BY <1>1, <1>3, <1>4, StillData
<1>5. CASE Dispose(e) /\ chars[e] \subseteq {t}
    <2>1. /\ phase' = [phase EXCEPT ![e] = "disposed"]
          /\ chars' = [chars EXCEPT ![e] = {}]
          /\ ticket' = [ticket EXCEPT ![e] = {}]
        BY <1>5 DEF Dispose
    <2>2. \A f \in Instances : ticket'[f] \subseteq ticket[f]
        BY <1>1, <2>1 DEF TypedData
    <2>3. phase'[e] # "live" /\ \A f \in Instances : f # e =>
              phase'[f] = phase[f] /\ chars'[f] = chars[f]
        BY <1>1, <2>1 DEF TypedData
    <2>4. \A p \in chars[e] : p = t
        BY <1>5
    <2> HIDE DEF e
    <2>5. DataMoves(t)
        BY <1>1, <1>3, <2>2, <2>3, <2>4 DEF DataMoves, Live
    <2> QED
        BY <1>3, <2>5
<1>6. CASE /\ chars' = [chars EXCEPT ![e] = @ \ {t}] /\ phase' = phase
           /\ \/ ticket' = [ticket EXCEPT ![e] = @ \cup {Char[t]}]
              \/ UNCHANGED ticket
    <2>1. \A f \in Instances : \A c \in ticket'[f] :
              c \in ticket[f] \/ (f = e /\ c = Char[t])
        BY <1>1, <1>6 DEF TypedData
    <2>2. \A f \in Instances : \A p \in chars[f] : p \in chars'[f] \/ (p = t /\ f = e)
        BY <1>1, <1>6 DEF TypedData
    <2>3. DataMoves(t)
        BY <1>1, <1>3, <1>6, <2>1, <2>2 DEF DataMoves, Live
    <2> QED
        BY <1>3, <2>3
<1> QED
    BY <1>4, <1>5, <1>6 DEF DoDrop, instance

-----------------------------------------------------------------------------
(* A thread goes on registering members at its instance.                    *)
NamesOn(t) ==
    /\ Others(t) /\ Registers(t) /\ at[t] # None /\ at'[t] = at[t]
    /\ Waiting(todo'[t]) \/ Entering(todo'[t]) \/ Setting(todo'[t])

LEMMA NamesOnKeeps ==
    ASSUME LeaveRules, NEW t \in Players, NamesOn(t)
    PROVE  /\ \A s \in Threads : SoundList(todo'[s])
           /\ \A r \in Players :
                  /\ at'[r] = at[r]
                  /\ r # t => todo'[r] = todo[r]
                  /\ Pending(todo[r]) => Pending(todo'[r])
                  /\ GoesOffline(todo[r]) => GoesOffline(todo'[r])
                  /\ Waits(r) => r # t /\ Waits(r)'
<1>1. \A s \in Threads : s # t => todo'[s] = todo[s] /\ at'[s] = at[s]
    BY DEF NamesOn, Others
<1>2. SoundList(todo'[t])
    BY RegisteringForm DEF NamesOn, SoundList
<1>3. \A s \in Threads : SoundList(todo'[s])
    BY <1>1, <1>2 DEF LeaveRules
<1>4. ~Pending(todo[t]) /\ ~GoesOffline(todo[t])
    BY RegisteringForm DEF NamesOn, Registers
<1>5. ~Waits(t)
    <2>1. Registering(todo[t])
        BY DEF NamesOn, Registers, BeforeOpen, AfterOpen, Waiting, Entering, Setting
    <2> QED
        BY <2>1, CalmIsNotRegistering DEF Waits
<1>6. \A r \in Players : r \in Threads
    BY DEF Threads
<1>7. ASSUME NEW r \in Players
      PROVE  /\ at'[r] = at[r]
             /\ r # t => todo'[r] = todo[r]
             /\ Pending(todo[r]) => Pending(todo'[r])
             /\ GoesOffline(todo[r]) => GoesOffline(todo'[r])
             /\ Waits(r) => r # t /\ Waits(r)'
    <2>1. CASE r = t
        BY <1>4, <1>5, <2>1 DEF NamesOn
    <2>2. CASE r # t
        <3>1. todo'[r] = todo[r] /\ at'[r] = at[r]
            BY <1>1, <1>6, <2>2
        <3>2. Waits(r) => Waits(r)'
            BY <3>1 DEF Waits
        <3> QED
            BY <2>2, <3>1, <3>2
    <2> QED
        BY <2>1, <2>2
<1> QED
    BY <1>3, <1>7

LEMMA EntersAt ==
    ASSUME Orderly, NEW s \in Players, NEW p, EntersBy(s, p)
    PROVE  at[s] \in Instances /\ at[s] # None
<1>1. todo[s] \notin Seq(Acting)
    BY CalmIsNotRegistering, CalmKinds DEF EntersBy
<1>2. Registers(s)
    BY <1>1 DEF Orderly, Shaped, Shape, Handles, Threads
<1>3. ~BeforeOpen(todo[s])
    BY KindsApart DEF EntersBy
<1> QED
    BY <1>2, <1>3 DEF Registers, Orderly, Typed, TypedThreads, Threads

(* Whom another thread lets in, while only members are added.               *)
LEMMA OnTheWayStays ==
    ASSUME Orderly, LeaveRules, NEW t \in Players, NamesOn(t),
           UNCHANGED << phase, ticket, place >>,
           \A f \in Instances : chars[f] \subseteq chars'[f],
           NEW s \in Players, NEW p \in Players, EntersBy(s, p)
    PROVE  IF s = p THEN Live(at[s])' => p \in chars'[at'[s]] ELSE OnTheWay(s, p)'
<1>0. PICK e : e = at[s]
    OBVIOUS
<1>1. e \in Instances /\ at'[s] = e /\ at[s] = e
    BY <1>0, EntersAt, NamesOnKeeps
<1>2. IF s = p THEN Live(e) => p \in chars[e] ELSE OnTheWay(s, p)
    BY <1>1 DEF LeaveRules, LetIn
<1>3. phase'[e] = "live" /\ (Live(e) => p \in chars[e]) => p \in chars'[e]
    BY <1>1 DEF Live
<1>4. CASE s = p
    <2>1. phase'[e] = "live" => p \in chars'[e]
        BY <1>2, <1>3, <1>4
    <2> QED
        BY <1>1, <1>4, <2>1 DEF Live
<1>5. CASE s # p
    <2>1. OnTheWay(s, p)
        BY <1>2, <1>5
    <2>2. CASE place[p] = "offline" \/ GoesOffline(todo[p])
        <3>1. place'[p] = "offline" \/ GoesOffline(todo'[p])
            BY <2>2, NamesOnKeeps
        <3> QED
            BY <1>5, <3>1 DEF OnTheWay
    <2>3. CASE /\ place[p] = "outside" /\ Char[p] \notin ticket[e]
               /\ Live(e) => p \in chars[e]
               /\ at[p] = e => Waits(p)
               /\ \A q \in Players : q # p /\ Char[q] = Char[p] => at[q] # e
        <3>1. at'[p] = e => Waits(p)'
            BY <2>3, NamesOnKeeps
        <3>2. \A q \in Players : q # p /\ Char[q] = Char[p] => at'[q] # e
            BY <2>3, NamesOnKeeps
        <3>3. place'[p] = "outside" /\ Char[p] \notin ticket'[e]
              /\ (phase'[e] = "live" => p \in chars'[e])
            BY <1>3, <2>3
        <3>4. OnTheWay(s, p)'
            BY <1>1, <3>1, <3>2, <3>3 DEF OnTheWay, Live
        <3> QED
            BY <1>5, <3>4
    <2> QED
        BY <1>1, <2>1, <2>2, <2>3 DEF OnTheWay
<1> QED
    BY <1>4, <1>5

LEMMA InsideStays ==
    ASSUME Orderly, LeaveRules, NEW t \in Players, NamesOn(t), phase' = phase,
           \A f \in Instances : chars[f] \subseteq chars'[f],
           NEW p \in Players, place[p] = "inside"
    PROVE  Pending(todo'[p]) \/ \E e \in Instances : Live(e)' /\ p \in chars'[e]
<1>1. CASE Pending(todo[p])
    BY <1>1, NamesOnKeeps
<1>2. CASE ~Pending(todo[p])
    <2>1. PICK e \in Instances : Live(e) /\ p \in chars[e]
        BY <1>2 DEF LeaveRules, InsideKept
    <2>2. Live(e)' /\ p \in chars'[e]
        BY <2>1 DEF Live
    <2> QED
        BY <2>2
<1> QED
    BY <1>1, <1>2

-----------------------------------------------------------------------------
LEMMA DoRegisterLeaves ==
    ASSUME Orderly, Typed', LeaveRules, NEW t \in Threads, DoRegister(t)
    PROVE  LeaveRules'
<1> DEFINE q == todo[t]
           e == at[t]
           cs == Call(t).rest
<1>1. /\ TypedThreads /\ TypedData /\ ~Idle(t) /\ t \in Players
      /\ e # None /\ e \in Instances /\ Waiting(q) /\ Registering(q) /\ Registers(t)
      /\ q \in Seq(AnyCall) /\ q # << >> /\ Tail(q) = << >> /\ cs \in SUBSET Players
      /\ UNCHANGED << phase, ticket, place >>
    <2>1. Registers(t) /\ at[t] # None /\ Waiting(q) /\ Call(t) \in Invitation
        BY NextCall DEF Orderly, Shaped, DoRegister, Doing, Call
    <2>2. Registering(q) /\ q \in Seq(AnyCall) /\ q # << >> /\ Len(q) = 1
        BY <2>1 DEF Waiting, Registering
    <2>3. cs \in SUBSET Players
        BY <2>1 DEF Invitation
    <2> QED
        BY <2>1, <2>2, <2>3, NothingFirst
        DEF Orderly, Typed, TypedThreads, DoRegister, Doing, Registers
<1>2. /\ ~Brisk(q) /\ ~Pending(q) /\ ~GoesOffline(q) /\ place[t] # "offline" /\ ~Waits(t)
    BY <1>1, KindsApart, RegisteringForm, CalmIsNotRegistering DEF Brisk, Registers, Waits
<1>3. CASE Continue(t, << >>) /\ UNCHANGED chars
    <2>1. Others(t) /\ todo'[t] = << >> \o Tail(q)
          /\ at'[t] = IF todo'[t] = << >> THEN None ELSE at[t]
        BY <1>1, <1>3, Continues, EmptySeq
    <2>2. todo'[t] = << >>
        BY <1>1, <2>1, ConcatEmptySeq, EmptySeq
    <2>3. at'[t] = None
        BY <2>1, <2>2
    <2>4. ListMoves(t)
        BY <1>2, <2>1, <2>2, <2>3, NothingNext DEF ListMoves
    <2> QED
        BY <1>1, <1>3, <2>4, StillData, MovesKeep
<1>4. ASSUME NEW c \in cs, Continue(t, << Register(cs \ {c}) >>), UNCHANGED chars
      PROVE  LeaveRules'
    <2> DEFINE r == << Register(cs \ {c}) >>
    <2>1. r \in Seq(AnyCall) /\ Waiting(r) /\ r # << >>
        BY <1>1, AnInvitation
    <2> HIDE DEF r
    <2>2. /\ Others(t) /\ todo'[t] = r \o Tail(q)
          /\ at'[t] = IF todo'[t] = << >> THEN None ELSE at[t]
        BY <1>1, <1>4, <2>1, Continues DEF r
    <2>3. todo'[t] = r
        BY <1>1, <2>1, <2>2, ConcatEmptySeq
    <2>4. ListMoves(t)
        BY <1>1, <1>2, <2>1, <2>2, <2>3, PlanMoves
    <2> QED
        BY <1>1, <1>4, <2>4, StillData, MovesKeep
<1>5. ASSUME NEW c \in cs, NEW p \in Players, Char[p] = c, place[p] = "outside",
             chars' = [chars EXCEPT ![e] = @ \cup {p}],
             Continue(t, << SetEvent(p), Enter(p), Register(cs \ {c}) >>)
      PROVE  LeaveRules'
    <2> DEFINE g == Register(cs \ {c})
               r == << SetEvent(p), Enter(p), g >>
    <2>1. g \in Invitation
        BY <1>1, AnInvitation
    <2>2. /\ SetEvent(p) \in Naming("set") /\ SetEvent(p).who = p
          /\ Enter(p) \in Naming("enter")
        BY DEF SetEvent, Enter, Naming
    <2> HIDE DEF g
    <2>3. /\ r \in Seq(AnyCall) /\ Len(r) = 3 /\ r # << >> /\ r[1] = SetEvent(p)
          /\ r[2] = Enter(p) /\ r[3] = g
        BY <2>1, <2>2 DEF AnyCall
    <2>4. Setting(r) /\ r[1].who = p
        BY <2>1, <2>2, <2>3 DEF Setting, Registering
    <2>6. Continue(t, r)
        BY <1>5 DEF g
    <2> HIDE DEF r
    <2>7. /\ Others(t) /\ todo'[t] = r \o Tail(q)
          /\ at'[t] = IF todo'[t] = << >> THEN None ELSE at[t]
        BY <1>1, <2>3, <2>6, Continues
    <2>8. todo'[t] = r /\ at'[t] = e
        BY <1>1, <2>3, <2>7, ConcatEmptySeq
    <2>9. Setting(todo'[t]) /\ todo'[t][1].who = p /\ ~Entering(todo'[t])
        <3>1. Setting(todo'[t]) /\ todo'[t][1].who = p
            BY <2>4, <2>8
        <3>2. \A x : Setting(x) => ~Entering(x)
            BY DEF Setting, Entering
        <3> QED
            BY <3>1, <3>2
    <2>10. NamesOn(t)
        BY <1>1, <2>7, <2>8, <2>9 DEF NamesOn
    <2>11. \A f \in Instances : chars[f] \subseteq chars'[f]
        BY <1>1, <1>5 DEF TypedData
    <2> HIDE DEF q, e, cs
    <2>12. InsideKept'
        BY <1>1, <2>10, <2>11, InsideStays DEF InsideKept
    <2>13. LetIn'
        <3> SUFFICES ASSUME NEW s \in Players, NEW x \in Players, EntersBy(s, x)'
                     PROVE  IF s = x THEN Live(at[s])' => x \in chars'[at'[s]]
                                     ELSE OnTheWay(s, x)'
            BY DEF LetIn
        <3>1. s # t
            BY <2>9 DEF EntersBy
        <3>2. todo'[s] = todo[s]
            BY <1>1, <2>10, <3>1, NamesOnKeeps
        <3>3. EntersBy(s, x)
            BY <3>2 DEF EntersBy
        <3> QED
            BY <1>1, <2>10, <2>11, <3>3, OnTheWayStays
    <2>14. StillOutside'
        <3> SUFFICES ASSUME NEW s \in Players, Setting(todo'[s]), todo'[s][1].who # s
                     PROVE  place'[todo'[s][1].who] # "inside"
            BY DEF StillOutside
        <3>1. CASE s = t
            BY <1>1, <1>5, <2>9, <3>1
        <3>2. CASE s # t
            <4>1. todo'[s] = todo[s]
                BY <1>1, <2>10, <3>2, NamesOnKeeps
            <4> QED
                BY <1>1, <4>1 DEF LeaveRules, StillOutside
        <3> QED
            BY <3>1, <3>2
    <2> QED
        BY <1>1, <2>10, <2>12, <2>13, <2>14, NamesOnKeeps DEF LeaveRules
<1> QED
    BY <1>3, <1>4, <1>5 DEF DoRegister

LEMMA DoSetLeaves ==
    ASSUME Orderly, LeaveRules, NEW t \in Threads, DoSet(t)
    PROVE  LeaveRules'
<1> DEFINE q == todo[t]
           e == at[t]
           p == q[1].who
<1>1. /\ TypedThreads /\ TypedData /\ ~Idle(t) /\ t \in Players /\ Registers(t)
      /\ e \in Instances /\ e # None /\ Setting(q) /\ Registering(q)
    <2>1. Registers(t) /\ at[t] # None /\ Setting(q)
        BY NextCall DEF Orderly, Shaped, DoSet, Doing, Call
    <2> QED
        BY <2>1 DEF Orderly, Typed, TypedThreads, DoSet, Doing, Registers, Setting
<1>2. /\ q \in Seq(AnyCall) /\ q # << >> /\ << >> \o Tail(q) = Tail(q)
      /\ Call(t) = q[1] /\ << >> \in Seq(AnyCall)
    BY <1>1, NothingFirst, EmptySeq DEF Registering, Setting, Call
<1>3. /\ Continue(t, << >>)
      /\ UNCHANGED << phase, chars, ticket, place >>
    BY <1>2 DEF DoSet, instance
<1>4. p \in Players
    BY <1>1 DEF Setting, Naming
<1>5. Others(t) /\ todo'[t] = Tail(q) /\ Entering(Tail(q)) /\ Tail(q)[1] = q[2]
      /\ Tail(q) # << >> /\ at'[t] = e
    <2>1. Entering(Tail(q)) /\ Tail(q)[1] = q[2]
        BY <1>1, OneCallTail
    <2>2. Tail(q) # << >>
        BY <2>1 DEF Entering, Registering
    <2>3. /\ Others(t) /\ todo'[t] = << >> \o Tail(q)
          /\ at'[t] = IF todo'[t] = << >> THEN None ELSE e
        <3>1. t \in Threads
            BY <1>1 DEF Threads
        <3> QED
            BY <1>1, <1>2, <1>3, <3>1, Continues
    <2> QED
        BY <1>2, <2>1, <2>2, <2>3
<1>6. Tail(q)[1].who = p
    BY <1>1, <1>5 DEF Setting, Enter
<1>7. NamesOn(t)
    BY <1>1, <1>5 DEF NamesOn
<1>8. ~Setting(todo'[t]) /\ todo'[t][1].who = p
    <2>1. \A x : Entering(x) => ~Setting(x)
        BY DEF Setting, Entering
    <2> QED
        BY <1>5, <1>6, <2>1
<1>9. \A f \in Instances : chars[f] \subseteq chars'[f]
    BY <1>3
<1>10. InsideKept'
    BY <1>1, <1>3, <1>7, <1>9, InsideStays DEF InsideKept
<1>11. StillOutside'
    <2> SUFFICES ASSUME NEW s \in Players, Setting(todo'[s]), todo'[s][1].who # s
                 PROVE  place'[todo'[s][1].who] # "inside"
        BY DEF StillOutside
    <2>1. s # t
        BY <1>8
    <2>2. todo'[s] = todo[s]
        BY <1>1, <1>7, <2>1, NamesOnKeeps
    <2> QED
        BY <1>3, <2>2 DEF LeaveRules, StillOutside
<1>12. /\ p = t \/ Fresh(e, Char[p])
       /\ Live(e) => p \in chars[e]
       /\ p = t \/ place[p] # "inside"
    BY <1>1 DEF Orderly, HalfRegistered, LeaveRules, StillOutside
<1> HIDE DEF p, e
<1>13. LetIn'
    <2> SUFFICES ASSUME NEW s \in Players, NEW x \in Players, EntersBy(s, x)'
                 PROVE  IF s = x THEN Live(at[s])' => x \in chars'[at'[s]]
                                 ELSE OnTheWay(s, x)'
        BY DEF LetIn
    <2>1. CASE s # t
        <3>1. todo'[s] = todo[s]
            BY <1>1, <1>7, <2>1, NamesOnKeeps
        <3>2. EntersBy(s, x)
            BY <3>1 DEF EntersBy
        <3> QED
            BY <1>1, <1>3, <1>7, <1>9, <3>2, OnTheWayStays
    <2>2. CASE s = t
        <3>1. x = p
            BY <1>8, <2>2 DEF EntersBy
        <3>2. phase'[e] = "live" => p \in chars'[e]
            BY <1>3, <1>12 DEF Live
        <3>3. CASE p = t
            BY <1>5, <2>2, <3>1, <3>2, <3>3 DEF Live
        <3>4. CASE p # t
            <4>1. CASE place[p] = "offline"
                BY <1>3, <2>2, <3>1, <3>4, <4>1 DEF OnTheWay
            <4>2. CASE place[p] # "offline"
                <5>1. place'[p] = "outside" /\ Char[p] \notin ticket'[e]
                    BY <1>1, <1>3, <1>4, <1>12, <3>4, <4>2 DEF TypedData, Fresh
                <5>2. \A r \in Players : Char[r] = Char[p] => at'[r] # e
                    BY <1>1, <1>7, <1>12, <3>4, NamesOnKeeps DEF Fresh
                <5>3. at'[p] # e
                    BY <1>4, <5>2
                <5>4. /\ place'[x] = "outside" /\ Char[x] \notin ticket'[e]
                      /\ \A r \in Players : Char[r] = Char[x] => at'[r] # e
                      /\ at'[x] # e /\ (phase'[e] = "live" => x \in chars'[e])
                      /\ at'[s] = e
                    BY <1>5, <2>2, <3>1, <3>2, <5>1, <5>2, <5>3
                <5>5. OnTheWay(s, x)'
                    BY <5>4 DEF OnTheWay, Live
                <5> QED
                    BY <2>2, <3>1, <3>4, <5>5
            <4> QED
                BY <4>1, <4>2
        <3> QED
            BY <3>3, <3>4
    <2> QED
        BY <2>1, <2>2
<1> QED
    BY <1>1, <1>7, <1>10, <1>11, <1>13, NamesOnKeeps DEF LeaveRules

-----------------------------------------------------------------------------
(* Whoever else brings somebody in belongs to another host of the instance, *)
(* which has none.                                                          *)
LEMMA OneEnters ==
    ASSUME Orderly, MembersLive, FirstInstance,
           NEW t \in Players, NEW p \in Players, EntersBy(t, p),
           NEW s \in Players, s # t, NEW r \in Players, s # r,
           EntersBy(s, r) \/ (Setting(todo[s]) /\ todo[s][1].who = r)
    PROVE  /\ p = t
           /\ Setting(todo[s]) => r # t
<1>1. at[t] \in Instances /\ at[t] # None
    BY EntersAt
<1>2. at[s] # None
    <2>1. CASE EntersBy(s, r)
        BY <2>1, EntersAt
    <2>2. CASE Setting(todo[s])
        BY <2>2 DEF Orderly, HalfRegistered
    <2> QED
        BY <2>1, <2>2
<1>3. at[s] = at[t]
    BY <1>1, <1>2, OnlyInstance DEF Threads
<1>4. Hosts(s)
    BY DEF Hosts, EntersBy
<1>5. p # t => Hosts(t)
    BY DEF Hosts, EntersBy
<1>6. p = t
    BY <1>1, <1>3, <1>4, <1>5 DEF Orderly, OneHost
<1>7. ASSUME Setting(todo[s]), r = t PROVE FALSE
    <2>1. todo[s][1].who = r
        <3>1. \A x : Entering(x) => ~Setting(x)
            BY DEF Setting, Entering
        <3> QED
            BY <1>7, <3>1 DEF EntersBy
    <2>2. Fresh(at[s], Char[r])
        BY <1>7, <2>1 DEF Orderly, HalfRegistered
    <2> QED
        BY <1>3, <1>7, <2>2 DEF Fresh
<1> QED
    BY <1>6, <1>7

LEMMA DoEnterLeaves ==
    ASSUME Orderly, MembersLive, FirstInstance, LeaveRules, script \in Evicting,
           NEW t \in Threads, DoEnter(t)
    PROVE  LeaveRules'
<1> DEFINE q == todo[t]
           e == at[t]
<1>1. /\ TypedThreads /\ TypedData /\ ~Idle(t) /\ t \in Players /\ Registers(t)
      /\ e \in Instances /\ e # None /\ Entering(q) /\ Registering(q)
    <2>1. Registers(t) /\ at[t] # None /\ Entering(q)
        BY NextCall DEF Orderly, Shaped, DoEnter, Doing, Call
    <2> QED
        BY <2>1 DEF Orderly, Typed, TypedThreads, DoEnter, Doing, Registers, Entering
<1>2. /\ q \in Seq(AnyCall) /\ q # << >> /\ << >> \o Tail(q) = Tail(q)
      /\ Call(t) = q[1] /\ << >> \in Seq(AnyCall)
    BY <1>1, NothingFirst, EmptySeq DEF Registering, Entering, Call
<1>3. PICK p \in Players : p = q[1].who
    BY <1>1 DEF Entering, Naming
<1>4. /\ Continue(t, << >>) /\ UNCHANGED << phase, chars >>
      /\ place' = [place EXCEPT ![p] =
             IF @ = "offline" \/ (script.entry = "eim" /\ ~Live(e))
             THEN @ ELSE "inside"]
      /\ ticket' = IF script.rejoin = "squad" /\ Live(e)
                   THEN [ticket EXCEPT ![e] = @ \cup {Char[p]}] ELSE ticket
    BY <1>2, <1>3 DEF DoEnter
<1>5. Others(t) /\ todo'[t] = Tail(q) /\ Waiting(Tail(q)) /\ at'[t] = e
    <2>1. Waiting(Tail(q))
        BY <1>1, OneCallTail
    <2>2. Tail(q) # << >>
        BY <2>1 DEF Waiting, Registering
    <2> QED
        BY <1>1, <1>2, <1>4, <2>1, <2>2, Continues
<1>6. NamesOn(t)
    BY <1>1, <1>5 DEF NamesOn
<1>7. ~Setting(todo'[t]) /\ ~Entering(todo'[t])
    BY <1>5, KindsApart
<1>8. EntersBy(t, p)
    BY <1>1, <1>3 DEF EntersBy
<1>9. \A f \in Instances : chars[f] \subseteq chars'[f]
    BY <1>4
<1>10. \A s \in Players : s # t => todo'[s] = todo[s] /\ at'[s] = at[s]
    BY <1>1, <1>6, NamesOnKeeps
<1>11. \A r \in Players : r # p => place'[r] = place[r]
    BY <1>1, <1>4 DEF TypedData
<1>12. /\ place[p] = "offline" => place'[p] = "offline"
       /\ place'[p] = "inside" => place[p] = "inside" \/ (place[p] = "outside" /\ Live(e))
    <2>1. script.entry = "eim"
        BY ScriptEvicts
    <2> QED
        BY <1>1, <1>4, <2>1 DEF TypedData
<1>13. \A f \in Instances : \A c \in ticket'[f] : c \in ticket[f] \/ (f = e /\ c = Char[p])
    BY <1>1, <1>4 DEF TypedData
<1> HIDE DEF q
<1>14. PICK i \in Instances : i = e /\ at[t] = i /\ at'[t] = i
    BY <1>1, <1>5
<1> HIDE DEF e
<1>15. InsideKept'
    <2> SUFFICES ASSUME NEW r \in Players, place'[r] = "inside"
                 PROVE  Pending(todo'[r]) \/ \E f \in Instances : Live(f)' /\ r \in chars'[f]
        BY DEF InsideKept
    <2>1. CASE place[r] = "inside"
        BY <1>1, <1>4, <1>6, <1>9, <2>1, InsideStays
    <2>2. CASE place[r] # "inside"
        <3>1. r = p /\ place[p] = "outside" /\ Live(i)
            BY <1>11, <1>12, <1>14, <2>2
        <3>2. IF t = p THEN Live(i) => p \in chars[i] ELSE OnTheWay(t, p)
            BY <1>1, <1>8, <1>14 DEF LeaveRules, LetIn
        <3>3. CASE p \in chars[i]
            <4>1. Live(i)' /\ r \in chars'[i]
                BY <1>4, <3>1, <3>3 DEF Live
            <4> QED
                BY <4>1
        <3>4. CASE p # t /\ GoesOffline(todo[p])
            <4>1. Pending(todo[p])
                BY <3>4 DEF GoesOffline, Pending, Away
            <4> QED
                BY <1>10, <3>1, <3>4, <4>1
        <3>5. p \in chars[i] \/ (p # t /\ GoesOffline(todo[p]))
            <4>1. "outside" # "offline"
                OBVIOUS
            <4> QED
                BY <1>14, <3>1, <3>2, <4>1 DEF OnTheWay
        <3> QED
            BY <3>3, <3>4, <3>5
    <2> QED
        BY <2>1, <2>2
<1>16. StillOutside'
    <2> SUFFICES ASSUME NEW s \in Players, Setting(todo'[s]), todo'[s][1].who # s
                 PROVE  place'[todo'[s][1].who] # "inside"
        BY DEF StillOutside
    <2>1. s # t
        BY <1>7
    <2>2. todo'[s] = todo[s]
        BY <1>10, <2>1
    <2>3. PICK r \in Players : r = todo[s][1].who
        BY <2>2 DEF Setting, Naming
    <2>4. place[r] # "inside"
        BY <2>2, <2>3 DEF LeaveRules, StillOutside
    <2>5. r # p
        BY <1>1, <1>8, <2>1, <2>2, <2>3, OneEnters
    <2> QED
        BY <1>11, <2>2, <2>3, <2>4, <2>5
<1>17. ASSUME NEW s \in Players, NEW x \in Players, EntersBy(s, x)'
       PROVE  IF s = x THEN Live(at[s])' => x \in chars'[at'[s]] ELSE OnTheWay(s, x)'
    <2>1. s # t
        BY <1>7, <1>17 DEF EntersBy
    <2>2. todo'[s] = todo[s] /\ at'[s] = at[s]
        BY <1>10, <2>1
    <2>3. EntersBy(s, x)
        BY <1>17, <2>2 DEF EntersBy
    <2>4. at[s] = i /\ at'[s] = i
        <3>1. at[s] # None /\ at[t] # None
            BY <1>1, <1>8, <2>3, EntersAt
        <3>2. s \in Threads /\ t \in Threads
            BY <1>1 DEF Threads
        <3> QED
            BY <1>14, <2>2, <3>1, <3>2, OnlyInstance
    <2>5. IF s = x THEN Live(i) => x \in chars[i] ELSE OnTheWay(s, x)
        BY <2>3, <2>4 DEF LeaveRules, LetIn
    <2>6. CASE s = x
        <3>1. phase'[i] = "live" => x \in chars'[i]
            BY <1>4, <2>5, <2>6 DEF Live
        <3> QED
            BY <2>4, <2>6, <3>1 DEF Live
    <2>7. CASE s # x
        <3>1. p = t
            BY <1>1, <1>8, <2>1, <2>3, <2>7, OneEnters
        <3>2. CASE place[x] = "offline" \/ GoesOffline(todo[x])
            <4>1. place'[x] = "offline" \/ GoesOffline(todo'[x])
                BY <1>1, <1>6, <1>11, <1>12, <3>2, NamesOnKeeps
            <4> QED
                BY <2>7, <4>1 DEF OnTheWay
        <3>3. CASE /\ place[x] = "outside" /\ Char[x] \notin ticket[i]
                   /\ Live(i) => x \in chars[i]
                   /\ at[x] = i => Waits(x)
                   /\ \A r \in Players : r # x /\ Char[r] = Char[x] => at[r] # i
            <4>1. x # t
                <5>1. ~Waits(t)
                    BY <1>1, <1>6, NamesOnKeeps
                <5> QED
                    BY <1>14, <3>3, <5>1
            <4>2. place'[x] = "outside"
                BY <1>11, <3>1, <3>3, <4>1
            <4>3. Char[p] # Char[x]
                BY <1>1, <1>14, <3>1, <3>3, <4>1
            <4>4. Char[x] \notin ticket'[i]
                BY <1>13, <3>3, <4>3
            <4>5. at'[x] = i => Waits(x)'
                BY <1>1, <1>6, <3>3, NamesOnKeeps
            <4>6. \A r \in Players : r # x /\ Char[r] = Char[x] => at'[r] # i
                BY <1>1, <1>6, <3>3, NamesOnKeeps
            <4>7. phase'[i] = "live" => x \in chars'[i]
                BY <1>4, <3>3 DEF Live
            <4>8. OnTheWay(s, x)'
                BY <2>4, <4>2, <4>4, <4>5, <4>6, <4>7 DEF OnTheWay, Live
            <4> QED
                BY <2>7, <4>8
        <3> QED
            BY <2>4, <2>5, <2>7, <3>2, <3>3 DEF OnTheWay
    <2> QED
        BY <2>6, <2>7
<1>18. LetIn'
    BY <1>17 DEF LetIn
<1> QED
    BY <1>1, <1>6, <1>15, <1>16, <1>18, NamesOnKeeps DEF LeaveRules

-----------------------------------------------------------------------------
LEMMA LeavingRules ==
    ASSUME Orderly, Typed', MembersLive, FirstInstance, LeaveRules,
           script \in Evicting, Next
    PROVE  LeaveRules'
<1> \A p \in Players : p \in Threads
    BY DEF Threads
<1> \A e \in Instances : e \in Threads
    BY DEF Threads
<1> \A l \in Leaders : l \in Players
    BY LeadersAssumption
<1>1. ASSUME NEW t \in Threads, ListMoves(t) /\ DataMoves(t) PROVE LeaveRules'
    BY <1>1, MovesKeep
<1>2. ASSUME NEW t \in Threads, Step(t) PROVE LeaveRules'
    <2>1. CASE DoUnregister(t)
        BY <2>1, <1>1, DoUnregisterMoves
    <2>2. CASE DoAdvance(t) \/ DoForbid(t) \/ DoOffline(t) \/ DoWarp(t)
        BY <2>2, <1>1, PlainCallMoves
    <2>3. CASE DoState(t) \/ DoTimer(t)
        BY <2>3, <1>1, SetupCallMoves
    <2>4. CASE DoDispose(t) \/ DoFewer(t)
        BY <2>4, <1>1, AskedMoves
    <2>5. CASE DoRegister(t)
        BY <2>5, DoRegisterLeaves
    <2>6. CASE DoSet(t)
        BY <2>6, DoSetLeaves
    <2>7. CASE DoEnter(t)
        BY <2>7, DoEnterLeaves
    <2>8. CASE DoDrop(t)
        BY <2>8, <1>1, DoDropMoves
    <2>9. CASE DoOpen(t)
        BY <2>9, <1>1, DoOpenMoves
    <2> QED
        BY <1>2, <2>1, <2>2, <2>3, <2>4, <2>5, <2>6, <2>7, <2>8, <2>9 DEF Step
<1>3. CASE \E l \in Leaders : StartEvent(l)
    BY <1>1, <1>3, StartEventMoves
<1>4. CASE \E l \in Leaders : Disband(l)
    BY <1>1, <1>4, EntryMoves
<1>5. CASE \E l \in Leaders, p \in Players : LeaveParty(l, p)
    BY <1>1, <1>5, EntryMoves
<1>6. ASSUME NEW p \in Players, WalkOut(p) PROVE LeaveRules'
    BY <1>1, <1>6, WalkOutMoves
<1>7. ASSUME NEW p \in Players, Die(p) \/ MonstersDead(p) \/ FinishPQ(p)
      PROVE  LeaveRules'
    BY <1>1, <1>7, EntryMoves
<1>8. ASSUME NEW p \in Players, Disconnect(p) PROVE LeaveRules'
    BY <1>1, <1>8, DisconnectMoves
<1>9. ASSUME NEW p \in Players, Login(p) PROVE LeaveRules'
    BY <1>1, <1>9, LoginMoves
<1>10. ASSUME NEW p \in Players, NEW n \in Names, Rejoin(p, n) PROVE LeaveRules'
    BY <1>1, <1>10, RejoinMoves
<1>11. ASSUME NEW e \in Instances, Timeout(e) \/ Spawn(e) PROVE LeaveRules'
    BY <1>1, <1>11, TimerMoves
<1> QED
    BY <1>2, <1>3, <1>4, <1>5, <1>6, <1>7, <1>8, <1>9, <1>10, <1>11 DEF Next

LeaveInv == MembersLive /\ (script \in Evicting /\ FirstInstance => LeaveRules)

(* While the event has made its first instance, nobody is in its maps once  *)
(* that is over: whoever is inside is a member of a live instance or has    *)
(* still to be moved, and whoever is let in became a member before.         *)
THEOREM NobodyIsLeftBehind == Spec => []NobodyLeftBehind
<1>1. ASSUME Init PROVE LeaveInv
    <2>1. \A t \in Threads : todo[t] = << >>
        BY <1>1 DEF Init
    <2>2. \A t \in Threads : SoundList(todo[t]) /\ ~Brisk(todo[t])
        BY <2>1, NothingNext
    <2>3. \A p \in Players : place[p] # "inside"
        <3>1. "outside" # "inside" /\ "offline" # "inside"
            OBVIOUS
        <3> QED
            BY <1>1, <3>1 DEF Init
    <2>4. InsideKept /\ LetIn /\ StillOutside
        BY <2>2, <2>3 DEF InsideKept, LetIn, StillOutside, EntersBy, Brisk, Threads
    <2>5. MembersLive
        BY <1>1 DEF Init, MembersLive
    <2> QED
        BY <2>2, <2>4, <2>5 DEF LeaveInv, LeaveRules
<1>2. ASSUME Orderly, Orderly', LeaveInv, [Next]_vars PROVE LeaveInv'
    <2>1. CASE UNCHANGED vars
        <3>1. UNCHANGED << script, phase, chars, ticket, place, todo, at >>
            BY <2>1 DEF vars, instance
        <3>2. MembersLive' /\ (FirstInstance' => FirstInstance)
            BY <1>2, <3>1 DEF LeaveInv, MembersLive, FirstInstance, Live
        <3>3. (\A t \in Threads : SoundList(todo[t]))
                  => (\A t \in Threads : SoundList(todo'[t]))
            BY <3>1
        <3>4. InsideKept => InsideKept'
            BY <3>1 DEF InsideKept, Live
        <3>5. StillOutside => StillOutside'
            BY <3>1 DEF StillOutside
        <3>6. LetIn => LetIn'
            BY <3>1 DEF LetIn, EntersBy, OnTheWay, Live, Waits
        <3> QED
            BY <1>2, <3>1, <3>2, <3>3, <3>4, <3>5, <3>6 DEF LeaveInv, LeaveRules
    <2>2. CASE Next
        <3>1. /\ MembersLive' /\ script' = script
              /\ \A e \in Instances : phase[e] # "unborn" => phase'[e] # "unborn"
            BY <1>2, <2>2, InstancesGoOn DEF LeaveInv
        <3>2. FirstInstance' => FirstInstance
            BY <3>1 DEF FirstInstance
        <3>3. Typed'
            BY <1>2 DEF Orderly
        <3> QED
            BY <1>2, <2>2, <3>1, <3>2, <3>3, LeavingRules DEF LeaveInv
    <2> QED
        BY <1>2, <2>1, <2>2
<1>3. ASSUME LeaveInv PROVE NobodyLeftBehind
    <2> SUFFICES ASSUME AtRest, script \in Evicting, FirstInstance,
                        \A e \in Instances : ~Live(e),
                        NEW p \in Players, place[p] = "inside"
                 PROVE  FALSE
        BY DEF NobodyLeftBehind
    <2>1. Pending(todo[p])
        BY <1>3 DEF LeaveInv, LeaveRules, InsideKept
    <2>2. ~Pending(todo[p])
        BY IdleForm DEF AtRest, Threads
    <2> QED
        BY <2>1, <2>2
<1> QED
    BY <1>1, <1>2, <1>3, OrderlyAlways, PTL DEF Spec
=============================================================================
