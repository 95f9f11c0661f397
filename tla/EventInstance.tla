-------------------------- MODULE EventInstance --------------------------
(***************************************************************************)
(* One event of one channel: its EventManager, the EventInstanceManagers   *)
(* it makes, and the threads that call the event's script: the event loop  *)
(* of each player's connection and the timer of each instance.  Scripts    *)
(* run without a lock, so the calls of two handlers interleave; a call     *)
(* that takes the instance's write lock is one step.                       *)
(***************************************************************************)
EXTENDS EventScripts, FiniteSets

CONSTANTS
    Scripts,     \* the script records to choose from
    Players,     \* character objects; a new login makes a new object
    Char,        \* the character of each object
    Leaders,     \* the players who start the event for their party
    PartyOf,     \* the characters of each leader's party at the start
    Instances,   \* the instances that can be made, 1 .. n (a bound)
    None

ASSUME ScriptsAssumption == Scripts \subseteq ScriptForms
ASSUME InstancesAssumption == Instances \subseteq Nat
ASSUME PlayersAssumption == IsFiniteSet(Players) /\ Players \cap Instances = {}
ASSUME CharAssumption == Char \in [Players -> Players]
ASSUME LeadersAssumption == Leaders \subseteq Players
ASSUME PartyAssumption == PartyOf \in [Leaders -> SUBSET Players]
ASSUME NoneAssumption == None \notin Players \cup Instances

Threads == Players \cup Instances

VARIABLES
    script,   \* the event's script, chosen once
    state,    \* em.getProperty("state")
    names,    \* em.instances: the instance registered under each name
    name,     \* the name of each instance
    phase,    \* an instance is unborn, live, or disposed for good
    chars,    \* eim.chars
    ticket,   \* the characters an NPC lets back in
    timer,    \* a scheduledTimeout is pending
    eim,      \* player.getEventInstance()
    place,    \* where the player is
    party,    \* the members each leader's party has left
    todo,     \* the calls the thread still has to make
    at        \* the instance those calls are about

instance == << names, name, phase, chars, ticket, timer >>
vars == << script, state, instance, eim, place, party, todo, at >>

-----------------------------------------------------------------------------
Live(e) == phase[e] = "live"
Idle(t) == todo[t] = << >>
AtRest == \A t \in Threads : Idle(t)
In(p) == eim[p] # None /\ Live(eim[p])
NameOf(l) == IF script.fixed THEN "event" ELSE l
Names == Leaders \cup {"event"}

(* What the NPC tests when leader l asks to begin.                          *)
Check(l) ==
    CASE script.check = "state"    -> state = "0"
      [] script.check = "instance" -> names[NameOf(l)] = None
      [] script.check = "empty"    -> \A p \in Players : place[p] # "inside"
      [] script.check = "none"     -> TRUE

Register(cs) == [do |-> "register", rest |-> cs]
SetEvent(p) == [do |-> "set", who |-> p]
Enter(p) == [do |-> "enter", who |-> p]
Drop == [do |-> "drop"]
Offline == [do |-> "offline"]

Init ==
    /\ script \in Scripts
    /\ state = script.init
    /\ names = [n \in Names |-> None]
    /\ name = [e \in Instances |-> "event"]
    /\ phase = [e \in Instances |-> "unborn"]
    /\ chars = [e \in Instances |-> {}]
    /\ ticket = [e \in Instances |-> {}]
    /\ timer = [e \in Instances |-> FALSE]
    /\ eim = [p \in Players |-> None]
    /\ place = [p \in Players |-> IF Char[p] = p THEN "outside" ELSE "offline"]
    /\ party = PartyOf
    /\ todo = [t \in Threads |-> << >>]
    /\ at = [t \in Threads |-> None]

-----------------------------------------------------------------------------
(* What sets a handler going.  Every entry point returns at once when the   *)
(* instance is disposed, which it tests before the script is called.        *)

Begin(t, e, calls) ==
    /\ todo' = [todo EXCEPT ![t] = calls]
    /\ at' = [at EXCEPT ![t] = IF calls = << >> THEN None ELSE e]

(* The leaders whose setup has not reached newInstance: each will take one  *)
(* of the instances left (part of the bound on Instances).                  *)
Opening == {l \in Leaders : \E i \in 1 .. Len(todo[l]) : todo[l][i] = NewInstance}

(* The NPC's test and startInstance, which calls setup and registers the    *)
(* party members found on the NPC's map.                                    *)
StartEvent(l) ==
    /\ Idle(l) /\ place[l] = "outside" /\ Char[l] \in party[l]
    /\ Check(l)
    /\ Cardinality({e \in Instances : phase[e] = "unborn"}) > Cardinality(Opening)
    /\ Begin(l, None, script.setup \o << Register(party[l]) >>)
    /\ UNCHANGED << script, state, instance, eim, place, party >>

(* changeMap out of the event: changedMap first, the move after it.         *)
WalkOut(p) ==
    /\ Idle(p) /\ place[p] = "inside"
    /\ IF In(p)
       THEN /\ \/ Begin(p, eim[p], script.outside \o << WarpOut >>)
               \/ script.ways = "one" /\ Begin(p, eim[p], << WarpOut >>)
            /\ UNCHANGED place
       ELSE /\ place' = [place EXCEPT ![p] = "outside"]
            /\ UNCHANGED << todo, at >>
    /\ UNCHANGED << script, state, instance, eim, party >>

Die(p) ==
    /\ Idle(p) /\ place[p] = "inside" /\ In(p) /\ script.dead # << >>
    /\ Begin(p, eim[p], script.dead)
    /\ UNCHANGED << script, state, instance, eim, place, party >>

(* The last registered monster dies by p's hand.                            *)
MonstersDead(p) ==
    /\ Idle(p) /\ place[p] = "inside" /\ In(p) /\ script.killed # << >>
    /\ Begin(p, eim[p], script.killed)
    /\ UNCHANGED << script, state, instance, eim, place, party >>

FinishPQ(p) ==
    /\ Idle(p) /\ place[p] = "inside" /\ In(p) /\ script.finish # << >>
    /\ Begin(p, eim[p], script.finish)
    /\ UNCHANGED << script, state, instance, eim, place, party >>

(* The party forgets the member before the script hears of it.              *)
LeaveParty(l, p) ==
    /\ Idle(p) /\ place[p] # "offline" /\ Char[p] \in party[l] /\ p # l
    /\ party' = [party EXCEPT ![l] = @ \ {Char[p]}]
    /\ IF In(p) THEN Begin(p, eim[p], script.left) ELSE UNCHANGED << todo, at >>
    /\ UNCHANGED << script, state, instance, eim, place >>

(* The leader disbands the party, or expels a member that is online: both   *)
(* call disbandParty of the leader's instance.                              *)
Disband(l) ==
    /\ Idle(l) /\ place[l] # "offline" /\ party[l] # {}
    /\ \/ party' = [party EXCEPT ![l] = {}]
       \/ \E p \in Players :
              /\ p # l /\ place[p] # "offline" /\ Char[p] \in party[l]
              /\ party' = [party EXCEPT ![l] = @ \ {Char[p]}]
    /\ IF In(l) THEN Begin(l, eim[l], script.disband)
                ELSE UNCHANGED << todo, at >>
    /\ UNCHANGED << script, state, instance, eim, place >>

Disconnect(p) ==
    /\ Idle(p) /\ place[p] # "offline"
    /\ IF In(p) THEN Begin(p, eim[p], script.disconnected \o << Drop, Offline >>)
                ELSE Begin(p, None, << Offline >>)
    /\ UNCHANGED << script, state, instance, eim, place, party >>

(* The character of p logs in again, as the new object p, which nothing     *)
(* refers to yet: no other object of that character is online.              *)
Login(p) ==
    /\ Idle(p) /\ Char[p] # p /\ place[p] = "offline" /\ eim[p] = None
    /\ \A e \in Instances : p \notin chars[e]
    /\ \A t \in Players : \A i \in 1 .. Len(todo[t]) :
           todo[t][i] \notin {SetEvent(p), Enter(p)}
    /\ \A q \in Players : Char[q] = Char[p] => place[q] = "offline"
    /\ place' = [place EXCEPT ![p] = "outside"]
    /\ UNCHANGED << script, state, instance, eim, party, todo, at >>

(* reAdd, or the NPC's registerPlayer: back into an instance em still names.*)
Rejoin(p, n) ==
    /\ script.rejoin # "nobody"
    /\ Idle(p) /\ place[p] = "outside" /\ names[n] # None
    /\ Char[p] \in ticket[names[n]]
    /\ script.rejoin = "dced" => chars[names[n]] # {}
    /\ Begin(p, names[n], << Register({Char[p]}) >>)
    /\ UNCHANGED << script, state, instance, eim, place, party >>

(* The timer of an instance whose setup has returned.                       *)
Timeout(e) ==
    /\ Idle(e) /\ timer[e]
    /\ \A l \in Leaders : at[l] = e => \A i \in 1 .. Len(todo[l]) :
           todo[l][i] \notin {StartTimer, SetState("1")}
    /\ timer' = [timer EXCEPT ![e] = FALSE]
    /\ IF Live(e) THEN Begin(e, e, script.timeout) ELSE UNCHANGED << todo, at >>
    /\ UNCHANGED << script, state, names, name, phase, chars, ticket, eim, place,
                    party >>

(* A setup that starts no timer schedules a function that does.             *)
Spawn(e) ==
    /\ Idle(e) /\ Live(e) /\ ~timer[e]
    /\ StartTimer \notin {script.setup[i] : i \in 1 .. Len(script.setup)}
    /\ timer' = [timer EXCEPT ![e] = TRUE]
    /\ UNCHANGED << script, state, names, name, phase, chars, ticket, eim, place,
                    party, todo, at >>

-----------------------------------------------------------------------------
(* The calls, one action each.  Continue(t, calls) makes calls next.         *)

Doing(t, what) == ~Idle(t) /\ Head(todo[t]).do = what
Call(t) == Head(todo[t])

Continue(t, calls) ==
    LET rest == calls \o Tail(todo[t]) IN
    /\ todo' = [todo EXCEPT ![t] = rest]
    /\ at' = [at EXCEPT ![t] = IF rest = << >> THEN None ELSE @]

(* Mutant: disposeInstance leaves the state alone.                         *)
DisposeKeepsState(e) ==
    /\ phase' = [phase EXCEPT ![e] = "disposed"]
    /\ chars' = [chars EXCEPT ![e] = {}]
    /\ ticket' = [ticket EXCEPT ![e] = {}]
    /\ timer' = [timer EXCEPT ![e] = FALSE]
    /\ names' = [names EXCEPT ![name[e]] = None]
    /\ UNCHANGED << state, name >>

(* dispose_NoLock, with em.disposeInstance; gone are the members, whose     *)
(* instance is set to null.                                                 *)
Dispose(e) ==
    /\ phase' = [phase EXCEPT ![e] = "disposed"]
    /\ chars' = [chars EXCEPT ![e] = {}]
    /\ ticket' = [ticket EXCEPT ![e] = {}]
    /\ timer' = [timer EXCEPT ![e] = FALSE]
    /\ names' = [names EXCEPT ![name[e]] = None]
    /\ state' = IF state # "null" /\ \A n \in Names : names'[n] = None
                THEN "0" ELSE state
    /\ UNCHANGED name

ClearEvent(ps) == eim' = [p \in Players |-> IF p \in ps THEN None ELSE eim[p]]

(* Mutant: unregisterPlayer forgets setEventInstance(null).                 *)
DoUnregisterByHalf(t) ==
    /\ Doing(t, "unregister")
    /\ chars' = [chars EXCEPT ![at[t]] = @ \ {t}]
    /\ Continue(t, << >>)
    /\ UNCHANGED << script, state, names, name, phase, ticket, timer, eim, place,
                    party >>

DoUnregister(t) ==
    /\ Doing(t, "unregister")
    /\ ClearEvent({t})
    /\ chars' = [chars EXCEPT ![at[t]] = @ \ {t}]
    /\ Continue(t, << >>)
    /\ UNCHANGED << script, state, names, name, phase, ticket, timer, place,
                    party >>

(* changeMap of a player who has just been unregistered.                    *)
DoWarp(t) ==
    /\ Doing(t, "warp")
    /\ place' = [place EXCEPT ![t] = IF @ = "inside" THEN "outside" ELSE @]
    /\ Continue(t, << >>)
    /\ UNCHANGED << script, state, instance, eim, party >>

DoState(t) ==
    /\ Doing(t, "state")
    /\ state' = Call(t).value
    /\ Continue(t, << >>)
    /\ UNCHANGED << script, instance, eim, place, party >>

(* Mutant: the count of the monsters' deaths goes past the last phase.      *)
DoAdvancePast(t) ==
    /\ Doing(t, "advance")
    /\ state' = CASE state = "1" -> "2" [] state = "2" -> "3" [] OTHER -> "4"
    /\ Continue(t, << >>)
    /\ UNCHANGED << script, instance, eim, place, party >>

DoAdvance(t) ==
    /\ Doing(t, "advance")
    /\ state' = CASE state = "1" -> "2" [] state = "2" -> "3" [] OTHER -> state
    /\ Continue(t, << >>)
    /\ UNCHANGED << script, instance, eim, place, party >>

DoForbid(t) ==
    /\ Doing(t, "forbid")
    /\ ticket' = [ticket EXCEPT ![at[t]] = @ \ {Char[t]}]
    /\ Continue(t, << >>)
    /\ UNCHANGED << script, state, names, name, phase, chars, timer, eim, place,
                    party >>

(* Mutant: nobody is warped out.                                            *)
DoDisposeInPlace(t) ==
    LET e == at[t]
        gone == chars[e]
    IN  /\ Doing(t, "dispose")
        /\ IF Live(e) /\ Cardinality(gone) <= Call(t).below
           THEN Dispose(e) /\ ClearEvent(gone) /\ Continue(t, Call(t).yes)
           ELSE /\ Continue(t, IF Live(e) THEN Call(t).no ELSE Call(t).yes)
                /\ UNCHANGED << state, instance, eim >>
        /\ UNCHANGED << script, place, party >>

(* disposeIfPlayerBelow: TRUE as well if the instance is disposed already.  *)
DoDispose(t) ==
    LET e == at[t]
        gone == chars[e]
    IN  /\ Doing(t, "dispose")
        /\ IF Live(e) /\ Cardinality(gone) <= Call(t).below
           THEN /\ Dispose(e)
                /\ ClearEvent(gone)
                /\ place' = [p \in Players |->
                       IF p \in gone /\ Call(t).warp /\ place[p] = "inside"
                       THEN "outside" ELSE place[p]]
                /\ Continue(t, Call(t).yes)
           ELSE /\ Continue(t, IF Live(e) THEN Call(t).no ELSE Call(t).yes)
                /\ UNCHANGED << state, instance, eim, place >>
        /\ UNCHANGED << script, party >>

DoFewer(t) ==
    /\ Doing(t, "fewer")
    /\ Continue(t, IF Cardinality(chars[at[t]]) < Call(t).than
                   THEN Call(t).yes ELSE Call(t).no)
    /\ UNCHANGED << script, state, instance, eim, place, party >>

(* newInstance puts the instance under its name, over any that is there.    *)
DoOpen(l) ==
    /\ Doing(l, "open")
    /\ \E e \in Instances :
           /\ phase[e] = "unborn" /\ \A f \in Instances : f < e => phase[f] # "unborn"
           /\ phase' = [phase EXCEPT ![e] = "live"]
           /\ name' = [name EXCEPT ![e] = NameOf(l)]
           /\ names' = [names EXCEPT ![NameOf(l)] = e]
           /\ todo' = [todo EXCEPT ![l] = Tail(@)]
           /\ at' = [at EXCEPT ![l] = e]
    /\ UNCHANGED << script, state, chars, ticket, timer, eim, place, party >>

(* Mutant: restartEventTimer cancels the old timer and sets none.           *)
DoTimerCancelled(t) ==
    /\ Doing(t, "timer")
    /\ timer' = [timer EXCEPT ![at[t]] = FALSE]
    /\ Continue(t, << >>)
    /\ UNCHANGED << script, state, names, name, phase, chars, ticket, eim, place,
                    party >>

DoTimer(t) ==
    /\ Doing(t, "timer")
    /\ timer' = [timer EXCEPT ![at[t]] = Live(at[t])]
    /\ Continue(t, << >>)
    /\ UNCHANGED << script, state, names, name, phase, chars, ticket, eim, place,
                    party >>

(* registerParty: for each member on the map, registerPlayer.  It adds the  *)
(* player to chars under the lock, sets the player's instance without it,   *)
(* and calls playerEntry.                                                   *)
DoRegister(t) ==
    /\ Doing(t, "register")
    /\ LET e == at[t]
           rest == Call(t).rest
       IN  IF rest = {} \/ ~Live(e)
           THEN Continue(t, << >>) /\ UNCHANGED chars
           ELSE \E c \in rest :
                  LET here == {p \in Players : Char[p] = c /\ place[p] = "outside"}
                  IN  IF here = {}
                      THEN /\ Continue(t, << Register(rest \ {c}) >>)
                           /\ UNCHANGED chars
                      ELSE \E p \in here :
                             /\ chars' = [chars EXCEPT ![e] = @ \cup {p}]
                             /\ Continue(t, << SetEvent(p), Enter(p),
                                               Register(rest \ {c}) >>)
    /\ UNCHANGED << script, state, names, name, phase, ticket, timer, eim, place,
                    party >>

DoSet(t) ==
    /\ Doing(t, "set")
    /\ eim' = [eim EXCEPT ![Call(t).who] = at[t]]
    /\ Continue(t, << >>)
    /\ UNCHANGED << script, state, instance, place, party >>

DoEnter(t) ==
    LET p == Call(t).who
        e == at[t]
    IN  /\ Doing(t, "enter")
        /\ place' = [place EXCEPT ![p] =
               IF @ = "offline" \/ (script.entry = "eim" /\ ~Live(e))
               THEN @ ELSE "inside"]
        /\ ticket' = IF script.rejoin = "squad" /\ Live(e)
                     THEN [ticket EXCEPT ![e] = @ \cup {Char[p]}] ELSE ticket
        /\ Continue(t, << >>)
        /\ UNCHANGED << script, state, names, name, phase, chars, timer, eim,
                        party >>

(* The rest of playerDisconnected.  The script's answer is an Integer where *)
(* the code casts to Double, so the answer used is 0 whatever it was: the   *)
(* player is unregistered, and the instance disposed if that was the last.  *)
DoDrop(t) ==
    LET e == at[t] IN
    /\ Doing(t, "drop")
    /\ IF ~Live(e)
       THEN UNCHANGED << state, instance, eim >>
       ELSE IF chars[e] \subseteq {t}
       THEN Dispose(e) /\ ClearEvent({t})
       ELSE /\ chars' = [chars EXCEPT ![e] = @ \ {t}]
            /\ ClearEvent({t})
            /\ \/ script.rejoin = "dced"
                  /\ ticket' = [ticket EXCEPT ![e] = @ \cup {Char[t]}]
               \/ UNCHANGED ticket    \* the player died, or no way back
            /\ UNCHANGED << state, names, name, phase, timer >>
    /\ Continue(t, << >>)
    /\ UNCHANGED << script, place, party >>

DoOffline(t) ==
    /\ Doing(t, "offline")
    /\ place' = [place EXCEPT ![t] = "offline"]
    /\ Continue(t, << >>)
    /\ UNCHANGED << script, state, instance, eim, party >>

-----------------------------------------------------------------------------
Step(t) ==
    \/ DoUnregister(t) \/ DoWarp(t) \/ DoState(t) \/ DoAdvance(t)
    \/ DoForbid(t) \/ DoDispose(t) \/ DoFewer(t) \/ DoTimer(t)
    \/ DoRegister(t) \/ DoSet(t) \/ DoEnter(t) \/ DoDrop(t) \/ DoOffline(t)
    \/ DoOpen(t)

Next ==
    \/ \E l \in Leaders : StartEvent(l) \/ Disband(l)
    \/ \E l \in Leaders, p \in Players : LeaveParty(l, p)
    \/ \E p \in Players :
           \/ WalkOut(p) \/ Die(p) \/ MonstersDead(p) \/ FinishPQ(p)
           \/ Disconnect(p) \/ Login(p)
           \/ \E n \in Names : Rejoin(p, n)
    \/ \E e \in Instances : Timeout(e) \/ Spawn(e)
    \/ \E t \in Threads : Step(t)

Spec == Init /\ [][Next]_vars

(* A handler under way goes on, and a timer that is set fires; nobody has   *)
(* to do anything else.                                                     *)
Fairness ==
    /\ \A t \in Threads : WF_vars(Step(t))
    /\ \A e \in Instances : WF_vars(Timeout(e)) /\ WF_vars(Spawn(e))

FairSpec == Spec /\ Fairness

-----------------------------------------------------------------------------
(* Properties.                                                              *)

Calls == {"unregister", "warp", "open", "timer", "state", "advance", "forbid",
          "dispose", "fewer", "register", "set", "enter", "drop", "offline"}

TypeOK ==
    /\ script \in Scripts
    /\ state \in {"null", "0", "1", "2", "3"}
    /\ names \in [Names -> Instances \cup {None}]
    /\ name \in [Instances -> Names]
    /\ phase \in [Instances -> {"unborn", "live", "disposed"}]
    /\ chars \in [Instances -> SUBSET Players]
    /\ ticket \in [Instances -> SUBSET Players]
    /\ timer \in [Instances -> BOOLEAN]
    /\ eim \in [Players -> Instances \cup {None}]
    /\ place \in [Players -> {"outside", "inside", "offline"}]
    /\ party \in [Leaders -> SUBSET Players]
    /\ at \in [Threads -> Instances \cup {None}]
    /\ \A t \in Threads : \A i \in 1 .. Len(todo[t]) : todo[t][i].do \in Calls

(* A player's event instance, while it lives, counts the player among its   *)
(* members: no interleaving of registration with leaving, ending and        *)
(* disconnecting leaves a player whose leaving the instance would not see.  *)
MemberOfOwnInstance == \A p \in Players : In(p) => p \in chars[eim[p]]

(* "state" other than "0" tells the NPCs that a team is inside.  Once no    *)
(* handler is under way it never says so of an event without an instance,   *)
(* which no team could enter again.                                         *)
ClosedMeansLive ==
    AtRest /\ state \notin {"null", "0"} => \E e \in Instances : Live(e)

(* The event has made one instance so far, at most.  A handler that still   *)
(* runs when its instance has ended may otherwise take its player, by then  *)
(* a member of the next, out of that one's maps.                            *)
FirstInstance ==
    \A e, f \in Instances : phase[e] # "unborn" /\ phase[f] # "unborn" => e = f

(* Nobody who has left the event's maps stays a member, to share what those *)
(* inside earn and to keep the instance from being disposed.                *)
MembersInside ==
    AtRest /\ script \in KnowsWayOut /\ FirstInstance
        => \A e \in Instances : \A p \in chars[e] : place[p] # "outside"

(* When no instance is left, nobody is left in the event's maps, where the  *)
(* script warps whoever it lets out.                                        *)
NobodyLeftBehind ==
    AtRest /\ script \in Evicting /\ FirstInstance /\ (\A e \in Instances : ~Live(e))
        => \A p \in Players : place[p] # "inside"

(* The comments of the scripts on the answer of playerDisconnected: a       *)
(* negative answer boots everyone when the leader disconnects.              *)
LeaderBootsAll ==
    [][\A l \in Leaders :
          Doing(l, "drop") /\ Live(at[l]) /\ todo'[l] # todo[l]
              => ~Live(at[l])']_vars

(* Every instance is disposed in the end.                                   *)
EveryInstanceEnds == \A e \in Instances : Live(e) ~> ~Live(e)

(* An event that is closed opens again.                                     *)
EventReopens == state \notin {"null", "0"} ~> state \in {"null", "0"}
=============================================================================
