------------------------------- MODULE Squad -------------------------------
(***************************************************************************)
(* The squads of one boss on one channel: the registry of ChannelServer,   *)
(* MapleSquad with its sign-up clock and its waiting list, the dialogue of *)
(* the boss's NPC, and the fight.  The NPC and the event are those of      *)
(* nmm_squad (scripts/npc/9120036.js, scripts/event/NamelessMagicMonster). *)
(* A dialogue remembers the menu it showed, whatever becomes of the squad  *)
(* until the player answers.                                               *)
(***************************************************************************)
EXTENDS Integers, Sequences

CONSTANTS
    Char,     \* characters, by name
    Squads,   \* MapleSquad objects; one that nothing refers to is used again
    Fights,   \* event instances, used again likewise
    None

ASSUME NoneAssumption == None \notin Squads \cup Fights \cup Char

VARIABLES
    reg,      \* mapleSquads.get(type)
    squad,    \* the squad objects
    clock,    \* the squads whose removal is scheduled
    queue,    \* type.queue.get(ch)
    state,    \* em.getProperty("state")
    fight,    \* the event instances
    named,    \* em.instances, by the name of the leader
    eim,      \* chr.getEventInstance()
    where,    \* the NPC's map, the boss's, another of the channel, or none
    talk,     \* the menu each player has before him: the script's status
    job,      \* a handler between two of its steps
    clash     \* two registrations have overlapped

registry == << reg, squad, clock, queue >>
event == << fight, named, eim >>
vars == << registry, state, event, where, talk, job, clash >>

-----------------------------------------------------------------------------
Menus == {"register", "rejoin", "queue", "member", "leader", "ban", "accept"}
Places == {"begin", "boss", "away", "off"}
Limit == 30

Blank == [leader |-> None, members |-> << >>, banned |-> {}, status |-> 0,
          ref |-> "none", deserted |-> FALSE]

(* new MapleSquad.                                                          *)
Led(c) ==
    [leader |-> c, members |-> << c >>, banned |-> {}, status |-> 1,
     ref |-> "held", deserted |-> FALSE]

NoFight == [live |-> FALSE, name |-> None, chars |-> {}, dced |-> {}]

In(c, s) == \E i \in 1 .. Len(s) : s[i] = c
Without(s, gone) == LET Stays(c) == c \notin gone IN SelectSeq(s, Stays)

Idle(c) == job[c] = None
InUse(x, f) == \E c \in Char : ~Idle(c) /\ job[c][f] = x
FreeSquads == {s \in Squads : reg # s /\ ~clock[s] /\ ~InUse(s, "sq")}
FreeFights == {e \in Fights : ~fight[e].live /\ ~InUse(e, "fight")}
Status(s) == squad[s].status
Empty(w) == \A c \in Char : w[c] # "boss"

Init ==
    /\ reg = None
    /\ squad = [s \in Squads |-> Blank]
    /\ clock = [s \in Squads |-> FALSE]
    /\ queue = << >>
    /\ state = "0"
    /\ fight = [e \in Fights |-> NoFight]
    /\ named = [c \in Char |-> None]
    /\ eim = [c \in Char |-> None]
    /\ where = [c \in Char |-> "begin"]
    /\ talk = [c \in Char |-> "none"]
    /\ job = [c \in Char |-> None]
    /\ clash = FALSE

-----------------------------------------------------------------------------
(* The registry.                                                            *)

(* getLeader answers by the weak reference, and by name once its object has *)
(* been collected; a name that is found makes a new reference.              *)
ByName(s) == squad[s].members # << >> /\ where[squad[s].leader] # "off"
LeaderFound(s) == squad[s].ref = "held" \/ (squad[s].ref = "gone" /\ ByName(s))
LeaderGone(s) == squad[s].ref = "gone" /\ ~ByName(s)

(* The garbage collector, when the leader has left the channel.             *)
Collect(s) ==
    /\ squad[s].ref = "held" /\ where[squad[s].leader] = "off"
    /\ squad' = [squad EXCEPT ![s].ref = "gone"]
    /\ UNCHANGED << reg, clock, queue, state, event, where, talk, job, clash >>

(* Mutant: clear leaves the clock running.                                  *)
ClearKeepsClock(s) ==
    /\ reg' = None
    /\ squad' = [squad EXCEPT ![s] = Blank]
    /\ UNCHANGED clock

(* clear removes whichever squad of the type is registered.                 *)
Clear(s) ==
    /\ reg' = None
    /\ squad' = [squad EXCEPT ![s] = Blank]
    /\ clock' = [clock EXCEPT ![s] = FALSE]

(* The first of the waiting list who is at the NPC; those before him are    *)
(* dropped.                                                                 *)
NextUp(w) ==
    IF \E i \in 1 .. Len(queue) : w[queue[i]] = "begin"
    THEN CHOOSE i \in 1 .. Len(queue) :
            /\ w[queue[i]] = "begin"
            /\ \A j \in 1 .. i - 1 : w[queue[j]] # "begin"
    ELSE 0

(* clear, then copy: the next leader's squad is made and registered.        *)
ClearAndCopy(s, w) ==
    LET i == NextUp(w)
        n == CHOOSE n \in FreeSquads : TRUE
    IN  IF i = 0
        THEN Clear(s) /\ queue' = << >>
        ELSE /\ reg' = n
             /\ squad' = [squad EXCEPT ![s] = Blank, ![n] = Led(queue[i])]
             /\ clock' = [clock EXCEPT ![s] = FALSE, ![n] = TRUE]
             /\ queue' = SubSeq(queue, i + 1, Len(queue))

(* The sign-up clock.  A squad that has been cleared has no leader.         *)
SignUpEnds(s) ==
    /\ clock[s]
    /\ IF Status(s) = 1 \/ (Status(s) = 2 /\ LeaderGone(s))
       THEN ClearAndCopy(s, where)
       ELSE /\ clock' = [clock EXCEPT ![s] = FALSE]
            /\ UNCHANGED << reg, squad, queue >>
    /\ UNCHANGED << state, event, where, talk, job, clash >>

-----------------------------------------------------------------------------
(* The dialogue: start() of the NPC's script.                               *)

Show(c, menu) == talk' = [talk EXCEPT ![c] = menu]

CanRejoin(c, e) ==
    /\ \E l \in Char : named[l] = e
    /\ fight[e].live /\ c \in fight[e].dced /\ fight[e].chars # {}

Ready(c, menu) == Idle(c) /\ talk[c] = menu

(* A fight is on: back in, or onto the waiting list.                        *)
TalkDuringFight(c) ==
    /\ state # "0" \/ (reg # None /\ Status(reg) # 1)
    /\ IF \E e \in Fights : CanRejoin(c, e) THEN Show(c, "rejoin")
       ELSE reg # None /\ Show(c, "queue")
    /\ UNCHANGED registry

TalkToRegister(c) ==
    /\ state = "0" /\ reg = None
    /\ Show(c, "register")
    /\ UNCHANGED registry

TalkDuringSignUp(c) ==
    /\ state = "0" /\ reg # None /\ Status(reg) = 1
    /\ \/ /\ LeaderGone(reg)
          /\ Clear(reg)
          /\ UNCHANGED << queue, talk >>
       \/ /\ LeaderFound(reg)
          /\ \/ squad[reg].leader = c /\ Show(c, "leader")
             \/ /\ squad[reg].leader # c /\ c \notin squad[reg].banned
                /\ Show(c, "member")
             \/ /\ squad[reg].leader # c /\ c \in squad[reg].banned
                /\ UNCHANGED talk
          /\ squad' = [squad EXCEPT ![reg].ref = "held"]
          /\ UNCHANGED << reg, clock, queue >>

Talk(c) ==
    /\ Ready(c, "none") /\ where[c] = "begin"
    /\ TalkDuringFight(c) \/ TalkToRegister(c) \/ TalkDuringSignUp(c)
    /\ UNCHANGED << state, event, where, job, clash >>

Close(c) ==
    /\ Idle(c) /\ talk[c] # "none"
    /\ Show(c, "none")
    /\ UNCHANGED << registry, state, event, where, job, clash >>

-----------------------------------------------------------------------------
(* registerSquad: the test, the construction and addMapleSquad's containsKey*)
(* and put take no lock.                                                    *)

Doing(c, what) == ~Idle(c) /\ job[c].do = what
Adding(what, s) ==
    [do |-> what, sq |-> s, fight |-> None, map |-> "begin", rest |-> << >>]

(* Two squads must be free: one stays for a copy (part of the bound).       *)
Register(c) ==
    /\ Ready(c, "register")
    /\ IF reg # None
       THEN UNCHANGED << squad, job >>
       ELSE /\ \E s, t \in FreeSquads : s # t
            /\ LET s == CHOOSE s \in FreeSquads : TRUE IN
               /\ squad' = [squad EXCEPT ![s] = Led(c)]
               /\ job' = [job EXCEPT ![c] = Adding("test", s)]
    /\ Show(c, "none")
    /\ UNCHANGED << reg, clock, queue, state, event, where, clash >>

(* A squad that is refused is cleared.                                      *)
TestKey(c) ==
    /\ Doing(c, "test")
    /\ IF reg # None
       THEN /\ Clear(job[c].sq)
            /\ job' = [job EXCEPT ![c] = None]
            /\ clash' = TRUE
       ELSE /\ job' = [job EXCEPT ![c] = Adding("put", @.sq)]
            /\ UNCHANGED << reg, squad, clock, clash >>
    /\ UNCHANGED << queue, state, event, where, talk >>

PutSquad(c) ==
    /\ Doing(c, "put")
    /\ reg' = job[c].sq
    /\ clock' = [clock EXCEPT ![job[c].sq] = TRUE]
    /\ clash' = (clash \/ reg # None)
    /\ job' = [job EXCEPT ![c] = None]
    /\ UNCHANGED << squad, queue, state, event, where, talk >>

-----------------------------------------------------------------------------
(* The menus of the squad.                                                  *)

Join(c) ==
    /\ Ready(c, "member")
    /\ \/ reg = None /\ UNCHANGED << reg, squad, clock >>
       \/ reg # None /\ LeaderGone(reg) /\ Clear(reg)
       \/ /\ reg # None /\ LeaderFound(reg)
          /\ IF In(c, squad[reg].members) \/ Len(squad[reg].members) > Limit
             THEN squad' = [squad EXCEPT ![reg].ref = "held"]
             ELSE squad' = [squad EXCEPT ![reg].ref = "held",
                                         ![reg].members = Append(@, c)]
          /\ UNCHANGED << reg, clock >>
    /\ Show(c, "none")
    /\ UNCHANGED << queue, state, event, where, job, clash >>

Withdraw(c) ==
    /\ Ready(c, "member")
    /\ \/ reg = None /\ UNCHANGED << reg, squad, clock >>
       \/ reg # None /\ LeaderGone(reg) /\ Clear(reg)
       \/ /\ reg # None /\ LeaderFound(reg)
          /\ squad' = [squad EXCEPT ![reg].ref = "held",
                                   ![reg].members = Without(@, {c})]
          /\ UNCHANGED << reg, clock >>
    /\ Show(c, "none")
    /\ UNCHANGED << queue, state, event, where, job, clash >>

(* setNextPlayer takes a name off the list that is on it.                   *)
Wait(c) ==
    /\ Ready(c, "queue")
    /\ queue' = IF reg = None THEN queue
                ELSE IF In(c, queue) THEN Without(queue, {c})
                ELSE Append(queue, c)
    /\ Show(c, "none")
    /\ UNCHANGED << reg, squad, clock, state, event, where, job, clash >>

ChooseList(c) ==
    /\ Ready(c, "leader") /\ reg # None
    /\ \E menu \in {"ban", "accept"} : Show(c, menu)
    /\ UNCHANGED << registry, state, event, where, job, clash >>

(* Whoever stands first cannot be banned.                                   *)
Ban(c) ==
    /\ Ready(c, "ban")
    /\ \/ reg = None /\ UNCHANGED squad
       \/ /\ reg # None
          /\ \E i \in 2 .. Len(squad[reg].members) :
                LET out == squad[reg].members[i] IN
                /\ where[out] # "off"
                /\ squad' = [squad EXCEPT ![reg].banned = @ \cup {out},
                                          ![reg].members = Without(@, {out})]
    /\ Show(c, "none")
    /\ UNCHANGED << reg, clock, queue, state, event, where, job, clash >>

Accept(c) ==
    /\ Ready(c, "accept")
    /\ \/ reg = None /\ UNCHANGED squad
       \/ /\ reg # None
          /\ \E b \in squad[reg].banned :
                /\ where[b] # "off"
                /\ squad' = [squad EXCEPT
                      ![reg].banned = @ \ {b},
                      ![reg].members = IF In(b, @) THEN @ ELSE Append(@, b)]
    /\ Show(c, "none")
    /\ UNCHANGED << reg, clock, queue, state, event, where, job, clash >>

-----------------------------------------------------------------------------
(* The fight.                                                               *)

(* The leader's menu starts the squad registered by now, whichever it was   *)
(* when the menu was shown and whatever its status.                         *)
MayStart == reg # None /\ LeaderFound(reg) /\ squad[reg].members # << >>

Start(c) ==
    /\ Ready(c, "leader") /\ where[c] # "off" /\ MayStart /\ FreeFights # {}
    /\ LET e == CHOOSE e \in FreeFights : TRUE
           l == squad[reg].leader
       IN  /\ fight' = [fight EXCEPT ![e] = [NoFight EXCEPT !.live = TRUE, !.name = l]]
           /\ named' = [named EXCEPT ![l] = e]
           /\ job' = [job EXCEPT ![c] =
                 [do |-> "enter", sq |-> reg, fight |-> e, map |-> where[c],
                  rest |-> squad[reg].members]]
    /\ state' = "1"
    /\ squad' = [squad EXCEPT ![reg].ref = "held"]
    /\ Show(c, "none")
    /\ UNCHANGED << reg, clock, queue, eim, where, clash >>

StartRefused(c) ==
    /\ Ready(c, "leader")
    /\ \/ /\ reg # None => LeaderFound(reg) /\ squad[reg].members = << >>
          /\ UNCHANGED << reg, squad, clock >>
       \/ reg # None /\ LeaderGone(reg) /\ Clear(reg)
    /\ Show(c, "none")
    /\ UNCHANGED << queue, state, event, where, job, clash >>

(* registerSquad: the members on the starter's map, one after the other.    *)
Enter(c) ==
    /\ Doing(c, "enter") /\ job[c].rest # << >>
    /\ LET m == Head(job[c].rest)
           e == job[c].fight
       IN  IF where[m] = job[c].map /\ fight[e].live
           THEN /\ fight' = [fight EXCEPT ![e].chars = @ \cup {m}]
                /\ eim' = [eim EXCEPT ![m] = e]
                /\ where' = [where EXCEPT ![m] = "boss"]
           ELSE UNCHANGED << fight, eim, where >>
    /\ job' = [job EXCEPT ![c].rest = Tail(@)]
    /\ UNCHANGED << registry, state, named, talk, clash >>

(* setStatus(2), which takes the sign-up clock back.                        *)
Started(c) ==
    /\ Doing(c, "enter") /\ job[c].rest = << >>
    /\ squad' = [squad EXCEPT ![job[c].sq].status = 2,
                              ![job[c].sq].deserted = Empty(where)]
    /\ clock' = [clock EXCEPT ![job[c].sq] = FALSE]
    /\ job' = [job EXCEPT ![c] = None]
    /\ UNCHANGED << reg, queue, state, event, where, talk, clash >>

(* reAdd, by an instance that still has players.                            *)
Rejoin(c) ==
    /\ Ready(c, "rejoin") /\ where[c] # "off"
    /\ \/ /\ reg # None => \A e \in Fights : ~CanRejoin(c, e)
          /\ UNCHANGED << squad, fight, eim, where >>
       \/ \E e \in Fights :
             /\ reg # None /\ CanRejoin(c, e)
             /\ squad' = [squad EXCEPT ![reg].members = Append(Without(@, {c}), c)]
             /\ fight' = [fight EXCEPT ![e].chars = @ \cup {c}]
             /\ eim' = [eim EXCEPT ![c] = e]
             /\ where' = [where EXCEPT ![c] = "boss"]
    /\ Show(c, "none")
    /\ UNCHANGED << reg, clock, queue, state, named, job, clash >>

(* Mutant: the map is counted before the player has left it.                *)
CountsTheLeaver(gone, w) ==
    IF reg = None \/ Status(reg) # 2
    THEN UNCHANGED registry
    ELSE IF Empty(where)
    THEN ClearAndCopy(reg, w)
    ELSE /\ squad' = [squad EXCEPT ![reg].members = Without(@, gone)]
         /\ UNCHANGED << reg, clock, queue >>

(* checkStates of the boss's map, when those in gone leave it and w is      *)
(* where everybody is then.                                                 *)
CheckStates(gone, w) ==
    IF reg = None \/ Status(reg) # 2
    THEN UNCHANGED registry
    ELSE IF Empty(w)
    THEN ClearAndCopy(reg, w)
    ELSE /\ squad' = [squad EXCEPT ![reg].members = Without(@, gone)]
         /\ UNCHANGED << reg, clock, queue >>

StateAfter(w, disposed) ==
    IF disposed \/ (Empty(w) /\ (reg = None \/ Status(reg) = 2))
    THEN "0" ELSE state

(* dispose removes the instance by its name, and forgets its players.       *)
Disposed(e) ==
    /\ fight' = [fight EXCEPT ![e] = NoFight]
    /\ named' = [named EXCEPT ![fight[e].name] = None]

Forget(cs) == eim' = [c \in Char |-> IF c \in cs THEN None ELSE eim[c]]

(* The event's changedMap for c, and the departure from the map.            *)
Leave(c, place) ==
    LET e == eim[c]
        w == [where EXCEPT ![c] = place]
        last == e # None /\ fight[e].chars \subseteq {c}
    IN  /\ where[c] = "boss"
        /\ where' = w
        /\ IF e = None THEN UNCHANGED << fight, named >>
           ELSE IF last THEN Disposed(e)
           ELSE /\ fight' = [fight EXCEPT ![e].chars = @ \ {c}]
                /\ UNCHANGED named
        /\ Forget({c})
        /\ state' = StateAfter(w, last)
        /\ CheckStates({c}, w)
        /\ UNCHANGED << talk, job, clash >>

(* scheduledTimeout: everyone of the instance is warped to the exit.        *)
FightEnds(e) ==
    LET gone == fight[e].chars
        w == [c \in Char |-> IF c \in gone /\ where[c] # "off" THEN "away"
                             ELSE where[c]]
        left == {c \in gone : where[c] = "boss"}
    IN  /\ fight[e].live
        /\ where' = w
        /\ Disposed(e)
        /\ Forget(gone)
        /\ state' = StateAfter(w, TRUE)
        /\ IF left = {} THEN UNCHANGED registry ELSE CheckStates(left, w)
        /\ UNCHANGED << talk, job, clash >>

-----------------------------------------------------------------------------
(* Coming and going.                                                        *)

Walk(c, place) ==
    /\ where[c] \in {"begin", "away"} /\ place \in {"begin", "away"} \ {where[c]}
    /\ where' = [where EXCEPT ![c] = place]
    /\ UNCHANGED << registry, state, event, talk, job, clash >>

Login(c) ==
    /\ where[c] = "off" /\ Idle(c)
    /\ \E place \in {"begin", "away"} : where' = [where EXCEPT ![c] = place]
    /\ UNCHANGED << registry, state, event, talk, job, clash >>

(* playerDisconnected keeps the place of a player who was alive.            *)
Logout(c) ==
    LET e == eim[c]
        w == [where EXCEPT ![c] = "off"]
        last == e # None /\ fight[e].chars \subseteq {c}
        closed == last /\ \A l \in Char : named'[l] = None
    IN  /\ where[c] # "off"
        /\ where' = w
        /\ IF e = None THEN UNCHANGED << fight, named >>
           ELSE IF last THEN Disposed(e)
           ELSE /\ \E back \in SUBSET {c} :
                      fight' = [fight EXCEPT ![e].chars = @ \ {c},
                                             ![e].dced = @ \cup back]
                /\ UNCHANGED named
        /\ Forget({c})
        /\ state' = IF where[c] = "boss" THEN StateAfter(w, closed) ELSE state
        /\ IF where[c] = "boss" THEN CheckStates({c}, w) ELSE UNCHANGED registry
        /\ Show(c, "none")
        /\ UNCHANGED << job, clash >>

-----------------------------------------------------------------------------
Step(c) == TestKey(c) \/ PutSquad(c) \/ Enter(c) \/ Started(c)

Answer(c) ==
    \/ Register(c) \/ Join(c) \/ Withdraw(c) \/ Wait(c) \/ ChooseList(c)
    \/ Ban(c) \/ Accept(c) \/ Start(c) \/ StartRefused(c) \/ Rejoin(c)

Next ==
    \/ \E c \in Char :
          \/ Talk(c) \/ Close(c) \/ Answer(c) \/ Step(c) \/ Login(c) \/ Logout(c)
          \/ \E place \in {"begin", "away"} : Walk(c, place) \/ Leave(c, place)
    \/ \E s \in Squads : SignUpEnds(s) \/ Collect(s)
    \/ \E e \in Fights : FightEnds(e)

Spec == Init /\ [][Next]_vars

Fairness ==
    /\ \A c \in Char : WF_vars(Step(c))
    /\ \A s \in Squads : WF_vars(SignUpEnds(s))
    /\ \A e \in Fights : WF_vars(FightEnds(e))

FairSpec == Spec /\ Fairness

-----------------------------------------------------------------------------
(* Properties.                                                              *)

(* A sign-up clock that is running belongs to the registered squad, unless  *)
(* two registrations have overlapped.  clear removes a squad by its type,   *)
(* so the clock of any other would end somebody else's sign-up or fight.    *)
ClockOfRegistered == \A s \in Squads : clock[s] /\ ~clash => reg = s

(* Every squad makes room in the end: its sign-up by the clock, its fight   *)
(* by the event's timer or by the departure of the last, each of which      *)
(* takes it from the registry.  The exception is a fight nobody has         *)
(* entered: nobody can leave its map, and the boss stays taken.             *)
SquadEnds ==
    \A s \in Squads : reg = s ~> reg # s \/ squad[s].deserted \/ clash
=============================================================================
