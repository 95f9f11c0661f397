--------------------------- MODULE EventScripts ---------------------------
(***************************************************************************)
(* The event scripts of scripts/event, as data.  A handler of a script is  *)
(* the sequence of calls it makes on the instance manager (eim) and on the *)
(* event manager (em): those calls are what another thread can observe     *)
(* between, and EventInstance.tla runs them one at a time.  Maps are       *)
(* reduced to being inside or outside the event, monsters and messages are *)
(* left out, and so is the property "leader", which stays "true".          *)
(***************************************************************************)
EXTENDS Integers, Sequences

-----------------------------------------------------------------------------
(* The calls.  DisposeIf is eim.disposeIfPlayerBelow(n, map): warp says     *)
(* whether map is positive; the calls of yes or no follow its result.       *)

Unregister == [do |-> "unregister"]
WarpOut == [do |-> "warp"]
NewInstance == [do |-> "open"]
StartTimer == [do |-> "timer"]
SetState(v) == [do |-> "state", value |-> v]
AdvanceState == [do |-> "advance"]
Forbid == [do |-> "forbid"]
DisposeIf(n, warp, yes, no) ==
    [do |-> "dispose", below |-> n, warp |-> warp, yes |-> yes, no |-> no]
IfFewer(n, yes, no) == [do |-> "fewer", than |-> n, yes |-> yes, no |-> no]

Everyone == 100
Nothing == << >>

Reset == << SetState("0") >>

(* if (eim.disposeIfPlayerBelow(0, 0)) em.setProperty("state", "0")         *)
DisposeEmpty == << DisposeIf(0, FALSE, Reset, Nothing) >>

(* Mutant: a playerExit that forgets to unregister who leaves.              *)
ExitRegistered == DisposeEmpty

(* The bodies playerExit and changedMap share: unregister, then dispose if  *)
(* nobody is left.                                                          *)
Exit == << Unregister >> \o DisposeEmpty

(* playerRevive that unregisters; the revival itself then moves the player. *)
Revived == Exit \o << WarpOut >>

(* end(eim): everyone is warped out, the instance is disposed, and the      *)
(* state is reset after that, whatever disposeIfPlayerBelow returned, or    *)
(* only if it returned true.                                                *)
End == << DisposeIf(Everyone, TRUE, Nothing, Nothing) >> \o Reset
EndIf == << DisposeIf(Everyone, TRUE, Reset, Nothing) >>
EndOnly == << DisposeIf(Everyone, TRUE, Nothing, Nothing) >>

(* setup: "state" is set before the instance is made, or after it.          *)
SetupStateFirst == << SetState("1"), NewInstance, StartTimer >>
SetupStateLate == << NewInstance, SetState("1"), StartTimer >>
SetupCleared == << SetState("null") >> \o SetupStateFirst

-----------------------------------------------------------------------------
(* The record of a script:                                                  *)
(*   fixed         one instance name, or one per party                      *)
(*   check         what the NPC tests before startInstance: the "state",     *)
(*                 getInstance(name) == null ("instance"), that the event   *)
(*                 map is empty ("empty"), or nothing ("none")              *)
(*   init, setup   "state" after init; the calls of setup                   *)
(*   entry         playerEntry takes the map from the channel ("em"), or    *)
(*                 from the instance ("eim": fails once it is disposed)     *)
(*   outside       changedMap to a map that is not the event's              *)
(*   ways          changedMap does so for "all" maps outside, or for "one"  *)
(*   disconnected, left, disband, timeout, killed, dead                     *)
(*                 playerDisconnected, leftParty, disbandParty,             *)
(*                 scheduledTimeout, allMonstersDead, playerDead/Revive     *)
(*   finish        clearPQ, where an NPC calls finishPQ                     *)
(*   rejoin        whom an NPC or portal lets back in: "nobody", those who *)
(*                 were disconnected ("dced"), or who once entered ("squad")*)

(* The form most party quests share.                                        *)
PartyQuest ==
    [fixed |-> FALSE, check |-> "state", init |-> "0",
     setup |-> SetupStateFirst, entry |-> "eim", outside |-> Exit, ways |-> "all",
     disconnected |-> Nothing, left |-> End, disband |-> End,
     timeout |-> End, killed |-> Nothing, dead |-> Nothing,
     finish |-> Nothing, rejoin |-> "nobody"]

(* The form most boss battles share: leaving the party changes nothing.     *)
Battle == [PartyQuest EXCEPT !.left = Nothing, !.disband = Nothing,
                             !.fixed = TRUE, !.rejoin = "dced"]

-----------------------------------------------------------------------------
(* Party quests.                                                            *)

(* leftParty of the older quests: dispose if at most n are left, the one    *)
(* who leaves counted, else let that one out.  Its playerExit does not      *)
(* dispose.                                                                 *)
ExitByWarp == << Unregister, WarpOut >>
LeftOrBelow(n, exit) == << DisposeIf(n, TRUE, Reset, exit) >>
OldQuest(minPlayers) ==
    [PartyQuest EXCEPT !.fixed = TRUE, !.entry = "em",
                       !.left = LeftOrBelow(minPlayers, ExitByWarp)]

WuGongPQ == OldQuest(1)
HontalePQ == OldQuest(6)
shaoling == [OldQuest(1) EXCEPT !.disconnected = ExitByWarp, !.dead = End]
LudiPQ == [OldQuest(6) EXCEPT !.left = End]
ZakumPQ == [OldQuest(6) EXCEPT !.left = ExitByWarp \o DisposeEmpty,
                               !.finish = End]
KerningPQ ==
    [PartyQuest EXCEPT !.left = LeftOrBelow(2, ExitByWarp \o DisposeEmpty)]

(* leftParty of three quests: end for all below a size, else playerExit,    *)
(* which does not warp.                                                     *)
LeftIfFewer(n) == << IfFewer(n, End, Exit) >>
HenesysPQ == [PartyQuest EXCEPT !.left = LeftIfFewer(3)]
Juliet == [PartyQuest EXCEPT !.check = "none", !.setup = SetupCleared,
                             !.left = LeftIfFewer(4)]
ProtectPig == [PartyQuest EXCEPT !.left = LeftIfFewer(1)]

OrbisPQ == [PartyQuest EXCEPT !.setup = SetupCleared]
Romeo == [PartyQuest EXCEPT !.check = "none", !.setup = SetupCleared]
Pirate == PartyQuest
Ellin == PartyQuest
MV == PartyQuest
Rex == [PartyQuest EXCEPT !.dead = Revived]
Dragonica == PartyQuest

BossFairyQueen ==
    [PartyQuest EXCEPT !.fixed = TRUE, !.check = "empty", !.dead = Revived]

(* Two events whose NPC asks getInstance(name) == null: no state is set,    *)
(* and end leaves it to EventManager.disposeInstance.                       *)
MonsterPark ==
    [PartyQuest EXCEPT
        !.fixed = TRUE, !.check = "instance", !.init = "null",
        !.setup = << NewInstance, StartTimer >>,
        !.outside = << Unregister, DisposeIf(0, FALSE, Nothing, Nothing) >>,
        !.left = EndOnly, !.disband = EndOnly, !.timeout = EndOnly]
Olivia ==
    [MonsterPark EXCEPT !.outside = Exit, !.left = Nothing,
                        !.disband = Nothing]

(* The Ravana portal readmits whoever was disconnected.                     *)
Ravana_EASY == [Battle EXCEPT !.fixed = FALSE]
Ravana_MED == [Battle EXCEPT !.fixed = FALSE]
Ravana_HARD == [Battle EXCEPT !.fixed = FALSE]
ProtectTylus ==
    [Battle EXCEPT !.entry = "em", !.killed = End, !.rejoin = "nobody"]

-----------------------------------------------------------------------------
(* Boss battles.                                                            *)

(* Squad bosses whose playerDisconnected calls playerExit; playerDead takes *)
(* the right to come back, which playerEntry gave.                          *)
SquadBattle == [Battle EXCEPT !.disconnected = Exit, !.dead = << Forbid >>,
                              !.rejoin = "squad"]
HorntailBattle == SquadBattle
ChaosHorntail == SquadBattle
ZakumBattle == [SquadBattle EXCEPT !.killed = << AdvanceState >>]
ChaosZakum == [SquadBattle EXCEPT !.killed = << AdvanceState >>]

(* Their kin set the state after newInstance.                               *)
LateBattle == [SquadBattle EXCEPT !.setup = SetupStateLate]
CygnusBattle == [LateBattle EXCEPT !.dead = Nothing]
ScarTarBattle == LateBattle
PinkBeanBattle == [LateBattle EXCEPT !.dead = Nothing]
ArkariumBattle == LateBattle
HillaBattle == LateBattle
VonLeonBattle ==
    [Battle EXCEPT !.setup = SetupStateLate, !.entry = "em"]

(* Balrog: the timer of the easy mode is started by "spawn", three seconds  *)
(* after setup.                                                             *)
BossBalrog_EASY ==
    [Battle EXCEPT !.setup = << SetState("1"), NewInstance >>]
BossBalrog_NORMAL == Battle

(* The bosses of Neo Tokyo.                                                 *)
Vergamot == Battle
CoreBlaze == Battle
Aufhaven == Battle
Nibergen == Battle
NamelessMagicMonster == [Battle EXCEPT !.timeout = EndIf]
Dunas == [Battle EXCEPT !.timeout = EndIf]
Dunas2 == [Battle EXCEPT !.timeout = EndIf]

(* In 2095_tokyo the condition of changedMap,                               *)
(* mapid != a && mapid != b && mapid == c, holds for map c alone, where its *)
(* end takes the players: walking anywhere else unregisters nobody.         *)
Tokyo2095 == [Battle EXCEPT !.timeout = EndIf, !.ways = "one"]

(* Zakum of Singapore: one disconnection ends the battle for all.  Killing  *)
(* the monsters schedules end, which only advances the state.               *)
ZChaosPQ2 ==
    [Battle EXCEPT !.check = "empty", !.disconnected = End,
                   !.killed = << AdvanceState >>, !.rejoin = "nobody"]

(* The high-level bosses.  allMonstersDead of each first calls              *)
(* eim.setPartyBossLog, which the instance manager does not have: the       *)
(* script stops there and the state never advances.                         *)
HighBoss == [Battle EXCEPT !.rejoin = "nobody"]
BossBelen == HighBoss
BossMagnus == HighBoss
BossArkarium == HighBoss
BossHillah == HighBoss
BossRanmaru == HighBoss
BossPrincess == HighBoss

-----------------------------------------------------------------------------
(* The form every script has.  A handler asks whether enough members are    *)
(* left at most twice in a row and resets the state to "0" only; setup      *)
(* makes one instance, and starts no timer before it.                       *)

Plain == {Unregister, WarpOut, AdvanceState, Forbid, SetState("0")}
Asking(calls) ==
    [do : {"dispose"}, below : Nat, warp : BOOLEAN,
     yes : Seq(calls), no : Seq(calls)]
    \cup [do : {"fewer"}, than : Nat, yes : Seq(calls), no : Seq(calls)]
Shallow == Plain \cup Asking(Plain)
Handling == Plain \cup Asking(Shallow)

Early == {SetState("null"), SetState("1")}
Late == Early \cup {StartTimer}
Setups ==
    {s \in Seq(Late \cup {NewInstance}) :
        \E i \in 1 .. Len(s) :
            /\ s[i] = NewInstance
            /\ \A j \in 1 .. Len(s) : /\ j < i => s[j] \in Early
                                      /\ j > i => s[j] \in Late}

ScriptForms ==
    [fixed : BOOLEAN, check : {"state", "instance", "empty", "none"},
     init : {"null", "0"}, setup : Setups, entry : {"em", "eim"},
     outside : Seq(Handling), ways : {"all", "one"}, disconnected : Seq(Handling),
     left : Seq(Handling), disband : Seq(Handling), timeout : Seq(Handling),
     killed : Seq(Handling), dead : Seq(Handling), finish : Seq(Handling),
     rejoin : {"nobody", "dced", "squad"}]

-----------------------------------------------------------------------------
(* Families for model checking; scripts with equal records are one element. *)

PartyQuests ==
    {WuGongPQ, HontalePQ, shaoling, LudiPQ, ZakumPQ,
     KerningPQ, HenesysPQ, Juliet, ProtectPig, OrbisPQ, Romeo, Pirate, Ellin,
     MV, Rex, Dragonica, BossFairyQueen, MonsterPark, Olivia}

Bosses ==
    {Ravana_EASY, Ravana_MED, Ravana_HARD, ProtectTylus, HorntailBattle,
     ChaosHorntail, ZakumBattle, ChaosZakum, CygnusBattle, ScarTarBattle,
     PinkBeanBattle, ArkariumBattle, HillaBattle, VonLeonBattle, BossBalrog_EASY,
     BossBalrog_NORMAL, Vergamot, CoreBlaze, Aufhaven, Nibergen,
     NamelessMagicMonster, Dunas, Dunas2, Tokyo2095, ZChaosPQ2, BossBelen,
     BossMagnus, BossArkarium, BossHillah, BossRanmaru, BossPrincess}

AllScripts == PartyQuests \cup Bosses

(* Whose changedMap knows every way out.  And whose entry fails once the    *)
(* event is over and whose leftParty lets nobody out alone: three quests do *)
(* not warp who leaves, and Kerning's may be on the way in still.           *)
KnowsWayOut == AllScripts \ {Tokyo2095}
Evicting ==
    {s \in AllScripts : s.entry = "eim"}
        \ {KerningPQ, HenesysPQ, Juliet, ProtectPig}
=============================================================================
