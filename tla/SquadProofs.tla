---------------------------- MODULE SquadProofs ----------------------------
(***************************************************************************)
(* A running sign-up clock belongs to the registered squad, for any        *)
(* characters, squads and fights.                                          *)
(***************************************************************************)
EXTENDS Squad, TLAPS

(* With its type the invariant is inductive: every step that takes a squad  *)
(* from the registry stops its clock, and the others' are stopped already.  *)
ClockTypes == clock \in [Squads -> BOOLEAN] /\ clash \in BOOLEAN
ClockInv == ClockTypes /\ ClockOfRegistered

(* clear, of the registered squad or one that is not.                       *)
LEMMA ClearStopsClock ==
    ASSUME ClockInv, NEW s, Clear(s), clash' \in BOOLEAN,
           clash => clash', reg = s \/ clash'
    PROVE  ClockInv'
  BY DEF ClockInv, ClockTypes, ClockOfRegistered, Clear

(* clear and copy start one clock, the new squad's.                         *)
LEMMA CopyStartsOne ==
    ASSUME ClockInv, NEW s, NEW w, ClearAndCopy(s, w), clash' = clash,
           reg = s \/ clash
    PROVE  ClockInv'
  <1> DEFINE n == CHOOSE n \in FreeSquads : TRUE
  <1>1. CASE NextUp(w) = 0
    BY <1>1, ClearStopsClock DEF ClearAndCopy, ClockInv, ClockTypes
  <1>2. CASE NextUp(w) # 0
    <2>1. reg' = n /\ clock' = [clock EXCEPT ![s] = FALSE, ![n] = TRUE]
      BY <1>2 DEF ClearAndCopy
    <2> HIDE DEF n
    <2> QED
      BY <2>1 DEF ClockInv, ClockTypes, ClockOfRegistered
  <1> QED BY <1>1, <1>2

(* checkStates touches the clocks by clear and copy alone.                  *)
LEMMA ChecksKeep ==
    ASSUME ClockInv, NEW gone, NEW w, CheckStates(gone, w), clash' = clash
    PROVE  ClockInv'
  <1>1. CASE ClearAndCopy(reg, w)
    BY <1>1, CopyStartsOne
  <1>2. CASE UNCHANGED << reg, clock >>
    BY <1>2 DEF ClockInv, ClockTypes, ClockOfRegistered
  <1> QED BY <1>1, <1>2 DEF CheckStates, registry

LEMMA ClockStep == ClockInv /\ [Next]_vars => ClockInv'
  <1> SUFFICES ASSUME ClockInv, [Next]_vars PROVE ClockInv'
    OBVIOUS
  <1> USE DEF registry, event
  <1>s. ASSUME UNCHANGED << reg, clock, clash >> PROVE ClockInv'
    BY <1>s DEF ClockInv, ClockTypes, ClockOfRegistered
  <1>1. CASE UNCHANGED vars
    BY <1>1, <1>s DEF vars
  <1>2. ASSUME NEW c \in Char, Talk(c) PROVE ClockInv'
    <2>1. CASE UNCHANGED << reg, clock >>
      BY <1>2, <2>1, <1>s DEF Talk
    <2>2. CASE Clear(reg)
      BY <1>2, <2>2, ClearStopsClock DEF Talk, ClockInv, ClockTypes
    <2> QED
      BY <1>2, <2>1, <2>2 DEF Talk, TalkDuringFight, TalkToRegister,
                              TalkDuringSignUp
  <1>3. ASSUME NEW c \in Char, Close(c) PROVE ClockInv'
    BY <1>3, <1>s DEF Close
  <1>4. ASSUME NEW c \in Char, Register(c) PROVE ClockInv'
    BY <1>4, <1>s DEF Register
  <1>5. ASSUME NEW c \in Char, Join(c) \/ Withdraw(c) \/ StartRefused(c)
        PROVE ClockInv'
    <2>1. clash' = clash
      BY <1>5 DEF Join, Withdraw, StartRefused
    <2>2. UNCHANGED << reg, clock >> \/ Clear(reg)
      BY <1>5 DEF Join, Withdraw, StartRefused
    <2> QED
      BY <2>1, <2>2, <1>s, ClearStopsClock DEF ClockInv, ClockTypes
  <1>6. ASSUME NEW c \in Char,
               Wait(c) \/ ChooseList(c) \/ Ban(c) \/ Accept(c)
        PROVE ClockInv'
    BY <1>6, <1>s DEF Wait, ChooseList, Ban, Accept
  <1>7. ASSUME NEW c \in Char, Start(c) \/ Rejoin(c) \/ Enter(c) PROVE ClockInv'
    BY <1>7, <1>s DEF Start, Rejoin, Enter
  <1>8. ASSUME NEW c \in Char, TestKey(c) PROVE ClockInv'
    <2>1. CASE reg # None
      BY <1>8, <2>1, ClearStopsClock DEF TestKey
    <2>2. CASE reg = None
      BY <1>8, <2>2, <1>s DEF TestKey
    <2> QED BY <2>1, <2>2
  <1>9. ASSUME NEW c \in Char, PutSquad(c) PROVE ClockInv'
    <2> DEFINE q == job[c].sq
    <2>1. /\ reg' = q
          /\ clock' = [clock EXCEPT ![q] = TRUE]
          /\ clash' = (clash \/ reg # None)
      BY <1>9 DEF PutSquad
    <2>2. \A s \in Squads : clock[s] /\ ~clash' => s = q
      BY <2>1, NoneAssumption DEF ClockInv, ClockOfRegistered
    <2> HIDE DEF q
    <2> QED
      BY <2>1, <2>2 DEF ClockInv, ClockTypes, ClockOfRegistered
  <1>10. ASSUME NEW c \in Char, Started(c) PROVE ClockInv'
    BY <1>10 DEF Started, ClockInv, ClockTypes, ClockOfRegistered
  <1>11. ASSUME NEW c \in Char, Login(c) PROVE ClockInv'
    BY <1>11, <1>s DEF Login
  <1>12. ASSUME NEW c \in Char, Logout(c) PROVE ClockInv'
    <2> DEFINE w == [where EXCEPT ![c] = "off"]
    <2>1. /\ clash' = clash
          /\ CheckStates({c}, w) \/ UNCHANGED registry
      BY <1>12 DEF Logout
    <2> QED BY <2>1, <1>s, ChecksKeep
  <1>13. ASSUME NEW c \in Char, NEW place, Walk(c, place) PROVE ClockInv'
    BY <1>13, <1>s DEF Walk
  <1>14. ASSUME NEW c \in Char, NEW place, Leave(c, place) PROVE ClockInv'
    <2>1. clash' = clash /\ CheckStates({c}, [where EXCEPT ![c] = place])
      BY <1>14 DEF Leave
    <2> QED BY <2>1, ChecksKeep
  <1>15. ASSUME NEW s \in Squads, SignUpEnds(s) PROVE ClockInv'
    <2>1. clash' = clash /\ (reg = s \/ clash)
      BY <1>15 DEF SignUpEnds, ClockInv, ClockOfRegistered
    <2>2. CASE ClearAndCopy(s, where)
      BY <2>1, <2>2, CopyStartsOne
    <2>3. CASE reg' = reg /\ clock' = [clock EXCEPT ![s] = FALSE]
      BY <2>1, <2>3 DEF ClockInv, ClockTypes, ClockOfRegistered
    <2> QED BY <1>15, <2>2, <2>3 DEF SignUpEnds
  <1>16. ASSUME NEW s \in Squads, Collect(s) PROVE ClockInv'
    BY <1>16, <1>s DEF Collect
  <1>17. ASSUME NEW e \in Fights, FightEnds(e) PROVE ClockInv'
    <2>1. /\ clash' = clash
          /\ UNCHANGED registry \/ \E gone, w : CheckStates(gone, w)
      BY <1>17 DEF FightEnds
    <2> QED BY <2>1, <1>s, ChecksKeep
  <1> QED
    BY <1>1, <1>2, <1>3, <1>4, <1>5, <1>6, <1>7, <1>8, <1>9, <1>10, <1>11,
       <1>12, <1>13, <1>14, <1>15, <1>16, <1>17 DEF Next, Answer, Step

(* ClockOfRegistered: a running sign-up clock never belongs to a squad that *)
(* is not registered, as long as no two registrations overlap.              *)
THEOREM ClockRegistered == Spec => []ClockOfRegistered
  <1>1. Init => ClockInv
    BY DEF Init, ClockInv, ClockTypes, ClockOfRegistered
  <1>2. ClockInv => ClockOfRegistered
    BY DEF ClockInv
  <1> QED BY <1>1, <1>2, ClockStep, PTL DEF Spec
=============================================================================
