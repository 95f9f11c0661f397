-------------------------------- MODULE Party --------------------------------
(***************************************************************************)
(* Parties and expeditions: World.Party (handling/world/World.java), which *)
(* keeps them, PartyHandler, which changes them on behalf of a character,  *)
(* and the places where a character comes and goes: Loggedin, EnterCS,     *)
(* LeaveCS, changeChannel and MapleClient.disconnect.                      *)
(*                                                                         *)
(* Two things have to agree: the entries of a party, and the field "party" *)
(* of each character.  updateParty corrects the field of the characters    *)
(* that Find knows to be on a channel, and of nobody else; the others look *)
(* their party up when they arrive.                                        *)
(*                                                                         *)
(* Each operation of a handler is one action.  Arriving takes three steps, *)
(* on the event loop of the one who arrives, while others go on.           *)
(***************************************************************************)
EXTENDS Integers, Sequences, FiniteSets, SequencesExt

CONSTANTS
    Players,       \* characters
    Travellers,    \* those who come and go; the others stay on their channel
    Parties,       \* ids of parties that are listed at one time
    Expeds,        \* ids of expeditions that are listed at one time
    None,          \* null, and the id of no party
    MaxMembers,    \* members of a party: 6
    ExpedMembers,  \* ExpeditionType.maxMembers
    ExpedParties   \* ExpeditionType.maxParty

ASSUME NoneAssumption == None \notin Players \cup Parties \cup Expeds
ASSUME SizeAssumption ==
    MaxMembers \in Nat \ {0} /\ ExpedMembers \in Nat /\ ExpedParties \in Nat
ASSUME PlayersAssumption == IsFiniteSet(Players) /\ Travellers \subseteq Players

VARIABLES
    at,      \* World.Party.parties, and Blank for an id that is free
    teams,   \* teams[e]: MapleExpedition.parties
    head,    \* head[e]: MapleExpedition.leaderId, None if e is not listed
    party,   \* party[p]: what getParty() answers, or the id p travels or is saved with
    where    \* "offline", "away" (between two servers, or in the cash shop), "arriving",
             \* "entering" or "channel"

vars == <<at, teams, head, party, where>>

NoSeats == [p \in Players |-> 0]
Blank == [seats |-> NoSeats, leader |-> None, shown |-> {}, link |-> None]

Init ==
    /\ at = [q \in Parties |-> Blank]
    /\ teams = [e \in Expeds |-> <<>>]
    /\ head = [e \in Expeds |-> None]
    /\ party = [p \in Players |-> None]
    /\ where = [p \in Players |-> "channel"]

-----------------------------------------------------------------------------
(* What the handlers read *)

\* getParty(q) # null
Listed(q) == at[q].leader # None

\* Find.findChannel(p) > 0
Here(p) == where[p] \in {"entering", "channel"}

Size(seats) == Cardinality({e \in Players \X (1..MaxMembers) : e[2] <= seats[e[1]]})
HasRoom(q) == Listed(q) /\ Size(at[q].seats) < MaxMembers
\* The first element of s that is in S, as a set
First(s, S) ==
    {x \in S : \E i \in DOMAIN s : s[i] = x /\ \A j \in 1..(i - 1) : s[j] \notin S}

AllMembers(e) == FoldLeft(LAMBDA n, q : n + Size(at[q].seats), 0, teams[e])

\* The expedition p's party belongs to
Exped(p) == IF party[p] = None THEN None ELSE at[party[p]].link

\* The operations of parties that are not in an expedition
Plain(p) == where[p] = "channel" /\ party[p] # None /\ at[party[p]].link = None

\* The operations of expeditions, and those of their leader only
InExped(p, e) == where[p] = "channel" /\ Exped(p) = e /\ head[e] # None
Commands(p, e) == InExped(p, e) /\ head[e] = p

-----------------------------------------------------------------------------
(* World.Party, as functions of what it keeps *)

World == [at |-> at, teams |-> teams, party |-> party]

Becomes(w) == at' = w.at /\ teams' = w.teams /\ party' = w.party

\* The elements of s that are not in Q, in their order: SelectSeq, by the places that
\* stay and not by recursion.
Rest(s, Q) ==
    LET stay == {i \in DOMAIN s : s[i] \notin Q}
    IN  [j \in 1..Cardinality(stay) |->
            s[CHOOSE i \in stay : Cardinality({k \in stay : k <= i}) = j]]

\* What an update does to the party itself
Put(w, q, entry) ==
    [at |-> [w.at EXCEPT ![q] = entry], teams |-> w.teams, party |-> w.party]

\* The last loop of updateParty: the members who are here are given their party.
Tell(w, q) ==
    [w EXCEPT !.party = [p \in Players |->
        IF Here(p) /\ w.at[q].seats[p] > 0 THEN q ELSE w.party[p]]]

\* Mutant: the party stays in the expedition's list
DisbandKeepsTeam(w, Q) ==
    [at    |-> [q \in Parties |-> IF q \in Q THEN Blank ELSE w.at[q]],
     teams |-> w.teams,
     party |-> [p \in Players |->
        IF w.party[p] \in Q \/ (Here(p) /\ \E q \in Q : w.at[q].seats[p] > 0)
        THEN None ELSE w.party[p]]]

\* DISBAND and disbandParty.  getParty() drops a disbanded party, an arrival does
\* not find it: nobody keeps its id, and it stands for a new one from then on.
Disband(w, Q) ==
    [at    |-> [q \in Parties |-> IF q \in Q THEN Blank ELSE w.at[q]],
     teams |-> [e \in Expeds |-> Rest(w.teams[e], Q)],
     party |-> [p \in Players |->
        IF w.party[p] \in Q \/ (Here(p) /\ \E q \in Q : w.at[q].seats[p] > 0)
        THEN None ELSE w.party[p]]]

\* The entry q without one seat of t
Without(w, q, t) ==
    LET seats == [w.at[q].seats EXCEPT ![t] = IF @ = 0 THEN 0 ELSE @ - 1]
    IN  [w.at[q] EXCEPT !.seats = seats, !.shown = IF seats[t] = 0 THEN @ \ {t} ELSE @]

\* setParty(null), of those who are here
Untold(w, t) == [w EXCEPT !.party[t] = IF Here(t) THEN None ELSE @]

\* Mutant: the leader who goes keeps the lead
DismissLeaderless(w, q, t) ==
    LET left == Without(w, q, t)
    IN  IF left.seats = NoSeats THEN {Disband(Put(Untold(w, t), q, left), {q})}
        ELSE {Tell(Put(Untold(w, t), q, left), q)}

\* Mutant: setParty(null) is forgotten
DismissUntold(w, q, t) ==
    LET left == Without(w, q, t)
        heirs == IF t = left.leader THEN {p \in Players : left.seats[p] > 0} ELSE {left.leader}
    IN  IF left.seats = NoSeats THEN {Disband(Put(w, q, left), {q})}
        ELSE {Tell(Put(w, q, [left EXCEPT !.leader = l]), q) : l \in heirs}

\* LEAVE and EXPEL: the lead goes to the member of the highest level, an empty
\* party is disbanded.
Dismiss(w, q, t) ==
    LET left == Without(w, q, t)
        heirs == IF t = left.leader THEN {p \in Players : left.seats[p] > 0} ELSE {left.leader}
    IN  IF left.seats = NoSeats THEN {Disband(Put(Untold(w, t), q, left), {q})}
        ELSE {Tell(Put(Untold(w, t), q, [left EXCEPT !.leader = l]), q) : l \in heirs}

\* JOIN of somebody who is here
Add(w, q, t) ==
    LET seats == [w.at[q].seats EXCEPT ![t] = @ + 1]
    IN  Tell(Put(w, q, [w.at[q] EXCEPT !.seats = seats, !.shown = @ \cup {t}]), q)

\* CHANGE_LEADER and CHANGE_LEADER_DC
Lead(w, q, t) == Tell(Put(w, q, [w.at[q] EXCEPT !.leader = t]), q)

\* SILENT_UPDATE and LOG_ONOFF
Show(w, q, t, on) ==
    LET seen == IF ~on THEN w.at[q].shown \ {t}
                ELSE w.at[q].shown \cup {p \in {t} : w.at[q].seats[p] > 0}
    IN  Tell(Put(w, q, [w.at[q] EXCEPT !.shown = seen]), q)

\* createParty, and createPartyAndAdd if e is an expedition
Found(w, q, t, e) ==
    [at    |-> [w.at EXCEPT ![q] = [seats |-> [NoSeats EXCEPT ![t] = 1], leader |-> t,
                                    shown |-> {t}, link |-> e]],
     teams |-> [x \in Expeds |-> IF x = e THEN Append(w.teams[x], q) ELSE w.teams[x]],
     party |-> [w.party EXCEPT ![t] = q]]

\* setParty(null) at the end of a handler
Quit(w, p) == [w EXCEPT !.party[p] = None]

-----------------------------------------------------------------------------
(* PartyOperation, DenyPartyRequest, PartyListing, PartySearchStart *)

\* create, invite, a listing, a search
Create(p) ==
    /\ where[p] = "channel" /\ party[p] = None
    /\ \E q \in Parties : ~Listed(q) /\ Becomes(Found(World, q, p, None))
    /\ UNCHANGED <<head, where>>

\* Mutant: the party is full
JoinFull(p, q) ==
    /\ where[p] = "channel" /\ party[p] = None
    /\ Listed(q) /\ at[q].link = None
    /\ Becomes(Add(World, q, p))
    /\ UNCHANGED <<head, where>>

\* Mutant: the one who accepts has a party by now
JoinAnother(p, q) ==
    /\ where[p] = "channel"
    /\ HasRoom(q) /\ at[q].link = None
    /\ Becomes(Add(World, q, p))
    /\ UNCHANGED <<head, where>>

\* accept: invitations are not recorded, so any party may be named
Join(p, q) ==
    /\ where[p] = "channel" /\ party[p] = None
    /\ HasRoom(q) /\ at[q].link = None
    /\ Becomes(Add(World, q, p))
    /\ UNCHANGED <<head, where>>

\* startPartySearch: one round of its loop over the characters of the map
Recruit(p, t) ==
    /\ Plain(p) /\ HasRoom(party[p])
    /\ t # p /\ Here(t) /\ party[t] = None
    /\ Becomes(Add(World, party[p], t))
    /\ UNCHANGED <<head, where>>

\* leave; also what a request to join another party begins with
Leave(p) ==
    /\ Plain(p)
    /\ LET q == party[p]
       IN  \/ at[q].leader = p /\ Becomes(Quit(Disband(World, {q}), p))
           \/ at[q].leader # p /\ \E w \in Dismiss(World, q, p) : Becomes(Quit(w, p))
    /\ UNCHANGED <<head, where>>

\* expel: the leader may name himself
Expel(p, t) ==
    /\ Plain(p) /\ at[party[p]].leader = p
    /\ at[party[p]].seats[t] > 0
    /\ \E w \in Dismiss(World, party[p], t) : Becomes(w)
    /\ UNCHANGED <<head, where>>

\* change leader
ChangeLeader(p, t) ==
    /\ Plain(p) /\ at[party[p]].leader = p
    /\ at[party[p]].seats[t] > 0
    /\ Becomes(Lead(World, party[p], t))
    /\ UNCHANGED <<head, where>>

-----------------------------------------------------------------------------
(* Expedition *)

\* create, and a listing for an expedition
CreateExped(p, e) ==
    /\ where[p] = "channel" /\ party[p] = None
    /\ head[e] = None
    /\ \E q \in Parties : ~Listed(q) /\ Becomes(Found(World, q, p, e))
    /\ head' = [head EXCEPT ![e] = p]
    /\ UNCHANGED where

\* getFreeParty: the first party that has room, else a new one
Enlist(w, e, p) ==
    LET free == First(teams[e], {q \in Parties : HasRoom(q)})
    IN  IF free # {} THEN {Add(w, q, p) : q \in free}
        ELSE {Found(w, q, p, e) : q \in {r \in Parties :
                  ~Listed(r) /\ Len(teams[e]) < ExpedParties}}

\* join by invitation, which looks at the party of whoever the packet names, oneself
\* or another, and not at one's own, or by a listing, which looks at one's own
JoinExped(p, e) ==
    /\ where[p] = "channel" /\ head[e] # None
    /\ party[p] = None \/ \E f \in Players : Here(f) /\ Exped(f) = e
    /\ AllMembers(e) < ExpedMembers
    /\ \E w \in Enlist(World, e, p) : Becomes(w)
    /\ UNCHANGED <<head, where>>

\* Mutant: the leader of the expedition leaves like anybody else
LeaveAsMember(p, e) ==
    /\ InExped(p, e)
    /\ LET q == party[p]
       IN  \/ at[q].leader = p /\ Becomes(Quit(Disband(World, {q}), p))
           \/ at[q].leader # p /\ \E w \in Dismiss(World, q, p) : Becomes(Quit(w, p))
    /\ UNCHANGED <<head, where>>

\* leaving: the expedition ends with its leader, a party with its own
LeaveExped(p, e) ==
    /\ InExped(p, e)
    /\ LET q == party[p]
       IN  \/ /\ head[e] = p
              /\ Becomes(Quit(Disband(World, Range(teams[e])), p))
              /\ head' = [head EXCEPT ![e] = None]
           \/ /\ head[e] # p /\ at[q].leader = p
              /\ Becomes(Quit(Disband(World, {q}), p))
              /\ UNCHANGED head
           \/ /\ head[e] # p /\ at[q].leader # p
              /\ \E w \in Dismiss(World, q, p) : Becomes(Quit(w, p))
              /\ UNCHANGED head
    /\ UNCHANGED where

\* kick: out of the first party that has t
Kick(p, t, e) ==
    /\ Commands(p, e)
    /\ \E q \in First(teams[e], {r \in Parties : at[r].seats[t] > 0}) :
          \E w \in Dismiss(World, q, t) : Becomes(w)
    /\ UNCHANGED <<head, where>>

\* give exped leader
GiveExped(p, t, e) ==
    /\ Commands(p, e)
    /\ at[party[p]].seats[t] > 0
    /\ Becomes(Lead(World, party[p], t))
    /\ head' = [head EXCEPT ![e] = t]
    /\ UNCHANGED where

\* give party leader: in every other party of e that has t
GiveParty(p, t, e) ==
    /\ Commands(p, e)
    /\ LET his == {q \in Parties \ {party[p]} : q \in Range(teams[e]) /\ at[q].seats[t] > 0}
       IN  /\ at' = [q \in Parties |->
                        IF q \in his THEN [at[q] EXCEPT !.leader = t] ELSE at[q]]
           /\ \E told \in [Players -> Parties \cup {None}] :
                 /\ \A x \in Players :
                       LET in == {q \in his : Here(x) /\ at[q].seats[x] > 0}
                       IN  told[x] \in IF in = {} THEN {party[x]} ELSE in
                 /\ party' = told
    /\ UNCHANGED <<teams, head, where>>

\* change party: t goes to the i-th party, counted again once he is out of his own;
\* when that one has no room he goes nowhere
Move(p, t, e, i) ==
    /\ Commands(p, e)
    /\ i <= ExpedParties /\ i <= Len(teams[e]) + 1
    /\ Here(t)
    /\ i <= Len(teams[e]) => HasRoom(teams[e][i])
    /\ \E o \in First(teams[e], {r \in Parties : at[r].seats[t] > 0 /\ t \in at[r].shown}) :
          \E w \in Dismiss(World, o, t), q \in Parties :
             \/ /\ i <= Len(w.teams[e]) /\ q = w.teams[e][i]
                /\ Becomes(IF w.at[q].leader # None /\ Size(w.at[q].seats) < MaxMembers
                           THEN Add(w, q, t) ELSE w)
             \/ /\ i > Len(w.teams[e]) /\ w.at[q].leader = None
                /\ Becomes(Found(w, q, t, e))
    /\ UNCHANGED <<head, where>>

-----------------------------------------------------------------------------
(* Coming and going *)

Goes(p, place) == where' = [where EXCEPT ![p] = place]

\* changeChannel and EnterCS: off the channel, with the id in the transfer
Depart(p) ==
    /\ p \in Travellers /\ where[p] = "channel"
    /\ Goes(p, "away")
    /\ UNCHANGED <<at, teams, head, party>>

\* ReconstructChr and loadCharFromDB: the id still counts if p has a seat there
LookUp(p) ==
    party' = [party EXCEPT ![p] = IF @ # None /\ at[@].seats[p] > 0 THEN @ ELSE None]

Arrive(p) ==
    /\ where[p] \in {"away", "offline"}
    /\ LookUp(p) /\ Goes(p, "arriving")
    /\ UNCHANGED <<at, teams, head>>

\* addPlayer: Find knows p from here on
Register(p) ==
    /\ where[p] = "arriving"
    /\ Goes(p, "entering")
    /\ UNCHANGED <<at, teams, head, party>>

\* Mutant: the members are not told
AnnounceQuietly(p) ==
    /\ Here(p)
    /\ Goes(p, "channel")
    /\ UNCHANGED <<at, teams, head, party>>

\* The rest of Loggedin, and later a change of map, level or job
Announce(p) ==
    /\ Here(p)
    /\ Goes(p, "channel")
    /\ \/ party[p] = None /\ UNCHANGED <<at, teams, party>>
       \/ party[p] # None /\ Becomes(Show(World, party[p], p, TRUE))
    /\ UNCHANGED head

\* EnterCS and LeaveCS: a look at the party on the way
Shop(p) ==
    /\ where[p] = "away"
    /\ LookUp(p)
    /\ UNCHANGED <<at, teams, head, where>>

\* disconnect: the lead goes to a member on the same map, if there is one
Disconnect(p) ==
    /\ p \in Travellers /\ Here(p)
    /\ Goes(p, "offline")
    /\ \/ party[p] = None /\ UNCHANGED <<at, teams, party>>
       \/ /\ party[p] # None
          /\ LET q == party[p]
                 w == Show(World, q, p, FALSE)
             IN  \/ Becomes(w)
                 \/ /\ at[q].leader = p
                    /\ \E l \in Players \ {p} :
                          Here(l) /\ at[q].seats[l] > 0 /\ Becomes(Lead(w, q, l))
    /\ UNCHANGED head

\* disconnect in the cash shop: the lead stays
DisconnectInShop(p) ==
    /\ where[p] = "away"
    /\ Goes(p, "offline")
    /\ \/ party[p] = None /\ UNCHANGED <<at, teams, party>>
       \/ party[p] # None /\ Becomes(Show(World, party[p], p, FALSE))
    /\ UNCHANGED head

\* A connection that ends before Find knows it, or a transfer nobody comes for
Lose(p) ==
    /\ where[p] \in {"away", "arriving"}
    /\ Goes(p, "offline")
    /\ UNCHANGED <<at, teams, head, party>>

-----------------------------------------------------------------------------
PartyStep(p) ==
    \/ Create(p) \/ Leave(p)
    \/ \E q \in Parties : Join(p, q)
    \/ \E t \in Players : Recruit(p, t) \/ Expel(p, t) \/ ChangeLeader(p, t)

ExpedStep(p, e) ==
    \/ CreateExped(p, e) \/ JoinExped(p, e) \/ LeaveExped(p, e)
    \/ \E t \in Players :
          \/ Kick(p, t, e) \/ GiveExped(p, t, e) \/ GiveParty(p, t, e)
          \/ \E i \in 1..ExpedParties : Move(p, t, e, i)

Travel(p) ==
    \/ Depart(p) \/ Arrive(p) \/ Register(p) \/ Announce(p)
    \/ Shop(p) \/ Disconnect(p) \/ DisconnectInShop(p) \/ Lose(p)

Next == \E p \in Players :
    PartyStep(p) \/ Travel(p) \/ \E e \in Expeds : ExpedStep(p, e)

Spec == Init /\ [][Next]_vars

-----------------------------------------------------------------------------
(* Properties *)

\* Every field holds what its type in the code says, and no party outgrows its
\* limit, by whichever of the ways in.
TypeOK ==
    /\ at \in [Parties -> [seats : [Players -> Nat], leader : Players \cup {None},
                           shown : SUBSET Players, link : Expeds \cup {None}]]
    /\ teams \in [Expeds -> Seq(Parties)]
    /\ head \in [Expeds -> Players \cup {None}]
    /\ party \in [Players -> Parties \cup {None}]
    /\ where \in [Players -> {"offline", "away", "arriving", "entering", "channel"}]
    /\ \A q \in Parties : Size(at[q].seats) <= MaxMembers

\* The leader of a listed party is one of its members: leaving, being expelled,
\* going offline and handing the lead on never leave it with an outsider, whom no
\* operation could replace.
LeaderSits == \A q \in Parties : Listed(q) => at[q].seats[at[q].leader] > 0

\* A party and its expedition name each other, once, and both are listed: a member
\* of a party whose expedition is gone could not leave by either menu.
LinksAgree ==
    \A e \in Expeds :
        /\ {q \in Parties : at[q].link = e} = Range(teams[e])
        /\ Len(teams[e]) = Cardinality(Range(teams[e]))
        /\ head[e] = None => teams[e] = <<>>

\* p has a single seat, in the party he knows.
Settled(p) == \A q \in Parties : at[q].seats[p] > 0 => party[p] = q /\ at[q].seats[p] = 1

\* His party shows p as online if he has arrived.
Shows(p) == where[p] = "channel" => \A q \in Parties : at[q].seats[p] > 0 => p \in at[q].shown

\* Whoever has arrived is shown as online to his party, although transfers that are
\* lost, disconnections and arrivals overlap with the others' updates; with a second
\* seat he may be at one of them only.
ShownWhenHere ==
    [][\A p \in Players : Settled(p) /\ Settled(p)' /\ Shows(p) => Shows(p)']_vars

\* A second seat comes from one operation only, the invitation to an expedition,
\* which is accepted without a look at one's own party.
StaysSettled ==
    [][\A p \in Players : Settled(p) /\ ~Settled(p)' =>
          party[p] # None /\ \E e \in Expeds : JoinExped(p, e)]_vars

\* The party p believes in has a seat for him.
Seated(p) == party[p] # None => at[party[p]].seats[p] > 0

\* Nobody who is on a channel goes on believing in a party that dropped him; only
\* an arrival can bring such a belief along.
KnowsWhenHere ==
    [][\A p \in Players : Here(p) /\ Here(p)' /\ Seated(p) => Seated(p)']_vars

\* The leader of e is a member of one of its parties.
Led(e) == \E q \in Range(teams[e]) : head[e] # None /\ at[q].seats[head[e]] > 0

\* An expedition goes on without its leader in three ways only: the leader of his
\* party leaves and takes it along, he kicks himself, or he moves himself into a
\* party that turns out to be full.
KeepsItsLeader ==
    [][\A e \in Expeds : Led(e) /\ ~Led(e)' =>
          \/ head'[e] = None
          \/ \E p \in Players \ {head[e]} : LeaveExped(p, e)
          \/ Kick(head[e], head[e], e)
          \/ \E i \in 1..ExpedParties : Move(head[e], head[e], e, i)]_vars
=============================================================================
