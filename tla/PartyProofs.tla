----------------------------- MODULE PartyProofs -----------------------------
(***************************************************************************)
(* Seats, beliefs and links, for any characters, parties and expeditions:  *)
(* a listed party is led by one of its members and stays within its limit, *)
(* parties and expeditions name each other, nobody who is here goes on     *)
(* believing in a party that dropped him, and second seats, hidden members *)
(* and expeditions without their leader come from nowhere but where Party  *)
(* says.                                                                   *)
(*                                                                         *)
(* The argument follows the model: what holds of a world of parties is     *)
(* shown to be kept by each operation of World.Party, and an action is a   *)
(* composition of those.  Kept is about beliefs, Spares about the rest.    *)
(***************************************************************************)
EXTENDS Party, FiniteSetTheorems, TLAPS

Entry == [seats : [Players -> Nat], leader : Players \cup {None},
          shown : SUBSET Players, link : Expeds \cup {None}]

\* A world of parties as World.Party keeps it: an id is free or has a party that its
\* leader is a member of, and nobody believes in a party that is not listed.
Sound(w) ==
    /\ w = [at |-> w.at, teams |-> w.teams, party |-> w.party]
    /\ w.at \in [Parties -> Entry]
    /\ w.party \in [Players -> Parties \cup {None}]
    /\ \A q \in Parties : w.at[q].leader = None => w.at[q] = Blank
    /\ \A q \in Parties : w.at[q].leader # None => w.at[q].seats[w.at[q].leader] > 0
    /\ \A p \in Players : w.party[p] # None => w.at[w.party[p]].leader # None

\* Seated, of a world
Believes(w, p) == w.party[p] # None => w.at[w.party[p]].seats[p] > 0

\* v follows from w, and takes a true belief from nobody who is here.
Kept(w, v) ==
    /\ Sound(v)
    /\ \A p \in Players : Here(p) /\ Believes(w, p) => Believes(v, p)

-----------------------------------------------------------------------------
(* What the operations have in common *)

LEMMA BlankEntry == Blank \in Entry /\ \A p \in Players : Blank.seats[p] = 0
  BY DEF Blank, Entry, NoSeats

\* A party that has a seat for anybody is listed.
LEMMA SeatsListed ==
  ASSUME NEW w, Sound(w), NEW q \in Parties, NEW p \in Players, w.at[q].seats[p] > 0
  PROVE  w.at[q].leader # None
  BY BlankEntry DEF Sound

LEMMA KeptSame ==
  ASSUME NEW w, Sound(w)
  PROVE  Kept(w, w)
  BY DEF Kept

LEMMA KeptTwice ==
  ASSUME NEW u, NEW v, NEW w, Kept(u, v), Kept(v, w)
  PROVE  Kept(u, w)
  BY DEF Kept

\* A party is put in place of a listed one, led by one of its members, or takes an
\* id that is free; some change over to it or to no party.
LEMMA Replaced ==
  ASSUME NEW w, Sound(w), NEW q \in Parties, NEW r \in Entry,
         r.leader # None, r.seats[r.leader] > 0,
         NEW v, v = [at |-> v.at, teams |-> v.teams, party |-> v.party],
         v.at = [w.at EXCEPT ![q] = r],
         v.party \in [Players -> Parties \cup {None}],
         \A p \in Players : v.party[p] \in {w.party[p], q, None}
  PROVE  Sound(v)
  <1>1. v.at \in [Parties -> Entry]
    BY DEF Sound
  <1>2. \A o \in Parties : v.at[o].leader = None => v.at[o] = Blank
    BY DEF Sound
  <1>3. \A o \in Parties : v.at[o].leader # None => v.at[o].seats[v.at[o].leader] > 0
    BY DEF Sound
  <1>4. ASSUME NEW p \in Players, v.party[p] # None
        PROVE  v.at[v.party[p]].leader # None
    BY <1>4 DEF Sound
  <1> QED
    BY <1>1, <1>2, <1>3, <1>4 DEF Sound

\* The same, and nobody loses a seat.
LEMMA PutKept ==
  ASSUME NEW w, Sound(w), NEW q \in Parties, NEW r \in Entry,
         r.leader # None, r.seats[r.leader] > 0,
         \A p \in Players : r.seats[p] >= w.at[q].seats[p]
  PROVE  Kept(w, Put(w, q, r))
  <1> DEFINE v == Put(w, q, r)
  <1>1. /\ v = [at |-> v.at, teams |-> v.teams, party |-> v.party]
        /\ v.at = [w.at EXCEPT ![q] = r]
        /\ v.party = w.party
    BY DEF Put
  <1> HIDE DEF v
  <1>2. Sound(v)
    BY <1>1, Replaced DEF Sound
  <1>3. ASSUME NEW p \in Players, Believes(w, p)
        PROVE  Believes(v, p)
    <2>1. CASE w.party[p] = q
      BY <1>1, <1>3, <2>1 DEF Believes, Sound, Entry
    <2>2. CASE w.party[p] # q
      BY <1>1, <1>3, <2>2 DEF Believes, Sound
    <2> QED BY <2>1, <2>2
  <1> QED
    BY <1>2, <1>3 DEF Kept, v

-----------------------------------------------------------------------------
(* The operations of World.Party *)

\* The members who are here are given a party they have a seat in.
LEMMA Told ==
  ASSUME NEW w, Sound(w), NEW q \in Parties
  PROVE  Kept(w, Tell(w, q))
  <1> DEFINE v == Tell(w, q)
  <1>1. /\ v = [at |-> v.at, teams |-> v.teams, party |-> v.party]
        /\ v.at = w.at /\ v.teams = w.teams
        /\ v.party = [p \in Players |->
              IF Here(p) /\ w.at[q].seats[p] > 0 THEN q ELSE w.party[p]]
    BY DEF Sound, Tell
  <1> HIDE DEF v
  <1>2. Sound(v)
    <2>1. v.party \in [Players -> Parties \cup {None}]
      BY <1>1 DEF Sound
    <2>2. ASSUME NEW p \in Players, v.party[p] # None
          PROVE  v.at[v.party[p]].leader # None
      BY <2>2, <1>1, BlankEntry DEF Sound
    <2> QED
      BY <1>1, <2>1, <2>2 DEF Sound
  <1>3. ASSUME NEW p \in Players, Here(p), Believes(w, p)
        PROVE  Believes(v, p)
    BY <1>3, <1>1 DEF Believes
  <1> QED
    BY <1>2, <1>3 DEF Kept, v

\* Disbanded parties leave neither seats nor believers.
LEMMA Disbanded ==
  ASSUME NEW w, Sound(w), NEW Q
  PROVE  Kept(w, Disband(w, Q))
  <1> DEFINE v == Disband(w, Q)
  <1>1. /\ v = [at |-> v.at, teams |-> v.teams, party |-> v.party]
        /\ v.at = [q \in Parties |-> IF q \in Q THEN Blank ELSE w.at[q]]
        /\ v.party = [p \in Players |->
             IF w.party[p] \in Q \/ (Here(p) /\ \E q \in Q : w.at[q].seats[p] > 0)
             THEN None ELSE w.party[p]]
    BY DEF Disband
  <1> HIDE DEF v
  <1>2. Sound(v)
    <2>1. v.at \in [Parties -> Entry]
      BY <1>1, BlankEntry DEF Sound
    <2>2. v.party \in [Players -> Parties \cup {None}]
      BY <1>1 DEF Sound
    <2>3. \A q \in Parties : v.at[q].leader = None => v.at[q] = Blank
      BY <1>1 DEF Sound
    <2>4. \A q \in Parties : v.at[q].leader # None => v.at[q].seats[v.at[q].leader] > 0
      BY <1>1 DEF Sound, Blank
    <2>5. ASSUME NEW p \in Players, v.party[p] # None
          PROVE  v.at[v.party[p]].leader # None
      BY <2>5, <1>1 DEF Sound
    <2> QED
      BY <1>1, <2>1, <2>2, <2>3, <2>4, <2>5 DEF Sound
  <1>3. ASSUME NEW p \in Players, Here(p), Believes(w, p)
        PROVE  Believes(v, p)
    BY <1>3, <1>1 DEF Believes, Sound
  <1> QED
    BY <1>2, <1>3 DEF Kept, v

\* The lead of a party goes to a member.
LEMMA Handed ==
  ASSUME NEW w, Sound(w), NEW q \in Parties, NEW t \in Players, w.at[q].seats[t] > 0
  PROVE  Kept(w, Lead(w, q, t))
  <1> DEFINE r == [w.at[q] EXCEPT !.leader = t]
             v == Put(w, q, r)
  <1>1. r \in Entry /\ r.leader = t /\ r.seats = w.at[q].seats
    BY DEF Sound, Entry
  <1>2. Lead(w, q, t) = Tell(v, q)
    BY DEF Lead
  <1>3. Kept(w, v)
    <2>1. r.leader # None /\ r.seats[r.leader] > 0
      BY <1>1, NoneAssumption
    <2>2. \A p \in Players : r.seats[p] >= w.at[q].seats[p]
      BY <1>1 DEF Sound, Entry
    <2> HIDE DEF r
    <2> QED BY <1>1, <2>1, <2>2, PutKept
  <1>4. Kept(v, Tell(v, q))
    BY <1>3, Told DEF Kept
  <1> QED
    BY <1>2, <1>3, <1>4, KeptTwice

\* A listed party shows a member as online, or as offline; it seats the same members.
LEMMA Shown ==
  ASSUME NEW w, Sound(w), NEW q \in Parties, w.at[q].leader # None,
         NEW t \in Players, NEW on \in BOOLEAN
  PROVE  /\ Kept(w, Show(w, q, t, on))
         /\ Show(w, q, t, on).at[q].seats = w.at[q].seats
  <1> DEFINE seen == IF ~on THEN w.at[q].shown \ {t}
                     ELSE w.at[q].shown \cup {p \in {t} : w.at[q].seats[p] > 0}
             r == [w.at[q] EXCEPT !.shown = seen]
             v == Put(w, q, r)
  <1>1. seen \in SUBSET Players
    BY DEF Sound, Entry
  <1>2. Show(w, q, t, on) = Tell(v, q)
    BY DEF Show
  <1> HIDE DEF seen
  <1>3. r \in Entry /\ r.leader = w.at[q].leader /\ r.seats = w.at[q].seats
    BY <1>1 DEF Sound, Entry
  <1> HIDE DEF r
  <1>4. Kept(w, v)
    <2>1. r.leader # None /\ r.seats[r.leader] > 0
      BY <1>3 DEF Sound
    <2>2. \A p \in Players : r.seats[p] >= w.at[q].seats[p]
      BY <1>3 DEF Sound, Entry
    <2> QED BY <1>3, <2>1, <2>2, PutKept
  <1>5. Kept(v, Tell(v, q))
    BY <1>4, Told DEF Kept
  <1>6. Tell(v, q).at[q] = r
    BY DEF Tell, Put, Sound
  <1> QED
    BY <1>2, <1>3, <1>4, <1>5, <1>6, KeptTwice

\* A listed party gets a member.
LEMMA Added ==
  ASSUME NEW w, Sound(w), NEW q \in Parties, w.at[q].leader # None, NEW t \in Players
  PROVE  Kept(w, Add(w, q, t))
  <1> DEFINE seats == [w.at[q].seats EXCEPT ![t] = @ + 1]
             r == [w.at[q] EXCEPT !.seats = seats, !.shown = @ \cup {t}]
             v == Put(w, q, r)
  <1>1. Add(w, q, t) = Tell(v, q)
    BY DEF Add
  <1>2. /\ seats \in [Players -> Nat]
        /\ \A p \in Players : seats[p] >= w.at[q].seats[p]
    BY DEF Sound, Entry
  <1> HIDE DEF seats
  <1>3. r \in Entry /\ r.leader = w.at[q].leader /\ r.seats = seats
    BY <1>2 DEF Sound, Entry
  <1> HIDE DEF r
  <1>4. Kept(w, v)
    <2>1. r.leader # None /\ r.leader \in Players
      BY <1>3 DEF Sound, Entry
    <2>2. w.at[q].seats[r.leader] > 0 /\ w.at[q].seats \in [Players -> Nat]
      BY <1>3 DEF Sound, Entry
    <2>3. r.seats[r.leader] > 0
      BY <1>2, <1>3, <2>1, <2>2
    <2> QED BY <1>2, <1>3, <2>1, <2>3, PutKept
  <1>5. Kept(v, Tell(v, q))
    BY <1>4, Told DEF Kept
  <1> QED
    BY <1>1, <1>4, <1>5, KeptTwice

\* A party is founded under an id that is free.
LEMMA Founded ==
  ASSUME NEW w, Sound(w), NEW q \in Parties, w.at[q].leader = None,
         NEW t \in Players, NEW e \in Expeds \cup {None}
  PROVE  Kept(w, Found(w, q, t, e))
  <1> DEFINE r == [seats |-> [NoSeats EXCEPT ![t] = 1], leader |-> t,
                   shown |-> {t}, link |-> e]
             v == Found(w, q, t, e)
  <1>1. r \in Entry /\ r.leader = t /\ r.seats[t] = 1
    BY DEF Entry, NoSeats
  <1>2. /\ v = [at |-> v.at, teams |-> v.teams, party |-> v.party]
        /\ v.at = [w.at EXCEPT ![q] = r]
        /\ v.party = [w.party EXCEPT ![t] = q]
    BY DEF Found
  <1> HIDE DEF r, v
  <1>3. Sound(v)
    BY <1>1, <1>2, Replaced, NoneAssumption DEF Sound
  <1>4. ASSUME NEW p \in Players, Believes(w, p)
        PROVE  Believes(v, p)
    BY <1>1, <1>2, <1>4 DEF Believes, Sound
  <1> QED
    BY <1>3, <1>4 DEF Kept, v

\* A character who is here is without a party.
LEMMA QuitKept ==
  ASSUME NEW w, Sound(w), NEW t \in Players
  PROVE  Kept(w, Quit(w, t))
  <1> DEFINE v == Quit(w, t)
  <1>1. /\ v = [at |-> v.at, teams |-> v.teams, party |-> v.party]
        /\ v.at = w.at
        /\ v.party = [w.party EXCEPT ![t] = None]
    BY DEF Quit, Sound
  <1> HIDE DEF v
  <1>2. Sound(v)
    BY <1>1 DEF Sound
  <1>3. \A p \in Players : Believes(w, p) => Believes(v, p)
    BY <1>1 DEF Believes, Sound
  <1> QED
    BY <1>2, <1>3 DEF Kept, v

LEMMA UntoldKept ==
  ASSUME NEW w, Sound(w), NEW t \in Players
  PROVE  /\ Kept(w, Untold(w, t)) /\ Untold(w, t).at = w.at
         /\ Here(t) => Untold(w, t).party[t] = None
  <1>1. CASE Here(t)
    <2>1. Untold(w, t) = Quit(w, t)
      BY <1>1 DEF Untold, Quit
    <2> QED BY <1>1, <2>1, QuitKept DEF Quit, Sound
  <1>2. CASE ~Here(t)
    <2>1. Untold(w, t) = w
      BY <1>2 DEF Untold, Sound
    <2> QED BY <1>2, <2>1, KeptSame
  <1> QED BY <1>1, <1>2

\* The party q has nobody but t, once.
Alone(w, q, t) ==
    /\ \A p \in Players : p # t => ~(w.at[q].seats[p] > 0)
    /\ ~(w.at[q].seats[t] > 1)

\* r is the party q with a seat of t less, and one of its members as its leader.
Left(w, q, t, r) ==
    /\ r \in Entry /\ r.leader # None /\ r.seats[r.leader] > 0
    /\ r.seats = [w.at[q].seats EXCEPT ![t] = IF @ = 0 THEN 0 ELSE @ - 1]
    /\ r.shown = (IF r.seats[t] = 0 THEN w.at[q].shown \ {t} ELSE w.at[q].shown)
    /\ r.link = w.at[q].link

LEMMA DismissIs ==
  ASSUME NEW w, Sound(w), NEW q \in Parties, w.at[q].leader # None,
         NEW t \in Players, NEW v \in Dismiss(w, q, t)
  PROVE  \/ v = Disband(Untold(w, t), {q}) /\ Alone(w, q, t)
         \/ \E r : v = Tell(Put(Untold(w, t), q, r), q) /\ Left(w, q, t, r)
  <1> DEFINE u == Untold(w, t)
             seats == [w.at[q].seats EXCEPT ![t] = IF @ = 0 THEN 0 ELSE @ - 1]
             shown == IF seats[t] = 0 THEN w.at[q].shown \ {t} ELSE w.at[q].shown
             left == Without(w, q, t)
             heirs == IF t = left.leader THEN {p \in Players : left.seats[p] > 0}
                      ELSE {left.leader}
  <1>1. /\ seats \in [Players -> Nat]
        /\ \A p \in Players \ {t} : seats[p] = w.at[q].seats[p]
        /\ seats[t] = IF w.at[q].seats[t] = 0 THEN 0 ELSE w.at[q].seats[t] - 1
    BY DEF Sound, Entry
  <1>2. shown \in SUBSET Players
    BY DEF Sound, Entry
  <1>3. left = [w.at[q] EXCEPT !.seats = seats, !.shown = shown]
    BY DEF Without, Sound, Entry
  <1>4. \/ left.seats = NoSeats /\ v = Disband(Put(u, q, left), {q})
        \/ left.seats # NoSeats
           /\ \E l \in heirs : v = Tell(Put(u, q, [left EXCEPT !.leader = l]), q)
    BY DEF Dismiss
  <1> HIDE DEF seats, shown
  <1>5. /\ left \in Entry /\ left.leader = w.at[q].leader /\ left.seats = seats
        /\ left.shown = shown /\ left.link = w.at[q].link
    <2> HIDE DEF left
    <2>1. w.at[q] \in Entry
      BY DEF Sound
    <2> QED BY <1>1, <1>2, <1>3, <2>1 DEF Entry
  <1>6. /\ Kept(w, u) /\ u.at = w.at /\ (Here(t) => u.party[t] = None)
    BY UntoldKept
  <1>7. Sound(u)
    BY <1>6 DEF Kept
  <1> HIDE DEF u, left
  <1>8. CASE left.seats = NoSeats /\ v = Disband(Put(u, q, left), {q})
    <2> DEFINE x == Put(u, q, left)
    <2>1. x.at = [u.at EXCEPT ![q] = left] /\ x.teams = u.teams /\ x.party = u.party
      BY DEF Put
    <2> HIDE DEF x
    <2>2. [o \in Parties |-> IF o \in {q} THEN Blank ELSE x.at[o]]
            = [o \in Parties |-> IF o \in {q} THEN Blank ELSE u.at[o]]
      BY <2>1, <1>7 DEF Sound
    <2>3. \A p \in Players : ~(x.at[q].seats[p] > 0)
      BY <2>1, <1>7, <1>8 DEF Sound, NoSeats
    <2>4. \A p \in Players \ {t} : ~(u.at[q].seats[p] > 0)
      BY <1>1, <1>5, <1>6, <1>8 DEF NoSeats
    <2>5. ASSUME NEW p \in Players
          PROVE  (IF x.party[p] \in {q} \/ (Here(p) /\ \E o \in {q} : x.at[o].seats[p] > 0)
                  THEN None ELSE x.party[p])
               = (IF u.party[p] \in {q} \/ (Here(p) /\ \E o \in {q} : u.at[o].seats[p] > 0)
                  THEN None ELSE u.party[p])
      BY <2>1, <2>3, <2>4, <1>6
    <2>6. Disband(x, {q}) = Disband(u, {q})
      BY <2>1, <2>2, <2>5 DEF Disband
    <2>7. w.at[q].seats[t] \in Nat /\ seats[t] = 0
      BY <1>5, <1>8 DEF NoSeats, Sound, Entry
    <2>8. ~(w.at[q].seats[t] > 1)
      BY <1>1, <2>7
    <2>9. v = Disband(u, {q})
      BY <1>8, <2>6 DEF x
    <2>10. Alone(w, q, t)
      BY <1>6, <2>4, <2>8 DEF Alone
    <2> QED BY <2>9, <2>10 DEF u
  <1>9. ASSUME NEW l \in heirs, left.seats # NoSeats,
               v = Tell(Put(u, q, [left EXCEPT !.leader = l]), q)
        PROVE  \E r : v = Tell(Put(u, q, r), q) /\ Left(w, q, t, r)
    <2> DEFINE r == [left EXCEPT !.leader = l]
    <2>1. l \in Players /\ left.seats[l] > 0
      <3>1. CASE t = left.leader
        BY <3>1, <1>9
      <3>2. CASE t # left.leader
        BY <3>2, <1>9, <1>1, <1>5 DEF Sound, Entry
      <3> QED BY <3>1, <3>2
    <2>2. /\ r \in Entry /\ r.leader = l /\ r.seats = left.seats
          /\ r.shown = left.shown /\ r.link = left.link
      BY <2>1, <1>5 DEF Entry
    <2>3. v = Tell(Put(u, q, r), q)
      BY <1>9
    <2> HIDE DEF r
    <2>4. r.leader # None /\ r.seats[r.leader] > 0
      BY <2>1, <2>2, NoneAssumption
    <2>5. r.seats = seats /\ r.shown = shown /\ r.link = w.at[q].link
      BY <1>5, <2>2
    <2>6. Left(w, q, t, r)
      BY <2>2, <2>4, <2>5 DEF Left, seats, shown
    <2> QED BY <2>3, <2>6
  <1> QED
    BY <1>4, <1>8, <1>9 DEF u

\* A listed party loses a member, and its lead to another if he has it; the last
\* member takes it along.
LEMMA Dismissed ==
  ASSUME NEW w, Sound(w), NEW q \in Parties, w.at[q].leader # None,
         NEW t \in Players, NEW v \in Dismiss(w, q, t)
  PROVE  Kept(w, v)
  <1> DEFINE u == Untold(w, t)
  <1>1. Kept(w, u) /\ u.at = w.at /\ (Here(t) => u.party[t] = None)
    BY UntoldKept
  <1>2. Sound(u)
    BY <1>1 DEF Kept
  <1> HIDE DEF u
  <1>3. CASE v = Disband(u, {q})
    BY <1>1, <1>2, <1>3, Disbanded, KeptTwice
  <1>4. ASSUME NEW r, v = Tell(Put(u, q, r), q), Left(w, q, t, r)
        PROVE  Kept(w, v)
    <2> DEFINE x == Put(u, q, r)
    <2>1. /\ x = [at |-> x.at, teams |-> x.teams, party |-> x.party]
          /\ x.at = [u.at EXCEPT ![q] = r]
          /\ x.party = u.party
      BY DEF Put
    <2> HIDE DEF x
    <2>2. Sound(x)
      <3>1. r \in Entry /\ r.leader # None /\ r.seats[r.leader] > 0
        BY <1>4 DEF Left
      <3>2. /\ x.party \in [Players -> Parties \cup {None}]
            /\ \A p \in Players : x.party[p] \in {u.party[p], q, None}
        BY <1>2, <2>1 DEF Sound
      <3> QED BY <1>2, <2>1, <3>1, <3>2, Replaced
    <2>3. \A p \in Players : p # t => r.seats[p] = w.at[q].seats[p]
      BY <1>4 DEF Sound, Entry, Left
    <2>4. ASSUME NEW p \in Players, Here(p), Believes(u, p)
          PROVE  Believes(x, p)
      <3>1. CASE p = t
        BY <3>1, <2>4, <2>1, <1>1 DEF Believes
      <3>2. CASE p # t /\ u.party[p] = q
        BY <3>2, <2>1, <2>3, <2>4, <1>1, <1>2 DEF Believes, Sound
      <3>3. CASE u.party[p] # q
        BY <3>3, <2>1, <2>4, <1>2 DEF Believes, Sound
      <3> QED BY <3>1, <3>2, <3>3
    <2>5. Kept(u, x)
      BY <2>2, <2>4 DEF Kept
    <2>6. Kept(x, v)
      BY <2>2, <1>4, Told DEF x
    <2> QED BY <2>5, <2>6, <1>1, KeptTwice
  <1> QED
    BY <1>3, <1>4, DismissIs DEF u

-----------------------------------------------------------------------------
(* Seats that are counted *)

Taken(seats) == {e \in Players \X (1..MaxMembers) : e[2] <= seats[e[1]]}

LEMMA TakenFinite ==
  ASSUME NEW seats
  PROVE  IsFiniteSet(Taken(seats)) /\ Size(seats) = Cardinality(Taken(seats))
                                   /\ Size(seats) \in Nat
  <1>1. IsFiniteSet(1..MaxMembers)
    BY SizeAssumption, FS_Interval
  <1>2. IsFiniteSet(Players \X (1..MaxMembers))
    BY <1>1, PlayersAssumption, FS_Product
  <1>3. IsFiniteSet(Taken(seats))
    BY <1>2, FS_Subset DEF Taken
  <1> QED
    BY <1>3, FS_CardinalityType DEF Size, Taken

\* Fewer seats are of a smaller size.
LEMMA SizeShrinks ==
  ASSUME NEW r \in [Players -> Nat], NEW s \in [Players -> Nat],
         \A p \in Players : r[p] <= s[p]
  PROVE  Size(r) <= Size(s)
  <1>1. Taken(r) \subseteq Taken(s)
    BY SizeAssumption DEF Taken
  <1> QED
    BY <1>1, TakenFinite, FS_Subset

\* One seat more is one more at most.
LEMMA SizeGrows ==
  ASSUME NEW s \in [Players -> Nat], NEW t \in Players
  PROVE  Size([s EXCEPT ![t] = @ + 1]) <= Size(s) + 1
  <1> DEFINE r == [s EXCEPT ![t] = @ + 1]
             more == Taken(s) \cup {<<t, s[t] + 1>>}
  <1>1. Taken(r) \subseteq more
    <2> SUFFICES ASSUME NEW e \in Taken(r), e \notin Taken(s)
                 PROVE  e = <<t, s[t] + 1>>
      OBVIOUS
    <2>1. PICK p \in Players, n \in 1..MaxMembers : e = <<p, n>>
      BY DEF Taken
    <2>2. n <= r[p] /\ ~(n <= s[p])
      BY <2>1 DEF Taken
    <2>3. p = t /\ n = s[t] + 1
      BY <2>2, SizeAssumption
    <2> QED BY <2>1, <2>3
  <1>2. IsFiniteSet(more) /\ Cardinality(more) <= Cardinality(Taken(s)) + 1
    <2>1. IsFiniteSet(Taken(s)) /\ Cardinality(Taken(s)) \in Nat
      BY TakenFinite, FS_CardinalityType
    <2> DEFINE T == Taken(s)
               x == <<t, s[t] + 1>>
    <2>2. IsFiniteSet(T) /\ Cardinality(T) \in Nat /\ more = T \cup {x}
      BY <2>1
    <2> HIDE DEF T, x
    <2>3. /\ IsFiniteSet(T \cup {x})
          /\ Cardinality(T \cup {x}) = IF x \in T THEN Cardinality(T) ELSE Cardinality(T) + 1
      BY <2>2, FS_AddElement
    <2>4. IsFiniteSet(T \cup {x}) /\ Cardinality(T \cup {x}) <= Cardinality(T) + 1
      BY <2>2, <2>3
    <2> QED BY <2>2, <2>4 DEF T
  <1>3. Cardinality(Taken(r)) <= Cardinality(more)
    BY <1>1, <1>2, FS_Subset
  <1> HIDE DEF r, more
  <1>4. /\ Cardinality(Taken(r)) \in Nat /\ Cardinality(more) \in Nat
        /\ Cardinality(Taken(s)) \in Nat
    BY <1>2, TakenFinite, FS_CardinalityType
  <1> QED
    BY <1>2, <1>3, <1>4, TakenFinite DEF r

LEMMA SizeOfOne ==
  /\ Size(NoSeats) = 0
  /\ \A t \in Players : Size([NoSeats EXCEPT ![t] = 1]) <= 1
  <1>1. Taken(NoSeats) = {}
    BY SizeAssumption DEF Taken, NoSeats
  <1>2. Size(NoSeats) = 0
    BY <1>1, TakenFinite, FS_EmptySet
  <1>3. ASSUME NEW t \in Players
        PROVE  Size([NoSeats EXCEPT ![t] = 1]) <= 1
    <2>1. NoSeats \in [Players -> Nat]
      BY DEF NoSeats
    <2>2. [NoSeats EXCEPT ![t] = @ + 1] = [NoSeats EXCEPT ![t] = 1]
      BY DEF NoSeats
    <2>3. Size([NoSeats EXCEPT ![t] = @ + 1]) <= Size(NoSeats) + 1
      BY <2>1, SizeGrows
    <2> QED BY <1>2, <2>2, <2>3
  <1> QED
    BY <1>2, <1>3

-----------------------------------------------------------------------------
(* Lists without repetitions *)

\* The elements that stay are those of the list that are not taken out, once each.
LEMMA RestOf ==
  ASSUME NEW S, NEW s \in Seq(S), IsInjective(s), NEW Q
  PROVE  /\ Rest(s, Q) \in Seq(S) /\ IsInjective(Rest(s, Q))
         /\ Range(Rest(s, Q)) = Range(s) \ Q
  <1> DEFINE stay == {i \in DOMAIN s : s[i] \notin Q}
             n == Cardinality(stay)
             upto(i) == {k \in stay : k <= i}
             rank == [i \in stay |-> Cardinality(upto(i))]
             place(j) == CHOOSE i \in stay : rank[i] = j
  <1>1. stay \subseteq 1..Len(s) /\ IsFiniteSet(stay) /\ n \in Nat
    <2>1. stay \subseteq 1..Len(s) /\ Len(s) \in Nat
      OBVIOUS
    <2>2. IsFiniteSet(1..Len(s))
      BY <2>1, FS_Interval
    <2>3. IsFiniteSet(stay)
      BY <2>1, <2>2, FS_Subset
    <2> QED BY <2>1, <2>3, FS_CardinalityType
  <1>2. Rest(s, Q) = [j \in 1..n |-> s[CHOOSE i \in stay : Cardinality({k \in stay : k <= i}) = j]]
    BY DEF Rest
  <1>3. \A i \in stay : i \in Nat /\ s[i] \in S \ Q /\ s[i] \in Range(s)
    BY <1>1 DEF Range
  <1>4. \A x \in Range(s) \ Q : \E i \in stay : x = s[i]
    BY DEF Range
  <1>5. \A i, k \in stay : s[i] = s[k] => i = k
    BY DEF IsInjective
  <1> HIDE DEF stay
  <1>6. ASSUME NEW i \in stay
        PROVE  IsFiniteSet(upto(i)) /\ rank[i] \in 1..n
    <2>1. upto(i) \in SUBSET stay /\ IsFiniteSet(upto(i)) /\ Cardinality(upto(i)) <= n
      BY <1>1, FS_Subset
    <2>2. i \in upto(i)
      BY <1>3
    <2>3. Cardinality(upto(i)) \in Nat /\ Cardinality(upto(i)) # 0
      BY <2>1, <2>2, FS_CardinalityType, FS_EmptySet
    <2> QED BY <2>1, <2>3, <1>1
  <1>7. ASSUME NEW i \in stay, NEW k \in stay, i < k
        PROVE  rank[i] < rank[k]
    <2>1. upto(i) \in SUBSET upto(k) /\ k \in upto(k) /\ k \notin upto(i)
      BY <1>3, <1>7
    <2>2. Cardinality(upto(i)) <= Cardinality(upto(k))
          /\ Cardinality(upto(i)) # Cardinality(upto(k))
      BY <2>1, <1>6, FS_Subset
    <2>3. Cardinality(upto(i)) = rank[i] /\ Cardinality(upto(k)) = rank[k]
      OBVIOUS
    <2> HIDE DEF rank, upto
    <2> QED BY <2>2, <2>3, <1>6, <1>1
  <1>8. rank \in Injection(stay, 1..n)
    <2>1. rank \in [stay -> 1..n]
      BY <1>6
    <2>2. \A i, k \in stay : rank[i] = rank[k] => i = k
      <3> TAKE i, k \in stay
      <3>0. rank[i] \in 1..n /\ rank[k] \in 1..n
        BY <1>6
      <3>1. /\ i \in Nat /\ k \in Nat /\ rank[i] \in Nat /\ rank[k] \in Nat
        <4> HIDE DEF rank, n
        <4> QED BY <3>0, <1>1, <1>3
      <3>2. (i < k => rank[i] < rank[k]) /\ (k < i => rank[k] < rank[i])
        BY <1>7
      <3> HIDE DEF rank
      <3> QED BY <3>1, <3>2
    <2> HIDE DEF rank
    <2> QED BY <2>1, <2>2 DEF Injection, IsInjective
  <1>9. \A j \in 1..n : \E i \in stay : rank[i] = j
    <2>1. IsFiniteSet(1..n) /\ Cardinality(1..n) = n
      BY <1>1, FS_Interval
    <2>2. rank \in Surjection(stay, 1..n)
      BY <1>8, <2>1, FS_Injection
    <2> HIDE DEF rank
    <2> QED BY <2>2 DEF Surjection
  <1>10. \A j \in 1..n : (CHOOSE i \in stay : Cardinality({k \in stay : k <= i}) = j) = place(j)
    <2> TAKE j \in 1..n
    <2>1. \A i \in stay : Cardinality({k \in stay : k <= i}) = rank[i]
      OBVIOUS
    <2> HIDE DEF rank
    <2> QED BY <2>1
  <1>11. \A j \in 1..n : place(j) \in stay /\ rank[place(j)] = j
    <2> HIDE DEF rank
    <2> QED BY <1>9
  <1>12. Rest(s, Q) = [j \in 1..n |-> s[place(j)]]
    BY <1>2, <1>10
  <1> HIDE DEF rank, place, n
  <1>13. Rest(s, Q) \in Seq(S)
    <2>1. \A j \in 1..n : s[place(j)] \in S
      BY <1>3, <1>11
    <2> HIDE DEF place
    <2>2. [j \in 1..n |-> s[place(j)]] \in [1..n -> S]
      BY <2>1
    <2> QED BY <1>1, <1>12, <2>2
  <1>14. IsInjective(Rest(s, Q))
    BY <1>5, <1>11, <1>12 DEF IsInjective
  <1>15. Range(Rest(s, Q)) \subseteq Range(s) \ Q
    BY <1>3, <1>11, <1>12 DEF Range
  <1>16. ASSUME NEW x \in Range(s) \ Q
         PROVE  x \in Range(Rest(s, Q))
    <2>1. PICK i \in stay : x = s[i]
      BY <1>4
    <2>2. rank[i] \in 1..n /\ place(rank[i]) = i
      BY <1>6, <1>8, <1>11 DEF Injection, IsInjective
    <2> QED BY <2>1, <2>2, <1>12 DEF Range
  <1> QED
    BY <1>13, <1>14, <1>15, <1>16

\* A list without repetitions is as long as the set of its elements.
LEMMA LengthOfSet ==
  ASSUME NEW S, NEW s \in Seq(S), IsInjective(s)
  PROVE  Len(s) = Cardinality(Range(s))
  <1>1. s \in Bijection(1..Len(s), Range(s)) /\ Len(s) \in Nat
    BY DEF Bijection, Injection, Surjection, Range, IsInjective
  <1> QED
    BY <1>1, FS_CountingElements DEF ExistsBijection

LEMMA AppendedOnce ==
  ASSUME NEW S, NEW s \in Seq(S), IsInjective(s), NEW x \in S, x \notin Range(s)
  PROVE  /\ Append(s, x) \in Seq(S) /\ IsInjective(Append(s, x))
         /\ Range(Append(s, x)) = Range(s) \cup {x}
  <1> DEFINE r == Append(s, x)
  <1>1. /\ r \in Seq(S) /\ DOMAIN s = 1..Len(s) /\ Len(s) \in Nat
        /\ DOMAIN r = 1..(Len(s) + 1)
        /\ \A i \in 1..Len(s) : r[i] = s[i]
        /\ r[Len(s) + 1] = x
    OBVIOUS
  <1> HIDE DEF r
  <1>2. \A i \in 1..Len(s) : s[i] # x
    BY <1>1 DEF Range
  <1>3. IsInjective(r)
    BY <1>1, <1>2 DEF IsInjective
  <1>4. Range(r) = Range(s) \cup {x}
    <2>1. \A i \in DOMAIN r : r[i] \in Range(s) \cup {x}
      BY <1>1 DEF Range
    <2>2. \A i \in DOMAIN s : i \in DOMAIN r /\ r[i] = s[i]
      BY <1>1
    <2>3. Len(s) + 1 \in DOMAIN r
      BY <1>1
    <2> QED BY <1>1, <2>1, <2>2, <2>3 DEF Range
  <1> QED
    BY <1>1, <1>3, <1>4 DEF r

-----------------------------------------------------------------------------
(* Links and sizes, and what a step does to those who are not concerned *)

\* A party and its expedition name each other, once, and no party outgrows its limit.
Neat(w) ==
    /\ w.teams \in [Expeds -> Seq(Parties)]
    /\ \A e \in Expeds : IsInjective(w.teams[e])
    /\ \A e \in Expeds : \A q \in Parties : w.at[q].link = e <=> q \in Range(w.teams[e])
    /\ \A q \in Parties : Size(w.at[q].seats) <= MaxMembers

\* x is shown as online wherever he has a seat.
Visible(w, x) == \A q \in Parties : w.at[q].seats[x] > 0 => x \in w.at[q].shown

\* Settled, of a world
Single(w, x) ==
    \A q \in Parties : w.at[q].seats[x] > 0 => w.party[x] = q /\ w.at[q].seats[x] = 1

Seatless(w, x) == \A q \in Parties : ~(w.at[q].seats[x] > 0)

\* x has a seat in a party of e.
Rides(w, e, x) == \E q \in Parties : w.at[q].link = e /\ w.at[q].seats[x] > 0

\* From w to v nobody but those in H is hidden, nobody but those in U is unsettled,
\* nobody but x with <<e, x>> in O loses his last seat in an expedition e, and no
\* expedition but those in L gets a party.
Spares(w, v, H, U, O, L) ==
    /\ Sound(v) /\ Neat(v)
    /\ \A x \in Players : x \notin H /\ Visible(w, x) => Visible(v, x)
    /\ \A x \in Players : x \notin U /\ Single(w, x) => Single(v, x)
    /\ \A x \in Players, e \in Expeds : <<e, x>> \notin O /\ Rides(w, e, x) => Rides(v, e, x)
    /\ \A q \in Parties : v.at[q].link \in {w.at[q].link, None} \cup L

LEMMA SparesTwice ==
  ASSUME NEW u, NEW v, NEW w, NEW H, NEW U, NEW O, NEW L, NEW J, NEW V, NEW P, NEW M,
         Spares(u, v, H, U, O, L), Spares(v, w, J, V, P, M),
         NEW A, NEW B, NEW C, NEW D,
         H \cup J \subseteq A, U \cup V \subseteq B, O \cup P \subseteq C, L \cup M \subseteq D
  PROVE  Spares(u, w, A, B, C, D)
  <1>1. Sound(w) /\ Neat(w)
    BY DEF Spares
  <1>2. \A x \in Players : x \notin A /\ Visible(u, x) => Visible(w, x)
    BY DEF Spares
  <1>3. \A x \in Players : x \notin B /\ Single(u, x) => Single(w, x)
    BY DEF Spares
  <1>4. \A x \in Players, e \in Expeds :
           <<e, x>> \notin C /\ Rides(u, e, x) => Rides(w, e, x)
    BY DEF Spares
  <1>5. \A q \in Parties : w.at[q].link \in {u.at[q].link, None} \cup D
    BY DEF Spares
  <1> QED
    BY <1>1, <1>2, <1>3, <1>4, <1>5 DEF Spares

\* Nobody who has no seat is unsettled.
LEMMA SeatlessSingle ==
  ASSUME NEW w, NEW x \in Players, Seatless(w, x)
  PROVE  Single(w, x)
  BY DEF Seatless, Single

LEMMA SettledAgain ==
  ASSUME NEW w, NEW v, NEW O, NEW L, NEW t \in Players,
         Spares(w, v, {}, {t}, O, L), Single(w, t) => Single(v, t)
  PROVE  Spares(w, v, {}, {}, O, L)
  BY DEF Spares

\* One party is changed, and some change over to it.
LEMMA Updated ==
  ASSUME NEW w, Sound(w), Neat(w), NEW v, Sound(v), NEW q \in Parties, NEW r,
         NEW H, NEW U, NEW O,
         v.at = [w.at EXCEPT ![q] = r], v.teams = w.teams,
         r.link = w.at[q].link, Size(r.seats) <= MaxMembers,
         \A x \in Players : x \notin H /\ r.seats[x] > 0
             /\ (w.at[q].seats[x] > 0 => x \in w.at[q].shown) => x \in r.shown,
         \A x \in Players : x \notin U => r.seats[x] <= w.at[q].seats[x],
         \A x \in Players : x \notin U =>
             \/ v.party[x] = w.party[x]
             \/ v.party[x] = q /\ r.seats[x] > 0,
         \A x \in Players : w.at[q].seats[x] > 0 /\ <<w.at[q].link, x>> \notin O
             => r.seats[x] > 0
  PROVE  Spares(w, v, H, U, O, {})
  <1>1. /\ \A o \in Parties : o # q => v.at[o] = w.at[o]
        /\ v.at[q] = r
    BY DEF Sound
  <1>2. \A o \in Parties : v.at[o].link = w.at[o].link
    BY <1>1
  <1>3. Neat(v)
    <2>1. \A o \in Parties : Size(v.at[o].seats) <= MaxMembers
      BY <1>1 DEF Neat
    <2> QED BY <1>2, <2>1 DEF Neat
  <1>4. ASSUME NEW x \in Players, x \notin H, Visible(w, x)
        PROVE  Visible(v, x)
    BY <1>1, <1>4 DEF Visible
  <1>5. ASSUME NEW x \in Players, x \notin U, Single(w, x)
        PROVE  Single(v, x)
    <2>1. \A o \in Parties : w.at[o].seats \in [Players -> Nat]
                             /\ v.at[o].seats \in [Players -> Nat]
      BY DEF Sound, Entry
    <2>2. r.seats[x] <= w.at[q].seats[x] /\ r.seats[x] \in Nat /\ w.at[q].seats[x] \in Nat
      BY <1>1, <1>5, <2>1
    <2>3. r.seats[x] > 0 => w.party[x] = q /\ r.seats[x] = 1
      BY <1>5, <2>2 DEF Single
    <2>4. \A o \in Parties : o # q /\ v.at[o].seats[x] > 0
                => w.party[x] = o /\ v.at[o].seats[x] = 1
      BY <1>1, <1>5 DEF Single
    <2>5. \/ v.party[x] = w.party[x]
          \/ v.party[x] = q /\ r.seats[x] > 0
      BY <1>5
    <2> QED BY <1>1, <2>3, <2>4, <2>5 DEF Single
  <1>6. ASSUME NEW x \in Players, NEW e \in Expeds, <<e, x>> \notin O, Rides(w, e, x)
        PROVE  Rides(v, e, x)
    <2>1. PICK o \in Parties : w.at[o].link = e /\ w.at[o].seats[x] > 0
      BY <1>6 DEF Rides
    <2>2. v.at[o].link = e /\ v.at[o].seats[x] > 0
      BY <1>1, <1>2, <1>6, <2>1
    <2> QED BY <2>2 DEF Rides
  <1> QED
    BY <1>2, <1>3, <1>4, <1>5, <1>6 DEF Spares

\* The members who are here are given their party.
LEMMA ToldSpares ==
  ASSUME NEW w, Sound(w), Neat(w), NEW q \in Parties
  PROVE  Spares(w, Tell(w, q), {}, {}, {}, {})
  <1> DEFINE v == Tell(w, q)
  <1>1. /\ v.at = w.at /\ v.teams = w.teams
        /\ v.party = [p \in Players |->
              IF Here(p) /\ w.at[q].seats[p] > 0 THEN q ELSE w.party[p]]
    BY DEF Sound, Tell
  <1>2. Sound(v)
    BY Told DEF Kept
  <1> HIDE DEF v
  <1>3. Neat(v)
    BY <1>1 DEF Neat
  <1>4. \A x \in Players : Single(w, x) => Single(v, x)
    BY <1>1 DEF Single
  <1> QED
    BY <1>1, <1>2, <1>3, <1>4 DEF Spares, Visible, Rides, v

\* The lead of a party goes to a member.
LEMMA HandedSpares ==
  ASSUME NEW w, Sound(w), Neat(w), NEW q \in Parties, NEW t \in Players,
         w.at[q].seats[t] > 0
  PROVE  /\ Spares(w, Lead(w, q, t), {}, {}, {}, {})
         /\ Lead(w, q, t).at[q].seats = w.at[q].seats
  <1> DEFINE r == [w.at[q] EXCEPT !.leader = t]
             v == Lead(w, q, t)
  <1>1. /\ r.seats = w.at[q].seats /\ r.shown = w.at[q].shown /\ r.link = w.at[q].link
    BY DEF Sound, Entry
  <1>2. /\ v.at = [w.at EXCEPT ![q] = r] /\ v.teams = w.teams
        /\ v.party = [p \in Players |-> IF Here(p) /\ v.at[q].seats[p] > 0
                                        THEN q ELSE w.party[p]]
    BY DEF Lead, Tell, Put
  <1>3. Sound(v)
    BY Handed DEF Kept
  <1> HIDE DEF r, v
  <1>4. v.at[q] = r
    BY <1>2 DEF Sound
  <1>5. /\ Size(r.seats) <= MaxMembers
        /\ \A x \in Players : r.seats[x] <= w.at[q].seats[x]
    BY <1>1 DEF Neat, Sound, Entry
  <1>6. \A x \in Players : \/ v.party[x] = w.party[x]
                           \/ v.party[x] = q /\ r.seats[x] > 0
    BY <1>2, <1>4
  <1>7. Spares(w, v, {}, {}, {}, {})
    BY <1>1, <1>2, <1>3, <1>5, <1>6, Updated
  <1> QED
    BY <1>1, <1>4, <1>7 DEF v

\* A listed party shows t as online, or as offline, which hides him.
LEMMA ShownSpares ==
  ASSUME NEW w, Sound(w), Neat(w), NEW q \in Parties, w.at[q].leader # None,
         NEW t \in Players, NEW on \in BOOLEAN
  PROVE  /\ Spares(w, Show(w, q, t, on), {t}, {}, {}, {})
         /\ on => \A x \in Players : Visible(w, x) => Visible(Show(w, q, t, on), x)
         /\ on /\ w.at[q].seats[t] > 0 => t \in Show(w, q, t, on).at[q].shown
  <1> DEFINE seen == IF ~on THEN w.at[q].shown \ {t}
                     ELSE w.at[q].shown \cup {p \in {t} : w.at[q].seats[p] > 0}
             r == [w.at[q] EXCEPT !.shown = seen]
             v == Show(w, q, t, on)
  <1>1. /\ \A x \in w.at[q].shown : x # t \/ on => x \in seen
        /\ on /\ w.at[q].seats[t] > 0 => t \in seen
    OBVIOUS
  <1>2. /\ v.at = [w.at EXCEPT ![q] = r] /\ v.teams = w.teams
        /\ v.party = [p \in Players |-> IF Here(p) /\ v.at[q].seats[p] > 0
                                        THEN q ELSE w.party[p]]
    BY DEF Show, Tell, Put
  <1>3. Sound(v) /\ v.at[q].seats = w.at[q].seats
    BY Shown DEF Kept
  <1> HIDE DEF seen
  <1>4. r.seats = w.at[q].seats /\ r.shown = seen /\ r.link = w.at[q].link
    BY DEF Sound, Entry
  <1> HIDE DEF r, v
  <1>5. v.at[q] = r /\ \A o \in Parties : o # q => v.at[o] = w.at[o]
    BY <1>2 DEF Sound
  <1>6. /\ Size(r.seats) <= MaxMembers
        /\ \A x \in Players : r.seats[x] <= w.at[q].seats[x]
    BY <1>4 DEF Neat, Sound, Entry
  <1>7. \A x \in Players : \/ v.party[x] = w.party[x]
                           \/ v.party[x] = q /\ r.seats[x] > 0
    BY <1>2, <1>5
  <1>8. Spares(w, v, {t}, {}, {}, {})
    BY <1>1, <1>2, <1>3, <1>4, <1>6, <1>7, Updated
  <1>9. on => \A x \in Players : Visible(w, x) => Visible(v, x)
    BY <1>1, <1>4, <1>5 DEF Visible
  <1> QED
    BY <1>1, <1>4, <1>5, <1>8, <1>9 DEF v

\* A listed party that has room gets a member.
LEMMA AddedSpares ==
  ASSUME NEW w, Sound(w), Neat(w), NEW q \in Parties, w.at[q].leader # None,
         NEW t \in Players, Size(w.at[q].seats) < MaxMembers
  PROVE  /\ Spares(w, Add(w, q, t), {}, {t}, {}, {})
         /\ Here(t) /\ Seatless(w, t) => Single(Add(w, q, t), t)
  <1> DEFINE seats == [w.at[q].seats EXCEPT ![t] = @ + 1]
             r == [w.at[q] EXCEPT !.seats = seats, !.shown = @ \cup {t}]
             v == Add(w, q, t)
  <1>0. w.at[q].seats \in [Players -> Nat]
    BY DEF Sound, Entry
  <1>1. /\ \A x \in Players : x # t => seats[x] = w.at[q].seats[x]
        /\ seats[t] = w.at[q].seats[t] + 1
        /\ Size(seats) <= MaxMembers
    <2>1. Size(seats) <= Size(w.at[q].seats) + 1
      BY <1>0, SizeGrows
    <2>2. Size(seats) \in Nat /\ Size(w.at[q].seats) \in Nat
      BY TakenFinite
    <2> HIDE DEF seats
    <2>3. Size(seats) <= MaxMembers
      BY <2>1, <2>2, SizeAssumption
    <2> QED BY <1>0, <2>3 DEF seats
  <1>2. /\ v.at = [w.at EXCEPT ![q] = r] /\ v.teams = w.teams
        /\ v.party = [p \in Players |-> IF Here(p) /\ v.at[q].seats[p] > 0
                                        THEN q ELSE w.party[p]]
    BY DEF Add, Tell, Put
  <1>3. Sound(v)
    BY Added DEF Kept
  <1> HIDE DEF seats
  <1>4. r.seats = seats /\ r.shown = w.at[q].shown \cup {t} /\ r.link = w.at[q].link
    BY DEF Sound, Entry
  <1> HIDE DEF r, v
  <1>5. v.at[q] = r /\ \A o \in Parties : o # q => v.at[o] = w.at[o]
    BY <1>2 DEF Sound
  <1>6. \A x \in Players : x # t => r.seats[x] <= w.at[q].seats[x]
    BY <1>0, <1>1, <1>4
  <1>7. \A x \in Players : \/ v.party[x] = w.party[x]
                           \/ v.party[x] = q /\ r.seats[x] > 0
    BY <1>2, <1>5
  <1>8. \A x \in Players : w.at[q].seats[x] > 0 => r.seats[x] > 0
    BY <1>0, <1>1, <1>4
  <1>9. \A x \in Players : /\ r.seats[x] > 0
                           /\ w.at[q].seats[x] > 0 => x \in w.at[q].shown
                           => x \in r.shown
    BY <1>0, <1>1, <1>4
  <1>10. Spares(w, v, {}, {t}, {}, {})
    BY <1>1, <1>2, <1>3, <1>4, <1>6, <1>7, <1>8, <1>9, Updated
  <1>11. ASSUME Here(t), Seatless(w, t)
         PROVE  Single(v, t)
    <2>1. r.seats[t] = 1
      BY <1>0, <1>1, <1>4, <1>11 DEF Seatless
    <2>2. v.party[t] = q
      BY <1>2, <1>5, <1>11, <2>1
    <2> QED BY <1>5, <1>11, <2>1, <2>2 DEF Seatless, Single
  <1> QED
    BY <1>10, <1>11 DEF v

\* A party is founded under an id that is free.
LEMMA FoundedSpares ==
  ASSUME NEW w, Sound(w), Neat(w), NEW q \in Parties, w.at[q].leader = None,
         NEW t \in Players, NEW e \in Expeds \cup {None}
  PROVE  /\ Spares(w, Found(w, q, t, e), {}, {t}, {}, {e} \ {None})
         /\ Seatless(w, t) => Single(Found(w, q, t, e), t)
  <1> DEFINE seats == [NoSeats EXCEPT ![t] = 1]
             r == [seats |-> seats, leader |-> t, shown |-> {t}, link |-> e]
             v == Found(w, q, t, e)
  <1>1. /\ \A x \in Players : x # t => seats[x] = 0
        /\ seats[t] = 1
        /\ Size(seats) <= MaxMembers
    <2>1. Size(seats) <= 1 /\ Size(seats) \in Nat
      BY SizeOfOne, TakenFinite
    <2>2. \A n \in Nat : n <= 1 => n <= MaxMembers
      BY SizeAssumption
    <2> QED BY <2>1, <2>2 DEF NoSeats
  <1> HIDE DEF seats
  <1>2. r.seats = seats /\ r.shown = {t} /\ r.link = e
    OBVIOUS
  <1>3. /\ v.at = [w.at EXCEPT ![q] = r]
        /\ v.teams = [x \in Expeds |-> IF x = e THEN Append(w.teams[x], q) ELSE w.teams[x]]
        /\ v.party = [w.party EXCEPT ![t] = q]
    BY DEF Found, seats
  <1>4. Sound(v)
    BY Founded DEF Kept
  <1> HIDE DEF r, v
  <1>5. v.at[q] = r /\ \A o \in Parties : o # q => v.at[o] = w.at[o]
    BY <1>3 DEF Sound
  <1>6. w.at[q].link = None /\ \A x \in Players : ~(w.at[q].seats[x] > 0)
    BY BlankEntry DEF Sound, Blank
  <1>7. Neat(v)
    <2>1. \A o \in Parties : Size(v.at[o].seats) <= MaxMembers
      BY <1>1, <1>2, <1>5 DEF Neat
    <2>2. ASSUME NEW x \in Expeds
          PROVE  /\ v.teams[x] \in Seq(Parties) /\ IsInjective(v.teams[x])
                 /\ \A o \in Parties : v.at[o].link = x <=> o \in Range(v.teams[x])
      <3>1. /\ w.teams[x] \in Seq(Parties) /\ IsInjective(w.teams[x])
            /\ \A o \in Parties : w.at[o].link = x <=> o \in Range(w.teams[x])
        BY DEF Neat
      <3>2. x # None /\ q \notin Range(w.teams[x])
        BY <1>6, <3>1, NoneAssumption
      <3>3. CASE x = e
        <4>1. v.teams[x] = Append(w.teams[x], q)
          BY <1>3, <3>3
        <4>2. /\ v.teams[x] \in Seq(Parties) /\ IsInjective(v.teams[x])
              /\ Range(v.teams[x]) = Range(w.teams[x]) \cup {q}
          BY <3>1, <3>2, <4>1, AppendedOnce
        <4> QED BY <1>2, <1>5, <3>1, <3>3, <4>2
      <3>4. CASE x # e
        BY <1>2, <1>3, <1>5, <3>1, <3>2, <3>4
      <3> QED BY <3>3, <3>4
    <2>3. v.teams \in [Expeds -> Seq(Parties)]
      <3>1. v.teams = [x \in Expeds |-> v.teams[x]]
        BY <1>3
      <3> QED BY <2>2, <3>1
    <2> QED BY <2>1, <2>2, <2>3 DEF Neat
  <1>8. \A x \in Players : Visible(w, x) => Visible(v, x)
    BY <1>1, <1>2, <1>5 DEF Visible
  <1>9. \A x \in Players : x # t => v.party[x] = w.party[x]
    BY <1>3 DEF Sound
  <1>10. \A x \in Players : x # t /\ Single(w, x) => Single(v, x)
    BY <1>1, <1>2, <1>5, <1>9 DEF Single
  <1>11. \A x \in Players, f \in Expeds : Rides(w, f, x) => Rides(v, f, x)
    BY <1>5, <1>6 DEF Rides
  <1>12. \A o \in Parties : v.at[o].link \in {w.at[o].link, None} \cup ({e} \ {None})
    BY <1>2, <1>5
  <1>13. Spares(w, v, {}, {t}, {}, {e} \ {None})
    BY <1>4, <1>7, <1>8, <1>10, <1>11, <1>12 DEF Spares
  <1>14. v.party[t] = q
    BY <1>3 DEF Sound
  <1>15. Seatless(w, t) => Single(v, t)
    BY <1>1, <1>2, <1>5, <1>14 DEF Seatless, Single
  <1> QED
    BY <1>13, <1>15 DEF v

\* Somebody without a seat is left without a party.
LEMMA QuitSpares ==
  ASSUME NEW w, Sound(w), Neat(w), NEW t \in Players
  PROVE  /\ Spares(w, Quit(w, t), {}, {t}, {}, {})
         /\ Quit(w, t).at = w.at
         /\ Seatless(w, t) => Single(Quit(w, t), t)
  <1> DEFINE v == Quit(w, t)
  <1>1. /\ v.at = w.at /\ v.teams = w.teams
        /\ \A x \in Players : x # t => v.party[x] = w.party[x]
    BY DEF Quit, Sound
  <1>2. Sound(v)
    BY QuitKept DEF Kept
  <1> HIDE DEF v
  <1>3. Neat(v)
    BY <1>1 DEF Neat
  <1>4. \A x \in Players : x # t /\ Single(w, x) => Single(v, x)
    BY <1>1 DEF Single
  <1>5. Seatless(w, t) => Single(v, t)
    BY <1>1 DEF Seatless, Single
  <1> QED
    BY <1>1, <1>2, <1>3, <1>4, <1>5 DEF Spares, Visible, Rides, v

\* Parties are disbanded, of which those who ride in an expedition are in O.
LEMMA DisbandedSpares ==
  ASSUME NEW w, Sound(w), Neat(w), NEW Q \in SUBSET Parties, NEW O,
         \A q \in Q, x \in Players :
            w.at[q].link \in Expeds /\ w.at[q].seats[x] > 0 => <<w.at[q].link, x>> \in O
  PROVE  Spares(w, Disband(w, Q), {}, {}, O, {})
  <1> DEFINE v == Disband(w, Q)
  <1>1. /\ v.at = [q \in Parties |-> IF q \in Q THEN Blank ELSE w.at[q]]
        /\ v.teams = [e \in Expeds |-> Rest(w.teams[e], Q)]
        /\ v.party = [p \in Players |->
             IF w.party[p] \in Q \/ (Here(p) /\ \E q \in Q : w.at[q].seats[p] > 0)
             THEN None ELSE w.party[p]]
    BY DEF Disband
  <1>2. Sound(v)
    BY Disbanded DEF Kept
  <1> HIDE DEF v
  <1>3. /\ \A q \in Parties : q \notin Q => v.at[q] = w.at[q]
        /\ \A q \in Parties : q \in Q => v.at[q] = Blank
    BY <1>1
  <1>4. /\ Blank.link = None /\ Size(Blank.seats) <= MaxMembers
        /\ \A x \in Players : ~(Blank.seats[x] > 0)
    <2>1. 0 <= MaxMembers
      BY SizeAssumption
    <2> QED BY <2>1, SizeOfOne, BlankEntry DEF Blank
  <1>5. Neat(v)
    <2>1. \A q \in Parties : Size(v.at[q].seats) <= MaxMembers
      BY <1>3, <1>4 DEF Neat
    <2>2. ASSUME NEW e \in Expeds
          PROVE  /\ v.teams[e] \in Seq(Parties) /\ IsInjective(v.teams[e])
                 /\ \A q \in Parties : v.at[q].link = e <=> q \in Range(v.teams[e])
      <3>1. /\ w.teams[e] \in Seq(Parties) /\ IsInjective(w.teams[e])
            /\ \A q \in Parties : w.at[q].link = e <=> q \in Range(w.teams[e])
        BY DEF Neat
      <3>2. v.teams[e] = Rest(w.teams[e], Q)
        BY <1>1
      <3>3. /\ v.teams[e] \in Seq(Parties) /\ IsInjective(v.teams[e])
            /\ Range(v.teams[e]) = Range(w.teams[e]) \ Q
        BY <3>1, <3>2, RestOf
      <3> QED BY <1>3, <1>4, <3>1, <3>3, NoneAssumption
    <2>3. v.teams \in [Expeds -> Seq(Parties)]
      <3>1. v.teams = [e \in Expeds |-> v.teams[e]]
        BY <1>1
      <3> QED BY <2>2, <3>1
    <2> QED BY <2>1, <2>2, <2>3 DEF Neat
  <1>6. \A x \in Players : Visible(w, x) => Visible(v, x)
    BY <1>3, <1>4 DEF Visible
  <1>7. ASSUME NEW x \in Players, Single(w, x)
        PROVE  Single(v, x)
    <2> SUFFICES ASSUME NEW q \in Parties, v.at[q].seats[x] > 0
                 PROVE  v.party[x] = q /\ v.at[q].seats[x] = 1
      BY DEF Single
    <2>1. q \notin Q /\ v.at[q] = w.at[q]
      BY <1>3, <1>4
    <2>2. w.party[x] = q /\ w.at[q].seats[x] = 1
      BY <1>7, <2>1 DEF Single
    <2>3. ASSUME NEW o \in Q, Here(x), w.at[o].seats[x] > 0
          PROVE  FALSE
      BY <1>7, <2>1, <2>2, <2>3 DEF Single, Sound
    <2> QED BY <1>1, <2>1, <2>2, <2>3
  <1>8. ASSUME NEW x \in Players, NEW e \in Expeds, <<e, x>> \notin O, Rides(w, e, x)
        PROVE  Rides(v, e, x)
    BY <1>3, <1>8 DEF Rides
  <1>9. \A q \in Parties : v.at[q].link \in {w.at[q].link, None}
    BY <1>3, <1>4
  <1> QED
    BY <1>2, <1>5, <1>6, <1>7, <1>8, <1>9 DEF Spares, v

\* setParty(null) unsettles t at most.
LEMMA UntoldSpares ==
  ASSUME NEW w, Sound(w), Neat(w), NEW t \in Players
  PROVE  /\ Spares(w, Untold(w, t), {}, {t}, {}, {})
         /\ Untold(w, t).at = w.at /\ Untold(w, t).teams = w.teams
         /\ \A x \in Players : x # t => Untold(w, t).party[x] = w.party[x]
  <1> DEFINE v == Untold(w, t)
  <1>1. /\ v.at = w.at /\ v.teams = w.teams
        /\ \A x \in Players : x # t => v.party[x] = w.party[x]
    BY DEF Untold, Sound
  <1>2. Sound(v)
    BY UntoldKept DEF Kept
  <1> HIDE DEF v
  <1>3. Neat(v)
    BY <1>1 DEF Neat
  <1>4. \A x \in Players : x # t /\ Single(w, x) => Single(v, x)
    BY <1>1 DEF Single
  <1> QED
    BY <1>1, <1>2, <1>3, <1>4 DEF Spares, Visible, Rides, v

\* A listed party loses t, who has no seat afterwards if he had the one.
LEMMA DismissedSpares ==
  ASSUME NEW w, Sound(w), Neat(w), NEW q \in Parties, w.at[q].leader # None,
         NEW t \in Players, NEW v \in Dismiss(w, q, t)
  PROVE  /\ Spares(w, v, {}, {t}, {<<w.at[q].link, t>>}, {})
         /\ Single(w, t) /\ (w.party[t] = q \/ w.at[q].seats[t] > 0) => Seatless(v, t)
  <1> DEFINE u == Untold(w, t)
             O == {<<w.at[q].link, t>>}
  <1>1. /\ Spares(w, u, {}, {t}, {}, {}) /\ u.at = w.at /\ u.teams = w.teams
        /\ \A x \in Players : x # t => u.party[x] = w.party[x]
    BY UntoldSpares
  <1>2. Sound(u) /\ Neat(u)
    BY <1>1 DEF Spares
  <1> HIDE DEF u
  <1>3. Single(w, t) /\ (w.party[t] = q \/ w.at[q].seats[t] > 0)
           => \A o \in Parties : o # q => ~(w.at[o].seats[t] > 0)
    BY DEF Single
  <1>4. ASSUME v = Disband(u, {q}), Alone(w, q, t)
        PROVE  /\ Spares(w, v, {}, {t}, O, {})
               /\ Single(w, t) /\ (w.party[t] = q \/ w.at[q].seats[t] > 0)
                     => Seatless(v, t)
    <2>1. \A o \in {q}, x \in Players :
             u.at[o].link \in Expeds /\ u.at[o].seats[x] > 0 => <<u.at[o].link, x>> \in O
      BY <1>1, <1>4 DEF Alone
    <2> HIDE DEF O
    <2>2. Spares(u, v, {}, {}, O, {})
      BY <1>2, <1>4, <2>1, DisbandedSpares
    <2>3. Spares(w, v, {}, {t}, O, {})
      BY <1>1, <2>2, SparesTwice
    <2>4. v.at = [o \in Parties |-> IF o \in {q} THEN Blank ELSE w.at[o]]
      BY <1>1, <1>4 DEF Disband
    <2>5. ~(Blank.seats[t] > 0)
      BY BlankEntry
    <2> QED BY <1>3, <2>3, <2>4, <2>5 DEF Seatless
  <1>5. ASSUME NEW r, v = Tell(Put(u, q, r), q), Left(w, q, t, r)
        PROVE  /\ Spares(w, v, {}, {t}, O, {})
               /\ Single(w, t) /\ (w.party[t] = q \/ w.at[q].seats[t] > 0)
                     => Seatless(v, t)
    <2>1. /\ v.at = [w.at EXCEPT ![q] = r] /\ v.teams = w.teams
          /\ v.party = [p \in Players |-> IF Here(p) /\ v.at[q].seats[p] > 0
                                          THEN q ELSE u.party[p]]
      BY <1>1, <1>5 DEF Tell, Put
    <2>2. v.at[q] = r /\ \A o \in Parties : o # q => v.at[o] = w.at[o]
      BY <2>1 DEF Sound
    <2>3. Sound(v)
      BY Dismissed DEF Kept
    <2>4. /\ w.at[q].seats \in [Players -> Nat] /\ r.seats \in [Players -> Nat]
          /\ Size(w.at[q].seats) <= MaxMembers
      BY <1>5 DEF Sound, Entry, Neat, Left
    <2>5. /\ \A x \in Players : x # t => r.seats[x] = w.at[q].seats[x]
          /\ r.seats[t] = IF w.at[q].seats[t] = 0 THEN 0 ELSE w.at[q].seats[t] - 1
      BY <1>5, <2>4 DEF Left
    <2>6. \A x \in Players : r.seats[x] <= w.at[q].seats[x]
      BY <2>4, <2>5
    <2>7. Size(r.seats) <= MaxMembers
      <3>1. Size(r.seats) <= Size(w.at[q].seats)
        BY <2>4, <2>6, SizeShrinks
      <3>2. Size(r.seats) \in Nat /\ Size(w.at[q].seats) \in Nat
        BY TakenFinite
      <3> QED BY <2>4, <3>1, <3>2, SizeAssumption
    <2>8. \A x \in Players : /\ r.seats[x] > 0
                             /\ w.at[q].seats[x] > 0 => x \in w.at[q].shown
                             => x \in r.shown
      <3>1. \A x \in Players : r.seats[x] > 0 => w.at[q].seats[x] > 0
        BY <2>4, <2>6
      <3>2. r.seats[t] > 0 => r.shown = w.at[q].shown
        BY <1>5, <2>4 DEF Left
      <3>3. \A x \in Players : x # t => (x \in r.shown <=> x \in w.at[q].shown)
        BY <1>5 DEF Left
      <3> QED BY <3>1, <3>2, <3>3
    <2>9. \A x \in Players : x # t => \/ v.party[x] = w.party[x]
                                      \/ v.party[x] = q /\ r.seats[x] > 0
      BY <1>1, <2>1, <2>2
    <2>10. \A x \in Players : w.at[q].seats[x] > 0 /\ <<w.at[q].link, x>> \notin O
              => r.seats[x] > 0
      BY <2>5
    <2>13. r.link = w.at[q].link
      BY <1>5 DEF Left
    <2> HIDE DEF O
    <2>11. Spares(w, v, {}, {t}, O, {})
      BY <2>13, <2>1, <2>3, <2>6, <2>7, <2>8, <2>9, <2>10, Updated
    <2>12. Single(w, t) => ~(r.seats[t] > 0)
      BY <2>4, <2>5 DEF Single
    <2> QED BY <1>3, <2>2, <2>11, <2>12 DEF Seatless
  <1> QED
    BY <1>4, <1>5, DismissIs DEF u

-----------------------------------------------------------------------------
(* The actions *)

\* What a step does to seats and beliefs.
Steady ==
    /\ Sound(World')
    /\ \A p \in Players : Here(p) /\ Here(p)' /\ Seated(p) => Seated(p)'

LEMMA WorldIs == World.at = at /\ World.teams = teams /\ World.party = party
  BY DEF World

LEMMA Follows ==
  ASSUME NEW w, Kept(World, w), Becomes(w)
  PROVE  Steady
  <1>1. World' = w
    BY DEF World, Becomes, Kept, Sound
  <1>2. w.at = at' /\ w.party = party'
    BY DEF Becomes
  <1>3. ASSUME NEW p \in Players, Here(p), Seated(p)
        PROVE  Seated(p)'
    BY <1>2, <1>3, WorldIs DEF Kept, Believes, Seated
  <1> QED
    BY <1>1, <1>3 DEF Steady, Kept

\* The parties characters believe in are listed.
LEMMA Believed ==
  ASSUME Sound(World), NEW p \in Players, party[p] # None
  PROVE  party[p] \in Parties /\ World.at[party[p]].leader # None
  BY WorldIs DEF Sound

LEMMA PartySteps ==
  ASSUME Sound(World), NEW p \in Players, PartyStep(p)
  PROVE  Steady
  <1>1. CASE Create(p)
    <2>1. PICK q \in Parties : ~Listed(q) /\ Becomes(Found(World, q, p, None))
      BY <1>1 DEF Create
    <2>2. World.at[q].leader = None
      BY <2>1, WorldIs DEF Listed
    <2> QED BY <2>1, <2>2, Founded, Follows
  <1>2. ASSUME NEW q \in Parties, Join(p, q)
        PROVE  Steady
    <2>1. World.at[q].leader # None /\ Becomes(Add(World, q, p))
      BY <1>2, WorldIs DEF Join, HasRoom, Listed
    <2> QED BY <2>1, Added, Follows
  <1>3. ASSUME NEW t \in Players, Recruit(p, t)
        PROVE  Steady
    <2>1. party[p] # None /\ Becomes(Add(World, party[p], t))
      BY <1>3 DEF Recruit, Plain
    <2> QED BY <2>1, Believed, Added, Follows
  <1>4. CASE Leave(p)
    <2> DEFINE q == party[p]
    <2>1. q # None /\ q \in Parties /\ World.at[q].leader # None
      BY <1>4, Believed DEF Leave, Plain
    <2>2. \/ Becomes(Quit(Disband(World, {q}), p))
          \/ \E w \in Dismiss(World, q, p) : Becomes(Quit(w, p))
      BY <1>4 DEF Leave
    <2> HIDE DEF q
    <2>3. CASE Becomes(Quit(Disband(World, {q}), p))
      <3>1. Kept(World, Disband(World, {q}))
        BY Disbanded
      <3>2. Kept(Disband(World, {q}), Quit(Disband(World, {q}), p))
        BY <3>1, QuitKept DEF Kept
      <3> QED BY <2>3, <3>1, <3>2, KeptTwice, Follows
    <2>4. ASSUME NEW w \in Dismiss(World, q, p), Becomes(Quit(w, p))
          PROVE  Steady
      <3>1. Kept(World, w)
        BY <2>1, Dismissed
      <3>2. Kept(w, Quit(w, p))
        BY <3>1, QuitKept DEF Kept
      <3> QED BY <2>4, <3>1, <3>2, KeptTwice, Follows
    <2> QED BY <2>2, <2>3, <2>4
  <1>5. ASSUME NEW t \in Players, Expel(p, t)
        PROVE  Steady
    <2>1. PICK w \in Dismiss(World, party[p], t) : Becomes(w)
      BY <1>5 DEF Expel
    <2>2. party[p] # None
      BY <1>5 DEF Expel, Plain
    <2> QED BY <2>1, <2>2, Believed, Dismissed, Follows
  <1>6. ASSUME NEW t \in Players, ChangeLeader(p, t)
        PROVE  Steady
    <2>1. /\ party[p] # None /\ World.at[party[p]].seats[t] > 0
          /\ Becomes(Lead(World, party[p], t))
      BY <1>6, WorldIs DEF ChangeLeader, Plain
    <2> QED BY <2>1, Believed, Handed, Follows
  <1> QED
    BY <1>1, <1>2, <1>3, <1>4, <1>5, <1>6 DEF PartyStep

LEMMA FirstIsOne == \A s, S : First(s, S) \subseteq S
  BY DEF First

LEMMA Enlisted ==
  ASSUME Sound(World), NEW p \in Players, NEW e \in Expeds, NEW w \in Enlist(World, e, p)
  PROVE  Kept(World, w)
  <1> DEFINE free == First(teams[e], {q \in Parties : HasRoom(q)})
  <1>1. \/ \E q \in free : w = Add(World, q, p)
        \/ \E q \in Parties : ~Listed(q) /\ w = Found(World, q, p, e)
    BY DEF Enlist
  <1>2. \A q \in free : q \in Parties /\ World.at[q].leader # None
    BY FirstIsOne, WorldIs DEF HasRoom, Listed
  <1> HIDE DEF free
  <1>3. \A q \in Parties : ~Listed(q) => World.at[q].leader = None
    BY WorldIs DEF Listed
  <1> QED
    BY <1>1, <1>2, <1>3, Added, Founded

\* The new leader of other parties sits in each of them, and whoever is told of one
\* sits in it.
LEMMA GivenParty ==
  ASSUME Sound(World), NEW p \in Players, NEW t \in Players, NEW e \in Expeds,
         GiveParty(p, t, e)
  PROVE  Steady
  <1> DEFINE his == {q \in Parties \ {party[p]} : q \in Range(teams[e]) /\ at[q].seats[t] > 0}
             r(q) == [at[q] EXCEPT !.leader = t]
             in(x) == {q \in his : Here(x) /\ at[q].seats[x] > 0}
  <1>0. /\ at' = [q \in Parties |-> IF q \in his THEN r(q) ELSE at[q]]
        /\ \E told \in [Players -> Parties \cup {None}] :
              /\ \A x \in Players :
                    told[x] \in IF in(x) = {} THEN {party[x]} ELSE in(x)
              /\ party' = told
    BY DEF GiveParty
  <1>1. /\ at' = [q \in Parties |-> IF q \in his THEN r(q) ELSE at[q]]
        /\ party' \in [Players -> Parties \cup {None}]
        /\ \A x \in Players : \/ party'[x] = party[x]
                              \/ party'[x] \in his /\ at[party'[x]].seats[x] > 0
    <2>1. /\ party' \in [Players -> Parties \cup {None}]
          /\ \A x \in Players : party'[x] = party[x] \/ party'[x] \in in(x)
      <3> HIDE DEF in, his, r
      <3> QED BY <1>0
    <2>2. \A x \in Players : \A q \in in(x) : q \in his /\ at[q].seats[x] > 0
      <3> HIDE DEF his
      <3> QED OBVIOUS
    <2> HIDE DEF in, his, r
    <2> QED BY <1>0, <2>1, <2>2
  <1>2. /\ at \in [Parties -> Entry] /\ party \in [Players -> Parties \cup {None}]
        /\ \A q \in Parties : at[q].leader = None => at[q] = Blank
        /\ \A q \in Parties : at[q].leader # None => at[q].seats[at[q].leader] > 0
        /\ \A x \in Players : party[x] # None => at[party[x]].leader # None
    BY WorldIs DEF Sound
  <1>3. \A q \in his : q \in Parties /\ at[q].seats[t] > 0
    OBVIOUS
  <1> HIDE DEF his
  <1>4. \A q \in his : r(q) \in Entry /\ r(q).leader = t /\ r(q).seats = at[q].seats
    <2> TAKE q \in his
    <2>1. at[q] \in Entry
      BY <1>2, <1>3
    <2> QED
      BY <2>1 DEF Entry
  <1> HIDE DEF r
  <1>5. /\ at' \in [Parties -> Entry]
        /\ \A q \in Parties : at'[q].seats = at[q].seats
        /\ \A q \in Parties : at'[q].leader = IF q \in his THEN t ELSE at[q].leader
        /\ \A q \in Parties \ his : at'[q] = at[q]
    BY <1>1, <1>2, <1>4
  <1>6. \A q \in Parties : at'[q].leader = None => at'[q] = Blank
    BY <1>2, <1>5, NoneAssumption
  <1>7. \A q \in Parties : at'[q].leader # None => at'[q].seats[at'[q].leader] > 0
    BY <1>2, <1>3, <1>5
  <1>8. ASSUME NEW x \in Players, party'[x] # None
        PROVE  at'[party'[x]].leader # None
    BY <1>1, <1>2, <1>3, <1>5, <1>8, NoneAssumption
  <1>9. Sound(World')
    BY <1>1, <1>5, <1>6, <1>7, <1>8 DEF Sound, World
  <1>10. ASSUME NEW x \in Players, Seated(x)
         PROVE  Seated(x)'
    BY <1>1, <1>2, <1>3, <1>5, <1>10 DEF Seated
  <1> QED
    BY <1>9, <1>10 DEF Steady

LEMMA ExpedSteps ==
  ASSUME Sound(World), NEW p \in Players, NEW e \in Expeds, ExpedStep(p, e)
  PROVE  Steady
  <1>1. CASE CreateExped(p, e)
    <2>1. PICK q \in Parties : ~Listed(q) /\ Becomes(Found(World, q, p, e))
      BY <1>1 DEF CreateExped
    <2>2. World.at[q].leader = None
      BY <2>1, WorldIs DEF Listed
    <2> QED BY <2>1, <2>2, Founded, Follows
  <1>2. CASE JoinExped(p, e)
    <2>1. PICK w \in Enlist(World, e, p) : Becomes(w)
      BY <1>2 DEF JoinExped
    <2> QED BY <2>1, Enlisted, Follows
  <1>3. CASE LeaveExped(p, e)
    <2>1. party[p] # None
      BY <1>3, NoneAssumption DEF LeaveExped, InExped, Exped
    <2>2. \/ \E Q : Becomes(Quit(Disband(World, Q), p))
          \/ \E w \in Dismiss(World, party[p], p) : Becomes(Quit(w, p))
      BY <1>3 DEF LeaveExped
    <2>3. ASSUME NEW Q, Becomes(Quit(Disband(World, Q), p))
          PROVE  Steady
      <3>1. Kept(World, Disband(World, Q))
        BY Disbanded
      <3>2. Kept(Disband(World, Q), Quit(Disband(World, Q), p))
        BY <3>1, QuitKept DEF Kept
      <3> QED BY <2>3, <3>1, <3>2, KeptTwice, Follows
    <2>4. ASSUME NEW w \in Dismiss(World, party[p], p), Becomes(Quit(w, p))
          PROVE  Steady
      <3>1. Kept(World, w)
        BY <2>1, Believed, Dismissed
      <3>2. Kept(w, Quit(w, p))
        BY <3>1, QuitKept DEF Kept
      <3> QED BY <2>4, <3>1, <3>2, KeptTwice, Follows
    <2> QED BY <2>2, <2>3, <2>4
  <1>4. ASSUME NEW t \in Players, Kick(p, t, e)
        PROVE  Steady
    <2>1. PICK q \in Parties : /\ World.at[q].seats[t] > 0
                               /\ \E w \in Dismiss(World, q, t) : Becomes(w)
      BY <1>4, FirstIsOne, WorldIs DEF Kick
    <2>2. PICK w \in Dismiss(World, q, t) : Becomes(w)
      BY <2>1
    <2> QED BY <2>1, <2>2, SeatsListed, Dismissed, Follows
  <1>5. ASSUME NEW t \in Players, GiveExped(p, t, e)
        PROVE  Steady
    <2>1. /\ party[p] # None /\ World.at[party[p]].seats[t] > 0
          /\ Becomes(Lead(World, party[p], t))
      BY <1>5, WorldIs, NoneAssumption DEF GiveExped, Commands, InExped, Exped
    <2> QED BY <2>1, Believed, Handed, Follows
  <1>6. ASSUME NEW t \in Players, GiveParty(p, t, e)
        PROVE  Steady
    BY <1>6, GivenParty
  <1>7. ASSUME NEW t \in Players, NEW i \in 1..ExpedParties, Move(p, t, e, i)
        PROVE  Steady
    <2> DEFINE Went(w, q) ==
                  \/ Becomes(w)
                  \/ w.at[q].leader # None /\ Becomes(Add(w, q, t))
                  \/ w.at[q].leader = None /\ Becomes(Found(w, q, t, e))
    <2>0. PICK o \in Parties :
            /\ World.at[o].seats[t] > 0
            /\ \E w \in Dismiss(World, o, t), q \in Parties : Went(w, q)
      <3>1. PICK o \in First(teams[e], {r \in Parties :
                              at[r].seats[t] > 0 /\ t \in at[r].shown}) :
              \E w \in Dismiss(World, o, t), q \in Parties : Went(w, q)
        BY <1>7 DEF Move
      <3> QED BY <3>1, FirstIsOne, WorldIs
    <2>1. PICK w \in Dismiss(World, o, t), q \in Parties : Went(w, q)
      BY <2>0
    <2>2. Kept(World, w) /\ Sound(w)
      BY <2>0, <2>1, SeatsListed, Dismissed DEF Kept
    <2>3. CASE Becomes(w)
      BY <2>2, <2>3, Follows
    <2>4. CASE w.at[q].leader # None /\ Becomes(Add(w, q, t))
      BY <2>2, <2>4, Added, KeptTwice, Follows
    <2>5. CASE w.at[q].leader = None /\ Becomes(Found(w, q, t, e))
      BY <2>2, <2>5, Founded, KeptTwice, Follows
    <2> QED BY <2>1, <2>3, <2>4, <2>5
  <1> QED
    BY <1>1, <1>2, <1>3, <1>4, <1>5, <1>6, <1>7 DEF ExpedStep

LEMMA StaysSteady ==
  ASSUME Sound(World), at' = at, party' = party
  PROVE  Steady
  <1>1. Sound(World')
    BY DEF Sound, World
  <1> QED
    BY <1>1 DEF Steady, Seated

\* A look at the party gives up a belief, of somebody who is not here.
LEMMA LookedUp ==
  ASSUME Sound(World), NEW p \in Players, ~Here(p), at' = at, LookUp(p)
  PROVE  Steady
  <1>1. /\ party' \in [Players -> Parties \cup {None}]
        /\ \A x \in Players : party'[x] \in {party[x], None}
        /\ \A x \in Players \ {p} : party'[x] = party[x]
    BY WorldIs DEF LookUp, Sound
  <1>2. Sound(World')
    BY <1>1 DEF Sound, World
  <1>3. ASSUME NEW x \in Players, Here(x), Seated(x)
        PROVE  Seated(x)'
    BY <1>1, <1>3 DEF Seated
  <1> QED
    BY <1>2, <1>3 DEF Steady

LEMMA Travels ==
  ASSUME Sound(World), NEW p \in Players, Travel(p)
  PROVE  Steady
  <1>1. CASE Depart(p) \/ Register(p) \/ Lose(p)
    BY <1>1, StaysSteady DEF Depart, Register, Lose
  <1>2. CASE Arrive(p) \/ Shop(p)
    BY <1>2, LookedUp DEF Arrive, Shop, Here
  <1>3. ASSUME NEW on \in BOOLEAN, party[p] # None,
               Becomes(Show(World, party[p], p, on))
        PROVE  Steady
    BY <1>3, Believed, Shown, Follows
  <1>4. CASE Announce(p)
    BY <1>4, <1>3, StaysSteady DEF Announce
  <1>5. CASE DisconnectInShop(p)
    BY <1>5, <1>3, StaysSteady DEF DisconnectInShop
  <1>6. CASE Disconnect(p)
    <2> DEFINE q == party[p]
               w == Show(World, q, p, FALSE)
    <2>1. CASE party[p] = None
      BY <1>6, <2>1, StaysSteady DEF Disconnect
    <2>2. CASE party[p] # None
      <3>1. \/ Becomes(w)
            \/ \E l \in Players : at[q].seats[l] > 0 /\ Becomes(Lead(w, q, l))
        BY <1>6, <2>2 DEF Disconnect
      <3> HIDE DEF q
      <3>2. q \in Parties /\ World.at[q].leader # None
        BY <2>2, Believed DEF q
      <3>3. Kept(World, w) /\ w.at[q].seats = at[q].seats /\ Sound(w)
        BY <3>2, Shown, WorldIs DEF Kept
      <3> HIDE DEF w
      <3>4. ASSUME NEW l \in Players, at[q].seats[l] > 0, Becomes(Lead(w, q, l))
            PROVE  Steady
        BY <3>2, <3>3, <3>4, Handed, KeptTwice, Follows
      <3> QED BY <3>1, <3>3, <3>4, Follows
    <2> QED BY <2>1, <2>2
  <1> QED
    BY <1>1, <1>2, <1>4, <1>5, <1>6 DEF Travel

LEMMA EveryStep ==
  ASSUME Sound(World), [Next]_vars
  PROVE  Steady
  <1>1. ASSUME NEW p \in Players, PartyStep(p) PROVE Steady
    BY <1>1, PartySteps
  <1>2. ASSUME NEW p \in Players, NEW e \in Expeds, ExpedStep(p, e) PROVE Steady
    BY <1>2, ExpedSteps
  <1>3. ASSUME NEW p \in Players, Travel(p) PROVE Steady
    BY <1>3, Travels
  <1>4. CASE UNCHANGED vars
    BY <1>4, StaysSteady DEF vars
  <1> QED
    BY <1>1, <1>2, <1>3, <1>4 DEF Next

LEMMA InitSound == Init => Sound(World)
  BY BlankEntry DEF Init, Sound, World, Blank

-----------------------------------------------------------------------------
(* The actions, and whom they spare *)

LEMMA FollowsSpared ==
  ASSUME NEW w, NEW H, NEW U, NEW O, NEW L, Spares(World, w, H, U, O, L), Becomes(w)
  PROVE  Spares(World, World', H, U, O, L)
  <1>1. World' = w
    BY DEF World, Becomes, Spares, Sound
  <1> QED
    BY <1>1

\* The same, of an operation that leaves t settled if he was.
LEMMA FollowsSettled ==
  ASSUME NEW w, NEW t \in Players, NEW O, NEW L, Spares(World, w, {}, {t}, O, L),
         Single(World, t) => Single(w, t), Becomes(w)
  PROVE  Spares(World, World', {}, {}, O, L)
  <1>1. Spares(World, w, {}, {}, O, L)
    BY SettledAgain
  <1> QED
    BY <1>1, FollowsSpared

\* Whom no expedition is concerned with cannot lose a seat in one.
LEMMA NoneOusted ==
  ASSUME NEW w, NEW v, NEW H, NEW U, NEW O, NEW L, Spares(w, v, H, U, O, L),
         \A e \in Expeds, x \in Players : <<e, x>> \notin O
  PROVE  Spares(w, v, H, U, {}, L)
  BY DEF Spares

\* A settled character who believes in no party has no seat.
LEMMA Unseated ==
  ASSUME NEW w, NEW t \in Players, w.party[t] = None, Single(w, t)
  PROVE  Seatless(w, t)
  BY NoneAssumption DEF Single, Seatless

\* Nothing happens to the parties.
LEMMA SameSpares ==
  ASSUME Sound(World), Neat(World), at' = at, teams' = teams, party' = party
  PROVE  Spares(World, World', {}, {}, {}, {})
  <1>1. World' = World
    BY DEF World
  <1>2. Spares(World, World, {}, {}, {}, {})
    BY DEF Spares
  <1> QED
    BY <1>1, <1>2

\* p leaves the party he believes in.
LEMMA QuitsDismissed ==
  ASSUME Sound(World), Neat(World), NEW p \in Players, party[p] # None,
         NEW w \in Dismiss(World, party[p], p), Becomes(Quit(w, p))
  PROVE  Spares(World, World', {}, {}, {<<at[party[p]].link, p>>}, {})
  <1> DEFINE q == party[p]
             v == Quit(w, p)
             O == {<<at[q].link, p>>}
  <1>1. q \in Parties /\ World.at[q].leader # None /\ World.party[p] = q
    BY Believed, WorldIs
  <1>2. at[q].link = World.at[q].link
    BY WorldIs
  <1> HIDE DEF q
  <1>3. /\ Spares(World, w, {}, {p}, O, {})
        /\ Single(World, p) => Seatless(w, p)
    BY <1>1, <1>2, DismissedSpares DEF q
  <1>4. Sound(w) /\ Neat(w)
    BY <1>3 DEF Spares
  <1>5. /\ Spares(w, v, {}, {p}, {}, {}) /\ (Seatless(w, p) => Single(v, p))
    BY <1>4, QuitSpares
  <1> HIDE DEF O, v
  <1>6. Spares(World, v, {}, {p}, O, {})
    BY <1>3, <1>5, SparesTwice
  <1> QED
    BY <1>3, <1>5, <1>6, FollowsSettled DEF O, v, q

\* p takes his party along, and maybe others with it.
LEMMA QuitsDisbanded ==
  ASSUME Sound(World), Neat(World), NEW p \in Players, NEW Q \in SUBSET Parties,
         party[p] \in Q, NEW O,
         \A q \in Q, x \in Players :
            at[q].link \in Expeds /\ at[q].seats[x] > 0 => <<at[q].link, x>> \in O,
         Becomes(Quit(Disband(World, Q), p))
  PROVE  Spares(World, World', {}, {}, O, {})
  <1> DEFINE w == Disband(World, Q)
             v == Quit(w, p)
  <1>1. \A q \in Q, x \in Players :
           World.at[q].link \in Expeds /\ World.at[q].seats[x] > 0
              => <<World.at[q].link, x>> \in O
    BY WorldIs
  <1>2. Spares(World, w, {}, {}, O, {})
    BY <1>1, DisbandedSpares
  <1>3. w.at = [q \in Parties |-> IF q \in Q THEN Blank ELSE at[q]]
    BY WorldIs DEF Disband
  <1> HIDE DEF w
  <1>4. Single(World, p) => Seatless(w, p)
    BY <1>3, BlankEntry, WorldIs DEF Single, Seatless
  <1>5. Sound(w) /\ Neat(w)
    BY <1>2 DEF Spares
  <1>6. Spares(w, v, {}, {p}, {}, {}) /\ (Seatless(w, p) => Single(v, p))
    BY <1>5, QuitSpares
  <1> HIDE DEF v
  <1>7. Spares(World, v, {}, {p}, O, {})
    BY <1>2, <1>6, SparesTwice
  <1> QED
    BY <1>4, <1>6, <1>7, FollowsSettled DEF v, w

\* Nobody is hidden, unsettled or put out of an expedition by what parties do.
LEMMA PartySpares ==
  ASSUME Sound(World), Neat(World), NEW p \in Players, PartyStep(p)
  PROVE  Spares(World, World', {}, {}, {}, {})
  <1>1. CASE Create(p)
    <2>1. PICK q \in Parties : ~Listed(q) /\ Becomes(Found(World, q, p, None))
      BY <1>1 DEF Create
    <2>2. World.at[q].leader = None /\ World.party[p] = None
      BY <1>1, <2>1, WorldIs DEF Listed, Create
    <2> DEFINE v == Found(World, q, p, None)
    <2>3. /\ Spares(World, v, {}, {p}, {}, {None} \ {None})
          /\ Seatless(World, p) => Single(v, p)
      BY <2>2, FoundedSpares
    <2>4. Becomes(v)
      BY <2>1
    <2>5. {None} \ {None} = {}
      OBVIOUS
    <2> HIDE DEF v
    <2>6. Spares(World, v, {}, {p}, {}, {})
      BY <2>3, <2>5
    <2> QED BY <2>2, <2>3, <2>4, <2>6, Unseated, FollowsSettled
  <1>2. ASSUME NEW q \in Parties, NEW t \in Players, HasRoom(q), party[t] = None, Here(t),
               Becomes(Add(World, q, t))
        PROVE  Spares(World, World', {}, {}, {}, {})
    <2>1. /\ World.at[q].leader # None /\ Size(World.at[q].seats) < MaxMembers
          /\ World.party[t] = None
      BY <1>2, WorldIs DEF HasRoom, Listed
    <2> DEFINE v == Add(World, q, t)
    <2>2. /\ Spares(World, v, {}, {t}, {}, {})
          /\ Seatless(World, t) => Single(v, t)
      BY <1>2, <2>1, AddedSpares
    <2>3. Becomes(v)
      BY <1>2
    <2> HIDE DEF v
    <2> QED BY <2>1, <2>2, <2>3, Unseated, FollowsSettled
  <1>3. ASSUME NEW q \in Parties, Join(p, q)
        PROVE  Spares(World, World', {}, {}, {}, {})
    BY <1>2, <1>3 DEF Join, Here
  <1>4. ASSUME NEW t \in Players, Recruit(p, t)
        PROVE  Spares(World, World', {}, {}, {}, {})
    <2>1. party[p] \in Parties
      BY <1>4, Believed DEF Recruit, Plain
    <2> QED BY <1>2, <1>4, <2>1 DEF Recruit
  <1>5. CASE Leave(p)
    <2>1. /\ party[p] # None /\ party[p] \in Parties /\ at[party[p]].link = None
      BY <1>5, Believed DEF Leave, Plain
    <2>2. \/ Becomes(Quit(Disband(World, {party[p]}), p))
          \/ \E w \in Dismiss(World, party[p], p) : Becomes(Quit(w, p))
      BY <1>5 DEF Leave
    <2>3. CASE Becomes(Quit(Disband(World, {party[p]}), p))
      <3>1. \A q \in {party[p]}, x \in Players :
               at[q].link \in Expeds /\ at[q].seats[x] > 0 => <<at[q].link, x>> \in {}
        BY <2>1, NoneAssumption
      <3> QED BY <2>1, <2>3, <3>1, QuitsDisbanded
    <2>4. ASSUME NEW w \in Dismiss(World, party[p], p), Becomes(Quit(w, p))
          PROVE  Spares(World, World', {}, {}, {}, {})
      <3>1. Spares(World, World', {}, {}, {<<None, p>>}, {})
        BY <2>1, <2>4, QuitsDismissed
      <3>2. \A e \in Expeds, x \in Players : <<e, x>> \notin {<<None, p>>}
        BY NoneAssumption
      <3> QED BY <3>1, <3>2, NoneOusted
    <2> QED BY <2>2, <2>3, <2>4
  <1>6. ASSUME NEW t \in Players, Expel(p, t)
        PROVE  Spares(World, World', {}, {}, {}, {})
    <2>1. PICK w \in Dismiss(World, party[p], t) : Becomes(w)
      BY <1>6 DEF Expel
    <2>2. /\ party[p] \in Parties /\ World.at[party[p]].leader # None
          /\ World.at[party[p]].link = None /\ World.at[party[p]].seats[t] > 0
      BY <1>6, Believed, WorldIs DEF Expel, Plain
    <2>3. /\ Spares(World, w, {}, {t}, {<<None, t>>}, {})
          /\ Single(World, t) => Single(w, t)
      BY <2>1, <2>2, DismissedSpares, SeatlessSingle
    <2>4. Spares(World, World', {}, {}, {<<None, t>>}, {})
      BY <2>1, <2>3, FollowsSettled
    <2>5. \A e \in Expeds, x \in Players : <<e, x>> \notin {<<None, t>>}
      BY NoneAssumption
    <2> QED BY <2>4, <2>5, NoneOusted
  <1>7. ASSUME NEW t \in Players, ChangeLeader(p, t)
        PROVE  Spares(World, World', {}, {}, {}, {})
    <2>1. /\ party[p] \in Parties /\ World.at[party[p]].seats[t] > 0
          /\ Becomes(Lead(World, party[p], t))
      BY <1>7, Believed, WorldIs DEF ChangeLeader, Plain
    <2> QED BY <2>1, HandedSpares, FollowsSpared
  <1> QED
    BY <1>1, <1>3, <1>4, <1>5, <1>6, <1>7 DEF PartyStep

\* The founder of an expedition is settled in its first party.
LEMMA CreateExpedSpares ==
  ASSUME Sound(World), Neat(World), NEW p \in Players, NEW e \in Expeds, CreateExped(p, e)
  PROVE  Spares(World, World', {}, {}, {}, {e})
  <1>1. PICK q \in Parties : ~Listed(q) /\ Becomes(Found(World, q, p, e))
    BY DEF CreateExped
  <1>2. World.at[q].leader = None /\ World.party[p] = None
    BY <1>1, WorldIs DEF Listed, CreateExped
  <1> DEFINE v == Found(World, q, p, e)
  <1>3. /\ Spares(World, v, {}, {p}, {}, {e} \ {None})
        /\ Seatless(World, p) => Single(v, p)
    BY <1>2, FoundedSpares
  <1>4. Becomes(v) /\ {e} \ {None} = {e}
    BY <1>1, NoneAssumption
  <1> HIDE DEF v
  <1>5. Spares(World, v, {}, {p}, {}, {e})
    BY <1>3, <1>4
  <1> QED
    BY <1>2, <1>3, <1>4, <1>5, Unseated, FollowsSettled

\* Whoever joins an expedition is settled in a party of it if he believed in none.
LEMMA JoinExpedSpares ==
  ASSUME Sound(World), Neat(World), NEW p \in Players, NEW e \in Expeds, JoinExped(p, e)
  PROVE  /\ Spares(World, World', {}, {p}, {}, {e})
         /\ party[p] = None => Spares(World, World', {}, {}, {}, {e})
  <1> DEFINE free == First(teams[e], {q \in Parties : HasRoom(q)})
  <1>1. PICK w \in Enlist(World, e, p) : Becomes(w)
    BY DEF JoinExped
  <1>2. \/ \E q \in free : w = Add(World, q, p)
        \/ \E q \in Parties : ~Listed(q) /\ w = Found(World, q, p, e)
    BY DEF Enlist
  <1>3. \A q \in free : /\ q \in Parties /\ World.at[q].leader # None
                        /\ Size(World.at[q].seats) < MaxMembers
    BY FirstIsOne, WorldIs DEF HasRoom, Listed
  <1> HIDE DEF free
  <1>4. Here(p)
    BY DEF JoinExped, Here
  <1>5. /\ Spares(World, w, {}, {p}, {}, {e})
        /\ Seatless(World, p) => Single(w, p)
    <2>1. ASSUME NEW q \in free, w = Add(World, q, p)
          PROVE  /\ Spares(World, w, {}, {p}, {}, {})
                 /\ Seatless(World, p) => Single(w, p)
      BY <1>3, <1>4, <2>1, AddedSpares
    <2>2. ASSUME NEW q \in Parties, ~Listed(q), w = Found(World, q, p, e)
          PROVE  /\ Spares(World, w, {}, {p}, {}, {e} \ {None})
                 /\ Seatless(World, p) => Single(w, p)
      <3>1. World.at[q].leader = None
        BY <2>2, WorldIs DEF Listed
      <3> QED BY <2>2, <3>1, FoundedSpares
    <2>3. /\ \/ Spares(World, w, {}, {p}, {}, {})
             \/ Spares(World, w, {}, {p}, {}, {e} \ {None})
          /\ Seatless(World, p) => Single(w, p)
      BY <1>2, <2>1, <2>2
    <2> QED BY <2>3 DEF Spares
  <1>6. Spares(World, World', {}, {p}, {}, {e})
    BY <1>1, <1>5, FollowsSpared
  <1>7. ASSUME party[p] = None
        PROVE  Spares(World, World', {}, {}, {}, {e})
    BY <1>1, <1>5, <1>7, WorldIs, Unseated, FollowsSettled
  <1> QED
    BY <1>6, <1>7

\* The party of a member of e is one of its parties.
LEMMA OwnExped ==
  ASSUME Sound(World), Neat(World), NEW p \in Players, NEW e \in Expeds, Exped(p) = e
  PROVE  /\ party[p] # None /\ party[p] \in Parties /\ at[party[p]].link = e
         /\ party[p] \in Range(teams[e]) /\ Range(teams[e]) \subseteq Parties
         /\ \A q \in Parties : at[q].link = e <=> q \in Range(teams[e])
  <1>1. party[p] # None /\ at[party[p]].link = e
    BY NoneAssumption DEF Exped
  <1>2. party[p] \in Parties
    BY <1>1, Believed
  <1>3. /\ teams[e] \in Seq(Parties)
        /\ \A q \in Parties : at[q].link = e <=> q \in Range(teams[e])
    BY WorldIs DEF Neat
  <1>4. Range(teams[e]) \subseteq Parties
    BY <1>3 DEF Range
  <1> QED
    BY <1>1, <1>2, <1>3, <1>4

\* Leaving an expedition puts nobody out of another.
LEMMA LeaveExpedSpares ==
  ASSUME Sound(World), Neat(World), NEW p \in Players, NEW e \in Expeds, LeaveExped(p, e)
  PROVE  /\ Spares(World, World', {}, {}, {e} \X Players, {})
         /\ head' = head \/ (head' = [head EXCEPT ![e] = None]
                             /\ \A q \in Parties : at'[q].link # e)
  <1> DEFINE O == {e} \X Players
  <1>1. /\ party[p] # None /\ party[p] \in Parties /\ at[party[p]].link = e
        /\ party[p] \in Range(teams[e]) /\ Range(teams[e]) \subseteq Parties
        /\ \A q \in Parties : at[q].link = e <=> q \in Range(teams[e])
    BY OwnExped DEF LeaveExped, InExped
  <1>2. CASE /\ Becomes(Quit(Disband(World, Range(teams[e])), p))
             /\ head' = [head EXCEPT ![e] = None]
    <2> DEFINE Q == Range(teams[e])
    <2>1. \A q \in Q, x \in Players :
             at[q].link \in Expeds /\ at[q].seats[x] > 0 => <<at[q].link, x>> \in O
      BY <1>1
    <2>2. Q \in SUBSET Parties /\ party[p] \in Q
      BY <1>1
    <2>3. Becomes(Quit(Disband(World, Q), p))
      BY <1>2
    <2>4. at' = [q \in Parties |-> IF q \in Q THEN Blank ELSE at[q]]
      BY <1>2, WorldIs DEF Becomes, Quit, Disband
    <2>5. \A q \in Parties : at'[q].link # e
      BY <1>1, <2>4, NoneAssumption DEF Blank
    <2> HIDE DEF O, Q
    <2>6. Spares(World, World', {}, {}, O, {})
      BY <2>1, <2>2, <2>3, QuitsDisbanded
    <2> QED BY <1>2, <2>5, <2>6 DEF O
  <1>3. CASE Becomes(Quit(Disband(World, {party[p]}), p)) /\ UNCHANGED head
    <2>1. \A q \in {party[p]}, x \in Players :
             at[q].link \in Expeds /\ at[q].seats[x] > 0 => <<at[q].link, x>> \in O
      BY <1>1
    <2>2. {party[p]} \in SUBSET Parties /\ party[p] \in {party[p]}
      BY <1>1
    <2> HIDE DEF O
    <2>3. Spares(World, World', {}, {}, O, {})
      BY <1>3, <2>1, <2>2, QuitsDisbanded
    <2> QED BY <1>3, <2>3 DEF O
  <1>4. ASSUME NEW w \in Dismiss(World, party[p], p), Becomes(Quit(w, p)), UNCHANGED head
        PROVE  Spares(World, World', {}, {}, O, {}) /\ head' = head
    <2>1. Spares(World, World', {}, {}, {<<e, p>>}, {})
      BY <1>1, <1>4, QuitsDismissed
    <2>2. {<<e, p>>} \subseteq O
      OBVIOUS
    <2> HIDE DEF O
    <2> QED BY <1>4, <2>1, <2>2 DEF Spares
  <1> QED
    BY <1>2, <1>3, <1>4 DEF LeaveExped

\* A kick puts nobody but t out of the expedition.
LEMMA KickSpares ==
  ASSUME Sound(World), Neat(World), NEW p \in Players, NEW t \in Players, NEW e \in Expeds,
         Kick(p, t, e)
  PROVE  Spares(World, World', {}, {}, {<<e, t>>}, {})
  <1>1. PICK q \in First(teams[e], {r \in Parties : at[r].seats[t] > 0}) :
           \E w \in Dismiss(World, q, t) : Becomes(w)
    BY DEF Kick
  <1>2. /\ q \in Parties /\ World.at[q].seats[t] > 0 /\ q \in Range(teams[e])
    BY <1>1, WorldIs DEF First, Range
  <1>3. World.at[q].link = e /\ World.at[q].leader # None
    BY <1>2, WorldIs, SeatsListed DEF Neat
  <1>4. PICK w \in Dismiss(World, q, t) : Becomes(w)
    BY <1>1
  <1>5. /\ Spares(World, w, {}, {t}, {<<e, t>>}, {})
        /\ Single(World, t) => Single(w, t)
    BY <1>2, <1>3, DismissedSpares, SeatlessSingle
  <1> QED
    BY <1>4, <1>5, FollowsSettled

\* Nor does a move, and whoever is moved is settled where he arrives.
LEMMA MoveSpares ==
  ASSUME Sound(World), Neat(World), NEW p \in Players, NEW t \in Players, NEW e \in Expeds,
         NEW i \in 1..ExpedParties, Move(p, t, e, i)
  PROVE  Spares(World, World', {}, {}, {<<e, t>>}, {e})
  <1> DEFINE Went(w, q) ==
                \/ Becomes(w)
                \/ /\ w.at[q].leader # None /\ Size(w.at[q].seats) < MaxMembers
                   /\ Becomes(Add(w, q, t))
                \/ w.at[q].leader = None /\ Becomes(Found(w, q, t, e))
             O == {<<e, t>>}
  <1>1. PICK o \in First(teams[e], {r \in Parties : at[r].seats[t] > 0 /\ t \in at[r].shown}) :
           \E w \in Dismiss(World, o, t), q \in Parties : Went(w, q)
    BY DEF Move
  <1>2. /\ o \in Parties /\ World.at[o].seats[t] > 0 /\ o \in Range(teams[e])
    BY <1>1, WorldIs DEF First, Range
  <1>3. World.at[o].link = e /\ World.at[o].leader # None
    BY <1>2, WorldIs, SeatsListed DEF Neat
  <1>4. PICK w \in Dismiss(World, o, t), q \in Parties : Went(w, q)
    BY <1>1
  <1>5. Here(t)
    BY DEF Move
  <1>6. /\ Spares(World, w, {}, {t}, O, {})
        /\ Single(World, t) => Seatless(w, t)
    BY <1>2, <1>3, DismissedSpares
  <1>7. Sound(w) /\ Neat(w)
    BY <1>6 DEF Spares
  <1> HIDE DEF O
  <1>8. ASSUME Becomes(w)
        PROVE  Spares(World, World', {}, {}, O, {e})
    <2>1. Spares(World, World', {}, {}, O, {})
      BY <1>6, <1>8, SeatlessSingle, FollowsSettled
    <2> QED BY <2>1 DEF Spares
  <1>9. ASSUME w.at[q].leader # None, Size(w.at[q].seats) < MaxMembers,
               Becomes(Add(w, q, t))
        PROVE  Spares(World, World', {}, {}, O, {e})
    <2> DEFINE v == Add(w, q, t)
    <2>1. Spares(w, v, {}, {t}, {}, {}) /\ (Seatless(w, t) => Single(v, t))
      BY <1>5, <1>7, <1>9, AddedSpares
    <2>2. Becomes(v)
      BY <1>9
    <2> HIDE DEF v
    <2>3. Spares(World, v, {}, {t}, O, {e})
      BY <1>6, <2>1, SparesTwice
    <2> QED BY <1>6, <2>1, <2>2, <2>3, FollowsSettled
  <1>10. ASSUME w.at[q].leader = None, Becomes(Found(w, q, t, e))
         PROVE  Spares(World, World', {}, {}, O, {e})
    <2> DEFINE v == Found(w, q, t, e)
    <2>1. Spares(w, v, {}, {t}, {}, {e} \ {None}) /\ (Seatless(w, t) => Single(v, t))
      BY <1>7, <1>10, FoundedSpares
    <2>2. Becomes(v)
      BY <1>10
    <2> HIDE DEF v
    <2>3. Spares(World, v, {}, {t}, O, {e})
      BY <1>6, <2>1, SparesTwice
    <2> QED BY <1>6, <2>1, <2>2, <2>3, FollowsSettled
  <1> QED
    BY <1>4, <1>8, <1>9, <1>10 DEF O

LEMMA GiveExpedSpares ==
  ASSUME Sound(World), Neat(World), NEW p \in Players, NEW t \in Players, NEW e \in Expeds,
         GiveExped(p, t, e)
  PROVE  /\ Spares(World, World', {}, {}, {}, {})
         /\ \E q \in Parties : at'[q].link = e /\ at'[q].seats[t] > 0
  <1> DEFINE q == party[p]
  <1>1. q \in Parties /\ at[q].link = e /\ at[q].seats[t] > 0 /\ Becomes(Lead(World, q, t))
    BY OwnExped DEF GiveExped, Commands, InExped
  <1> HIDE DEF q
  <1>2. /\ Spares(World, Lead(World, q, t), {}, {}, {}, {})
        /\ Lead(World, q, t).at[q].seats = at[q].seats
    BY <1>1, WorldIs, HandedSpares
  <1>3. Spares(World, World', {}, {}, {}, {})
    BY <1>1, <1>2, FollowsSpared
  <1>4. at'[q].seats = at[q].seats /\ at'[q].link = at[q].link
    BY <1>1, <1>2, WorldIs DEF Becomes, Lead, Tell, Put, Sound, Entry
  <1> QED
    BY <1>1, <1>3, <1>4

\* The lead of other parties is given away: nobody's seats change.
LEMMA GivePartySpares ==
  ASSUME Sound(World), Neat(World), NEW p \in Players, NEW t \in Players, NEW e \in Expeds,
         GiveParty(p, t, e)
  PROVE  Spares(World, World', {}, {}, {}, {})
  <1> DEFINE his == {q \in Parties \ {party[p]} : q \in Range(teams[e]) /\ at[q].seats[t] > 0}
             r(q) == [at[q] EXCEPT !.leader = t]
             in(x) == {q \in his : Here(x) /\ at[q].seats[x] > 0}
  <1>0. /\ at' = [q \in Parties |-> IF q \in his THEN r(q) ELSE at[q]]
        /\ teams' = teams
        /\ \E told \in [Players -> Parties \cup {None}] :
              /\ \A x \in Players :
                    told[x] \in IF in(x) = {} THEN {party[x]} ELSE in(x)
              /\ party' = told
    BY DEF GiveParty
  <1>1. \A x \in Players : \/ party'[x] = party[x]
                           \/ party'[x] \in Parties /\ at[party'[x]].seats[x] > 0
    <2>1. \A x \in Players : party'[x] = party[x] \/ party'[x] \in in(x)
      <3> HIDE DEF in, his, r
      <3> QED BY <1>0
    <2>2. \A x \in Players : \A q \in in(x) : q \in Parties /\ at[q].seats[x] > 0
      OBVIOUS
    <2> HIDE DEF in, his, r
    <2> QED BY <2>1, <2>2
  <1>2. at \in [Parties -> Entry]
    BY WorldIs DEF Sound
  <1>3. \A q \in Parties : /\ r(q).seats = at[q].seats /\ r(q).shown = at[q].shown
                           /\ r(q).link = at[q].link
    BY <1>2 DEF Entry
  <1> HIDE DEF r, his
  <1>4. \A q \in Parties : /\ at'[q].seats = at[q].seats /\ at'[q].shown = at[q].shown
                           /\ at'[q].link = at[q].link
    BY <1>0, <1>3
  <1>5. World'.at = at' /\ World'.teams = teams /\ World'.party = party'
    BY <1>0 DEF World
  <1>6. Sound(World')
    BY GivenParty DEF Steady
  <1>7. Neat(World')
    BY <1>4, <1>5, WorldIs DEF Neat
  <1>8. ASSUME NEW x \in Players, Single(World, x)
        PROVE  Single(World', x)
    <2>1. party'[x] = party[x]
      BY <1>1, <1>8, WorldIs DEF Single
    <2> QED BY <1>4, <1>5, <1>8, <2>1, WorldIs DEF Single
  <1> QED
    BY <1>4, <1>5, <1>6, <1>7, <1>8, WorldIs DEF Spares, Visible, Rides

\* A look at the party on the way unsettles nobody.
LEMMA LookUpSpares ==
  ASSUME Sound(World), Neat(World), NEW p \in Players, ~Here(p), at' = at, teams' = teams,
         LookUp(p)
  PROVE  Spares(World, World', {}, {}, {}, {})
  <1>1. Sound(World')
    BY LookedUp DEF Steady
  <1>2. World'.at = at /\ World'.teams = teams /\ World'.party = party'
    BY DEF World
  <1>3. Neat(World')
    BY <1>2, WorldIs DEF Neat
  <1>4. ASSUME NEW x \in Players, Single(World, x)
        PROVE  Single(World', x)
    <2> SUFFICES ASSUME NEW q \in Parties, at[q].seats[x] > 0
                 PROVE  party'[x] = q /\ at[q].seats[x] = 1
      BY <1>2 DEF Single
    <2>1. party[x] = q /\ at[q].seats[x] = 1 /\ q # None
      BY <1>4, WorldIs, NoneAssumption DEF Single
    <2>2. party'[x] = party[x]
      BY <2>1, WorldIs DEF LookUp, Sound
    <2> QED BY <2>1, <2>2
  <1> QED
    BY <1>1, <1>2, <1>3, <1>4, WorldIs DEF Spares, Visible, Rides

Places == {"offline", "away", "arriving", "entering", "channel"}

LEMMA GoesOnly ==
  ASSUME where \in [Players -> Places], NEW p \in Players, NEW place \in Places,
         Goes(p, place)
  PROVE  /\ where' \in [Players -> Places] /\ where'[p] = place
         /\ \A x \in Players : x # p => where'[x] = where[x]
  BY DEF Goes

\* Whoever is announced is shown as online in the party he believes in, where he has his
\* seat if he has the one.
LEMMA Announced ==
  ASSUME Sound(World), Neat(World), NEW p \in Players, Announce(p)
  PROVE  /\ Spares(World, World', {p}, {}, {}, {})
         /\ Single(World, p) => Visible(World', p)
  <1>1. CASE party[p] = None
    <2>1. at' = at /\ teams' = teams /\ party' = party
      BY <1>1 DEF Announce
    <2>2. Spares(World, World', {}, {}, {}, {})
      BY <2>1, SameSpares
    <2>3. World'.at = at /\ World'.party = party
      BY <2>1 DEF World
    <2>4. Single(World, p) => Visible(World', p)
      BY <1>1, <2>3, WorldIs, NoneAssumption DEF Single, Visible
    <2> QED BY <2>2, <2>4 DEF Spares
  <1>2. CASE party[p] # None
    <2> DEFINE q == party[p]
               v == Show(World, q, p, TRUE)
    <2>1. q \in Parties /\ World.at[q].leader # None /\ Becomes(v) /\ World.party[p] = q
      BY <1>2, Believed, WorldIs DEF Announce
    <2> HIDE DEF q
    <2>2. /\ Spares(World, v, {p}, {}, {}, {})
          /\ World.at[q].seats[p] > 0 => p \in v.at[q].shown
      BY <2>1, ShownSpares
    <2>3. v.at[q].seats = World.at[q].seats /\ \A o \in Parties : o # q => v.at[o] = World.at[o]
      BY <2>1, Shown DEF Show, Tell, Put, Sound
    <2> HIDE DEF v
    <2>4. World'.at = v.at
      BY <2>1 DEF World, Becomes
    <2>5. Spares(World, World', {p}, {}, {}, {})
      BY <2>1, <2>2, FollowsSpared
    <2>6. Single(World, p) => Visible(World', p)
      BY <2>1, <2>2, <2>3, <2>4 DEF Single, Visible
    <2> QED BY <2>5, <2>6
  <1> QED
    BY <1>1, <1>2

\* Disconnecting hides the one who goes.
LEMMA DisconnectSpares ==
  ASSUME Sound(World), Neat(World), NEW p \in Players,
         Disconnect(p) \/ DisconnectInShop(p)
  PROVE  Spares(World, World', {p}, {}, {}, {})
  <1>1. CASE party[p] = None
    <2>1. at' = at /\ teams' = teams /\ party' = party
      BY <1>1 DEF Disconnect, DisconnectInShop
    <2>2. Spares(World, World', {}, {}, {}, {})
      BY <2>1, SameSpares
    <2> QED BY <2>2 DEF Spares
  <1>2. CASE party[p] # None
    <2> DEFINE q == party[p]
               v == Show(World, q, p, FALSE)
    <2>1. \/ Becomes(v)
          \/ \E l \in Players : at[q].seats[l] > 0 /\ Becomes(Lead(v, q, l))
      BY <1>2 DEF Disconnect, DisconnectInShop
    <2>2. q \in Parties /\ World.at[q].leader # None
      BY <1>2, Believed
    <2> HIDE DEF q
    <2>3. /\ Spares(World, v, {p}, {}, {}, {})
          /\ v.at[q].seats = at[q].seats
      BY <2>2, WorldIs, Shown, ShownSpares
    <2> HIDE DEF v
    <2>4. ASSUME NEW l \in Players, at[q].seats[l] > 0, Becomes(Lead(v, q, l))
          PROVE  Spares(World, World', {p}, {}, {}, {})
      <3>1. Spares(v, Lead(v, q, l), {}, {}, {}, {})
        BY <2>2, <2>3, <2>4, HandedSpares DEF Spares
      <3>2. Spares(World, Lead(v, q, l), {p}, {}, {}, {})
        BY <2>3, <3>1, SparesTwice
      <3> QED BY <2>4, <3>2, FollowsSpared
    <2> QED BY <2>1, <2>3, <2>4, FollowsSpared
  <1> QED
    BY <1>1, <1>2

\* Coming and going hides nobody else, and who has arrived is shown to his party.
LEMMA TravelSpares ==
  ASSUME Sound(World), Neat(World), where \in [Players -> Places],
         NEW p \in Players, Travel(p)
  PROVE  /\ Spares(World, World', {p}, {}, {}, {})
         /\ where' \in [Players -> Places]
         /\ \A x \in Players : x # p => where'[x] = where[x]
         /\ where'[p] = "channel" /\ Single(World, p) => Visible(World', p)
  <1>1. CASE Depart(p) \/ Register(p) \/ Lose(p)
    <2>1. at' = at /\ teams' = teams /\ party' = party
      BY <1>1 DEF Depart, Register, Lose
    <2>2. Spares(World, World', {}, {}, {}, {})
      BY <2>1, SameSpares
    <2>3. \E place \in Places \ {"channel"} : Goes(p, place)
      BY <1>1 DEF Depart, Register, Lose, Places
    <2> QED BY <2>2, <2>3, GoesOnly DEF Spares
  <1>2. CASE Arrive(p) \/ Shop(p)
    <2>1. at' = at /\ teams' = teams /\ LookUp(p) /\ ~Here(p) /\ where[p] # "channel"
      BY <1>2 DEF Arrive, Shop, Here
    <2>2. Spares(World, World', {}, {}, {}, {})
      BY <2>1, LookUpSpares
    <2>3. CASE Arrive(p)
      <3>1. Goes(p, "arriving") /\ "arriving" \in Places /\ "arriving" # "channel"
        BY <2>3 DEF Arrive, Places
      <3> QED BY <2>2, <3>1, GoesOnly DEF Spares
    <2>4. CASE Shop(p)
      BY <2>1, <2>2, <2>4 DEF Spares, Shop
    <2> QED BY <1>2, <2>3, <2>4
  <1>3. CASE Announce(p)
    <2>1. Goes(p, "channel") /\ "channel" \in Places
      BY <1>3 DEF Announce, Places
    <2> QED BY <1>3, <2>1, Announced, GoesOnly
  <1>4. CASE Disconnect(p) \/ DisconnectInShop(p)
    <2>1. Goes(p, "offline") /\ "offline" \in Places /\ "offline" # "channel"
      BY <1>4 DEF Disconnect, DisconnectInShop, Places
    <2> QED BY <1>4, <2>1, DisconnectSpares, GoesOnly
  <1> QED
    BY <1>1, <1>2, <1>3, <1>4 DEF Travel

-----------------------------------------------------------------------------
(* What holds in every state *)

\* An expedition that is not listed has no party.
Headed == \A e \in Expeds : head[e] = None => \A q \in Parties : at[q].link # e

Safe ==
    /\ Sound(World) /\ Neat(World) /\ Headed
    /\ head \in [Expeds -> Players \cup {None}]
    /\ where \in [Players -> Places]

LEMMA InitSafe == Init => Safe
  <1> SUFFICES ASSUME Init PROVE Safe
    OBVIOUS
  <1>1. Sound(World)
    BY InitSound
  <1>2. /\ \A q \in Parties : at[q] = Blank
        /\ teams = [e \in Expeds |-> <<>>]
    BY DEF Init
  <1>3. /\ <<>> \in Seq(Parties) /\ IsInjective(<<>>) /\ Range(<<>>) = {}
    BY DEF IsInjective, Range
  <1>4. Blank.link = None /\ Size(Blank.seats) <= MaxMembers
    <2>1. 0 <= MaxMembers
      BY SizeAssumption
    <2> QED BY <2>1, SizeOfOne DEF Blank
  <1>5. Neat(World)
    <2>1. \A e \in Expeds, q \in Parties : at[q].link # e
      BY <1>2, <1>4, NoneAssumption
    <2> QED BY <1>2, <1>3, <1>4, <2>1, WorldIs DEF Neat
  <1>6. Headed
    BY <1>2, <1>4, NoneAssumption DEF Headed
  <1> QED
    BY <1>1, <1>5, <1>6 DEF Safe, Init, Places

\* Links come from where an expedition is led.
LEMMA HeadedStill ==
  ASSUME Safe, NEW H, NEW U, NEW O, NEW L, Spares(World, World', H, U, O, L),
         head' \in [Expeds -> Players \cup {None}],
         \A e \in Expeds : head'[e] = None =>
            \/ head[e] = None /\ e \notin L
            \/ \A q \in Parties : at'[q].link # e
  PROVE  Headed'
  <1>1. \A q \in Parties : at'[q].link \in {at[q].link, None} \cup L
    <2>1. World'.at = at'
      BY DEF World
    <2> QED BY <2>1, WorldIs DEF Spares
  <1>2. ASSUME NEW e \in Expeds, head'[e] = None, NEW q \in Parties
        PROVE  at'[q].link # e
    BY <1>1, <1>2, NoneAssumption DEF Safe, Headed
  <1> QED
    BY <1>2 DEF Headed

LEMMA SpareSafe ==
  ASSUME NEW H, NEW U, NEW O, NEW L, Spares(World, World', H, U, O, L)
  PROVE  Sound(World)' /\ Neat(World)'
  <1>1. Sound(World') /\ Neat(World')
    BY DEF Spares
  <1> QED
    BY <1>1 DEF Sound, Neat

LEMMA PartySafe ==
  ASSUME Safe, NEW p \in Players, PartyStep(p)
  PROVE  Safe'
  <1>1. Spares(World, World', {}, {}, {}, {})
    BY PartySpares DEF Safe
  <1>2. head' = head /\ where' = where
    BY DEF PartyStep, Create, Join, Recruit, Leave, Expel, ChangeLeader
  <1>3. Headed'
    BY <1>1, <1>2, HeadedStill DEF Safe
  <1> QED
    BY <1>1, <1>2, <1>3, SpareSafe DEF Safe

\* Each operation of an expedition e leaves the places alone and spares those outside e.
LEMMA ExpedSpares ==
  ASSUME Safe, NEW p \in Players, NEW e \in Expeds, ExpedStep(p, e)
  PROVE  /\ where' = where
         /\ Spares(World, World', {}, {p}, {e} \X Players, {e})
         /\ \/ head' = head
            \/ \E l \in Players \cup {None} : head' = [head EXCEPT ![e] = l]
  <1> DEFINE O == {e} \X Players
  <1>1. \A t \in Players : {<<e, t>>} \subseteq O
    OBVIOUS
  <1> HIDE DEF O
  <1>2. ASSUME \/ Spares(World, World', {}, {}, {}, {e})
               \/ Spares(World, World', {}, {}, {}, {})
               \/ Spares(World, World', {}, {}, O, {})
               \/ Spares(World, World', {}, {p}, {}, {e})
               \/ \E t \in Players : \/ Spares(World, World', {}, {}, {<<e, t>>}, {})
                                     \/ Spares(World, World', {}, {}, {<<e, t>>}, {e})
        PROVE  Spares(World, World', {}, {p}, O, {e})
    BY <1>1, <1>2 DEF Spares
  <1>3. CASE CreateExped(p, e)
    <2>1. where' = where /\ head' = [head EXCEPT ![e] = p]
      BY <1>3 DEF CreateExped
    <2> QED BY <1>2, <1>3, <2>1, CreateExpedSpares DEF Safe, O
  <1>4. CASE JoinExped(p, e)
    <2>1. where' = where /\ head' = head
      BY <1>4 DEF JoinExped
    <2> QED BY <1>2, <1>4, <2>1, JoinExpedSpares DEF Safe, O
  <1>5. CASE LeaveExped(p, e)
    <2>1. where' = where
      BY <1>5 DEF LeaveExped
    <2>2. /\ Spares(World, World', {}, {}, O, {})
          /\ head' = head \/ head' = [head EXCEPT ![e] = None]
      BY <1>5, LeaveExpedSpares DEF Safe, O
    <2> QED BY <1>2, <2>1, <2>2 DEF O
  <1>6. ASSUME NEW t \in Players, Kick(p, t, e)
        PROVE  where' = where /\ head' = head /\ Spares(World, World', {}, {p}, O, {e})
    <2>1. where' = where /\ head' = head
      BY <1>6 DEF Kick
    <2>2. Spares(World, World', {}, {}, {<<e, t>>}, {})
      BY <1>6, KickSpares DEF Safe
    <2> QED BY <1>2, <2>1, <2>2
  <1>7. ASSUME NEW t \in Players, GiveExped(p, t, e)
        PROVE  /\ where' = where /\ head' = [head EXCEPT ![e] = t]
               /\ Spares(World, World', {}, {p}, O, {e})
    <2>1. where' = where /\ head' = [head EXCEPT ![e] = t]
      BY <1>7 DEF GiveExped
    <2>2. Spares(World, World', {}, {}, {}, {})
      BY <1>7, GiveExpedSpares DEF Safe
    <2> QED BY <1>2, <2>1, <2>2
  <1>8. ASSUME NEW t \in Players, GiveParty(p, t, e)
        PROVE  where' = where /\ head' = head /\ Spares(World, World', {}, {p}, O, {e})
    <2>1. where' = where /\ head' = head
      BY <1>8 DEF GiveParty
    <2>2. Spares(World, World', {}, {}, {}, {})
      BY <1>8, GivePartySpares DEF Safe
    <2> QED BY <1>2, <2>1, <2>2
  <1>9. ASSUME NEW t \in Players, NEW i \in 1..ExpedParties, Move(p, t, e, i)
        PROVE  where' = where /\ head' = head /\ Spares(World, World', {}, {p}, O, {e})
    <2>1. where' = where /\ head' = head
      BY <1>9 DEF Move
    <2>2. Spares(World, World', {}, {}, {<<e, t>>}, {e})
      BY <1>9, MoveSpares DEF Safe
    <2> QED BY <1>2, <2>1, <2>2
  <1> QED
    BY <1>3, <1>4, <1>5, <1>6, <1>7, <1>8, <1>9 DEF ExpedStep, O

LEMMA ExpedSafe ==
  ASSUME Safe, NEW p \in Players, NEW e \in Expeds, ExpedStep(p, e)
  PROVE  Safe'
  <1>1. /\ where' = where
        /\ Spares(World, World', {}, {p}, {e} \X Players, {e})
        /\ \/ head' = head
           \/ \E l \in Players \cup {None} : head' = [head EXCEPT ![e] = l]
    BY ExpedSpares
  <1>2. head' \in [Expeds -> Players \cup {None}]
    BY <1>1 DEF Safe
  <1>3. Headed'
    <2>1. CASE LeaveExped(p, e)
      <3>1. /\ Spares(World, World', {}, {}, {e} \X Players, {})
            /\ head' = head \/ (head' = [head EXCEPT ![e] = None]
                                /\ \A q \in Parties : at'[q].link # e)
        BY <2>1, LeaveExpedSpares DEF Safe
      <3>2. \A f \in Expeds : head'[f] = None =>
               \/ head[f] = None /\ f \notin {}
               \/ \A q \in Parties : at'[q].link # f
        BY <3>1 DEF Safe
      <3> QED BY <1>2, <3>1, <3>2, HeadedStill
    <2>2. CASE ~LeaveExped(p, e)
      <3>1. \/ CreateExped(p, e) \/ JoinExped(p, e)
            \/ \E t \in Players : \/ Kick(p, t, e) \/ GiveExped(p, t, e) \/ GiveParty(p, t, e)
                                  \/ \E i \in 1..ExpedParties : Move(p, t, e, i)
        BY <2>2 DEF ExpedStep
      <3>2. \/ head' = head /\ head[e] # None
            \/ \E l \in Players : head' = [head EXCEPT ![e] = l]
        BY <3>1 DEF CreateExped, JoinExped, Kick, GiveExped, GiveParty, Move, Commands, InExped
      <3>3. \A f \in Expeds : head'[f] = None => head[f] = None /\ f \notin {e}
        BY <3>2, NoneAssumption DEF Safe
      <3> QED BY <1>1, <1>2, <3>3, HeadedStill
    <2> QED BY <2>1, <2>2
  <1> QED
    BY <1>1, <1>2, <1>3, SpareSafe DEF Safe

LEMMA TravelSafe ==
  ASSUME Safe, NEW p \in Players, Travel(p)
  PROVE  Safe'
  <1>1. Spares(World, World', {p}, {}, {}, {}) /\ where' \in [Players -> Places]
    BY TravelSpares DEF Safe
  <1>2. head' = head
    BY DEF Travel, Depart, Arrive, Register, Announce, Shop, Disconnect, DisconnectInShop, Lose
  <1>3. Headed'
    BY <1>1, <1>2, HeadedStill DEF Safe
  <1> QED
    BY <1>1, <1>2, <1>3, SpareSafe DEF Safe

LEMMA SafeStep == Safe /\ [Next]_vars => Safe'
  <1> SUFFICES ASSUME Safe, [Next]_vars PROVE Safe'
    OBVIOUS
  <1>1. CASE UNCHANGED vars
    BY <1>1 DEF vars, Safe, Sound, Neat, World, Headed
  <1>2. ASSUME NEW p \in Players, NEW e \in Expeds, ExpedStep(p, e) PROVE Safe'
    BY <1>2, ExpedSafe
  <1> QED
    BY <1>1, <1>2, PartySafe, TravelSafe DEF Next

LEMMA AlwaysSafe == Spec => []Safe
  BY InitSafe, SafeStep, PTL DEF Spec

-----------------------------------------------------------------------------
(* What no step does *)

LEMMA SettledIs ==
  /\ \A x \in Players : Settled(x) <=> Single(World, x)
  /\ \A x \in Players : Settled(x)' <=> Single(World', x)
  /\ \A x \in Players : Shows(x) <=> (where[x] = "channel" => Visible(World, x))
  /\ \A x \in Players : Shows(x)' <=> (where'[x] = "channel" => Visible(World', x))
  BY DEF Settled, Single, Shows, Visible, World

LEMMA SettledStill ==
  ASSUME Safe, [Next]_vars, NEW x \in Players, Single(World, x), ~Single(World', x)
  PROVE  party[x] # None /\ \E e \in Expeds : JoinExped(x, e)
  <1>1. ASSUME NEW H, NEW O, NEW L, Spares(World, World', H, {}, O, L)
        PROVE  FALSE
    BY <1>1 DEF Spares
  <1>2. CASE UNCHANGED vars
    BY <1>2 DEF vars, Single, World
  <1>3. ASSUME NEW p \in Players, PartyStep(p) PROVE FALSE
    BY <1>1, <1>3, PartySpares DEF Safe
  <1>4. ASSUME NEW p \in Players, Travel(p) PROVE FALSE
    BY <1>1, <1>4, TravelSpares DEF Safe
  <1>5. ASSUME NEW p \in Players, NEW e \in Expeds, ExpedStep(p, e)
        PROVE  JoinExped(p, e)
    <2>1. Sound(World) /\ Neat(World)
      BY DEF Safe
    <2>2. CASE CreateExped(p, e)
      BY <1>1, <2>1, <2>2, CreateExpedSpares
    <2>3. CASE LeaveExped(p, e)
      BY <1>1, <2>1, <2>3, LeaveExpedSpares
    <2>4. ASSUME NEW t \in Players, Kick(p, t, e) PROVE FALSE
      BY <1>1, <2>1, <2>4, KickSpares
    <2>5. ASSUME NEW t \in Players, GiveExped(p, t, e) PROVE FALSE
      BY <1>1, <2>1, <2>5, GiveExpedSpares
    <2>6. ASSUME NEW t \in Players, GiveParty(p, t, e) PROVE FALSE
      BY <1>1, <2>1, <2>6, GivePartySpares
    <2>7. ASSUME NEW t \in Players, NEW i \in 1..ExpedParties, Move(p, t, e, i) PROVE FALSE
      BY <1>1, <2>1, <2>7, MoveSpares
    <2> QED BY <1>5, <2>2, <2>3, <2>4, <2>5, <2>6, <2>7 DEF ExpedStep
  <1>6. ASSUME NEW p \in Players, NEW e \in Expeds, ExpedStep(p, e)
        PROVE  p = x /\ party[x] # None /\ JoinExped(x, e)
    <2>1. JoinExped(p, e)
      BY <1>5, <1>6
    <2>2. /\ Spares(World, World', {}, {p}, {}, {e})
          /\ party[p] = None => Spares(World, World', {}, {}, {}, {e})
      BY <2>1, JoinExpedSpares DEF Safe
    <2>3. p = x
      BY <2>2 DEF Spares
    <2> QED BY <1>1, <2>1, <2>2, <2>3
  <1> QED
    BY <1>2, <1>3, <1>4, <1>6 DEF Next

LEMMA ShownStill ==
  ASSUME Safe, [Next]_vars, NEW x \in Players, Single(World, x),
         where[x] = "channel" => Visible(World, x), where'[x] = "channel"
  PROVE  Visible(World', x)
  <1>1. ASSUME NEW U, NEW O, NEW L, Spares(World, World', {}, U, O, L), where' = where
        PROVE  Visible(World', x)
    BY <1>1 DEF Spares
  <1>2. CASE UNCHANGED vars
    BY <1>2 DEF vars, Visible, World
  <1>3. ASSUME NEW p \in Players, PartyStep(p) PROVE Visible(World', x)
    <2>1. where' = where
      BY <1>3 DEF PartyStep, Create, Join, Recruit, Leave, Expel, ChangeLeader
    <2> QED BY <1>1, <1>3, <2>1, PartySpares DEF Safe
  <1>4. ASSUME NEW p \in Players, Travel(p) PROVE Visible(World', x)
    <2>1. /\ Spares(World, World', {p}, {}, {}, {})
          /\ \A y \in Players : y # p => where'[y] = where[y]
          /\ where'[p] = "channel" /\ Single(World, p) => Visible(World', p)
      BY <1>4, TravelSpares DEF Safe
    <2> QED BY <2>1 DEF Spares
  <1>5. ASSUME NEW p \in Players, NEW e \in Expeds, ExpedStep(p, e)
        PROVE  Visible(World', x)
    BY <1>1, <1>5, ExpedSpares
  <1> QED
    BY <1>2, <1>3, <1>4, <1>5 DEF Next

LEMMA LedIs ==
  ASSUME Safe, NEW e \in Expeds
  PROVE  Led(e) <=> head[e] # None /\ Rides(World, e, head[e])
  <1>1. /\ \A q \in Parties : at[q].link = e <=> q \in Range(teams[e])
        /\ teams[e] \in Seq(Parties)
    BY WorldIs DEF Safe, Neat
  <1>2. Range(teams[e]) \subseteq Parties
    BY <1>1 DEF Range
  <1> QED
    BY <1>1, <1>2, WorldIs DEF Led, Rides

LEMMA LedStill ==
  ASSUME Safe, [Next]_vars, NEW e \in Expeds, Led(e), head'[e] # None,
         \A p \in Players \ {head[e]} : ~LeaveExped(p, e),
         ~Kick(head[e], head[e], e),
         \A i \in 1..ExpedParties : ~Move(head[e], head[e], e, i)
  PROVE  Rides(World', e, head'[e])
  <1>1. /\ head[e] # None /\ head[e] \in Players /\ Rides(World, e, head[e])
        /\ Sound(World) /\ Neat(World) /\ head \in [Expeds -> Players \cup {None}]
    BY LedIs DEF Safe
  <1>2. ASSUME NEW H, NEW U, NEW O, NEW L, Spares(World, World', H, U, O, L),
               <<e, head[e]>> \notin O, head'[e] = head[e]
        PROVE  Rides(World', e, head'[e])
    BY <1>1, <1>2 DEF Spares
  <1>3. <<e, head[e]>> \notin {}
    OBVIOUS
  <1>4. CASE UNCHANGED vars
    BY <1>1, <1>4 DEF vars, World, Rides
  <1>5. ASSUME NEW p \in Players, PartyStep(p) PROVE Rides(World', e, head'[e])
    <2>1. head' = head
      BY <1>5 DEF PartyStep, Create, Join, Recruit, Leave, Expel, ChangeLeader
    <2> QED BY <1>1, <1>2, <1>3, <1>5, <2>1, PartySpares
  <1>6. ASSUME NEW p \in Players, Travel(p) PROVE Rides(World', e, head'[e])
    <2>1. head' = head
      BY <1>6 DEF Travel, Depart, Arrive, Register, Announce, Shop, Disconnect,
                  DisconnectInShop, Lose
    <2>2. Spares(World, World', {p}, {}, {}, {})
      BY <1>6, TravelSpares DEF Safe
    <2> QED BY <1>2, <1>3, <2>1, <2>2
  <1>7. ASSUME NEW p \in Players, NEW f \in Expeds, f # e, ExpedStep(p, f)
        PROVE  Rides(World', e, head'[e])
    <2>1. /\ Spares(World, World', {}, {p}, {f} \X Players, {f})
          /\ \/ head' = head
             \/ \E l \in Players \cup {None} : head' = [head EXCEPT ![f] = l]
      BY <1>7, ExpedSpares
    <2>2. head'[e] = head[e]
      BY <1>1, <1>7, <2>1
    <2>3. <<e, head[e]>> \notin {f} \X Players
      BY <1>7
    <2> QED BY <1>2, <2>1, <2>2, <2>3
  <1>8. ASSUME NEW p \in Players, ExpedStep(p, e)
        PROVE  Rides(World', e, head'[e])
    <2>1. ~CreateExped(p, e)
      BY <1>1 DEF CreateExped
    <2>2. ~LeaveExped(p, e)
      <3>1. p # head[e] => ~LeaveExped(p, e)
        OBVIOUS
      <3>2. p = head[e] /\ LeaveExped(p, e) => head'[e] = None
        BY <1>1 DEF LeaveExped
      <3> QED BY <3>1, <3>2
    <2>3. CASE JoinExped(p, e)
      <3>1. head' = head
        BY <2>3 DEF JoinExped
      <3> QED BY <1>1, <1>2, <1>3, <2>3, <3>1, JoinExpedSpares
    <2>4. ASSUME NEW t \in Players, Kick(p, t, e) PROVE Rides(World', e, head'[e])
      <3>1. head' = head /\ p = head[e]
        BY <2>4 DEF Kick, Commands
      <3>2. <<e, head[e]>> \notin {<<e, t>>}
        BY <2>4, <3>1
      <3> QED BY <1>1, <1>2, <2>4, <3>1, <3>2, KickSpares
    <2>5. ASSUME NEW t \in Players, GiveExped(p, t, e) PROVE Rides(World', e, head'[e])
      <3>1. head'[e] = t
        BY <1>1, <2>5 DEF GiveExped
      <3> QED BY <1>1, <2>5, <3>1, GiveExpedSpares DEF Rides, World
    <2>6. ASSUME NEW t \in Players, GiveParty(p, t, e) PROVE Rides(World', e, head'[e])
      <3>1. head' = head
        BY <2>6 DEF GiveParty
      <3> QED BY <1>1, <1>2, <1>3, <2>6, <3>1, GivePartySpares
    <2>7. ASSUME NEW t \in Players, NEW i \in 1..ExpedParties, Move(p, t, e, i)
          PROVE  Rides(World', e, head'[e])
      <3>1. head' = head /\ p = head[e]
        BY <2>7 DEF Move, Commands
      <3>2. <<e, head[e]>> \notin {<<e, t>>}
        BY <2>7, <3>1
      <3> QED BY <1>1, <1>2, <2>7, <3>1, <3>2, MoveSpares
    <2> QED BY <1>8, <2>1, <2>2, <2>3, <2>4, <2>5, <2>6, <2>7 DEF ExpedStep
  <1> QED
    BY <1>4, <1>5, <1>6, <1>7, <1>8 DEF Next

-----------------------------------------------------------------------------
(* The theorems *)

\* Seats, leaders and beliefs fit together, whatever the characters do and however
\* their comings and goings overlap with it.
THEOREM AlwaysSound == Spec => []Sound(World)
  <1>1. Sound(World) /\ [Next]_vars => Sound(World)'
    <2> SUFFICES ASSUME Sound(World), [Next]_vars PROVE Sound(World)'
      OBVIOUS
    <2>1. Sound(World')
      BY EveryStep DEF Steady
    <2> QED BY <2>1 DEF Sound
  <1> QED
    BY <1>1, InitSound, PTL DEF Spec

\* The leader of a listed party is always one of its members.
THEOREM LeadersSit == Spec => []LeaderSits
  <1>1. Sound(World) => LeaderSits
    BY WorldIs DEF Sound, LeaderSits, Listed
  <1> QED
    BY <1>1, AlwaysSound, PTL

\* A character who stays on a channel and has a seat in the party he believes in goes
\* on having one there, or is told.
THEOREM BeliefsLast == Spec => KnowsWhenHere
  <1>1. Sound(World) /\ [Next]_vars
          => [\A p \in Players : Here(p) /\ Here(p)' /\ Seated(p) => Seated(p)']_vars
    BY EveryStep DEF Steady
  <1> QED
    BY <1>1, AlwaysSound, PTL DEF Spec, KnowsWhenHere

\* Every variable of the model has its type, and no party outgrows its limit, by
\* invitation, search, expedition or move.
THEOREM TypeCorrect == Spec => []TypeOK
  <1>1. Safe => TypeOK
    BY WorldIs DEF Safe, Sound, Neat, TypeOK, Entry, Places
  <1> QED
    BY <1>1, AlwaysSafe, PTL

\* A party and its expedition always name each other, once, and both are listed.
THEOREM LinksAlwaysAgree == Spec => []LinksAgree
  <1>1. Safe => LinksAgree
    <2> SUFFICES ASSUME Safe, NEW e \in Expeds
                 PROVE  /\ {q \in Parties : at[q].link = e} = Range(teams[e])
                        /\ Len(teams[e]) = Cardinality(Range(teams[e]))
                        /\ head[e] = None => teams[e] = <<>>
      BY DEF LinksAgree
    <2>1. /\ teams[e] \in Seq(Parties) /\ IsInjective(teams[e])
          /\ \A q \in Parties : at[q].link = e <=> q \in Range(teams[e])
      BY WorldIs DEF Safe, Neat
    <2>2. Range(teams[e]) \subseteq Parties
      BY <2>1 DEF Range
    <2>3. {q \in Parties : at[q].link = e} = Range(teams[e])
      BY <2>1, <2>2
    <2>4. Len(teams[e]) = Cardinality(Range(teams[e]))
      BY <2>1, LengthOfSet
    <2>5. ASSUME head[e] = None
          PROVE  teams[e] = <<>>
      <3>1. Range(teams[e]) = {}
        BY <2>1, <2>2, <2>5 DEF Safe, Headed
      <3>2. Len(teams[e]) = 0
        BY <2>1, <3>1 DEF Range
      <3> QED BY <2>1, <3>2
    <2> QED BY <2>3, <2>4, <2>5
  <1> QED
    BY <1>1, AlwaysSafe, PTL

\* Nobody gets a second seat but by the invitation to an expedition.
THEOREM SecondSeatsByInvitation == Spec => StaysSettled
  <1>1. Safe /\ [Next]_vars
          => [\A p \in Players : Settled(p) /\ ~Settled(p)' =>
                 party[p] # None /\ \E e \in Expeds : JoinExped(p, e)]_vars
    BY SettledStill, SettledIs
  <1> QED
    BY <1>1, AlwaysSafe, PTL DEF Spec, StaysSettled

\* Whoever has arrived and has a single seat stays visible to his party.
THEOREM ArrivalsShown == Spec => ShownWhenHere
  <1>1. Safe /\ [Next]_vars
          => [\A p \in Players : Settled(p) /\ Settled(p)' /\ Shows(p) => Shows(p)']_vars
    BY ShownStill, SettledIs
  <1> QED
    BY <1>1, AlwaysSafe, PTL DEF Spec, ShownWhenHere

\* An expedition loses its leader in the three ways named, and in no other.
THEOREM LeadersStay == Spec => KeepsItsLeader
  <1>1. Safe /\ Safe' /\ [Next]_vars
          => [\A e \in Expeds : Led(e) /\ ~Led(e)' =>
                 \/ head'[e] = None
                 \/ \E p \in Players \ {head[e]} : LeaveExped(p, e)
                 \/ Kick(head[e], head[e], e)
                 \/ \E i \in 1..ExpedParties : Move(head[e], head[e], e, i)]_vars
    <2> SUFFICES ASSUME Safe, Safe', [Next]_vars, NEW e \in Expeds, Led(e), ~Led(e)',
                        head'[e] # None,
                        \A p \in Players \ {head[e]} : ~LeaveExped(p, e),
                        ~Kick(head[e], head[e], e),
                        \A i \in 1..ExpedParties : ~Move(head[e], head[e], e, i)
                 PROVE  FALSE
      OBVIOUS
    <2>1. Rides(World', e, head'[e])
      BY LedStill
    <2>2. \A q \in Parties : at'[q].link = e <=> q \in Range(teams'[e])
      BY DEF Safe, Neat, World
    <2>3. Led(e)'
      BY <2>1, <2>2 DEF Rides, Led, World
    <2> QED BY <2>3
  <1> QED
    BY <1>1, AlwaysSafe, PTL DEF Spec, KeepsItsLeader
=============================================================================
