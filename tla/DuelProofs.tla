----------------------------- MODULE DuelProofs -----------------------------
(***************************************************************************)
(* Theorems about Duel, for any number of players and rooms, any timeouts  *)
(* and any of the events: its types, that the two halves of a duel agree,  *)
(* that fights between players begin in duels, and that the end of a duel  *)
(* ends the fight.                                                         *)
(***************************************************************************)
EXTENDS Duel, TLAPS

Chars == [Players -> Char]
Duels == [Players -> Negotiation \cup {NoDuel}]

-----------------------------------------------------------------------------
(***************************************************************************)
(* What the helpers make of characters and duels.                          *)
(***************************************************************************)
LEMMA StopType ==
    ASSUME NEW c \in Chars, NEW ps
    PROVE  Stop(c, ps) \in Chars
    BY DEF Chars, Char, Stop

LEMMA EngagedType ==
    ASSUME NEW c \in Chars, NEW p \in Players, NEW foe \in Players \cup {Mob}
    PROVE  Engaged(c, p, foe) \in Chars
    BY DEF Chars, Char, Engaged

LEMMA ExtractedType ==
    ASSUME NEW c \in Chars, NEW p \in Players
    PROVE  Extracted(c, p) \in Chars
<1>1. Stop(c, Against(c, p)) \in Chars
    BY StopType
<1> QED
    BY <1>1 DEF Chars, Char, Extracted

LEMMA DefeatedType ==
    ASSUME NEW c \in Chars, NEW p \in Players
    PROVE  Defeated(c, p) \in Chars
<1>1. Stop(c, Against(c, p)) \in Chars
    BY StopType
<1> QED
    BY <1>1 DEF Chars, Char, Defeated

LEMMA PlacedType ==
    ASSUME NEW c \in Chars, NEW p \in Players, NEW r \in Rooms
    PROVE  [c EXCEPT ![p].place = r] \in Chars
    BY DEF Chars, Char

LEMMA SlainType ==
    ASSUME NEW c \in Chars, NEW p \in Players
    PROVE  Slain(c, p) \in Chars
<1> DEFINE moved == [Stop(c, Against(c, p)) EXCEPT ![p].place = Altar]
<1>1. moved \in Chars
    BY StopType, PlacedType, DuelAssumption
<1>2. Slain(c, p) = [moved EXCEPT ![p].position = "resting"]
    BY StopType DEF Slain, Chars, Char
<1> HIDE DEF moved
<1> QED
    BY <1>1, <1>2 DEF Chars, Char

LEMMA FallenType ==
    ASSUME NEW c \in Chars, NEW p \in Players
    PROVE  Fallen(c, p) \in Chars
<1>1. Stop(c, {p}) \in Chars
    BY StopType
<1> QED
    BY <1>1 DEF Chars, Char, Fallen

LEMMA SurvivedType ==
    ASSUME NEW c \in Chars, NEW p \in Players
    PROVE  Survived(c, p) \subseteq Chars
<1>1. Fallen(c, p) \in Chars
    BY FallenType
<1>2. Stop(c, Against(c, p)) \in Chars
    BY StopType
<1> QED
    BY <1>1, <1>2, PlacedType DEF Survived

LEMMA TerminatedType ==
    ASSUME NEW d \in Duels, NEW p \in Players
    PROVE  Terminated(d, p) \in Duels
    BY DEF Duels, Terminated

\* A blow, and a companion's, leave characters and duels; of the duels, at most
\* one is terminated.
Blows(d) == Chars \X ({d} \cup {Terminated(d, p) : p \in Players})

LEMMA StruckType ==
    ASSUME NEW c \in Chars, NEW d \in Duels, NEW p \in Players, NEW q \in Players
    PROVE  Struck(c, d, p, q) \subseteq Blows(d)
<1> DEFINE e == IF c[q].position = "stunned" THEN c ELSE Engaged(Engaged(c, q, p), p, q)
<1>1. e \in Chars
    BY EngagedType
<1> HIDE DEF e
<1>2. Survived(e, q) \subseteq Chars /\ Defeated(e, q) \in Chars /\ Slain(e, q) \in Chars
    BY <1>1, SurvivedType, DefeatedType, SlainType
<1>3. Struck(c, d, p, q) =
          IF SafeFrom(c, d, p, q)
          THEN {<<c, d>>}
          ELSE Survived(e, q) \X {d}
               \cup {IF InProgress(d, p, q) THEN <<Defeated(e, q), Terminated(d, q)>>
                                           ELSE <<Slain(e, q), d>>}
    BY DEF Struck, e
<1> QED
    BY <1>2, <1>3 DEF Blows
LEMMA AssistedType ==
    ASSUME NEW c \in Chars, NEW d \in Duels, NEW p \in Players, NEW q \in Players
    PROVE  Assisted(c, d, p, q) \subseteq Blows(d)
<1>1. \A r \in Players : Struck(c, d, r, q) \subseteq Blows(d)
    BY StruckType
<1>2. <<c, d>> \in Blows(d)
    BY DEF Blows
<1> QED
    BY <1>1, <1>2 DEF Assisted

-----------------------------------------------------------------------------
(***************************************************************************)
(* Every half of a duel is matched by its rival's: DuelsMutual, of duels   *)
(* none of whose rivals has been freed.  It depends on nothing but duel.   *)
(***************************************************************************)
Mutual(d) ==
    \A p \in Players :
        d[p] # NoDuel =>
            LET q == d[p].rival
            IN /\ q # p
               /\ d[q] # NoDuel
               /\ d[q].rival = p
               /\ d[p].state = "Accepted" \/ d[q].state = "Accepted"

LEMMA TerminatedMutual ==
    ASSUME NEW d \in Duels, NEW p \in Players, Mutual(d)
    PROVE  Mutual(Terminated(d, p))
<1> DEFINE e == Terminated(d, p)
<1> SUFFICES ASSUME NEW r \in Players, e[r] # NoDuel
             PROVE  LET q == e[r].rival
                    IN /\ q # r
                       /\ e[q] # NoDuel
                       /\ e[q].rival = r
                       /\ e[r].state = "Accepted" \/ e[q].state = "Accepted"
    BY DEF Mutual
<1>1. e[r] = d[r] /\ d[r] # NoDuel /\ d[r].rival \in Players
    BY DEF Terminated, Duels, Negotiation
<1>2. d[p] # NoDuel => r \notin {p, d[p].rival}
    BY DEF Terminated
<1>3. d[p] # NoDuel => d[r].rival \notin {p, d[p].rival}
    BY <1>1, <1>2 DEF Mutual
<1>4. e[d[r].rival] = d[d[r].rival]
    BY <1>1, <1>3 DEF Terminated
<1> QED
    BY <1>1, <1>4 DEF Mutual

\* Of the duels d, e has none that d has not, and none with more time left.
Dwindles(d, e) ==
    \A r \in Players :
        e[r] # NoDuel =>
            /\ d[r] # NoDuel
            /\ e[r].rival = d[r].rival
            /\ e[r].state = d[r].state
            /\ e[r].ticks <= d[r].ticks

LEMMA TerminatedDwindles ==
    ASSUME NEW d \in Duels, NEW p \in Players
    PROVE  Dwindles(d, d) /\ Dwindles(d, Terminated(d, p))
<1>1. \A r \in Players : Terminated(d, p)[r] \in {d[r], NoDuel}
    BY DEF Terminated
<1>2. \A r \in Players : d[r].ticks \in Nat
    BY DuelAssumption DEF Duels, Negotiation, NoDuel
<1> QED
    BY <1>1, <1>2 DEF Dwindles

LEMMA DwindlesOn ==
    ASSUME NEW d \in Duels, NEW e \in Duels, NEW f \in Duels, Dwindles(d, e), Dwindles(e, f)
    PROVE  Dwindles(d, f)
<1>1. \A r \in Players : d[r].ticks \in Nat /\ e[r].ticks \in Nat /\ f[r].ticks \in Nat
    BY DuelAssumption DEF Duels, Negotiation, NoDuel
<1> QED
    BY <1>1 DEF Dwindles

Kept == char' \in Chars /\ duel' \in Duels /\ (Mutual(duel) => Mutual(duel'))

Eased == Kept /\ Dwindles(duel, duel')

LEMMA SameEased ==
    ASSUME char' \in Chars, duel \in Duels, duel' = duel
    PROVE  Eased
<1>1. \A r \in Players : duel[r].ticks \in Nat
    BY DuelAssumption DEF Duels, Negotiation, NoDuel
<1> QED
    BY <1>1 DEF Eased, Kept, Dwindles

LEMMA EndEased ==
    ASSUME char' \in Chars, duel \in Duels, NEW p \in Players, duel' = Terminated(duel, p)
    PROVE  Eased
    BY TerminatedType, TerminatedMutual, TerminatedDwindles DEF Eased, Kept

\* Where a blow leads to.
LEMMA StruckLeads ==
    ASSUME duel \in Duels, NEW c \in Chars, NEW p \in Players, NEW q \in Players,
           Leads(Struck(c, duel, p, q))
    PROVE  Eased
<1>1. PICK s \in Struck(c, duel, p, q) : char' = s[1] /\ duel' = s[2]
    BY DEF Leads
<1>2. s \in Blows(duel)
    BY <1>1, StruckType
<1>3. char' \in Chars /\ duel' \in {duel} \cup {Terminated(duel, r) : r \in Players}
    BY <1>1, <1>2 DEF Blows
<1> QED
    BY <1>3, TerminatedType, TerminatedMutual, TerminatedDwindles DEF Eased, Kept

\* And when a companion joins in.
LEMMA RoundLeads ==
    ASSUME char \in Chars, duel \in Duels, NEW p \in Players, NEW q \in Players,
           Leads(UNION {Assisted(s[1], s[2], p, q) : s \in Struck(char, duel, p, q)})
    PROVE  Eased
<1>0. PICK s \in Struck(char, duel, p, q) :
          \E t \in Assisted(s[1], s[2], p, q) : char' = t[1] /\ duel' = t[2]
    BY DEF Leads
<1>1. PICK t \in Assisted(s[1], s[2], p, q) : char' = t[1] /\ duel' = t[2]
    BY <1>0
<1>2. s \in Blows(duel)
    BY StruckType
<1>3. s[1] \in Chars /\ s[2] \in {duel} \cup {Terminated(duel, r) : r \in Players}
    BY <1>2 DEF Blows
<1>4. s[2] \in Duels /\ (Mutual(duel) => Mutual(s[2])) /\ Dwindles(duel, s[2])
    BY <1>3, TerminatedType, TerminatedMutual, TerminatedDwindles
<1> DEFINE d == s[2]
<1>5. t \in Blows(d)
    BY <1>3, <1>4, AssistedType
<1> HIDE DEF d
<1>6. char' \in Chars /\ duel' \in {d} \cup {Terminated(d, r) : r \in Players}
    BY <1>1, <1>5 DEF Blows
<1>7. d \in Duels /\ (Mutual(duel) => Mutual(d)) /\ Dwindles(duel, d)
    BY <1>4 DEF d
<1>8. duel' \in Duels /\ (Mutual(d) => Mutual(duel')) /\ Dwindles(d, duel')
    BY <1>6, <1>7, TerminatedType, TerminatedMutual, TerminatedDwindles
<1> QED
    BY <1>6, <1>7, <1>8, DwindlesOn DEF Eased, Kept
-----------------------------------------------------------------------------
(***************************************************************************)
(* The steps.  Each keeps the types; each but EndPulse, which frees        *)
(* characters, keeps duels matched.                                        *)
(***************************************************************************)
LEMMA ChallengeKeeps ==
    ASSUME TypeOK, NEW p \in Players, NEW q \in Players, Challenge(p, q)
    PROVE  Kept
<1>1. p # q /\ duel[q] = NoDuel /\ (duel[p] # NoDuel => duel[p].rival = q)
    BY DEF Challenge, MayChallenge, Together, TogetherIn, HasDuel
<1>2. InvitationTimeoutTicks \in 1 .. DuelTimeoutTicks
    BY DuelAssumption
<1> DEFINE mine == Offer(q, "Accepted", InvitationTimeoutTicks)
           theirs == Offer(p, "Invited", InvitationTimeoutTicks)
<1>3. /\ mine \in Negotiation /\ mine.rival = q /\ mine.state = "Accepted"
      /\ theirs \in Negotiation /\ theirs.rival = p
    BY <1>2 DEF Offer, Negotiation
<1>4. mine # NoDuel /\ theirs # NoDuel
    BY <1>3, DuelAssumption DEF NoDuel
<1> HIDE DEF mine, theirs
<1>5. char' = char /\ duel' = [duel EXCEPT ![p] = mine, ![q] = theirs]
    BY DEF Challenge, mine, theirs
<1>6. duel' \in Duels
    BY <1>3, <1>5 DEF TypeOK, Duels
<1>7. duel'[p] = mine /\ duel'[q] = theirs /\ \A r \in Players \ {p, q} : duel'[r] = duel[r]
    BY <1>1, <1>5 DEF TypeOK
<1>8. ASSUME Mutual(duel)
      PROVE  Mutual(duel')
    <2>1. duel[p] = NoDuel
        BY <1>1, <1>8 DEF Mutual
    <2>2. \A r \in Players \ {p, q} : duel[r] # NoDuel => duel[r].rival \in Players \ {p, q}
        BY <1>1, <2>1, <1>8 DEF Mutual, TypeOK, Negotiation
    <2> QED
        BY <1>1, <1>3, <1>4, <1>7, <1>8, <2>2 DEF Mutual
<1> QED
    BY <1>5, <1>6, <1>8 DEF Kept, TypeOK, Chars

LEMMA AcceptKeeps ==
    ASSUME TypeOK, NEW p \in Players, NEW q \in Players, Accept(p, q), Mutual(duel)
    PROVE  Kept
<1>1. p # q /\ duel[q] # NoDuel /\ duel[q].rival = p
    BY DEF Accept, MayChallenge, Together, TogetherIn, HasDuel
<1>2. duel[p] # NoDuel /\ duel[p].rival = q
    BY <1>1 DEF Mutual
<1>3. duel[p] \in Negotiation /\ duel[q] \in Negotiation
    BY <1>1, <1>2 DEF TypeOK
<1>4. DuelTimeoutTicks \in 1 .. DuelTimeoutTicks
    BY DuelAssumption
<1> DEFINE mine == [duel[p] EXCEPT !.state = "Accepted", !.ticks = DuelTimeoutTicks]
           theirs == [duel[q] EXCEPT !.state = "Accepted", !.ticks = DuelTimeoutTicks]
<1>5. /\ mine \in Negotiation /\ mine.rival = q /\ mine.state = "Accepted"
      /\ theirs \in Negotiation /\ theirs.rival = p
    BY <1>1, <1>2, <1>3, <1>4 DEF Negotiation
<1>6. mine # NoDuel /\ theirs # NoDuel
    BY <1>5, DuelAssumption DEF NoDuel
<1>7. char' = char /\ duel' = [duel EXCEPT ![p] = mine, ![q] = theirs]
    BY <1>1 DEF Accept, TypeOK
<1> HIDE DEF mine, theirs
<1>8. duel' \in Duels
    BY <1>5, <1>7 DEF TypeOK, Duels
<1>9. duel'[p] = mine /\ duel'[q] = theirs /\ \A r \in Players \ {p, q} : duel'[r] = duel[r]
    BY <1>1, <1>7 DEF TypeOK
<1>10. \A r \in Players \ {p, q} : duel[r] # NoDuel => duel[r].rival \in Players \ {p, q}
    BY <1>1, <1>2 DEF Mutual, TypeOK, Negotiation
<1>11. Mutual(duel')
    BY <1>1, <1>5, <1>6, <1>9, <1>10 DEF Mutual
<1> QED
    BY <1>7, <1>8, <1>11 DEF Kept, TypeOK, Chars

LEMMA TimedKeeps ==
    ASSUME TypeOK, NEW p \in Players
    PROVE  /\ TimedDuels(p) \in Duels
           /\ Mutual(duel) => Mutual(TimedDuels(p))
           /\ Dwindles(duel, TimedDuels(p))
           /\ HasDuel(p) /\ TimedDuels(p)[p] # NoDuel => TimedDuels(p)[p].ticks < duel[p].ticks
<1>0. \A r \in Players : duel[r].ticks \in Nat
    BY DuelAssumption DEF TypeOK, Negotiation, NoDuel
<1>1. CASE ~HasDuel(p)
    BY <1>1, TerminatedDwindles DEF TimedDuels, TypeOK, Duels
<1>2. CASE HasDuel(p) /\ TimeRunsOut(p)
    <2>1. TimedDuels(p) = Terminated(duel, p)
        BY <1>2 DEF TimedDuels
    <2>2. Terminated(duel, p)[p] = NoDuel
        BY <1>2 DEF Terminated, HasDuel
    <2> QED
        BY <2>1, <2>2, TerminatedType, TerminatedMutual, TerminatedDwindles DEF TypeOK, Duels
<1>3. CASE HasDuel(p) /\ ~TimeRunsOut(p)
    <2> DEFINE less == [duel[p] EXCEPT !.ticks = @ - 1]
    <2>1. duel[p] \in Negotiation /\ duel[p].ticks \in 2 .. DuelTimeoutTicks
        BY <1>3, DuelAssumption DEF HasDuel, TimeRunsOut, TypeOK, Negotiation
    <2>2. /\ less \in Negotiation
          /\ less.rival = duel[p].rival /\ less.state = duel[p].state
          /\ less.ticks < duel[p].ticks
        BY <2>1, DuelAssumption DEF Negotiation
    <2>3. less # NoDuel
        BY <2>2, DuelAssumption DEF NoDuel, Negotiation
    <2>4. TimedDuels(p) = [duel EXCEPT ![p] = less]
        BY <1>3 DEF TimedDuels, TypeOK
    <2> HIDE DEF less
    <2>5. TimedDuels(p) \in Duels
        BY <2>2, <2>4 DEF TypeOK, Duels
    <2>6. \A r \in Players : TimedDuels(p)[r] = IF r = p THEN less ELSE duel[r]
        BY <2>4 DEF TypeOK
    <2>7. Mutual(duel) => Mutual(TimedDuels(p))
        BY <1>3, <2>2, <2>3, <2>6 DEF Mutual, HasDuel, TypeOK, Negotiation
    <2>8. Dwindles(duel, TimedDuels(p))
        BY <1>0, <1>3, <2>1, <2>2, <2>6 DEF Dwindles, HasDuel, Negotiation
    <2> QED
        BY <2>2, <2>5, <2>6, <2>7, <2>8
<1> QED
    BY <1>1, <1>2, <1>3

LEMMA TimedFightsType ==
    ASSUME TypeOK, NEW c \in Chars, NEW p \in Players
    PROVE  TimedFights(c, p) \in Chars
    BY StopType DEF TimedFights, StoppedByTime

LEMMA BledType ==
    ASSUME NEW c \in Chars, NEW p \in Players
    PROVE  Bled(c, p) \subseteq Chars
    BY SlainType DEF Bled

LEMMA ToLimboType ==
    ASSUME NEW c \in Chars, NEW p \in Players
    PROVE  ToLimbo(c, p) \in Chars
<1> DEFINE e == IF c[p].fighting # NoOne THEN Stop(c, Against(c, p)) ELSE c
<1>1. e \in Chars
    BY StopType
<1>2. ToLimbo(c, p) = [e EXCEPT ![p].place = "limbo"]
    BY DEF ToLimbo
<1> HIDE DEF e
<1> QED
    BY <1>1, <1>2 DEF Chars, Char

LEMMA TickKeeps ==
    ASSUME TypeOK, NEW p \in Players, Tick(p)
    PROVE  Eased
<1>1. PICK c \in Recovered(p) :
          \/ /\ char' \in Bled(TimedFights(c, p), p)
             /\ duel' = TimedDuels(p)
          \/ /\ char' \in Bled(ToLimbo(TimedFights(c, p), p), p)
             /\ duel' = Terminated(TimedDuels(p), p)
    BY DEF Tick
<1>2. c \in Chars
    BY DEF Recovered, TypeOK, Chars, Char
<1>3. TimedFights(c, p) \in Chars
    BY <1>2, TimedFightsType
<1>4. char' \in Chars
    BY <1>1, <1>3, BledType, ToLimboType
<1>5. TimedDuels(p) \in Duels /\ (Mutual(duel) => Mutual(TimedDuels(p)))
    BY TimedKeeps
<1>6. duel' \in Duels /\ (Mutual(duel) => Mutual(duel')) /\ Dwindles(duel, duel')
    <2> DEFINE d == TimedDuels(p)
    <2>1. d \in Duels /\ (Mutual(duel) => Mutual(d)) /\ Dwindles(duel, d)
        BY TimedKeeps
    <2>2. duel' = d \/ duel' = Terminated(d, p)
        BY <1>1
    <2> HIDE DEF d
    <2>3. duel \in Duels
        BY DEF TypeOK, Duels
    <2>4. duel' \in Duels /\ (Mutual(d) => Mutual(duel')) /\ Dwindles(d, duel')
        BY <2>1, <2>2, TerminatedType, TerminatedMutual, TerminatedDwindles
    <2> QED
        BY <2>1, <2>3, <2>4, DwindlesOn
<1> QED
    BY <1>4, <1>6 DEF Eased, Kept

LEMMA ViolenceKeeps ==
    ASSUME TypeOK, NEW p \in Players, Violence(p)
    PROVE  Eased
<1>1. char \in Chars /\ duel \in Duels
    BY DEF TypeOK, Chars, Duels
<1>2. CASE UNCHANGED duel /\ char' \in {char, Stop(char, {p})}
    BY <1>1, <1>2, StopType, SameEased
<1>3. CASE /\ char[p].fighting \in Players
           /\ Leads(UNION {Assisted(s[1], s[2], p, char[p].fighting) :
                               s \in Struck(char, duel, p, char[p].fighting)})
    BY <1>1, <1>3, RoundLeads
<1> QED
    BY <1>2, <1>3 DEF Violence

\* The commands that strike.
LEMMA StrikesKeep ==
    ASSUME TypeOK, NEW p \in Players, NEW q \in Players,
           Kill(p, q) \/ Kick(p, q) \/ Bash(p, q)
    PROVE  Eased
<1> DEFINE down == [char EXCEPT ![q].position = "resting"]
           fallen == [Engaged(Engaged(char, q, p), p, q) EXCEPT ![p].position = "resting"]
<1>1. char \in Chars /\ duel \in Duels
    BY DEF TypeOK, Chars, Duels
<1>2. down \in Chars
    BY <1>1 DEF Chars, Char
<1>3. fallen \in Chars
    <2>1. Engaged(Engaged(char, q, p), p, q) \in Chars
        BY <1>1, EngagedType
    <2> QED
        BY <2>1 DEF Chars, Char
<1>4. \/ Leads(Struck(char, duel, p, q))
      \/ Leads(Struck(down, duel, p, q))
      \/ char' = fallen /\ duel' = duel
    BY DEF Kill, Kick, Bash
<1> HIDE DEF down, fallen
<1> QED
    BY <1>1, <1>2, <1>3, <1>4, StruckLeads, SameEased

LEMMA RescueKeeps ==
    ASSUME TypeOK, NEW p \in Players, NEW q \in Players, NEW foe \in Players \cup {Mob},
           Rescue(p, q, foe)
    PROVE  Eased
<1> DEFINE c == Engaged(Stop(char, {q, foe}), p, foe)
<1>1. char \in Chars /\ duel' = duel /\ duel \in Duels
    BY DEF TypeOK, Chars, Duels, Rescue
<1>2. c \in Chars
    BY <1>1, StopType, EngagedType
<1>3. char' = IF foe = Mob THEN c ELSE Engaged(c, foe, p)
    BY DEF Rescue
<1> HIDE DEF c
<1> QED
    BY <1>1, <1>2, <1>3, EngagedType, SameEased

\* Going from one place to another, with or without a link.
LEMMA MovesKeep ==
    ASSUME TypeOK, NEW p \in Players, NEW r \in Rooms,
           Flee(p, r) \/ Walk(p, r) \/ ReturnFromLimbo(p, r)
    PROVE  Eased
<1>1. char \in Chars /\ duel' = duel /\ duel \in Duels
    BY DEF TypeOK, Chars, Duels, Flee, Walk, ReturnFromLimbo
<1>2. Stop(char, Against(char, p)) \in Chars
    BY <1>1, StopType
<1>3. char' \in {[Stop(char, Against(char, p)) EXCEPT ![p].place = r],
                 [char EXCEPT ![p].place = r]}
    BY DEF Flee, Walk, ReturnFromLimbo
<1> QED
    BY <1>1, <1>2, <1>3, PlacedType, SameEased

LEMMA StandKeeps ==
    ASSUME TypeOK, NEW p \in Players, Stand(p)
    PROVE  Eased
    BY SameEased DEF Stand, TypeOK, Chars, Char, Duels

LEMMA LeavesKeeps ==
    ASSUME TypeOK, NEW p \in Players, Leaves(p)
    PROVE  Eased
<1>1. char \in Chars /\ duel \in Duels
    BY DEF TypeOK, Chars, Duels
<1>2. char' = Extracted(char, p) /\ duel' = Terminated(duel, p)
    BY DEF Leaves
<1> QED
    BY <1>1, <1>2, ExtractedType, EndEased

LEMMA LinksKeep ==
    ASSUME TypeOK, NEW p \in Players, Enter(p) \/ Relink(p) \/ LinkLost(p)
    PROVE  Eased
<1>1. char \in Chars /\ duel \in Duels
    BY DEF TypeOK, Chars, Duels
<1>2. CASE Enter(p)
    <2>1. PICK r \in Rooms : char' = [char EXCEPT ![p].place = r, ![p].linked = TRUE]
        BY <1>2 DEF Enter
    <2> DEFINE there == [char EXCEPT ![p].place = r]
    <2>2. there \in Chars
        BY <1>1, PlacedType
    <2>3. char' = [there EXCEPT ![p].linked = TRUE]
        BY <1>1, <2>1 DEF Chars, Char
    <2> HIDE DEF there
    <2>4. char' \in Chars
        BY <2>2, <2>3 DEF Chars, Char
    <2> QED
        BY <1>1, <1>2, <2>4, SameEased DEF Enter
<1>3. CASE Relink(p)
    BY <1>1, <1>3, SameEased DEF Relink, Chars, Char
<1>4. CASE LinkLost(p)
    <2>1. char' \in Chars
        BY <1>1, <1>4 DEF LinkLost, Chars, Char
    <2> QED
        BY <1>1, <1>4, <2>1, EndEased DEF LinkLost
<1> QED
    BY <1>2, <1>3, <1>4

LEMMA OthersKeep ==
    ASSUME TypeOK, NEW p \in Players, Purge(p) \/ MobHits(p)
    PROVE  Eased
<1>1. char \in Chars /\ duel \in Duels /\ duel' = duel
    BY DEF TypeOK, Chars, Duels, Purge, MobHits
<1>2. CASE Purge(p)
    BY <1>1, <1>2, ExtractedType, SameEased DEF Purge
<1>3. CASE MobHits(p)
    <2> DEFINE c == IF char[p].position = "stunned" THEN char ELSE Engaged(char, p, Mob)
    <2>1. c \in Chars
        BY <1>1, EngagedType
    <2>2. char' \in Survived(c, p) \cup {Slain(c, p)}
        BY <1>3 DEF MobHits
    <2> HIDE DEF c
    <2> QED
        BY <1>1, <2>1, <2>2, SurvivedType, SlainType, SameEased
<1> QED
    BY <1>2, <1>3

-----------------------------------------------------------------------------
(***************************************************************************)
(* The invariant.  Neither half is inductive alone: that what an           *)
(* acceptance writes is a duel rests on the two halves' being there, and   *)
(* that these agree on what a duel is.                                     *)
(***************************************************************************)
IInv == TypeOK /\ DuelsMutual

\* One of the actions that free nobody.
Acts ==
    \/ \E p, q \in Players :
          \/ Challenge(p, q) \/ Accept(p, q) \/ Kill(p, q) \/ Kick(p, q) \/ Bash(p, q)
          \/ \E foe \in Players \cup {Mob} : Rescue(p, q, foe)
    \/ \E p \in Players :
          \/ Stand(p) \/ Quit(p)
          \/ Enter(p) \/ Relink(p) \/ LinkLost(p) \/ Purge(p) \/ MobHits(p)
          \/ Violence(p) \/ Tick(p) \/ AutoQuit(p)
          \/ \E r \in Rooms : Flee(p, r) \/ Walk(p, r) \/ ReturnFromLimbo(p, r)
    \/ StartViolence \/ StartTick \/ TickCutShort

LEMMA NextIsActs == Next => Acts \/ EndPulse
    BY DEF Next, Acts

LEMMA NobodyDangles ==
    ASSUME IInv, Next
    PROVE  Mutual(duel)
<1>1. \A p \in Players : HasDuel(p) => char[duel[p].rival].place # "out"
    BY DEF Next, Dangles
<1> QED
    BY <1>1 DEF IInv, DuelsMutual, Mutual, HasDuel, IsAccepted

LEMMA ActsEase ==
    ASSUME TypeOK, Acts, \A p, q \in Players : ~Challenge(p, q) /\ ~Accept(p, q)
    PROVE  Eased
<1>1. ASSUME NEW p \in Players, NEW q \in Players,
             \/ Kill(p, q) \/ Kick(p, q) \/ Bash(p, q)
             \/ \E foe \in Players \cup {Mob} : Rescue(p, q, foe)
      PROVE  Eased
    BY <1>1, StrikesKeep, RescueKeeps
<1>2. ASSUME NEW p \in Players,
             \/ Stand(p) \/ Quit(p) \/ AutoQuit(p)
             \/ Enter(p) \/ Relink(p) \/ LinkLost(p) \/ Purge(p) \/ MobHits(p)
      PROVE  Eased
    BY <1>2, StandKeeps, LeavesKeeps, LinksKeep, OthersKeep DEF Quit, AutoQuit
<1>3. ASSUME NEW p \in Players, Violence(p) \/ Tick(p)
      PROVE  Eased
    BY <1>3, ViolenceKeeps, TickKeeps
<1>4. ASSUME NEW p \in Players, NEW r \in Rooms,
             Flee(p, r) \/ Walk(p, r) \/ ReturnFromLimbo(p, r)
      PROVE  Eased
    BY <1>4, MovesKeep
<1>5. CASE StartViolence \/ StartTick \/ TickCutShort
    BY <1>5, SameEased DEF StartViolence, StartTick, TickCutShort, StartPass, TypeOK, Chars, Duels
<1> QED
    BY <1>1, <1>2, <1>3, <1>4, <1>5 DEF Acts

LEMMA ActsKeep ==
    ASSUME TypeOK, Mutual(duel), Acts
    PROVE  Kept
<1>1. CASE \E p, q \in Players : Challenge(p, q) \/ Accept(p, q)
    BY <1>1, ChallengeKeeps, AcceptKeeps
<1>2. CASE \A p, q \in Players : ~Challenge(p, q) /\ ~Accept(p, q)
    BY <1>2, ActsEase DEF Eased
<1> QED
    BY <1>1, <1>2

LEMMA PassesType ==
    ASSUME TypeOK, Next
    PROVE  pulse' \in {"input", "violence", "tick"} /\ todo' \subseteq Players
<1>1. CASE UNCHANGED <<pulse, todo>>
    BY <1>1 DEF TypeOK
<1>2. ASSUME NEW p \in Players, Violence(p) \/ Tick(p)
      PROVE  pulse' \in {"input", "violence", "tick"} /\ todo' \subseteq Players
    BY <1>2 DEF Violence, Tick, Visits, TypeOK
<1>3. CASE StartViolence \/ StartTick \/ TickCutShort \/ EndPulse
    BY <1>3 DEF StartViolence, StartTick, StartPass, TickCutShort, EndPulse, TypeOK
<1>4. ASSUME NEW p \in Players, NEW q \in Players,
             \/ Challenge(p, q) \/ Accept(p, q) \/ Kill(p, q) \/ Kick(p, q) \/ Bash(p, q)
             \/ \E foe \in Players \cup {Mob} : Rescue(p, q, foe)
      PROVE  UNCHANGED <<pulse, todo>>
    BY <1>4 DEF Challenge, Accept, Kill, Kick, Bash, Rescue
<1>5. ASSUME NEW p \in Players,
             \/ Stand(p) \/ Quit(p) \/ AutoQuit(p)
             \/ Enter(p) \/ Relink(p) \/ LinkLost(p) \/ Purge(p) \/ MobHits(p)
             \/ \E r \in Rooms : Flee(p, r) \/ Walk(p, r) \/ ReturnFromLimbo(p, r)
      PROVE  UNCHANGED <<pulse, todo>>
    BY <1>5 DEF Stand, Quit, AutoQuit, Leaves, Enter, Relink, LinkLost, Purge, MobHits, Flee, Walk,
                ReturnFromLimbo
<1>6. CASE Acts
    BY <1>1, <1>2, <1>3, <1>4, <1>5, <1>6 DEF Acts
<1> QED
    BY <1>3, <1>6, NextIsActs

\* collect_all_garbage frees no one's duel but that of the freed.
LEMMA EndPulseKeeps ==
    ASSUME TypeOK, Mutual(duel), EndPulse
    PROVE  char' \in Chars /\ duel' \in Duels /\ DuelsMutual'
<1> DEFINE gone == {p \in Players : char[p].place = "extracted"}
<1>1. char' = [p \in Players |-> IF p \in gone THEN [char[p] EXCEPT !.place = "out"] ELSE char[p]]
    BY DEF EndPulse
<1>2. duel' = [p \in Players |-> IF p \in gone THEN NoDuel ELSE duel[p]]
    BY DEF EndPulse
<1> HIDE DEF gone
<1>3. char' \in Chars
    BY <1>1 DEF TypeOK, Chars, Char
<1>4. duel' \in Duels
    BY <1>2 DEF TypeOK, Duels
<1>5. \A p \in gone : p \in Players => char'[p].place = "out"
    BY <1>1 DEF TypeOK, Char
<1>6. \A p \in Players : duel[p] # NoDuel => duel[p].rival \in Players
    BY DEF TypeOK, Negotiation
<1>7. DuelsMutual'
    BY <1>2, <1>5, <1>6 DEF DuelsMutual, Mutual, HasDuel, IsAccepted
<1> QED
    BY <1>3, <1>4, <1>7

LEMMA InvariantKept ==
    ASSUME IInv, [Next]_vars
    PROVE  IInv'
<1>1. CASE UNCHANGED vars
    BY <1>1 DEF IInv, TypeOK, DuelsMutual, HasDuel, IsAccepted, vars
<1>2. CASE Next
    <2>1. TypeOK /\ Mutual(duel)
        BY <1>2, NobodyDangles DEF IInv
    <2>2. char' \in Chars /\ duel' \in Duels /\ DuelsMutual'
        <3>1. CASE Acts
            BY <2>1, <3>1, ActsKeep DEF Kept, Mutual, DuelsMutual, HasDuel, IsAccepted
        <3>2. CASE EndPulse
            BY <2>1, <3>2, EndPulseKeeps
        <3> QED
            BY <1>2, <3>1, <3>2, NextIsActs
    <2> QED
        BY <1>2, <2>1, <2>2, PassesType DEF IInv, TypeOK, Chars, Duels
<1> QED
    BY <1>1, <1>2

LEMMA InvariantHolds == Spec => []IInv
<1>1. Init => IInv
    BY DEF Init, IInv, TypeOK, Char, DuelsMutual, HasDuel
<1> QED
    BY <1>1, InvariantKept, PTL DEF Spec

-----------------------------------------------------------------------------
(***************************************************************************)
(* Running down.                                                           *)
(***************************************************************************)
RunsDown(p) ==
    HasDuel(p) /\ HasDuel(p)' =>
        LET q == duel[p].rival
        IN /\ duel'[p].rival = q
           /\ Tick(p) => duel'[p].ticks < duel[p].ticks
           /\ duel'[p].ticks > duel[p].ticks => ~Duelling(p, q) /\ Duelling(p, q)'
           /\ IsAccepted(p) => IsAccepted(p)'

LEMMA TicksTyped ==
    ASSUME NEW d \in Duels, NEW p \in Players
    PROVE  d[p].ticks \in Nat
    BY DuelAssumption DEF Duels, Negotiation, NoDuel

LEMMA TickLowers ==
    ASSUME TypeOK, NEW p \in Players, Tick(p), HasDuel(p), HasDuel(p)'
    PROVE  duel'[p].ticks < duel[p].ticks
<1> DEFINE d == TimedDuels(p)
<1>1. duel' = d \/ duel' = Terminated(d, p)
    BY DEF Tick
<1>2. d \in Duels /\ (d[p] # NoDuel => d[p].ticks < duel[p].ticks)
    BY TimedKeeps
<1>3. duel \in Duels
    BY DEF TypeOK, Duels
<1> HIDE DEF d
<1>4. Dwindles(d, duel') /\ duel' \in Duels
    BY <1>1, <1>2, TerminatedDwindles, TerminatedType
<1>5. d[p] # NoDuel /\ duel'[p].ticks <= d[p].ticks
    BY <1>4 DEF Dwindles, HasDuel
<1> QED
    BY <1>2, <1>3, <1>4, <1>5, TicksTyped

LEMMA EasedRunsDown ==
    ASSUME TypeOK, Eased, NEW p \in Players
    PROVE  RunsDown(p)
<1> SUFFICES ASSUME HasDuel(p), HasDuel(p)'
             PROVE  RunsDown(p)
    BY DEF RunsDown
<1>1. duel \in Duels /\ duel' \in Duels
    BY DEF TypeOK, Duels, Eased, Kept
<1>2. /\ duel'[p].rival = duel[p].rival
      /\ duel'[p].state = duel[p].state
      /\ duel'[p].ticks <= duel[p].ticks
    BY DEF Eased, Dwindles, HasDuel
<1>3. ~(duel'[p].ticks > duel[p].ticks)
    BY <1>1, <1>2, TicksTyped
<1>4. Tick(p) => duel'[p].ticks < duel[p].ticks
    BY TickLowers
<1> QED
    BY <1>2, <1>3, <1>4 DEF RunsDown, IsAccepted

\* A new duel: neither had one.
LEMMA ChallengeRunsDown ==
    ASSUME TypeOK, Mutual(duel), NEW p \in Players, NEW q \in Players, Challenge(p, q),
           NEW r \in Players
    PROVE  RunsDown(r)
<1>1. p # q /\ duel[q] = NoDuel /\ (duel[p] # NoDuel => duel[p].rival = q)
    BY DEF Challenge, MayChallenge, Together, TogetherIn, HasDuel
<1>2. duel[p] = NoDuel
    BY <1>1 DEF Mutual
<1> SUFFICES ASSUME HasDuel(r)
             PROVE  RunsDown(r)
    BY DEF RunsDown
<1>3. duel'[r] = duel[r]
    BY <1>1, <1>2 DEF Challenge, HasDuel, TypeOK
<1>4. ~(duel[r].ticks > duel[r].ticks)
    <2>1. duel \in Duels
        BY DEF TypeOK, Duels
    <2> QED
        BY <2>1, TicksTyped
<1>5. ~Tick(r)
    BY DEF Tick, Visits, Challenge, MayChallenge, Commands
<1> QED
    BY <1>3, <1>4, <1>5 DEF RunsDown, IsAccepted

\* The one step that puts the end off.
LEMMA AcceptRunsDown ==
    ASSUME TypeOK, Mutual(duel), NEW p \in Players, NEW q \in Players, Accept(p, q),
           NEW r \in Players
    PROVE  RunsDown(r)
<1>1. /\ p # q /\ duel[q] # NoDuel /\ duel[q].rival = p
      /\ duel[p].state # "Accepted"
    BY DEF Accept, MayChallenge, Together, TogetherIn, HasDuel, IsAccepted
<1>2. duel[p] # NoDuel /\ duel[p].rival = q
    BY <1>1 DEF Mutual
<1>3. duel[p] \in Negotiation /\ duel[q] \in Negotiation
    BY <1>1, <1>2 DEF TypeOK
<1> DEFINE mine == [duel[p] EXCEPT !.state = "Accepted", !.ticks = DuelTimeoutTicks]
           theirs == [duel[q] EXCEPT !.state = "Accepted", !.ticks = DuelTimeoutTicks]
<1>4. /\ mine.rival = q /\ mine.state = "Accepted"
      /\ theirs.rival = p /\ theirs.state = "Accepted"
    BY <1>1, <1>2, <1>3 DEF Negotiation
<1>5. duel' = [duel EXCEPT ![p] = mine, ![q] = theirs]
    BY <1>1 DEF Accept, TypeOK
<1> HIDE DEF mine, theirs
<1>6. duel'[p] = mine /\ duel'[q] = theirs /\ \A x \in Players \ {p, q} : duel'[x] = duel[x]
    BY <1>1, <1>5 DEF TypeOK
<1>7. ~Tick(r)
    BY DEF Tick, Visits, Accept, MayChallenge, Commands
<1>8. CASE r \in {p, q}
    <2>1. ~Duelling(p, q) /\ ~Duelling(q, p)
        BY <1>1 DEF Duelling, InProgress
    <2>2. Duelling(p, q)' /\ Duelling(q, p)'
        BY <1>4, <1>6 DEF Duelling, InProgress
    <2> QED
        BY <1>1, <1>2, <1>4, <1>6, <1>7, <1>8, <2>1, <2>2 DEF RunsDown, IsAccepted
<1>9. CASE r \notin {p, q}
    <2>1. duel'[r] = duel[r]
        BY <1>6, <1>9
    <2>2. ~(duel[r].ticks > duel[r].ticks)
        <3>1. duel \in Duels
            BY DEF TypeOK, Duels
        <3> QED
            BY <3>1, TicksTyped
    <2> QED
        BY <1>7, <2>1, <2>2 DEF RunsDown, IsAccepted
<1> QED
    BY <1>8, <1>9

LEMMA EndPulseRunsDown ==
    ASSUME TypeOK, EndPulse, NEW p \in Players
    PROVE  RunsDown(p)
<1>1. HasDuel(p)' => duel'[p] = duel[p]
    BY DEF EndPulse, HasDuel
<1>2. duel \in Duels
    BY DEF TypeOK, Duels
<1>3. ~Tick(p)
    BY DEF EndPulse, Tick, Visits
<1> QED
    BY <1>1, <1>2, <1>3, TicksTyped DEF RunsDown, IsAccepted

LEMMA NextRunsDown ==
    ASSUME IInv, Next, NEW p \in Players
    PROVE  RunsDown(p)
<1>1. TypeOK /\ Mutual(duel)
    BY NobodyDangles DEF IInv
<1>2. CASE EndPulse
    BY <1>1, <1>2, EndPulseRunsDown
<1>3. CASE \E q, r \in Players : Challenge(q, r) \/ Accept(q, r)
    BY <1>1, <1>3, ChallengeRunsDown, AcceptRunsDown
<1>4. CASE Acts /\ \A q, r \in Players : ~Challenge(q, r) /\ ~Accept(q, r)
    BY <1>1, <1>4, ActsEase, EasedRunsDown
<1> QED
    BY <1>2, <1>3, <1>4, NextIsActs

-----------------------------------------------------------------------------
\* Every variable of the duels keeps its type; that a timer is never below 1
\* while there is a duel, nor above the timeout, is part of it.
THEOREM DuelTypes == Spec => []TypeOK
    BY InvariantHolds, PTL DEF IInv

\* The two halves of a duel agree, whoever challenges, accepts, dies, flees,
\* quits, idles, loses the link or is purged, in whatever order
\* (send_invitation, accept_invitation, terminate_duel).
THEOREM DuelsAlwaysMutual == Spec => []DuelsMutual
    BY InvariantHolds, PTL DEF IInv

\* Every tick that visits a duellist brings the end of the duel nearer, and
\* nothing puts it off but that the invited one accepts, once
\* (check_duel_timeout, accept_invitation).
THEOREM EveryDuelRunsDown == Spec => DuelRunsDown
<1>1. IInv /\ [Next]_vars => [\A p \in Players : RunsDown(p)]_vars
    BY NextRunsDown
<1>2. Spec => [][\A p \in Players : RunsDown(p)]_vars
    BY <1>1, InvariantHolds, PTL DEF Spec
<1> QED
    BY <1>2 DEF DuelRunsDown, RunsDown

-----------------------------------------------------------------------------
(***************************************************************************)
(* Fights between players begin in duels: FightsBeginInDuels.              *)
(***************************************************************************)

\* Who fights in e and did not in c has cause to: a duel among d, or another
\* who fights him already.
Begins(c, d, e) ==
    \A x, y \in Players :
        e[x].fighting = y /\ c[x].fighting # y => InProgress(d, x, y) \/ c[y].fighting = x

\* Nobody in e fights whom he did not in c.
Calms(c, e) == \A x \in Players : e[x].fighting \in {c[x].fighting, NoOne}

-----------------------------------------------------------------------------
(***************************************************************************)
(* What calms.                                                             *)
(***************************************************************************)
LEMMA StopCalms ==
    ASSUME NEW c \in Chars, NEW ps
    PROVE  Calms(c, Stop(c, ps))
    BY DEF Chars, Char, Stop, Calms

LEMMA CalmsOn ==
    ASSUME NEW c, NEW e, NEW f, Calms(c, e), Calms(e, f)
    PROVE  Calms(c, f)
    BY DEF Calms

LEMMA PlacedCalms ==
    ASSUME NEW c \in Chars, NEW p \in Players, NEW r
    PROVE  Calms(c, [c EXCEPT ![p].place = r])
    BY DEF Chars, Char, Calms

LEMMA FallenCalms ==
    ASSUME NEW c \in Chars, NEW p \in Players
    PROVE  Calms(c, Fallen(c, p))
<1> DEFINE e == Stop(c, {p})
<1>1. e \in Chars /\ Calms(c, e)
    BY StopType, StopCalms
<1>2. Fallen(c, p) = [e EXCEPT ![p].position = "stunned"]
    BY DEF Fallen
<1> HIDE DEF e
<1> QED
    BY <1>1, <1>2 DEF Chars, Char, Calms

\* Deaths and departures.
LEMMA GoneCalms ==
    ASSUME NEW c \in Chars, NEW p \in Players
    PROVE  Calms(c, Slain(c, p)) /\ Calms(c, Defeated(c, p)) /\ Calms(c, Extracted(c, p))
<1> DEFINE e == Stop(c, Against(c, p))
<1>1. e \in Chars /\ Calms(c, e)
    BY StopType, StopCalms
<1>2. /\ Slain(c, p) = [e EXCEPT ![p].place = Altar, ![p].position = "resting"]
      /\ Defeated(c, p) = [e EXCEPT ![p].position = "resting"]
      /\ Extracted(c, p) = [e EXCEPT ![p].place = "extracted", ![p].linked = FALSE]
    BY DEF Slain, Defeated, Extracted
<1> HIDE DEF e
<1>3. \A x \in Players : /\ Slain(c, p)[x].fighting = e[x].fighting
                         /\ Defeated(c, p)[x].fighting = e[x].fighting
                         /\ Extracted(c, p)[x].fighting = e[x].fighting
    BY <1>1, <1>2 DEF Chars, Char
<1> QED
    BY <1>1, <1>3 DEF Calms

LEMMA SurvivedCalms ==
    ASSUME NEW c \in Chars, NEW p \in Players, NEW e \in Survived(c, p)
    PROVE  Calms(c, e)
<1>1. Calms(c, c)
    BY DEF Calms
<1>2. Fallen(c, p) \in Chars /\ Calms(c, Fallen(c, p))
    BY FallenType, FallenCalms
<1>3. Stop(c, Against(c, p)) \in Chars /\ Calms(c, Stop(c, Against(c, p)))
    BY StopType, StopCalms
<1>4. \A r \in Rooms : Calms(c, [Stop(c, Against(c, p)) EXCEPT ![p].place = r])
    BY <1>3, PlacedCalms, CalmsOn
<1>5. \A r \in Rooms : Calms(c, [Fallen(c, p) EXCEPT ![p].place = r])
    BY <1>2, PlacedCalms, CalmsOn
<1> QED
    BY <1>1, <1>2, <1>4, <1>5 DEF Survived

-----------------------------------------------------------------------------
(***************************************************************************)
(* What begins a fight.                                                    *)
(***************************************************************************)
LEMMA CalmBegins ==
    ASSUME NEW c, NEW d, NEW e, Calms(c, e)
    PROVE  Begins(c, d, e)
    BY DuelAssumption DEF Calms, Begins

LEMMA BeginsCalms ==
    ASSUME NEW c, NEW d, NEW e, NEW f, Begins(c, d, e), Calms(e, f)
    PROVE  Begins(c, d, f)
    BY DuelAssumption DEF Calms, Begins

LEMMA MutualProgress ==
    ASSUME NEW d \in Duels, Mutual(d), NEW x \in Players, NEW y \in Players, InProgress(d, x, y)
    PROVE  InProgress(d, y, x)
    BY DEF InProgress, Mutual, NoDuel

LEMMA BeginsOn ==
    ASSUME NEW c, NEW d \in Duels, NEW e, NEW d2 \in Duels, NEW f, Mutual(d), Dwindles(d, d2),
           Begins(c, d, e), Begins(e, d2, f)
    PROVE  Begins(c, d, f)
<1>1. \A x, y \in Players : InProgress(d2, x, y) => InProgress(d, x, y)
    BY DEF InProgress, Dwindles, NoDuel
<1> SUFFICES ASSUME NEW x \in Players, NEW y \in Players,
                    f[x].fighting = y, c[x].fighting # y, c[y].fighting # x
             PROVE  InProgress(d, x, y)
    BY DEF Begins
<1>2. CASE e[x].fighting = y
    BY <1>2 DEF Begins
<1>3. CASE e[x].fighting # y /\ InProgress(d2, x, y)
    BY <1>1, <1>3
<1>4. CASE e[y].fighting = x
    <2>1. InProgress(d, y, x) \/ c[x].fighting = y
        BY <1>4 DEF Begins
    <2> QED
        BY <2>1, MutualProgress
<1> QED
    BY <1>2, <1>3, <1>4 DEF Begins

LEMMA EngagedBegins ==
    ASSUME NEW c \in Chars, NEW d \in Duels, Mutual(d), NEW p \in Players, NEW q \in Players,
           ~SafeFrom(c, d, p, q)
    PROVE  Begins(c, d, Engaged(Engaged(c, q, p), p, q))
<1> DEFINE e == Engaged(Engaged(c, q, p), p, q)
<1>1. c[q].fighting # p => InProgress(d, p, q) /\ InProgress(d, q, p)
    BY MutualProgress DEF SafeFrom
<1>2. \A x \in Players : /\ x \notin {p, q} => e[x].fighting = c[x].fighting
                         /\ x \in {p, q} /\ e[x].fighting # c[x].fighting =>
                               \/ x = p /\ e[x].fighting = q
                               \/ x = q /\ e[x].fighting = p
    BY DEF Engaged, Chars, Char
<1> HIDE DEF e
<1>3. Begins(c, d, e)
    BY <1>1, <1>2 DEF Begins
<1> QED
    BY <1>3 DEF e

LEMMA StruckBegins ==
    ASSUME NEW c \in Chars, NEW d \in Duels, Mutual(d), NEW p \in Players, NEW q \in Players,
           NEW s \in Struck(c, d, p, q)
    PROVE  Begins(c, d, s[1])
<1> DEFINE e == IF c[q].position = "stunned" THEN c ELSE Engaged(Engaged(c, q, p), p, q)
<1>1. CASE SafeFrom(c, d, p, q)
    <2>1. s[1] = c
        BY <1>1 DEF Struck
    <2> QED
        BY <2>1 DEF Begins
<1>2. CASE ~SafeFrom(c, d, p, q)
    <2>1. e \in Chars
        BY EngagedType
    <2>2. Begins(c, d, c)
        BY DEF Begins
    <2>3. Begins(c, d, e)
        BY <1>2, <2>2, EngagedBegins
    <2>4. s \in Survived(e, q) \X {d}
               \cup {IF InProgress(d, p, q) THEN <<Defeated(e, q), Terminated(d, q)>>
                                           ELSE <<Slain(e, q), d>>}
        BY <1>2 DEF Struck
    <2> HIDE DEF e
    <2>5. s[1] \in Survived(e, q) \cup {Defeated(e, q), Slain(e, q)}
        BY <2>4
    <2>6. Calms(e, s[1])
        BY <2>1, <2>5, SurvivedCalms, GoneCalms
    <2> QED
        BY <2>3, <2>6, BeginsCalms
<1> QED
    BY <1>1, <1>2

LEMMA AssistedBegins ==
    ASSUME NEW c \in Chars, NEW d \in Duels, Mutual(d), NEW p \in Players, NEW q \in Players,
           NEW s \in Assisted(c, d, p, q)
    PROVE  Begins(c, d, s[1])
<1>1. CASE s = <<c, d>>
    BY <1>1 DEF Begins
<1>2. CASE \E r \in Players : s \in Struck(c, d, r, q)
    BY <1>2, StruckBegins
<1> QED
    BY <1>1, <1>2 DEF Assisted

-----------------------------------------------------------------------------
(***************************************************************************)
(* The steps.                                                              *)
(***************************************************************************)
Starts == Begins(char, duel, char')

LEMMA StruckStarts ==
    ASSUME TypeOK, Mutual(duel), NEW c \in Chars, Calms(char, c),
           NEW p \in Players, NEW q \in Players, Leads(Struck(c, duel, p, q))
    PROVE  Starts
<1>1. PICK s \in Struck(c, duel, p, q) : char' = s[1]
    BY DEF Leads
<1>2. duel \in Duels
    BY DEF TypeOK, Duels
<1>3. Begins(char, duel, c) /\ Begins(c, duel, s[1])
    BY <1>2, CalmBegins, StruckBegins
<1>4. Dwindles(duel, duel)
    BY <1>2, TerminatedDwindles
<1> QED
    BY <1>1, <1>2, <1>3, <1>4, BeginsOn DEF Starts

LEMMA StrikesStart ==
    ASSUME TypeOK, Mutual(duel), NEW p \in Players, NEW q \in Players,
           Kill(p, q) \/ Kick(p, q) \/ Bash(p, q)
    PROVE  Starts
<1> DEFINE down == [char EXCEPT ![q].position = "resting"]
           e == Engaged(Engaged(char, q, p), p, q)
           fallen == [e EXCEPT ![p].position = "resting"]
<1>1. char \in Chars /\ duel \in Duels
    BY DEF TypeOK, Chars, Duels
<1>2. Calms(char, char) /\ down \in Chars /\ Calms(char, down)
    BY <1>1 DEF Chars, Char, Calms
<1>3. \/ Leads(Struck(char, duel, p, q))
      \/ Leads(Struck(down, duel, p, q))
      \/ char' = fallen /\ ~SafeFrom(char, duel, p, q)
    BY DEF Kill, Kick, Bash, IsSafe
<1>4. ASSUME ~SafeFrom(char, duel, p, q)
      PROVE  Begins(char, duel, fallen)
    <2>1. Begins(char, duel, e) /\ e \in Chars
        BY <1>1, <1>4, EngagedBegins, EngagedType
    <2> HIDE DEF e
    <2>2. Calms(e, fallen)
        BY <2>1 DEF Chars, Char, Calms
    <2> QED
        BY <2>1, <2>2, BeginsCalms
<1> HIDE DEF down, fallen
<1> QED
    BY <1>1, <1>2, <1>3, <1>4, StruckStarts DEF Starts

LEMMA ViolenceStarts ==
    ASSUME TypeOK, Mutual(duel), NEW p \in Players, Violence(p)
    PROVE  Starts
<1> DEFINE q == char[p].fighting
<1>1. char \in Chars /\ duel \in Duels
    BY DEF TypeOK, Chars, Duels
<1>2. CASE char' \in {char, Stop(char, {p})}
    <2>1. Calms(char, char')
        BY <1>1, <1>2, StopCalms DEF Calms
    <2> QED
        BY <2>1, CalmBegins DEF Starts
<1>3. CASE /\ q \in Players
           /\ Leads(UNION {Assisted(s[1], s[2], p, q) : s \in Struck(char, duel, p, q)})
    <2>1. PICK s \in Struck(char, duel, p, q) :
              \E t \in Assisted(s[1], s[2], p, q) : char' = t[1] /\ duel' = t[2]
        BY <1>3 DEF Leads
    <2>2. PICK t \in Assisted(s[1], s[2], p, q) : char' = t[1]
        BY <2>1
    <2>3. s \in Blows(duel)
        BY <1>1, <1>3, StruckType
    <2>4. s[1] \in Chars /\ s[2] \in {duel} \cup {Terminated(duel, r) : r \in Players}
        BY <2>3 DEF Blows
    <2>5. s[2] \in Duels /\ Mutual(s[2]) /\ Dwindles(duel, s[2])
        BY <1>1, <2>4, TerminatedType, TerminatedMutual, TerminatedDwindles
    <2>6. Begins(char, duel, s[1])
        BY <1>1, <1>3, StruckBegins
    <2>7. Begins(s[1], s[2], t[1])
        BY <1>3, <2>4, <2>5, AssistedBegins
    <2> QED
        BY <1>1, <2>2, <2>5, <2>6, <2>7, BeginsOn DEF Starts
<1> QED
    BY <1>2, <1>3 DEF Violence

\* Whatever makes nobody fight.
LEMMA CalmSteps ==
    ASSUME TypeOK, NEW p \in Players,
           \/ Stand(p) \/ Leaves(p) \/ Purge(p)
           \/ Enter(p) \/ Relink(p) \/ LinkLost(p)
           \/ \E r \in Rooms : Flee(p, r) \/ Walk(p, r) \/ ReturnFromLimbo(p, r)
    PROVE  Calms(char, char')
<1>1. char \in Chars
    BY DEF TypeOK, Chars
<1>2. CASE Stand(p) \/ Relink(p) \/ LinkLost(p)
    BY <1>1, <1>2 DEF Stand, Relink, LinkLost, Chars, Char, Calms
<1>3. CASE Enter(p)
    <2>1. PICK r \in Rooms : char' = [char EXCEPT ![p].place = r, ![p].linked = TRUE]
        BY <1>3 DEF Enter
    <2> QED
        BY <1>1, <2>1 DEF Chars, Char, Calms
<1>4. CASE Leaves(p) \/ Purge(p)
    BY <1>1, <1>4, GoneCalms DEF Leaves, Purge
<1>5. ASSUME NEW r \in Rooms, Flee(p, r) \/ Walk(p, r) \/ ReturnFromLimbo(p, r)
      PROVE  Calms(char, char')
    <2> DEFINE e == Stop(char, Against(char, p))
    <2>1. e \in Chars /\ Calms(char, e)
        BY <1>1, StopType, StopCalms
    <2>2. char' \in {[e EXCEPT ![p].place = r], [char EXCEPT ![p].place = r]}
        BY <1>5 DEF Flee, Walk, ReturnFromLimbo
    <2> HIDE DEF e
    <2> QED
        BY <1>1, <2>1, <2>2, PlacedCalms, CalmsOn
<1> QED
    BY <1>2, <1>3, <1>4, <1>5

LEMMA MobHitsStarts ==
    ASSUME TypeOK, NEW p \in Players, MobHits(p)
    PROVE  Starts
<1> DEFINE c == IF char[p].position = "stunned" THEN char ELSE Engaged(char, p, Mob)
<1>1. char \in Chars
    BY DEF TypeOK, Chars
<1>2. c \in Chars
    BY <1>1, EngagedType
<1>3. Begins(char, duel, c)
    BY <1>1, DuelAssumption DEF Engaged, Chars, Char, Begins
<1>4. char' \in Survived(c, p) \cup {Slain(c, p)}
    BY DEF MobHits
<1> HIDE DEF c
<1>5. Calms(c, char')
    BY <1>2, <1>4, SurvivedCalms, GoneCalms
<1> QED
    BY <1>3, <1>5, BeginsCalms DEF Starts

LEMMA TickCalms ==
    ASSUME TypeOK, NEW p \in Players, Tick(p)
    PROVE  Calms(char, char')
<1>1. PICK c \in Recovered(p) :
          char' \in Bled(TimedFights(c, p), p) \cup Bled(ToLimbo(TimedFights(c, p), p), p)
    BY DEF Tick
<1>2. char \in Chars
    BY DEF TypeOK, Chars
<1>3. c \in Chars /\ Calms(char, c)
    BY <1>2 DEF Recovered, Chars, Char, Calms
<1> DEFINE e == TimedFights(c, p)
<1>4. e \in Chars /\ Calms(c, e)
    BY <1>3, TimedFightsType, StopCalms DEF TimedFights, StoppedByTime, Calms
<1> HIDE DEF e
<1> DEFINE f == IF e[p].fighting # NoOne THEN Stop(e, Against(e, p)) ELSE e
           g == ToLimbo(e, p)
<1>5. f \in Chars /\ Calms(e, f)
    BY <1>4, StopType, StopCalms DEF Calms
<1>6. g = [f EXCEPT ![p].place = "limbo"]
    BY DEF ToLimbo
<1> HIDE DEF f
<1>7. g \in Chars /\ Calms(e, g)
    BY <1>4, <1>5, <1>6, ToLimboType, PlacedCalms, CalmsOn
<1>8. char' \in Bled(e, p) \cup Bled(g, p)
    BY <1>1 DEF e
<1> HIDE DEF g
<1>9. \/ char' \in {e, Slain(e, p)}
      \/ char' \in {g, Slain(g, p)}
    BY <1>8 DEF Bled
<1>10. Calms(e, char')
    <2>1. Calms(e, e)
        BY DEF Calms
    <2> QED
        BY <1>4, <1>7, <1>9, <2>1, GoneCalms, CalmsOn
<1> QED
    BY <1>3, <1>4, <1>10, CalmsOn

\* A fight begins in a duel, by striking back, or in another's place.
LEMMA RescueHasCause ==
    ASSUME TypeOK, NEW p \in Players, NEW q \in Players, NEW foe \in Players \cup {Mob},
           Rescue(p, q, foe), NEW x \in Players, NEW y \in Players
    PROVE  HasCause(x, y)
<1> DEFINE c == Stop(char, {q, foe})
           e == Engaged(c, p, foe)
<1>1. char \in Chars
    BY DEF TypeOK, Chars
<1>2. c \in Chars /\ Calms(char, c) /\ e \in Chars
    BY <1>1, StopType, StopCalms, EngagedType
<1>3. \A z \in Players : e[z].fighting # c[z].fighting => z = p /\ e[z].fighting = foe
    BY <1>2 DEF Engaged, Chars, Char
<1>4. char' = IF foe = Mob THEN e ELSE Engaged(e, foe, p)
    BY DEF Rescue
<1> HIDE DEF c, e
<1>5. \A z \in Players : char'[z].fighting # e[z].fighting => z = foe /\ char'[z].fighting = p
    BY <1>2, <1>4 DEF Engaged, Chars, Char
<1>6. char[q].fighting = foe /\ (foe # Mob => char[foe].fighting = q)
    BY DEF Rescue
<1> SUFFICES ASSUME char'[x].fighting = y, char[x].fighting # y
             PROVE  HasCause(x, y)
    BY DEF HasCause
<1>7. c[x].fighting # y
    BY <1>2, DuelAssumption DEF Calms
<1>8. (x = p /\ y = foe) \/ (x = foe /\ y = p)
    BY <1>3, <1>5, <1>7
<1>9. foe # Mob
    BY <1>8, DuelAssumption
<1> QED
    BY <1>6, <1>8, <1>9 DEF HasCause

LEMMA StartsHasCause ==
    ASSUME Starts, NEW x \in Players, NEW y \in Players
    PROVE  HasCause(x, y)
    BY DEF Starts, Begins, HasCause, Duelling

LEMMA NextHasCause ==
    ASSUME IInv, Next, NEW x \in Players, NEW y \in Players
    PROVE  HasCause(x, y)
<1>1. TypeOK /\ Mutual(duel)
    BY NobodyDangles DEF IInv
<1>2. ASSUME NEW p \in Players, NEW q \in Players, Challenge(p, q) \/ Accept(p, q)
      PROVE  HasCause(x, y)
    BY <1>2 DEF Challenge, Accept, HasCause
<1>3. ASSUME NEW p \in Players, NEW q \in Players, Kill(p, q) \/ Kick(p, q) \/ Bash(p, q)
      PROVE  HasCause(x, y)
    BY <1>1, <1>3, StrikesStart, StartsHasCause
<1>4. ASSUME NEW p \in Players, NEW q \in Players, NEW foe \in Players \cup {Mob},
             Rescue(p, q, foe)
      PROVE  HasCause(x, y)
    BY <1>1, <1>4, RescueHasCause
<1>5. ASSUME NEW p \in Players, Violence(p) \/ MobHits(p)
      PROVE  HasCause(x, y)
    BY <1>1, <1>5, ViolenceStarts, MobHitsStarts, StartsHasCause
<1>6. ASSUME Calms(char, char')
      PROVE  HasCause(x, y)
    BY <1>6, CalmBegins, StartsHasCause DEF Starts
<1>7. ASSUME NEW p \in Players,
             \/ Stand(p) \/ Quit(p) \/ AutoQuit(p) \/ Purge(p)
             \/ Enter(p) \/ Relink(p) \/ LinkLost(p) \/ Tick(p)
             \/ \E r \in Rooms : Flee(p, r) \/ Walk(p, r) \/ ReturnFromLimbo(p, r)
      PROVE  HasCause(x, y)
    BY <1>1, <1>6, <1>7, CalmSteps, TickCalms DEF Quit, AutoQuit
<1>8. CASE StartViolence \/ StartTick \/ TickCutShort
    BY <1>8 DEF StartViolence, StartTick, StartPass, TickCutShort, HasCause
<1>9. CASE EndPulse
    <2>1. Calms(char, char')
        BY <1>1, <1>9 DEF EndPulse, Calms, TypeOK, Char
    <2> QED
        BY <1>6, <2>1
<1> QED
    BY <1>2, <1>3, <1>4, <1>5, <1>7, <1>8, <1>9, NextIsActs DEF Acts

-----------------------------------------------------------------------------
\* A fight between players begins in a duel both have accepted, by striking
\* back, or by taking another's place in one that had begun (is_safe,
\* set_fighting, do_rescue), whatever strikes, joins in, flees, dies or leaves.
THEOREM FightsNeedDuels == Spec => FightsBeginInDuels
<1>1. IInv /\ [Next]_vars => [\A p, q \in Players : HasCause(p, q)]_vars
    BY NextHasCause
<1>2. Spec => [][\A p, q \in Players : HasCause(p, q)]_vars
    BY <1>1, InvariantHolds, PTL DEF Spec
<1> QED
    BY <1>2 DEF FightsBeginInDuels

-----------------------------------------------------------------------------
(***************************************************************************)
(* The end of a duel ends the fight: DuelEndsFight.                        *)
(***************************************************************************)

\* Nobody fights q in e, nor q anybody who may duel.
LeftAlone(e, q) ==
    /\ e[q].fighting \notin Players
    /\ \A x \in Players : e[x].fighting # q

\* Where x and y are together, neither fights the other.
Apart(e, x, y) == TogetherIn(e, x, y) => e[x].fighting # y /\ e[y].fighting # x

Ended(d, e, x, y) == InProgress(d, x, y) /\ ~InProgress(e, x, y)

LEMMA LeftAloneApart ==
    ASSUME NEW e, NEW q \in Players, LeftAlone(e, q),
           NEW x \in Players, NEW y \in Players, q \in {x, y}
    PROVE  Apart(e, x, y)
    BY DEF LeftAlone, Apart

LEMMA LeftAloneOn ==
    ASSUME NEW c, NEW e, NEW q \in Players, LeftAlone(c, q), Calms(c, e)
    PROVE  LeftAlone(e, q)
    BY DuelAssumption DEF LeftAlone, Calms

LEMMA StopLeavesAlone ==
    ASSUME NEW c \in Chars, NEW q \in Players
    PROVE  LeftAlone(Stop(c, Against(c, q)), q)
<1> DEFINE e == Stop(c, Against(c, q))
<1>1. \A x \in Players : e[x].fighting = IF x \in Against(c, q) THEN NoOne ELSE c[x].fighting
    BY DEF Stop, Chars, Char
<1>2. q \in Against(c, q) /\ \A x \in Players : c[x].fighting = q => x \in Against(c, q)
    BY DEF Against
<1> HIDE DEF e
<1>3. LeftAlone(e, q)
    BY <1>1, <1>2, DuelAssumption DEF LeftAlone
<1> QED
    BY <1>3 DEF e

\* Deaths.
LEMMA DeadLeftAlone ==
    ASSUME NEW c \in Chars, NEW q \in Players
    PROVE  LeftAlone(Slain(c, q), q) /\ LeftAlone(Defeated(c, q), q)
<1> DEFINE e == Stop(c, Against(c, q))
<1>1. e \in Chars /\ LeftAlone(e, q)
    BY StopType, StopLeavesAlone
<1>2. /\ Slain(c, q) = [e EXCEPT ![q].place = Altar, ![q].position = "resting"]
      /\ Defeated(c, q) = [e EXCEPT ![q].position = "resting"]
    BY DEF Slain, Defeated
<1> HIDE DEF e
<1>3. \A x \in Players : /\ Slain(c, q)[x].fighting = e[x].fighting
                         /\ Defeated(c, q)[x].fighting = e[x].fighting
    BY <1>1, <1>2 DEF Chars, Char
<1> QED
    BY <1>1, <1>3 DEF LeftAlone

\* terminate_duel ends no duel but that of the one it is called for.
LEMMA TerminatedEnds ==
    ASSUME NEW d \in Duels, Mutual(d), NEW v \in Players, NEW x \in Players, NEW y \in Players,
           Ended(d, Terminated(d, v), x, y)
    PROVE  v \in {x, y}
<1>1. d[v] # NoDuel /\ (x \in {v, d[v].rival} \/ y \in {v, d[v].rival})
    BY DEF Ended, InProgress, Terminated
<1>2. d[v].rival \in Players /\ d[d[v].rival].rival = v
    BY <1>1 DEF Mutual, Duels, Negotiation
<1>3. d[x].rival = y /\ d[y].rival = x
    BY MutualProgress DEF Ended, InProgress
<1> QED
    BY <1>1, <1>2, <1>3

\* A blow that ends a duel leaves the one it struck alone.
LEMMA StruckEnds ==
    ASSUME NEW c \in Chars, NEW d \in Duels, Mutual(d), NEW p \in Players, NEW q \in Players,
           NEW s \in Struck(c, d, p, q),
           NEW x \in Players, NEW y \in Players, Ended(d, s[2], x, y)
    PROVE  q \in {x, y} /\ LeftAlone(s[1], q)
<1> DEFINE e == IF c[q].position = "stunned" THEN c ELSE Engaged(Engaged(c, q, p), p, q)
<1>1. e \in Chars
    BY EngagedType
<1>2. s[2] # d
    BY DEF Ended
<1>3. s \in IF SafeFrom(c, d, p, q)
            THEN {<<c, d>>}
            ELSE Survived(e, q) \X {d}
                 \cup {IF InProgress(d, p, q) THEN <<Defeated(e, q), Terminated(d, q)>>
                                             ELSE <<Slain(e, q), d>>}
    BY DEF Struck
<1> HIDE DEF e
<1>4. s = <<Defeated(e, q), Terminated(d, q)>>
    BY <1>2, <1>3
<1> QED
    BY <1>1, <1>4, DeadLeftAlone, TerminatedEnds

\* And so does a companion's; after the first blow has ended the duel nobody
\* joins in.
LEMMA RoundEnds ==
    ASSUME NEW c \in Chars, NEW d \in Duels, Mutual(d), NEW p \in Players, NEW q \in Players,
           NEW s \in Struck(c, d, p, q), NEW t \in Assisted(s[1], s[2], p, q),
           NEW x \in Players, NEW y \in Players, Ended(d, t[2], x, y)
    PROVE  q \in {x, y} /\ LeftAlone(t[1], q)
<1> DEFINE e == s[1]
           f == s[2]
<1>1. s \in Blows(d)
    BY StruckType
<1>2. e \in Chars /\ f \in {d} \cup {Terminated(d, r) : r \in Players}
    BY <1>1 DEF Blows
<1>3. f \in Duels /\ Mutual(f)
    BY <1>2, TerminatedType, TerminatedMutual
<1>4. t = <<e, f>> \/ (e[p].fighting = q /\ \E r \in Players : t \in Struck(e, f, r, q))
    BY DEF Assisted
<1>5. CASE Ended(d, f, x, y)
    <2>1. q \in {x, y} /\ LeftAlone(e, q)
        BY <1>5, StruckEnds
    <2>2. t = <<e, f>>
        BY <1>4, <2>1 DEF LeftAlone
    <2> QED
        BY <2>1, <2>2
<1>6. CASE ~Ended(d, f, x, y)
    <2>1. Ended(f, t[2], x, y)
        BY <1>6 DEF Ended
    <2>2. PICK r \in Players : t \in Struck(e, f, r, q)
        BY <1>4, <2>1 DEF Ended
    <2> HIDE DEF e, f
    <2> QED
        BY <1>2, <1>3, <2>1, <2>2, StruckEnds
<1> QED
    BY <1>5, <1>6

-----------------------------------------------------------------------------
(***************************************************************************)
(* The steps.                                                              *)
(***************************************************************************)
\* DuelEndsFight, of x and y.
EndsFight(x, y) ==
    /\ Ended(duel, duel', x, y)
    /\ char[x].linked = char'[x].linked /\ char[y].linked = char'[y].linked
    => Apart(char', x, y)

LEMMA StruckEndsFight ==
    ASSUME TypeOK, Mutual(duel), NEW c \in Chars, NEW p \in Players, NEW q \in Players,
           Leads(Struck(c, duel, p, q)), NEW x \in Players, NEW y \in Players
    PROVE  EndsFight(x, y)
<1>1. PICK s \in Struck(c, duel, p, q) : char' = s[1] /\ duel' = s[2]
    BY DEF Leads
<1>2. duel \in Duels
    BY DEF TypeOK, Duels
<1> QED
    BY <1>1, <1>2, StruckEnds, LeftAloneApart DEF EndsFight

LEMMA StrikesEndFight ==
    ASSUME TypeOK, Mutual(duel), NEW p \in Players, NEW q \in Players,
           Kill(p, q) \/ Kick(p, q) \/ Bash(p, q), NEW x \in Players, NEW y \in Players
    PROVE  EndsFight(x, y)
<1> DEFINE down == [char EXCEPT ![q].position = "resting"]
<1>1. char \in Chars /\ down \in Chars
    BY DEF TypeOK, Chars, Char
<1>2. \/ Leads(Struck(char, duel, p, q))
      \/ Leads(Struck(down, duel, p, q))
      \/ duel' = duel
    BY DEF Kill, Kick, Bash
<1> HIDE DEF down
<1>3. CASE duel' = duel
    BY <1>3 DEF EndsFight, Ended
<1> QED
    BY <1>1, <1>2, <1>3, StruckEndsFight

LEMMA ViolenceEndsFight ==
    ASSUME TypeOK, Mutual(duel), NEW p \in Players, Violence(p),
           NEW x \in Players, NEW y \in Players
    PROVE  EndsFight(x, y)
<1> DEFINE q == char[p].fighting
<1>1. char \in Chars /\ duel \in Duels
    BY DEF TypeOK, Chars, Duels
<1>2. CASE duel' = duel
    BY <1>2 DEF EndsFight, Ended
<1>3. CASE /\ q \in Players
           /\ Leads(UNION {Assisted(s[1], s[2], p, q) : s \in Struck(char, duel, p, q)})
    <2>1. PICK s \in Struck(char, duel, p, q) :
              \E t \in Assisted(s[1], s[2], p, q) : char' = t[1] /\ duel' = t[2]
        BY <1>3 DEF Leads
    <2>2. PICK t \in Assisted(s[1], s[2], p, q) : char' = t[1] /\ duel' = t[2]
        BY <2>1
    <2> HIDE DEF q
    <2> QED
        BY <1>1, <1>3, <2>2, RoundEnds, LeftAloneApart DEF EndsFight
<1> QED
    BY <1>2, <1>3 DEF Violence

\* do_quit and its like, and a lost link: whoever goes is not together with
\* the rival, or is not linked any more.
LEMMA LeavesEndsFight ==
    ASSUME TypeOK, Mutual(duel), NEW p \in Players, Leaves(p) \/ LinkLost(p),
           NEW x \in Players, NEW y \in Players
    PROVE  EndsFight(x, y)
<1>1. char \in Chars /\ duel \in Duels
    BY DEF TypeOK, Chars, Duels
<1>2. duel' = Terminated(duel, p)
    BY DEF Leaves, LinkLost
<1> SUFFICES ASSUME Ended(duel, duel', x, y),
                    char[x].linked = char'[x].linked, char[y].linked = char'[y].linked
             PROVE  Apart(char', x, y)
    BY DEF EndsFight
<1>3. p \in {x, y}
    BY <1>1, <1>2, TerminatedEnds
<1>4. CASE Leaves(p)
    <2>1. Stop(char, Against(char, p)) \in Chars
        BY <1>1, StopType
    <2>2. char'[p].place = "extracted"
        BY <1>4, <2>1 DEF Leaves, Extracted, Chars, Char
    <2> QED
        BY <1>3, <2>2, DuelAssumption DEF Apart, TogetherIn
<1>5. CASE LinkLost(p)
    BY <1>1, <1>3, <1>5 DEF LinkLost, Chars, Char
<1> QED
    BY <1>4, <1>5

\* collect_all_garbage.
LEMMA EndPulseEndsFight ==
    ASSUME TypeOK, EndPulse, NEW x \in Players, NEW y \in Players
    PROVE  EndsFight(x, y)
<1> DEFINE gone == {p \in Players : char[p].place = "extracted"}
<1>1. char' = [p \in Players |-> IF p \in gone THEN [char[p] EXCEPT !.place = "out"] ELSE char[p]]
    BY DEF EndPulse
<1>2. duel' = [p \in Players |-> IF p \in gone THEN NoDuel ELSE duel[p]]
    BY DEF EndPulse
<1> HIDE DEF gone
<1>3. \A p \in gone : p \in Players => char'[p].place = "out"
    BY <1>1 DEF TypeOK, Char
<1>4. Ended(duel, duel', x, y) => x \in gone \/ y \in gone
    BY <1>2 DEF Ended, InProgress
<1> QED
    BY <1>3, <1>4, DuelAssumption DEF EndsFight, Apart, TogetherIn

\* check_duel_timeout ends a duel only with its fight.
LEMMA TimedEnds ==
    ASSUME TypeOK, Mutual(duel), NEW v \in Players, NEW x \in Players, NEW y \in Players,
           Ended(duel, TimedDuels(v), x, y), NEW c \in Chars
    PROVE  /\ v \in {x, y}
           /\ TimedFights(c, v)[x].fighting # y
           /\ TimedFights(c, v)[y].fighting # x
<1>1. duel \in Duels
    BY DEF TypeOK, Duels
<1>2. HasDuel(v) /\ TimeRunsOut(v)
    <2>1. TimedDuels(v) # duel
        BY DEF Ended
    <2>2. CASE HasDuel(v) /\ ~TimeRunsOut(v)
        <3>1. TimedDuels(v) = [duel EXCEPT ![v].ticks = @ - 1]
            BY <2>2 DEF TimedDuels
        <3>2. duel[v] \in Negotiation
            BY <2>2 DEF HasDuel, TypeOK
        <3>3. \A z \in Players : /\ TimedDuels(v)[z].state = duel[z].state
                                 /\ TimedDuels(v)[z].rival = duel[z].rival
            BY <1>1, <3>1, <3>2 DEF Duels, Negotiation
        <3> QED
            BY <3>3 DEF Ended, InProgress
    <2> QED
        BY <2>1, <2>2 DEF TimedDuels
<1>3. v \in {x, y}
    BY <1>1, <1>2, TerminatedEnds DEF TimedDuels
<1>4. Duelling(x, y) /\ Duelling(y, x) /\ duel[x].rival = y /\ duel[y].rival = x
    BY <1>1, MutualProgress DEF Ended, Duelling, InProgress
<1>5. TimedFights(c, v) = StoppedByTime(c, v, duel[v].rival)
    BY <1>2, <1>3, <1>4 DEF TimedFights
<1>6. {v, duel[v].rival} = {x, y}
    BY <1>3, <1>4
<1>7. \A w \in Players : /\ StoppedByTime(c, v, w)[v].fighting # w
                         /\ StoppedByTime(c, v, w)[w].fighting # v
    BY DuelAssumption DEF StoppedByTime, Stop, Chars, Char
<1> QED
    BY <1>3, <1>4, <1>5, <1>6, <1>7

LEMMA TickEndsFight ==
    ASSUME TypeOK, Mutual(duel), NEW v \in Players, Tick(v), NEW x \in Players, NEW y \in Players
    PROVE  EndsFight(x, y)
<1>1. PICK c \in Recovered(v) :
          \/ /\ char' \in Bled(TimedFights(c, v), v)
             /\ duel' = TimedDuels(v)
          \/ /\ char' \in Bled(ToLimbo(TimedFights(c, v), v), v)
             /\ duel' = Terminated(TimedDuels(v), v)
    BY DEF Tick
<1> DEFINE e == TimedFights(c, v)
           g == ToLimbo(e, v)
           d == TimedDuels(v)
<1>2. c \in Chars
    BY DEF Recovered, TypeOK, Chars, Char
<1>3. e \in Chars /\ g \in Chars
    BY <1>2, TimedFightsType, ToLimboType
<1>4. d \in Duels /\ Mutual(d)
    BY TimedKeeps
<1>5. Ended(duel, d, x, y) => v \in {x, y} /\ e[x].fighting # y /\ e[y].fighting # x
    BY <1>2, TimedEnds
<1>6. g[v].place = "limbo"
    <2> DEFINE f == IF e[v].fighting # NoOne THEN Stop(e, Against(e, v)) ELSE e
    <2>1. f \in Chars
        BY <1>3, StopType
    <2>2. g = [f EXCEPT ![v].place = "limbo"]
        BY DEF ToLimbo
    <2> HIDE DEF f, g
    <2> QED
        BY <2>1, <2>2 DEF Chars, Char
<1>7. \/ char' \in {e, Slain(e, v)} /\ duel' = d
      \/ char' \in {g, Slain(g, v)} /\ duel' = Terminated(d, v)
    BY <1>1 DEF Bled
<1> HIDE DEF e, g, d
<1> SUFFICES ASSUME Ended(duel, duel', x, y)
             PROVE  Apart(char', x, y)
    BY DEF EndsFight
<1>8. v \in {x, y}
    <2>1. Ended(duel, d, x, y) \/ Ended(d, duel', x, y)
        BY DEF Ended
    <2> QED
        BY <1>4, <1>5, <1>7, <2>1, TerminatedEnds DEF Ended
<1>9. CASE char' = e /\ duel' = d
    BY <1>5, <1>9 DEF Apart
<1>10. CASE char' = g
    BY <1>6, <1>8, <1>10, DuelAssumption DEF Apart, TogetherIn
<1>11. CASE char' = Slain(e, v) \/ char' = Slain(g, v)
    BY <1>3, <1>8, <1>11, DeadLeftAlone, LeftAloneApart
<1> QED
    BY <1>7, <1>9, <1>10, <1>11

\* No invitation is sent or accepted at the cost of a duel.
LEMMA OffersEndNone ==
    ASSUME TypeOK, Mutual(duel), NEW p \in Players, NEW q \in Players,
           Challenge(p, q) \/ Accept(p, q), NEW x \in Players, NEW y \in Players
    PROVE  ~Ended(duel, duel', x, y)
<1> SUFFICES ASSUME InProgress(duel, x, y)
             PROVE  InProgress(duel', x, y)
    BY DEF Ended
<1>1. CASE Challenge(p, q)
    <2>1. duel[q] = NoDuel /\ (duel[p] # NoDuel => duel[p].rival = q)
        BY <1>1 DEF Challenge, MayChallenge, HasDuel
    <2>2. duel[p] = NoDuel
        BY <2>1 DEF Mutual
    <2>3. x \notin {p, q} /\ y \notin {p, q}
        BY <2>1, <2>2 DEF InProgress, NoDuel
    <2>4. duel'[x] = duel[x] /\ duel'[y] = duel[y]
        BY <1>1, <2>3 DEF Challenge, TypeOK
    <2> QED
        BY <2>4 DEF InProgress
<1>2. CASE Accept(p, q)
    <2>1. duel[p] \in Negotiation /\ duel[q] \in Negotiation /\ p # q
        BY <1>2 DEF Accept, MayChallenge, HasDuel, Together, TogetherIn, Mutual, TypeOK
    <2>2. \A z \in Players : /\ duel'[z].rival = duel[z].rival
                             /\ duel'[z].state \in {duel[z].state, "Accepted"}
        BY <1>2, <2>1 DEF Accept, TypeOK, Negotiation
    <2> QED
        BY <2>2 DEF InProgress
<1> QED
    BY <1>1, <1>2

LEMMA NextEndsFight ==
    ASSUME IInv, Next, NEW x \in Players, NEW y \in Players
    PROVE  EndsFight(x, y)
<1>1. TypeOK /\ Mutual(duel)
    BY NobodyDangles DEF IInv
<1>2. CASE duel' = duel
    BY <1>2 DEF EndsFight, Ended
<1>3. ASSUME NEW p \in Players, NEW q \in Players, Challenge(p, q) \/ Accept(p, q)
      PROVE  EndsFight(x, y)
    BY <1>1, <1>3, OffersEndNone DEF EndsFight
<1>4. ASSUME NEW p \in Players, NEW q \in Players, Kill(p, q) \/ Kick(p, q) \/ Bash(p, q)
      PROVE  EndsFight(x, y)
    BY <1>1, <1>4, StrikesEndFight
<1>5. ASSUME NEW p \in Players, NEW q \in Players, NEW foe \in Players \cup {Mob},
             Rescue(p, q, foe)
      PROVE  EndsFight(x, y)
    BY <1>2, <1>5 DEF Rescue
<1>6. ASSUME NEW p \in Players, Violence(p) \/ Tick(p) \/ Quit(p) \/ AutoQuit(p) \/ LinkLost(p)
      PROVE  EndsFight(x, y)
    BY <1>1, <1>6, ViolenceEndsFight, TickEndsFight, LeavesEndsFight DEF Quit, AutoQuit
<1>7. ASSUME NEW p \in Players,
             \/ Stand(p) \/ Enter(p) \/ Relink(p) \/ Purge(p) \/ MobHits(p)
             \/ \E r \in Rooms : Flee(p, r) \/ Walk(p, r) \/ ReturnFromLimbo(p, r)
      PROVE  EndsFight(x, y)
    BY <1>2, <1>7 DEF Stand, Enter, Relink, Purge, MobHits, Flee, Walk, ReturnFromLimbo
<1>8. CASE StartViolence \/ StartTick \/ TickCutShort
    BY <1>2, <1>8 DEF StartViolence, StartTick, StartPass, TickCutShort
<1>9. CASE EndPulse
    BY <1>1, <1>9, EndPulseEndsFight
<1> QED
    BY <1>3, <1>4, <1>5, <1>6, <1>7, <1>8, <1>9, NextIsActs DEF Acts

-----------------------------------------------------------------------------
\* When a duel ends, by a defeat, by the clock or because one of the two is
\* gone, and they are still in one room and linked as before, then neither
\* fights the other (raw_kill, check_duel_timeout, terminate_duel).
THEOREM EndedDuelsEndFights == Spec => DuelEndsFight
<1> DEFINE Separates(p, q) ==
               /\ Duelling(p, q) /\ ~Duelling(p, q)'
               /\ char[p].linked = char'[p].linked /\ char[q].linked = char'[q].linked
               /\ Together(p, q)'
               => char'[p].fighting # q /\ char'[q].fighting # p
<1>1. \A p, q \in Players : EndsFight(p, q) => Separates(p, q)
    BY DEF EndsFight, Ended, Apart, Together, Duelling
<1>2. IInv /\ [Next]_vars => [\A p, q \in Players : Separates(p, q)]_vars
    BY <1>1, NextEndsFight
<1>3. Spec => [][\A p, q \in Players : Separates(p, q)]_vars
    BY <1>2, InvariantHolds, PTL DEF Spec
<1> QED
    BY <1>3 DEF DuelEndsFight
=============================================================================
