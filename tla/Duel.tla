-------------------------------- MODULE Duel --------------------------------
(***************************************************************************)
(* Duels between players (Duel.cpp), and as much of fighting as decides    *)
(* what a duel permits: starting and stopping fights (fight.cpp), the      *)
(* rounds of violence_update and the ticks of char_update, and the ways in *)
(* which a duellist leaves.                                                *)
(*                                                                         *)
(* Every player is a mortal whom validate_duellists would accept but for   *)
(* position and link.  Hit points are abstracted to what a blow leads to;  *)
(* "stunned" stands for Stunned, Incap and Mortal; sitting, sleeping and   *)
(* resting of one's own accord are left out, as are poison and the KILLER  *)
(* flag, which stops nobody.  Mobiles, when there are any, are one         *)
(* assailant, Mob, who may be met in every room that is not safe.          *)
(***************************************************************************)
EXTENDS Naturals, FiniteSets

CONSTANTS
    Players,
    NoOne,
    Mob,
    Rooms,
    Safe,                    \* rooms with RoomFlag::Safe
    Altar,                   \* Rooms::MidgaardAltar, where the dead awake
    InvitationTimeoutTicks,
    DuelTimeoutTicks,
    Grouped,                 \* whether the players are one group
    Events                   \* which of "mob", "purge", "plague" occur

ASSUME DuelAssumption ==
    /\ NoOne \notin Players
    /\ Mob \notin Players \cup {NoOne}
    /\ Safe \subseteq Rooms
    /\ Altar \in Rooms
    /\ {"out", "limbo", "extracted"} \cap Rooms = {}
    /\ InvitationTimeoutTicks \in Nat \ {0}
    /\ DuelTimeoutTicks \in Nat
    /\ DuelTimeoutTicks >= InvitationTimeoutTicks
    /\ Grouped \in BOOLEAN

VARIABLES
    pulse,   \* the part of the pulse: "input", "violence" or "tick"
    todo,    \* who is still to be visited in this pass over char_list
    char,    \* the Char of each player
    duel     \* its pcdata->duel

vars == <<pulse, todo, char, duel>>

Char == [place    : Rooms \cup {"out", "limbo", "extracted"},
         linked   : BOOLEAN,                   \* desc # nullptr
         position : {"standing", "fighting", "resting", "stunned"},
         fighting : Players \cup {NoOne, Mob}]

NoDuel == [rival |-> NoOne, ticks |-> 0, state |-> "None"]

Negotiation == [rival : Players,
                ticks : 1 .. DuelTimeoutTicks,
                state : {"Invited", "Accepted"}]

TypeOK ==
    /\ pulse \in {"input", "violence", "tick"}
    /\ todo \subseteq Players
    /\ char \in [Players -> Char]
    /\ duel \in [Players -> Negotiation \cup {NoDuel}]

Init ==
    /\ pulse = "input"
    /\ todo = {}
    /\ char = [p \in Players |-> [place |-> "out", linked |-> FALSE, position |-> "standing",
                                  fighting |-> NoOne]]
    /\ duel = [p \in Players |-> NoDuel]

-----------------------------------------------------------------------------
HasDuel(p) == duel[p] # NoDuel

IsAccepted(p) == duel[p].state = "Accepted"

InProgressForOne(d, p, q) == \* mutant: whether q has accepted is not asked
    d[p].state = "Accepted" /\ d[p].rival = q

\* is_duel_in_progress, of the duels d.
InProgress(d, p, q) ==
    d[p].state = "Accepted" /\ d[q].state = "Accepted" /\ d[p].rival = q

Duelling(p, q) == InProgress(duel, p, q)

TerminatedOneSided(d, p) ==  \* mutant: the rival's half stays
    [d EXCEPT ![p] = NoDuel]

\* terminate_duel.
Terminated(d, p) ==
    [q \in Players |-> IF d[p] # NoDuel /\ q \in {p, d[p].rival} THEN NoDuel ELSE d[q]]

-----------------------------------------------------------------------------
(***************************************************************************)
(* Fights, as functions of what the characters, c, and duels, d, were.     *)
(***************************************************************************)
InRoom(p) == char[p].place \in Rooms

TogetherIn(c, p, q) == p # q /\ c[p].place \in Rooms /\ c[p].place = c[q].place

Together(p, q) == TogetherIn(char, p, q)

\* stop_fighting of the characters ps; update_pos leaves the wounded down.
Stop(c, ps) ==
    [p \in Players |->
        IF p \notin ps
        THEN c[p]
        ELSE [c[p] EXCEPT !.fighting = NoOne,
                          !.position = IF @ = "stunned" THEN @ ELSE "standing"]]

Against(c, p) == {p} \cup {q \in Players : c[q].fighting = p}

\* set_fighting.
Engaged(c, p, foe) ==
    IF c[p].fighting # NoOne
    THEN c
    ELSE [c EXCEPT ![p].fighting = foe, ![p].position = "fighting"]

\* is_safe; spells (is_safe_spell) never hit a player first.
SafeFrom(c, d, p, q) ==
    \/ c[p].place \in Safe
    \/ c[q].fighting # p /\ ~InProgress(d, p, q)

IsSafe(p, q) == SafeFrom(char, duel, p, q)

\* extract_char, from the world.
Extracted(c, p) ==
    [Stop(c, Against(c, p)) EXCEPT ![p].place = "extracted", ![p].linked = FALSE]

\* raw_kill by the rival in a duel, which ends it ...
Defeated(c, p) == [Stop(c, Against(c, p)) EXCEPT ![p].position = "resting"]

\* ... and by whatever else: p awakes at the altar, what it owned is in its
\* corpse, and experience is lost.
Slain(c, p) ==
    [Stop(c, Against(c, p)) EXCEPT ![p].place = Altar, ![p].position = "resting"]

Fallen(c, p) == [Stop(c, {p}) EXCEPT ![p].position = "stunned"]

\* What becomes of p when a blow did not kill it: nothing, it falls, it runs
\* (wimpy, do_flee), or, without its link, it recalls (do_recall).
Survived(c, p) ==
    LET elsewhere == Rooms \ {c[p].place}
    IN {c, Fallen(c, p)}
       \cup {[Stop(c, Against(c, p)) EXCEPT ![p].place = r] :
                r \in {r \in elsewhere : c[p].position # "stunned"}}
       \cup {[Fallen(c, p) EXCEPT ![p].place = r] : r \in {r \in elsewhere : ~c[p].linked}}

\* One or more calls of damage by p upon q: what it may leave of <<c, d>>,
\* which is all as it was if q is safe from p.
Struck(c, d, p, q) ==
    LET e == IF c[q].position = "stunned" THEN c ELSE Engaged(Engaged(c, q, p), p, q)
    IN IF SafeFrom(c, d, p, q)
       THEN {<<c, d>>}
       ELSE Survived(e, q) \X {d}
            \cup {IF InProgress(d, p, q) THEN <<Defeated(e, q), Terminated(d, q)>>
                                        ELSE <<Slain(e, q), d>>}

\* check_assist, by at most one of p's group, where p fights q.
Assisted(c, d, p, q) ==
    {<<c, d>>}
    \cup UNION {Struck(c, d, r, q) :
                r \in {r \in Players \ {p, q} :
                        /\ Grouped
                        /\ c[p].fighting = q
                        /\ TogetherIn(c, p, r) /\ TogetherIn(c, r, q)
                        /\ c[r].position # "stunned"
                        /\ c[r].fighting = NoOne}}

Leads(to) == \E s \in to : char' = s[1] /\ duel' = s[2]

-----------------------------------------------------------------------------
(***************************************************************************)
(* Commands.                                                               *)
(***************************************************************************)
\* p is linked, and in a position not below those in ps.
Commands(p, ps) ==
    /\ pulse = "input"
    /\ InRoom(p)
    /\ char[p].linked
    /\ char[p].position \in ps

\* do_duel, when it has an effect; validate_duellists, then negotiate_duel.
MayChallenge(p, q) ==
    /\ Commands(p, {"standing"})
    /\ Together(p, q)
    /\ char[p].place \notin Safe
    /\ char[q].position = "standing"
    /\ char[q].linked
    /\ ~IsAccepted(p)
    /\ HasDuel(p) => duel[p].rival = q

Offer(q, state, ticks) == [rival |-> q, ticks |-> ticks, state |-> state]

\* send_invitation.
Challenge(p, q) ==
    /\ MayChallenge(p, q)
    /\ ~HasDuel(q)
    /\ duel' = [duel EXCEPT ![p] = Offer(q, "Accepted", InvitationTimeoutTicks),
                            ![q] = Offer(p, "Invited", InvitationTimeoutTicks)]
    /\ UNCHANGED <<pulse, todo, char>>

\* accept_invitation.
Accept(p, q) ==
    /\ MayChallenge(p, q)
    /\ HasDuel(q)
    /\ duel[q].rival = p
    /\ duel' = [duel EXCEPT ![p].state = "Accepted", ![p].ticks = DuelTimeoutTicks,
                            ![q].state = "Accepted", ![q].ticks = DuelTimeoutTicks]
    /\ UNCHANGED <<pulse, todo, char>>

\* "Kill stealing is not permitted."
Stealing(p, q) == char[q].fighting \notin {NoOne, p} /\ ~(Grouped /\ char[q].fighting # Mob)

\* do_kill.
Kill(p, q) ==
    /\ Commands(p, {"standing"})
    /\ Together(p, q)
    /\ ~IsSafe(p, q)
    /\ ~Stealing(p, q)
    /\ Leads(Struck(char, duel, p, q))
    /\ UNCHANGED <<pulse, todo>>

\* do_kick; do_headbutt and the spells of one who is fought already do no more.
Kick(p, q) ==
    /\ Commands(p, {"fighting", "standing"})
    /\ Together(p, q)
    /\ char[p].fighting \in {NoOne, q}
    /\ Leads(Struck(char, duel, p, q))
    /\ UNCHANGED <<pulse, todo>>

\* do_bash, which throws q down or p; set_fighting raises whoever had not been
\* fighting.
Bash(p, q) ==
    /\ Commands(p, {"fighting", "standing"})
    /\ Together(p, q)
    /\ char[q].position \notin {"resting", "stunned"}
    /\ ~IsSafe(p, q)
    /\ ~Stealing(p, q)
    /\ \/ Leads(Struck([char EXCEPT ![q].position = "resting"], duel, p, q))
       \/ /\ char' = [Engaged(Engaged(char, q, p), p, q) EXCEPT ![p].position = "resting"]
          /\ UNCHANGED duel
    /\ UNCHANGED <<pulse, todo>>

\* do_rescue: p takes q's place against foe, whoever that is.
Rescue(p, q, foe) ==
    /\ Grouped
    /\ Commands(p, {"fighting", "standing"})
    /\ Together(p, q)
    /\ char[p].fighting # q
    /\ char[q].fighting = foe
    /\ foe # Mob => char[foe].fighting = q
    /\ LET c == Engaged(Stop(char, {q, foe}), p, foe)
       IN char' = IF foe = Mob THEN c ELSE Engaged(c, foe, p)
    /\ UNCHANGED <<pulse, todo, duel>>

\* do_flee and do_recall; neither is certain to succeed.
Flee(p, r) ==
    /\ Commands(p, {"fighting", "standing"})
    /\ r # char[p].place
    /\ char[p].fighting # NoOne
    /\ char' = [Stop(char, Against(char, p)) EXCEPT ![p].place = r]
    /\ UNCHANGED <<pulse, todo, duel>>

\* The directions (move_char), which stop no fight.
Walk(p, r) ==
    /\ Commands(p, {"standing"})
    /\ r # char[p].place
    /\ char' = [char EXCEPT ![p].place = r]
    /\ UNCHANGED <<pulse, todo, duel>>

\* do_stand, in a fight too.
Stand(p) ==
    /\ Commands(p, {"resting"})
    /\ char' = [char EXCEPT ![p].position = "standing"]
    /\ UNCHANGED <<pulse, todo, duel>>

\* do_quit, from any position but Fighting; some of the stunned are dying, and
\* may not.
Leaves(p) ==
    /\ char[p].position # "fighting"
    /\ char' = Extracted(char, p)
    /\ duel' = Terminated(duel, p)
    /\ UNCHANGED <<pulse, todo>>

Quit(p) ==
    /\ Commands(p, {"standing", "resting", "stunned"})
    /\ Leaves(p)

\* Any command of somebody who has been idle: move_active_char_from_limbo.
ReturnFromLimbo(p, r) ==
    /\ pulse = "input"
    /\ char[p].place = "limbo"
    /\ char[p].linked
    /\ char' = [char EXCEPT ![p].place = r]
    /\ UNCHANGED <<pulse, todo, duel>>

-----------------------------------------------------------------------------
(***************************************************************************)
(* What happens to a character.                                            *)
(***************************************************************************)
\* Logging in, and taking up a lost link again.
Enter(p) ==
    /\ pulse = "input"
    /\ char[p].place = "out"
    /\ \E r \in Rooms : char' = [char EXCEPT ![p].place = r, ![p].linked = TRUE]
    /\ UNCHANGED <<pulse, todo, duel>>

Relink(p) ==
    /\ pulse = "input"
    /\ char[p].place \in Rooms \cup {"limbo"}
    /\ ~char[p].linked
    /\ char' = [char EXCEPT ![p].linked = TRUE]
    /\ UNCHANGED <<pulse, todo, duel>>

\* Descriptor::close of a player in the game.
LinkLost(p) ==
    /\ pulse = "input"
    /\ char[p].place \in Rooms \cup {"limbo"}
    /\ char[p].linked
    /\ char' = [char EXCEPT ![p].linked = FALSE]
    /\ duel' = Terminated(duel, p)
    /\ UNCHANGED <<pulse, todo>>

\* do_purge, by an immortal: extract_char takes the descriptor away before it
\* is closed.
Purge(p) ==
    /\ "purge" \in Events
    /\ pulse = "input"
    /\ char[p].place \in Rooms \cup {"limbo"}
    /\ char' = Extracted(char, p)
    /\ UNCHANGED <<pulse, todo, duel>>

\* A blow from a mobile.
MobHits(p) ==
    /\ "mob" \in Events
    /\ InRoom(p)
    /\ char[p].place \notin Safe
    /\ LET c == IF char[p].position = "stunned" THEN char ELSE Engaged(char, p, Mob)
       IN char' \in Survived(c, p) \cup {Slain(c, p)}
    /\ UNCHANGED <<pulse, todo, duel>>

-----------------------------------------------------------------------------
(***************************************************************************)
(* update_handler.                                                         *)
(***************************************************************************)
StartPass(part) ==
    /\ pulse' = part
    /\ todo' = {p \in Players : char[p].place # "out"}
    /\ UNCHANGED <<char, duel>>

StartViolence == pulse = "input" /\ StartPass("violence")

StartTick ==
    /\ pulse \in {"input", "violence"}
    /\ todo = {}
    /\ StartPass("tick")

\* collect_all_garbage.
EndPulse ==
    /\ todo = {}
    /\ pulse' = "input"
    /\ LET gone == {p \in Players : char[p].place = "extracted"}
       IN /\ pulse # "input" \/ gone # {}
          /\ char' = [p \in Players |-> IF p \in gone THEN [char[p] EXCEPT !.place = "out"]
                                                      ELSE char[p]]
          /\ duel' = [p \in Players |-> IF p \in gone THEN NoDuel ELSE duel[p]]
    /\ UNCHANGED todo

Visits(part, p) ==
    /\ pulse = part
    /\ p \in todo
    /\ todo' = todo \ {p}
    /\ UNCHANGED pulse

\* violence_update.
Violence(p) ==
    /\ Visits("violence", p)
    /\ \/ /\ char[p].fighting = NoOne
          /\ UNCHANGED <<char, duel>>
       \/ /\ char[p].fighting \in Players
          /\ char[p].position # "stunned" /\ Together(p, char[p].fighting)
          /\ LET q == char[p].fighting
             IN Leads(UNION {Assisted(s[1], s[2], p, q) : s \in Struck(char, duel, p, q)})
       \/ /\ char[p].fighting \in Players
          /\ char[p].position = "stunned" \/ ~Together(p, char[p].fighting)
          /\ char' = Stop(char, {p})
          /\ UNCHANGED duel
       \/ /\ char[p].fighting = Mob
          /\ char' \in {char, Stop(char, {p})}
          /\ UNCHANGED duel

StoppedOneSided(c, p, q) ==  \* mutant: q, if it fights p, goes on
    Stop(c, {p} \cap Against(c, q))

\* Whoever of the two fights the other.
StoppedByTime(c, p, q) ==
    Stop(c, (IF c[p].fighting = q THEN {p} ELSE {}) \cup (IF c[q].fighting = p THEN {q} ELSE {}))

TimeRunsOutLate(p) ==        \* mutant: >= 0 for > 0
    duel[p].ticks = 0

TimeRunsOut(p) == duel[p].ticks = 1

\* check_duel_timeout: the characters, c before, and the duels.
TimedFights(c, p) ==
    IF HasDuel(p) /\ TimeRunsOut(p) /\ Duelling(p, duel[p].rival)
    THEN StoppedByTime(c, p, duel[p].rival)
    ELSE c

TimedInvitations(p) ==       \* mutant: an accepted duel is not timed
    IF HasDuel(p) /\ ~Duelling(p, duel[p].rival)
    THEN IF TimeRunsOut(p) THEN Terminated(duel, p) ELSE [duel EXCEPT ![p].ticks = @ - 1]
    ELSE duel

TimedDuels(p) ==
    IF HasDuel(p)
    THEN IF TimeRunsOut(p) THEN Terminated(duel, p) ELSE [duel EXCEPT ![p].ticks = @ - 1]
    ELSE duel

\* Hit points come back to the stunned, not to the dying ...
Recovered(p) ==
    IF char[p].position = "stunned"
    THEN {char, [char EXCEPT ![p].position = "standing"]}
    ELSE {char}

\* ... who bleed.
Bled(c, p) ==
    IF c[p].position = "stunned" /\ c[p].place # "extracted" THEN {c, Slain(c, p)} ELSE {c}

\* move_idle_char_to_limbo.
ToLimbo(c, p) ==
    [IF c[p].fighting # NoOne THEN Stop(c, Against(c, p)) ELSE c EXCEPT ![p].place = "limbo"]

\* One character of char_update.
Tick(p) ==
    /\ Visits("tick", p)
    /\ \E c \in Recovered(p) :
          LET timed == TimedFights(c, p)
          IN \/ char' \in Bled(timed, p) /\ duel' = TimedDuels(p)
             \/ /\ InRoom(p)
                /\ char' \in Bled(ToLimbo(timed, p), p)
                /\ duel' = Terminated(TimedDuels(p), p)

\* "return", where one character has a plague that has worn down to level 1:
\* the rest of char_list is not visited this time.
TickCutShort ==
    /\ "plague" \in Events
    /\ pulse = "tick"
    /\ todo # {}
    /\ todo' = {}
    /\ UNCHANGED <<pulse, char, duel>>

\* char_update makes one who has been in limbo too long quit.
AutoQuit(p) ==
    /\ pulse = "tick"
    /\ todo = {}
    /\ char[p].place = "limbo"
    /\ Leaves(p)

-----------------------------------------------------------------------------
\* A half of a duel that refers to a freed Char: what the program does when it
\* looks at it is undefined, and the model stops.
Dangles(p) == HasDuel(p) /\ char[duel[p].rival].place = "out"

Next ==
    /\ \A p \in Players : ~Dangles(p)
    /\ \/ \E p, q \in Players :
             \/ Challenge(p, q) \/ Accept(p, q) \/ Kill(p, q) \/ Kick(p, q) \/ Bash(p, q)
             \/ \E foe \in Players \cup {Mob} : Rescue(p, q, foe)
       \/ \E p \in Players :
             \/ Stand(p) \/ Quit(p)
             \/ Enter(p) \/ Relink(p) \/ LinkLost(p) \/ Purge(p) \/ MobHits(p)
             \/ Violence(p) \/ Tick(p) \/ AutoQuit(p)
             \/ \E r \in Rooms : Flee(p, r) \/ Walk(p, r) \/ ReturnFromLimbo(p, r)
       \/ StartViolence \/ StartTick \/ TickCutShort \/ EndPulse

Spec == Init /\ [][Next]_vars

-----------------------------------------------------------------------------
\* Duels are between two: each is the rival of its rival, and of the two at
\* least one has accepted (the comment on struct Duel, terminate_duel).
DuelsMutual ==
    \A p \in Players :
        HasDuel(p) /\ char[duel[p].rival].place # "out" =>
            LET q == duel[p].rival
            IN /\ q # p
               /\ HasDuel(q)
               /\ duel[q].rival = p
               /\ IsAccepted(p) \/ IsAccepted(q)

\* What makes x begin to fight y: their duel, y's fighting x, or a fight of
\* either with a third that is mutual already.
HasCause(x, y) ==
    char'[x].fighting = y /\ char[x].fighting # y =>
        \/ Duelling(x, y)
        \/ char[y].fighting = x
        \/ \E r \in Players : \/ char[y].fighting = r /\ char[r].fighting = y
                              \/ char[x].fighting = r /\ char[r].fighting = x

\* A fight between players begins in a duel both have accepted, by striking
\* back, or by taking another's place in one that had begun (do_rescue).
FightsBeginInDuels == [][\A p, q \in Players : HasCause(p, q)]_vars

\* When a duel ends and the two are still in one room, the fight between them
\* ends, unless one of them has lost the link (check_duel_timeout, raw_kill).
DuelEndsFight ==
    [][\A p, q \in Players :
          /\ Duelling(p, q) /\ ~Duelling(p, q)'
          /\ char[p].linked = char'[p].linked /\ char[q].linked = char'[q].linked
          /\ Together(p, q)'
          => char'[p].fighting # q /\ char'[q].fighting # p]_vars

\* Every duel and invitation runs out: each tick that visits p brings its end
\* nearer, and nothing puts it off but that the two accept, once
\* (check_duel_timeout, accept_invitation).
DuelRunsDown ==
    [][\A p \in Players :
          HasDuel(p) /\ HasDuel(p)' =>
              LET q == duel[p].rival
              IN /\ duel'[p].rival = q
                 /\ Tick(p) => duel'[p].ticks < duel[p].ticks
                 /\ duel'[p].ticks > duel[p].ticks => ~Duelling(p, q) /\ Duelling(p, q)'
                 /\ IsAccepted(p) => IsAccepted(p)']_vars

\* p has been slain: it awakes at the altar.
Slays(p) == char[p].place # Altar /\ char'[p].place = Altar /\ char'[p].position = "resting"

\* "Sorry, player killing is not permitted.": without mobiles nobody is slain
\* but by bleeding, at a tick (is_safe).
NoPlayerKilling ==
    [][\A p \in Players : "mob" \notin Events /\ Slays(p) => pulse = "tick"]_vars

\* "There is no experience penalty or equipment loss upon losing a duel.":
\* without mobiles nobody is slain during a duel (raw_kill).
LosingIsFree ==
    [][\A p, q \in Players : "mob" \notin Events /\ Duelling(p, q) => ~Slays(p)]_vars

\* Nobody leaves the game out of a fight: "No way! You are fighting."
NobodyQuitsFighting ==
    [][\A p \in Players : Quit(p) => char[p].fighting = NoOne]_vars

\* The rival in a duel is still there.
RivalsExist == \A p \in Players : ~Dangles(p)
=============================================================================
