-------------------------------- MODULE Bonds --------------------------------
(***************************************************************************)
(* Who follows, leads, owns, rides, fights and answers whom, while people  *)
(* walk through doors, are charmed, summoned, thrown, killed, idle or gone *)
(* (act_comm.cpp, ride.cpp, act_move.cpp, handler.cpp, fight.cpp).  Each   *)
(* of these is a plain pointer from one Char to another; a Char that is    *)
(* extracted is freed at the end of the pulse.                             *)
(*                                                                         *)
(* A "world" w is the state of all Chars.  The functions of the code that  *)
(* change it are operators from worlds to worlds, or to sets of worlds     *)
(* where a roll of the dice or a formula that is left out decides.         *)
(***************************************************************************)
EXTENDS Doors

CONSTANTS Chars, Scenes,
          Temple, Altar, Limbo

VARIABLES scene,    \* who is who, and which commands are given
          char      \* the state of everybody
vars == <<scene, char, exit_info, value1>>

Nowhere == {"unborn", "gone"}

(* Of a scene: where everybody begins, the mobiles, those sold or loaded as pets, those that can be *)
(* ridden, immortals, those who pass through doors, the keys of each, and what people do in it.     *)
NewChar(r) ==
    [room |-> r, pos |-> "standing", charm |-> FALSE, nofollow |-> FALSE, was_in_room |-> None,
     master |-> None, leader |-> None, pet |-> None, riding |-> None, ridden_by |-> None,
     fighting |-> None, reply |-> None]

ASSUME BondsAssumption ==
    /\ {Temple, Altar, Limbo} \subseteq Rooms
    /\ None \notin Chars /\ Nowhere \cap Rooms = {}
    /\ \A sc \in Scenes : /\ sc.at \in [Chars -> Rooms \cup {"unborn"}]
                          /\ sc.pets \subseteq sc.npc /\ sc.npc \subseteq Chars
                          /\ \A p \in sc.pets : sc.at[p] = "unborn"
                          /\ sc.immortal \cap sc.npc = {}

Init ==
    /\ scene \in Scenes
    /\ char = [c \in Chars |-> NewChar(scene.at[c])]
    /\ DoorsInit

\* The world w, but with c as it is in person.
With(w, c, person) == [x \in Chars |-> IF x = c THEN person ELSE w[x]]
Moved(w, c, to) == With(w, c, [w[c] EXCEPT !.room = to])

IsNpc(c) == c \in scene.npc
Immortal(c) == c \in scene.immortal
Here(w, c) == w[c].room \in Rooms
Together(w, c, v) == Here(w, c) /\ w[c].room = w[v].room
Dying(w, c) == w[c].pos = "dying"
Awake(w, c) == w[c].pos \in {"resting", "sitting", "fighting", "standing"}
Relaxing(w, c) == w[c].pos \in {"sleeping", "resting", "sitting"}

-----------------------------------------------------------------------------
(***************************************************************************)
(* Following and riding.                                                   *)
(***************************************************************************)
add_follower(w, c, m) ==
    IF w[c].master # None THEN w ELSE With(w, c, [w[c] EXCEPT !.master = m, !.leader = None])

Led(w, c, leader) == With(w, c, [w[c] EXCEPT !.leader = leader])

rider_unseated(w, c, p) == With(w, c, [w[c] EXCEPT !.riding = None])    \* mutant: the mount is not told

unride_char(w, c, p) ==
    With(With(w, p, [w[p] EXCEPT !.ridden_by = None]), c, [w[c] EXCEPT !.riding = None])

\* What is taken from one who stops following.
stop_following_only(w, c) == With(w, c, [w[c] EXCEPT !.charm = FALSE, !.master = None, !.leader = None])

PetOf(w, c, p) == With(w, c, [w[c] EXCEPT !.pet = p])

\* Who stops following is free of charms.  A pet that stops is nobody's pet, and throws nobody.
stop_follower(w, c) ==
    LET m == w[c].master
        left == stop_following_only(w, c)
    IN  IF m = None THEN w
        ELSE IF w[m].pet # c THEN left
        ELSE PetOf(IF w[m].riding = c THEN unride_char(left, m, c) ELSE left, m, None)

\* All that follow c are let go, its pet among them.
FollowersFreed(w, c) ==
    LET followers == {x \in Chars : w[x].master = c}
        pet_goes  == w[c].pet \in followers
        dismounts == pet_goes /\ w[c].riding = w[c].pet
    IN  [x \in Chars |->
           IF x = c
           THEN [w[c] EXCEPT !.leader = None, !.pet = IF pet_goes THEN None ELSE @,
                             !.riding = IF dismounts THEN None ELSE @]
           ELSE IF x \in followers
           THEN [w[x] EXCEPT !.charm = FALSE, !.master = None, !.leader = None,
                             !.ridden_by = IF dismounts /\ x = w[c].pet THEN None ELSE @]
           ELSE [w[x] EXCEPT !.leader = IF @ = c THEN x ELSE @]]

die_follower(w, c) ==
    LET m == w[c].master
    IN  FollowersFreed(IF m = None THEN w
                       ELSE stop_follower(IF w[m].pet = c THEN PetOf(w, m, None) ELSE w, c), c)

\* Back on one's feet, unless one was hurt too badly.
OnFeet(pos) == IF pos = "dying" THEN pos ELSE "standing"

\* Mutant: those who fight c fight on.
stop_own_fight(w, c, both) ==
    With(w, c, [w[c] EXCEPT !.fighting = None, !.pos = OnFeet(@)])

\* Of c, or of all who fight c as well.
stop_fighting(w, c, both) ==
    [x \in Chars |-> IF x = c \/ (both /\ w[x].fighting = c)
                     THEN [w[x] EXCEPT !.fighting = None, !.pos = OnFeet(@)]
                     ELSE w[x]]

Calmed(w, c) == IF w[c].fighting # None THEN stop_fighting(w, c, TRUE) ELSE w

set_fighting(w, c, v) ==
    IF w[c].fighting # None THEN w ELSE With(w, c, [w[c] EXCEPT !.fighting = v, !.pos = "fighting"])

-----------------------------------------------------------------------------
(***************************************************************************)
(* Leaving the game, and dying.                                            *)
(***************************************************************************)
\* The rest of extract_char, once nobody rides on c any more and its bonds and fights are over.
Departs(w, c, delete_from_world) ==
    IF ~delete_from_world THEN Moved(w, c, Altar)
    ELSE [x \in Chars |-> IF x = c THEN NewChar("gone")
                          ELSE [w[x] EXCEPT !.reply = IF @ = c THEN None ELSE @]]

Taken(w, c, delete_from_world) ==
    Departs(stop_fighting(IF delete_from_world THEN die_follower(w, c) ELSE w, c, TRUE), c, delete_from_world)

\* Pets, not other charmed monsters, go with their owner.
nuke_pets(w, c) ==
    LET p == w[c].pet
        Unloaded(x) == IF x[p].ridden_by # None THEN unride_char(x, c, p) ELSE x
        Sold(x) == IF Here(x, p) THEN Taken(x, p, TRUE) ELSE x
    IN  IF p = None THEN w ELSE PetOf(Sold(Unloaded(stop_follower(w, p))), c, None)

Grounded(w, c) == With(w, c, [w[c] EXCEPT !.pos = "resting"])

\* A player's death: a corpse is left, and the player wakes at the altar, free of charms.
PlayerDies(w, v) ==
    LET Wakes(x) == With(x, v, [x[v] EXCEPT !.charm = FALSE, !.pos = "resting"])
    IN  Wakes(Taken(nuke_pets(stop_fighting(w, v, TRUE), v), v, FALSE))

\* The charm thread leads from master to master, to whoever answers for v; a loop has no such end.
Up(w, x) == IF w[x].charm /\ w[x].master # None THEN w[x].master ELSE x
Responsible(w, v) ==
    LET thread[k \in 0 .. Cardinality(Chars)] == IF k = 0 THEN v ELSE Up(w, thread[k - 1])
    IN  thread[Cardinality(Chars)]
ThreadEnds(w, v) == Up(w, Responsible(w, v)) = Responsible(w, v)

\* Attacking a player frees one from a charm.
check_killer(w, a, v) ==
    IF IsNpc(Responsible(w, v)) THEN w
    ELSE IF ~w[a].charm THEN w
    ELSE IF w[a].master = None THEN With(w, a, [w[a] EXCEPT !.charm = FALSE])
    ELSE stop_follower(w, a)

\* Shops, trainers, duels and killers are left out; that a room may be safe is left open.
is_safe(w, a, v) ==
    /\ w[v].fighting # a
    /\ IF IsNpc(a) THEN ~IsNpc(v) /\ (w[a].charm \/ a \in scene.pets)
       ELSE ~Immortal(a) /\ (~IsNpc(v) \/ v \in scene.pets \/ (w[v].charm /\ w[v].master # a))

\* What a blow does before it hurts.
Struck(w, a, v) ==
    LET Fought(x) == IF Dying(x, v) THEN x ELSE set_fighting(set_fighting(x, v, a), a, v)
        Released(x) == IF x[v].master = a THEN stop_follower(x, v) ELSE x
    IN  Released(Fought(check_killer(w, a, v)))

Hurt(w, v) == stop_fighting(With(w, v, [w[v] EXCEPT !.pos = "dying"]), v, FALSE)

\* The recall of one whom nobody rides.  A failed one is left out, as it changes nothing.
Prays(w, c) ==
    IF w[c].room = Temple \/ (IsNpc(c) /\ c \notin scene.pets) THEN {} ELSE {Moved(Calmed(w, c), c, Temple)}

\* The rider falls, and the mount is taken to have struck the blow.  A mount that is charmed, or a
\* pet, strikes nobody: the others may hurt the rider, or kill.  A rider without a link may then
\* recall, and a pet comes after; none flees, as whoever falls has to wait.
fallen_off_mount(w, c) ==
    LET p == w[c].riding
        Away(x) == {x} \cup UNION {{u} \cup (IF u[c].pet = None THEN {} ELSE Prays(u, u[c].pet)) : u \in Prays(x, c)}
        Kicked(down) == {down} \cup IF is_safe(down, p, c) THEN {}
                                    ELSE UNION {Away(hit) \cup Away(Hurt(hit, c)) \cup {PlayerDies(hit, c)}
                                                : hit \in {Struck(down, p, c)}}
    IN  IF p = None THEN {w} ELSE Kicked(Grounded(unride_char(w, c, p), c))

\* Whoever rides on p is thrown.
Unseated(w, p) == IF w[p].ridden_by = None THEN {w} ELSE fallen_off_mount(w, w[p].ridden_by)

extract_char(w, c, delete_from_world) ==
    {Taken(v, c, delete_from_world) : v \in Unseated(nuke_pets(w, c), c)}

raw_kill(w, v) ==
    IF IsNpc(v) THEN extract_char(stop_fighting(w, v, TRUE), v, TRUE) ELSE {PlayerDies(w, v)}

-----------------------------------------------------------------------------
(***************************************************************************)
(* Walking.                                                                *)
(***************************************************************************)
Closed(r, d) == "Closed" \in exit_info[r][d]
Ghostly(c) == c \in scene.passdoor

\* Private rooms, guilds, clans, water, air and exhaustion are left open: a walk may always fail.
CanGo(w, c, d) ==
    LET r == w[c].room
        ghost == Ghostly(c) /\ "PassProof" \notin exit_info[r][d]
    IN  /\ Has(r, d)
        /\ Closed(r, d) => Immortal(c) \/ ghost
        /\ Closed(r, d) /\ ghost /\ w[c].riding # None => Ghostly(w[c].riding)

\* Those who go along with c from where it is: its followers, theirs, and so on.
Column(w, c, d, barred) ==
    LET here == {x \in Chars : Together(w, c, x)}
        comes(y) == /\ y \notin barred /\ CanGo(w, y, d)
                    /\ w[y].pos = "standing" \/ (w[y].charm /\ Relaxing(w, y) /\ w[y].riding = None)
    IN  {x \in here : \A S \in SUBSET here :
            c \in S /\ (\A y \in here : comes(y) /\ w[y].master \in S => y \in S) => x \in S}

\* The column gets there, with the bonds it has; those roused are up, or off their mounts.
Walked(w, column, to, roused) ==
    [x \in Chars |->
       [w[x] EXCEPT
          !.room = IF x \in column THEN to ELSE @,
          !.pos = IF x \in roused /\ w[x].riding = None /\ Relaxing(w, x) THEN "standing" ELSE @,
          !.riding = IF x \in roused THEN None ELSE @,
          !.ridden_by = IF \E y \in roused : w[y].riding = x THEN None ELSE @]]

\* move_char, when c itself is let through.  Charmed followers stand up first, or get off their
\* mount, and may then not be let through; some may be left behind an aggressive one that is not.
\* What it does to a mount that moves without its rider has no effect: see fallen_off_mount.
Walks(w, c, d) ==
    LET r == w[c].room
        to == LeadsTo(r, d)
        follow == {y \in Chars : Together(w, c, y) /\ y # c /\ w[y].master # None}
        Idle(column) == {y \in follow : w[y].charm /\ w[y].master \in column /\ w[y].pos # "standing"}
    IN  IF ~CanGo(w, c, d) \/ (w[c].charm /\ w[c].master # None /\ Together(w, c, w[c].master)) THEN {}
        ELSE IF to = r THEN {w}
        ELSE UNION {LET go == Column(w, c, d, barred)
                    IN  {Walked(w, go, to, Idle(go) \ passed) : passed \in SUBSET (Idle(go) \cap barred)}
                    : barred \in SUBSET follow}

\* One who flees takes followers along; whoever rides it is thrown where they were.
Flees(w, c) ==
    UNION {{stop_fighting(u, c, TRUE) : u \in Unseated(v, c)}
           : v \in UNION {{v \in Walks(w, c, d) : v[c].room # w[c].room} :
                              d \in {d \in Directions : w[c].fighting # None /\ Has(w[c].room, d)
                                                         /\ ~Closed(w[c].room, d)}}}

\* A recall, without the pet that comes after: whoever rides a pet is thrown.
RecalledAlone(w, c) == UNION {IF IsNpc(c) THEN Unseated(away, c) ELSE {away} : away \in Prays(w, c)}

WithPet(w, p) == {w} \cup (IF p = None THEN {} ELSE RecalledAlone(w, p))

Recalled(w, c) == UNION {WithPet(v, v[c].pet) : v \in RecalledAlone(w, c)}

-----------------------------------------------------------------------------
(***************************************************************************)
(* Blows.                                                                  *)
(***************************************************************************)
\* After it was hurt: somebody without a link recalls, or the timid flee and riders are thrown.
Shaken(w, v) ==
    LET out == {w} \cup Flees(w, v)
        recalled == IF IsNpc(v) THEN {} ELSE Recalled(w, v)
    IN  out \cup recalled \cup UNION {fallen_off_mount(u, v) : u \in out}

Landed(w, a, v, hurts) ==
    UNION {{hit} \cup IF hurts THEN raw_kill(hit, v) \cup UNION {Shaken(x, v) : x \in {hit, Hurt(hit, v)}} ELSE {}
           : hit \in {Struck(w, a, v)}}

\* A mobile that is struck for a charmed one turns on the one that charmed it, if that is there.
\* It has let the fight with the charmed one go, which goes on with its own.
Turned(w, a, v) ==
    LET m == w[v].master
        turned == stop_fighting(set_fighting(check_killer(w, a, v), v, a), a, FALSE)
    IN  IF /\ IsNpc(a) /\ IsNpc(v) /\ w[v].charm /\ m \notin {None, a} /\ ~Dying(w, v)
           /\ Together(w, a, m) /\ ~is_safe(turned, a, m)
        THEN {<<turned, m>>} ELSE {}

\* Of no points, or of some.
damage(w, a, v, hurts) ==
    IF is_safe(w, a, v) THEN {w}
    ELSE UNION {Landed(t[1], a, t[2], hurts \/ t[2] # v) : t \in {<<w, v>>} \cup Turned(w, a, v)}

\* After the blow: the one that is bashed or tripped, or that misses a bash, throws its rider.
Bashed(w, a, v, how) ==
    CASE how = "hit" -> {w}
      [] how = "bash" -> Unseated(w, v)
      [] OTHER -> IF Here(w, a) THEN Unseated(Grounded(w, a), a) ELSE {w}

Blows(w, a, v) ==
    UNION {UNION {Bashed(x, a, v, how) : x \in damage(IF how = "bash" THEN Grounded(w, v) ELSE w, a, v, how # "miss")}
           : how \in {"hit", "bash", "miss"}}

-----------------------------------------------------------------------------
(***************************************************************************)
(* Commands.  Mobiles give none of their own accord, but for wandering:    *)
(* the one who charmed them orders them to.                                *)
(***************************************************************************)
do_order(m, c) == /\ char[c].charm /\ char[c].master = m /\ m # None
                  /\ Together(char, m, c) /\ Awake(char, m) /\ ~char[m].charm

Commanded(c) == Here(char, c) /\ (IsNpc(c) => do_order(char[c].master, c))

Becomes(w) == char' = w /\ UNCHANGED doorVars
OneOf(worlds) == \E w \in worlds : Becomes(w)

do_follow(c, v) ==
    /\ Awake(char, c) /\ Together(char, c, v)
    /\ ~(char[c].charm /\ char[c].master # None)
    /\ IF v = c THEN Becomes(stop_follower(char, c))
       ELSE /\ char[v].nofollow => Immortal(c)
            /\ char[c].pos # "fighting" /\ char[v].master # c
            /\ LET free == stop_follower(char, c)
               IN  Becomes(add_follower(With(free, c, [free[c] EXCEPT !.nofollow = FALSE]), c, v))

do_nofollow(c) ==
    /\ ~IsNpc(c)
    /\ Becomes(IF char[c].nofollow THEN [char EXCEPT ![c].nofollow = FALSE]
               ELSE die_follower([char EXCEPT ![c].nofollow = TRUE], c))

is_same_group(w, c, v) ==
    LET Head(x) == IF w[x].leader = None THEN x ELSE w[x].leader IN Head(c) = Head(v)

do_group(c, v) ==
    /\ Together(char, c, v)
    /\ char[c].master = None /\ char[c].leader \in {None, c}
    /\ v = c \/ char[v].master = c
    /\ ~char[v].charm /\ ~char[c].charm
    /\ char[c].pos # "fighting" /\ char[v].pos # "fighting"
    /\ Becomes([char EXCEPT ![v].leader = IF is_same_group(char, v, c) /\ c # v THEN None ELSE c])

tell_to(c, v) == Here(char, v) /\ Becomes([char EXCEPT ![v].reply = c])

char_ride(w, c, p) == With(With(w, c, [w[c] EXCEPT !.riding = p]), p, [w[p] EXCEPT !.ridden_by = c])

do_ride(c, p) ==
    /\ ~IsNpc(c) /\ char[c].pos \in {"fighting", "standing"}
    /\ char[c].riding = None /\ Together(char, c, p)
    /\ p \in scene.rideable /\ char[p].master = c
    /\ Becomes(char_ride(char, c, p))

do_dismount(c) ==
    /\ ~IsNpc(c) /\ char[c].riding # None
    /\ Becomes(unride_char(char, c, char[c].riding))

do_stand(c) ==
    \/ char[c].riding # None /\ Becomes(unride_char(char, c, char[c].riding))
    \/ char[c].riding = None /\ Relaxing(char, c) /\ Becomes([char EXCEPT ![c].pos = "standing"])

\* Resting, sitting and sleeping, none of them in the saddle.
Settles(c, pos) ==
    /\ char[c].riding = None
    /\ Relaxing(char, c) \/ char[c].pos = "standing"
    /\ Becomes([char EXCEPT ![c].pos = pos])
do_rest(c) == Settles(c, "resting")
do_sit(c) == char[c].pos # "sitting" /\ Settles(c, "sitting")
do_sleep(c) == char[c].pos # "sleeping" /\ Settles(c, "sleeping")

\* Those who are out cold are set on their feet as well.
do_wake(c, v) ==
    \/ v = c /\ Relaxing(char, c) /\ do_stand(c)
    \/ /\ v # c /\ Awake(char, c) /\ Together(char, c, v) /\ ~Awake(char, v)
       /\ Becomes([char EXCEPT ![v].pos = "standing"])

move_char(c) == \E d \in Directions : OneOf(Walks(char, c, d))

\* A portal takes nobody along: the loop over followers comes after a return that is always made.
do_enter(c, to) ==
    /\ char[c].riding = None /\ char[c].pos = "standing"
    /\ Becomes([char EXCEPT ![c].room = to])

do_recall(c) == OneOf(Recalled(char, c))
do_flee(c) == OneOf(Flees(char, c))

Attacks(c, v) ==
    /\ Together(char, c, v) /\ c # v /\ Awake(char, c)
    /\ ThreadEnds(char, v)
    /\ OneOf(Blows(char, c, v))

do_kill(c) == \E v \in Chars : ~(char[c].charm /\ char[c].master = v) /\ Attacks(c, v)

do_quit(c) ==
    /\ ~IsNpc(c) /\ char[c].pos \notin {"fighting", "dying"}
    /\ OneOf(extract_char(char, c, TRUE))

\* A pet from the shop.
do_buy(c, p) ==
    /\ ~IsNpc(c) /\ char[c].pet = None
    /\ p \in scene.pets /\ char[p].room = "unborn"
    /\ LET bought == [char EXCEPT ![p] = [NewChar(char[c].room) EXCEPT !.charm = TRUE]]
       IN  Becomes(PetOf(Led(add_follower(bought, p, c), p, c), c, p))

Commands(c) ==
    \/ "follow" \in scene.does /\ \E v \in Chars : do_follow(c, v)
    \/ "nofollow" \in scene.does /\ do_nofollow(c)
    \/ "group" \in scene.does /\ \E v \in Chars : do_group(c, v)
    \/ "tell" \in scene.does /\ \E v \in Chars : tell_to(c, v)
    \/ "ride" \in scene.does /\ (do_dismount(c) \/ \E p \in Chars : do_ride(c, p))
    \/ "settle" \in scene.does /\ \/ do_stand(c) \/ do_rest(c) \/ do_sit(c) \/ do_sleep(c)
                                  \/ \E v \in Chars : do_wake(c, v)
    \/ "move" \in scene.does /\ Awake(char, c) /\ move_char(c)
    \/ "enter" \in scene.does /\ \E to \in Rooms : do_enter(c, to)
    \/ "recall" \in scene.does /\ do_recall(c)
    \/ "fight" \in scene.does /\ (do_flee(c) \/ do_kill(c))
    \/ "quit" \in scene.does /\ do_quit(c)
    \/ "buy" \in scene.does /\ \E p \in Chars : do_buy(c, p)

Doorwork(c) ==
    /\ "doors" \in scene.does /\ Awake(char, c)
    /\ LET r == char[c].room IN
       do_open(r) \/ do_close(r) \/ do_lock(r, scene.keys[c]) \/ do_unlock(r, scene.keys[c])
         \/ do_pick(r, Immortal(c))
    /\ UNCHANGED char

-----------------------------------------------------------------------------
(***************************************************************************)
(* Spells and immortals' commands.  What may save somebody is left out.    *)
(***************************************************************************)
Charmed(w, c, v) ==
    LET mine == add_follower(stop_follower(w, v), v, c)
    IN  With(mine, v, [mine[v] EXCEPT !.leader = c, !.charm = TRUE])

\* Mutant: one who is charmed may charm.
charm_by_any(w, c, v) == IF v = c \/ w[v].charm \/ Immortal(v) THEN w ELSE Charmed(w, c, v)

spell_charm_person(w, c, v) ==
    IF v = c \/ w[v].charm \/ w[c].charm \/ Immortal(v) THEN w ELSE Charmed(w, c, v)

\* The affect runs out: the bit goes, and the following goes on.
CharmFades(v) ==
    /\ char[v].charm /\ v \notin scene.pets
    /\ Becomes([char EXCEPT ![v].charm = FALSE])

spell_gate(c, v) ==
    /\ v # c /\ Here(char, v)
    /\ LET p == char[c].pet
           at == char[v].room
           gone == Moved(char, c, at)
       IN  Becomes(IF p # None /\ Together(char, c, p) THEN Moved(gone, p, at) ELSE gone)

Dismounted(w, v) == IF w[v].riding = None THEN w ELSE unride_char(w, v, w[v].riding)

spell_summon(c, v) ==
    /\ v # c /\ Here(char, v) /\ char[v].fighting = None
    /\ Becomes(Moved(Dismounted(char, v), v, char[c].room))

\* It is the caster who falls off a mount, whoever is teleported.
spell_teleport(c, v) ==
    /\ Together(char, c, v) /\ (IsNpc(c) \/ char[v].fighting = None)
    /\ \E r \in Rooms : OneOf(fallen_off_mount(Moved(char, v, r), c))

\* The victim and its mount go; then the caster's pet recalls.
spell_word_of_recall(c, v) ==
    /\ Together(char, c, v) /\ ~IsNpc(v)
    /\ LET m == char[v].riding
           alone == Moved(Calmed(char, v), v, Temple)
           mounted == Moved(Moved(Calmed(Calmed(char, v), m), v, Temple), m, Temple)
       IN  OneOf(WithPet(IF m = None THEN alone ELSE mounted, char[c].pet))

Spells(c) ==
    /\ ~IsNpc(c)
    /\ \/ "charm" \in scene.does /\ \E v \in Chars : Together(char, c, v) /\ Becomes(spell_charm_person(char, c, v))
       \/ "gate" \in scene.does /\ \E v \in Chars : spell_gate(c, v) \/ spell_summon(c, v)
       \/ "teleport" \in scene.does /\ \E v \in Chars : spell_teleport(c, v) \/ spell_word_of_recall(c, v)

transfer(v, to) ==
    Here(char, v) /\ Becomes(Moved(Dismounted(Calmed(char, v), v), v, to))

do_goto(c, to) ==
    LET p == char[c].pet
        gone == Moved(Calmed(char, c), c, to)
    IN  Becomes(IF p = None THEN gone ELSE Moved(gone, p, to))

\* Of mobiles; players are saved and disconnected as well.
do_purge(c, v) == v # c /\ Here(char, v) /\ ~Immortal(v) /\ OneOf(extract_char(char, v, TRUE))

Wizardry(c) ==
    /\ "wizard" \in scene.does /\ Immortal(c) /\ Here(char, c)
    /\ \/ \E v \in Chars, to \in Rooms : transfer(v, to)
       \/ \E to \in Rooms : do_goto(c, to)
       \/ \E v \in Chars : do_purge(c, v)

-----------------------------------------------------------------------------
(***************************************************************************)
(* What happens of itself.                                                 *)
(***************************************************************************)
move_idle_char_to_limbo(c) ==
    /\ ~IsNpc(c) /\ Here(char, c) /\ char[c].was_in_room = None
    /\ LET p == char[c].pet
           void(w, x) == With(w, x, [w[x] EXCEPT !.was_in_room = w[x].room, !.room = Limbo])
           alone == void(Calmed(char, c), c)
       IN  Becomes(IF p = None THEN alone ELSE void(Calmed(alone, p), p))

move_active_char_from_limbo(c) ==
    /\ char[c].was_in_room # None /\ char[c].room = Limbo
    /\ LET p == char[c].pet
           back(w, x) == With(w, x, [w[x] EXCEPT !.room = char[c].was_in_room, !.was_in_room = None])
       IN  Becomes(IF p = None THEN back(char, c) ELSE back(back(char, c), p))

\* Mobiles wander through doors that are open.
Wanders(c) ==
    /\ IsNpc(c) /\ Here(char, c) /\ char[c].pos = "standing"
    /\ \E d \in Directions : Has(char[c].room, d) /\ ~Closed(char[c].room, d) /\ OneOf(Walks(char, c, d))

Recovers(c) == Dying(char, c) /\ Becomes([char EXCEPT ![c].pos = "standing"])

\* A player comes in, with the pet of the player file, or without.
EnterGame(c) ==
    /\ ~IsNpc(c) /\ char[c].room = "unborn"
    /\ \/ Becomes([char EXCEPT ![c] = NewChar(Temple)])
       \/ \E p \in scene.pets :
            /\ char[p].room = "unborn"
            /\ Becomes([char EXCEPT ![c] = [NewChar(Temple) EXCEPT !.pet = p],
                                    ![p] = [NewChar(Temple) EXCEPT !.charm = TRUE, !.master = c, !.leader = c]])

\* The fights of a round, each as it finds them, or let go where the other is out of reach.
violence_update(c) ==
    /\ Here(char, c) /\ char[c].fighting # None
    /\ IF Awake(char, c) /\ Together(char, c, char[c].fighting) THEN Attacks(c, char[c].fighting)
       ELSE Becomes(stop_fighting(char, c, FALSE))

World(c) ==
    \/ "idle" \in scene.does /\ (move_idle_char_to_limbo(c) \/ move_active_char_from_limbo(c))
    \/ "wander" \in scene.does /\ Wanders(c)
    \/ "fight" \in scene.does /\ (violence_update(c) \/ Recovers(c))
    \/ "charm" \in scene.does /\ CharmFades(c)
    \/ "enter game" \in scene.does /\ EnterGame(c)

reset_room == "reset" \in scene.does /\ (\E r \in Rooms : reset_exits(r)) /\ UNCHANGED char

\* A rider whose mount, or a mount whose rider, has been freed: what the program does next with
\* the pointer is undefined, and the model stops.
Dangles(c) == \E x \in {char[c].riding, char[c].ridden_by} \ {None} : char[x].room = "gone"

Next ==
    /\ UNCHANGED scene
    /\ \A c \in Chars : ~Dangles(c)
    /\ \/ \E c \in Chars : \/ Commanded(c) /\ (Commands(c) \/ Doorwork(c) \/ Spells(c))
                           \/ Wizardry(c) \/ World(c)
       \/ reset_room

Spec == Init /\ [][Next]_vars

-----------------------------------------------------------------------------
Positions == {"dying", "sleeping", "resting", "sitting", "fighting", "standing"}
Person == [room : Rooms \cup Nowhere, pos : Positions, charm : BOOLEAN, nofollow : BOOLEAN,
           was_in_room : Rooms \cup {None}, master : Chars \cup {None}, leader : Chars \cup {None},
           pet : Chars \cup {None}, riding : Chars \cup {None}, ridden_by : Chars \cup {None},
           fighting : Chars \cup {None}, reply : Chars \cup {None}]

\* The types of the state.
BondsOK ==
    /\ char \in [Chars -> Person] /\ scene \in Scenes
    /\ exit_info \in [Rooms -> [Directions -> SUBSET DoorFlags]]

\* The two ends of a bond agree: a pet follows its owner, and is ridden by nobody else and only
\* while its owner knows (stop_follower, nuke_pets, die_follower, unride_char, fallen_off_mount).
BondsMutual ==
    \A c, p \in Chars : char[c].pet = p =>
        /\ char[p].master = c /\ p \in scene.pets
        /\ char[p].ridden_by \in {None, c}
        /\ char[c].riding = p <=> char[p].ridden_by = c

\* Nobody who is in the game follows, is led by, owns, fights or would answer one that is not:
\* that Char is freed at the end of the pulse (extract_char, die_follower, stop_fighting).
NoDanglingBond ==
    \A c \in Chars : Here(char, c) =>
        \A x \in {char[c].master, char[c].leader, char[c].pet, char[c].fighting, char[c].reply} \ {None} :
            Here(char, x)

\* Nobody answers for a charmed one that answers for them, through any number of masters: the loop
\* of check_killer that follows the charm thread comes to an end (spell_charm_person, do_follow).
CharmHasNoLoops ==
    \A S \in SUBSET Chars : S # {} =>
        \E c \in S : ~(char[c].charm /\ char[c].master \in S)
=============================================================================
