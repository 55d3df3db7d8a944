----------------------------- MODULE BondsProofs -----------------------------
(***************************************************************************)
(* What holds of bonds and doors for any people, mobiles and rooms.        *)
(***************************************************************************)
EXTENDS Bonds, TLAPS

-----------------------------------------------------------------------------
(***************************************************************************)
(* What is to be proved, of a world w.                                     *)
(***************************************************************************)
Someone == Chars \cup {None}

\* Who is not in the game is as new, but for being nowhere.
Clean(w) == \A c \in Chars : ~Here(w, c) => w[c] = NewChar(w[c].room)

\* A bond leads to somebody who is in the game.
Alive(w) ==
    \A c \in Chars :
        /\ w[c].master # None => Here(w, w[c].master)
        /\ w[c].leader # None => Here(w, w[c].leader)
        /\ w[c].pet # None => Here(w, w[c].pet)
        /\ w[c].fighting # None => Here(w, w[c].fighting)
        /\ w[c].reply # None => Here(w, w[c].reply)

Mounted(w) ==
    \A c \in Chars :
        /\ w[c].riding # None => Here(w, w[c].riding)
        /\ w[c].ridden_by # None => Here(w, w[c].ridden_by)

\* Mobiles do not ride or keep pets, and only players have charmed somebody.
Riders(w) ==
    \A c \in Chars :
        /\ w[c].riding # None => c \notin scene.npc
        /\ w[c].pet # None => c \notin scene.npc
        /\ w[c].ridden_by # None => w[c].ridden_by \notin scene.npc
        /\ w[c].charm => w[c].master # None /\ w[c].master \notin scene.npc

\* A pet follows its owner, and nobody else rides it or is said to.
PetsOwned(w) ==
    \A c, p \in Chars :
        w[c].pet = p =>
            /\ w[p].master = c /\ p \in scene.pets
            /\ w[p].ridden_by \in {None, c}
            /\ \A b \in Chars : w[b].riding = p <=> w[p].ridden_by = b

LoopFree(w) ==
    \A S \in SUBSET Chars : S # {} => \E c \in S : ~(w[c].charm /\ w[c].master \in S)

\* Nobody rides, or is ridden by, somebody who is still to come into the game.
Met(w) ==
    \A c \in Chars :
        /\ w[c].riding # None => w[w[c].riding].room # "unborn"
        /\ w[c].ridden_by # None => w[w[c].ridden_by].room # "unborn"

Sound(w) ==
    /\ w \in [Chars -> Person]
    /\ Clean(w) /\ Alive(w) /\ Riders(w) /\ PetsOwned(w) /\ LoopFree(w) /\ Met(w)

\* ... and no pointer between rider and mount is to one who is gone.
Good(w) == Sound(w) /\ Mounted(w)

\* What a scene is.
SceneOK ==
    /\ scene.at \in [Chars -> Rooms \cup {"unborn"}]
    /\ scene.pets \subseteq scene.npc /\ scene.npc \subseteq Chars
    /\ \A p \in scene.pets : scene.at[p] = "unborn"

-----------------------------------------------------------------------------
(***************************************************************************)
(* Changes that touch no bond.                                             *)
(***************************************************************************)
\* Everybody has the bonds of before, and fights or would answer whom they did before or
\* somebody in the game.
Quiet(w, v) ==
    /\ v \in [Chars -> Person]
    /\ \A x \in Chars :
        /\ Here(w, x) <=> Here(v, x)
        /\ ~Here(w, x) => v[x] = w[x]
        /\ v[x].master = w[x].master /\ v[x].leader = w[x].leader /\ v[x].pet = w[x].pet
        /\ v[x].riding = w[x].riding /\ v[x].ridden_by = w[x].ridden_by
        /\ v[x].charm => w[x].charm
        /\ v[x].fighting # None => v[x].fighting = w[x].fighting \/ Here(w, v[x].fighting)
        /\ v[x].reply # None => v[x].reply = w[x].reply \/ Here(w, v[x].reply)

\* Fewer are charmed by the same, so that the charm thread still has an end.
LEMMA LoopFreeLooser ==
    ASSUME NEW w, NEW v, LoopFree(w),
           \A x \in Chars : v[x].charm /\ v[x].master # None => w[x].charm /\ w[x].master = v[x].master
    PROVE  LoopFree(v)
BY BondsAssumption DEF LoopFree

LEMMA UnbornIsNowhere == "unborn" \notin Rooms
BY BondsAssumption DEF Nowhere

\* Bonds are to somebody, or to nobody.
LEMMA BondsTyped ==
    ASSUME NEW w, w \in [Chars -> Person]
    PROVE  \A x \in Chars :
               /\ w[x] \in Person
               /\ w[x].master \in Someone /\ w[x].leader \in Someone /\ w[x].pet \in Someone
               /\ w[x].riding \in Someone /\ w[x].ridden_by \in Someone
               /\ w[x].fighting \in Someone /\ w[x].reply \in Someone
BY DEF Person, Someone

LEMMA QuietGood ==
    ASSUME NEW w, NEW v, Sound(w), Quiet(w, v)
    PROVE  Sound(v) /\ (Mounted(w) => Mounted(v))
<1>1. Clean(v)
  BY DEF Sound, Quiet, Clean
<1>2. Alive(v) /\ (Mounted(w) => Mounted(v))
  BY DEF Sound, Quiet, Alive, Mounted, Person
<1>3. Riders(v)
  BY DEF Sound, Quiet, Riders
<1>4. PetsOwned(v)
  BY DEF Sound, Quiet, PetsOwned
<1>5. LoopFree(v)
  BY LoopFreeLooser DEF Sound, Quiet
<1>6. Met(v)
  <2>1. \A x \in Chars : v[x].room = "unborn" => w[x].room = "unborn"
    BY UnbornIsNowhere DEF Quiet, Here
  <2> QED
    BY <2>1, BondsTyped DEF Sound, Quiet, Met, Someone
<1> QED
  BY <1>1, <1>2, <1>3, <1>4, <1>5, <1>6 DEF Sound, Quiet

LEMMA QuietTransitive ==
    ASSUME NEW u, NEW w, NEW v, Quiet(u, w), Quiet(w, v)
    PROVE  Quiet(u, v)
BY DEF Quiet, Here, Person

LEMMA QuietSelf == ASSUME NEW w, w \in [Chars -> Person] PROVE Quiet(w, w)
BY DEF Quiet

\* Somebody in the game goes to another room, or takes another position.
LEMMA MovedQuiet ==
    ASSUME NEW w, w \in [Chars -> Person], NEW c \in Chars, NEW to \in Rooms, Here(w, c)
    PROVE  Quiet(w, Moved(w, c, to))
BY DEF Quiet, Moved, With, Person, Here

LEMMA PosQuiet ==
    ASSUME NEW w, w \in [Chars -> Person], NEW c \in Chars, NEW p \in Positions, Here(w, c)
    PROVE  Quiet(w, With(w, c, [w[c] EXCEPT !.pos = p]))
BY DEF Quiet, With, Person, Here

LEMMA GroundedQuiet ==
    ASSUME NEW w, w \in [Chars -> Person], NEW c \in Chars, Here(w, c)
    PROVE  Quiet(w, Grounded(w, c))
BY PosQuiet DEF Grounded, Positions

\* Fights end (stop_fighting) and begin (set_fighting).
LEMMA OffFight ==
    ASSUME NEW r \in Person
    PROVE  LET q == [r EXCEPT !.fighting = None, !.pos = OnFeet(@)]
           IN  /\ q \in Person /\ q.room = r.room /\ q.charm = r.charm /\ q.master = r.master
               /\ q.leader = r.leader /\ q.pet = r.pet /\ q.riding = r.riding
               /\ q.ridden_by = r.ridden_by /\ q.fighting = None /\ q.reply = r.reply
               /\ r = NewChar(r.room) => q = r
<1>1. OnFeet(r.pos) \in Positions
  BY DEF OnFeet, Positions, Person
<1>2. ASSUME r = NewChar(r.room) PROVE [r EXCEPT !.fighting = None, !.pos = OnFeet(@)] = r
  <2>1. r.pos = "standing" /\ r.fighting = None
    BY <1>2 DEF NewChar
  <2>2. OnFeet(r.pos) = r.pos
    BY <2>1 DEF OnFeet
  <2>3. [r EXCEPT !.fighting = r.fighting, !.pos = r.pos] = r
    BY DEF Person
  <2> QED
    BY <2>1, <2>2, <2>3
<1> QED
  BY <1>1, <1>2, ZenonT(40) DEF Person

LEMMA StopFightingQuiet ==
    ASSUME NEW w, w \in [Chars -> Person], Clean(w), NEW c, NEW both \in BOOLEAN
    PROVE  Quiet(w, stop_fighting(w, c, both))
<1> DEFINE v == stop_fighting(w, c, both)
           Ended(r) == [r EXCEPT !.fighting = None, !.pos = OnFeet(@)]
<1>1. /\ v = [x \in Chars |-> v[x]]
      /\ \A x \in Chars : v[x] = w[x] \/ v[x] = Ended(w[x])
  BY DEF stop_fighting
<1> HIDE DEF v, Ended
<1>2. \A x \in Chars : w[x] \in Person
  OBVIOUS
<1>3. ASSUME NEW x \in Chars
      PROVE  /\ Ended(w[x]) \in Person
             /\ Ended(w[x]).room = w[x].room /\ Ended(w[x]).charm = w[x].charm
             /\ Ended(w[x]).master = w[x].master /\ Ended(w[x]).leader = w[x].leader
             /\ Ended(w[x]).pet = w[x].pet /\ Ended(w[x]).riding = w[x].riding
             /\ Ended(w[x]).ridden_by = w[x].ridden_by /\ Ended(w[x]).fighting = None
             /\ Ended(w[x]).reply = w[x].reply
             /\ ~Here(w, x) => Ended(w[x]) = w[x]
  BY <1>2, OffFight DEF Ended, Clean
<1>4. v \in [Chars -> Person]
  BY <1>1, <1>2, <1>3
<1> QED
  BY <1>1, <1>3, <1>4 DEF Quiet, Here, v

\* ... and nobody fights on whose fights all were to stop; all stay where they are.
LEMMA StoppedFighting ==
    ASSUME NEW w, w \in [Chars -> Person], NEW c \in Chars
    PROVE  \A x \in Chars : /\ stop_fighting(w, c, TRUE)[x].room = w[x].room
                            /\ stop_fighting(w, c, TRUE)[x].fighting # c
<1> DEFINE v == stop_fighting(w, c, TRUE)
           Ended(r) == [r EXCEPT !.fighting = None, !.pos = OnFeet(@)]
<1>1. \A x \in Chars : v[x] = IF x = c \/ w[x].fighting = c THEN Ended(w[x]) ELSE w[x]
  BY DEF stop_fighting
<1> HIDE DEF v, Ended
<1>2. ASSUME NEW x \in Chars PROVE Ended(w[x]).fighting = None /\ Ended(w[x]).room = w[x].room
  <2>1. w[x] \in Person
    OBVIOUS
  <2> QED
    BY <2>1, OffFight DEF Ended
<1>3. None # c
  BY BondsAssumption
<1>4. \A x \in Chars : v[x].room = w[x].room /\ v[x].fighting # c
  BY <1>1, <1>2, <1>3
<1> QED
  BY <1>4 DEF v

LEMMA SetFightingQuiet ==
    ASSUME NEW w, w \in [Chars -> Person], NEW c \in Chars, NEW a \in Chars, Here(w, c), Here(w, a)
    PROVE  Quiet(w, set_fighting(w, c, a))
<1> DEFINE f == [w[c] EXCEPT !.fighting = a, !.pos = "fighting"]
<1>1. /\ f \in Person /\ f.room = w[c].room /\ f.charm = w[c].charm /\ f.master = w[c].master
      /\ f.leader = w[c].leader /\ f.pet = w[c].pet /\ f.riding = w[c].riding
      /\ f.ridden_by = w[c].ridden_by /\ f.fighting = a /\ f.reply = w[c].reply
  <2>1. w[c] \in Person
    OBVIOUS
  <2> QED
    BY <2>1, ZenonT(40) DEF Person, Positions
<1>2. Quiet(w, With(w, c, f))
  BY <1>1 DEF Quiet, With, Here
<1> QED
  BY <1>2, QuietSelf DEF set_fighting

LEMMA CalmedQuiet ==
    ASSUME NEW w, w \in [Chars -> Person], Clean(w), NEW c
    PROVE  Quiet(w, Calmed(w, c))
BY StopFightingQuiet, QuietSelf DEF Calmed

LEMMA HurtQuiet ==
    ASSUME NEW w, w \in [Chars -> Person], Clean(w), NEW c \in Chars, Here(w, c)
    PROVE  Quiet(w, Hurt(w, c))
<1> DEFINE d == With(w, c, [w[c] EXCEPT !.pos = "dying"])
<1>1. Quiet(w, d)
  BY PosQuiet DEF Positions
<1>2. Clean(d) /\ d \in [Chars -> Person]
  BY <1>1 DEF Quiet, Clean
<1>3. Quiet(d, stop_fighting(d, c, FALSE))
  BY <1>2, StopFightingQuiet
<1> QED
  BY <1>1, <1>3, QuietTransitive DEF Hurt

-----------------------------------------------------------------------------
(***************************************************************************)
(* Following and riding.                                                   *)
(***************************************************************************)
\* Nobody moves, is charmed, takes a pet, a mount or a rider, or changes opponents.
Lets(w, v) ==
    \A x \in Chars : /\ v[x].room = w[x].room /\ v[x].fighting = w[x].fighting
                     /\ v[x].charm => w[x].charm
                     /\ v[x].pet \in {w[x].pet, None}
                     /\ v[x].riding \in {w[x].riding, None}
                     /\ v[x].ridden_by \in {w[x].ridden_by, None}

\* Nobody follows, leads or owns, or is followed, led or owned by, c.
Untied(w, c) ==
    /\ w[c].pet = None /\ w[c].master = None
    /\ \A x \in Chars : w[x].master # c /\ w[x].leader # c /\ w[x].pet # c

LEMMA MountedMet == ASSUME NEW w, Mounted(w) PROVE Met(w)
BY UnbornIsNowhere DEF Mounted, Met, Here

LEMMA LetsTransitive ==
    ASSUME NEW u, NEW w, NEW v, Lets(u, w), Lets(w, v)
    PROVE  Lets(u, v)
BY DEF Lets

\* A rider gets off.
LEMMA UnrideGood ==
    ASSUME SceneOK, NEW w, Good(w), NEW c \in Chars, NEW p \in Chars, w[c].riding = p
    PROVE  /\ Good(unride_char(w, c, p))
           /\ \A x \in Chars : Here(unride_char(w, c, p), x) <=> Here(w, x)
<1> DEFINE v == unride_char(w, c, p)
<1>1. v \in [Chars -> Person]
  BY DEF Good, Sound, unride_char, With, Person
<1>2. Here(w, p) /\ Here(w, c)
  BY BondsAssumption DEF Good, Sound, Mounted, Clean, NewChar
<1>3. \A x \in Chars :
         /\ v[x].room = w[x].room /\ v[x].charm = w[x].charm
         /\ v[x].master = w[x].master /\ v[x].leader = w[x].leader /\ v[x].pet = w[x].pet
         /\ v[x].fighting = w[x].fighting /\ v[x].reply = w[x].reply
         /\ v[x].riding = IF x = c THEN None ELSE w[x].riding
         /\ v[x].ridden_by = IF x = p /\ x # c THEN None ELSE w[x].ridden_by
         /\ x \notin {c, p} => v[x] = w[x]
  <2> TAKE x \in Chars
  <2> DEFINE u == With(w, p, [w[p] EXCEPT !.ridden_by = None])
  <2>1. \A y \in Chars : u[y] = IF y = p THEN [w[p] EXCEPT !.ridden_by = None] ELSE w[y]
    BY DEF With
  <2>2. v[x] = IF x = c THEN [w[c] EXCEPT !.riding = None] ELSE u[x]
    BY DEF unride_char, With
  <2> QED
    BY <2>1, <2>2 DEF Good, Sound, Person
<1>4. \A x \in Chars : Here(v, x) <=> Here(w, x)
  BY <1>3 DEF Here
<1>5. Clean(v)
  BY <1>2, <1>3, <1>4 DEF Good, Sound, Clean
<1>6. Alive(v) /\ Mounted(v)
  BY <1>3, <1>4, BondsAssumption DEF Good, Sound, Alive, Mounted, Person
<1>7. Riders(v)
  BY <1>3 DEF Good, Sound, Riders
<1>8. PetsOwned(v)
  BY <1>3, BondsAssumption, SceneOK DEF Good, Sound, PetsOwned, Riders, SceneOK
<1>9. LoopFree(v)
  BY <1>3, LoopFreeLooser DEF Good, Sound
<1>10. Met(v)
  BY <1>6, MountedMet
<1> QED
  BY <1>1, <1>4, <1>5, <1>6, <1>7, <1>8, <1>9, <1>10 DEF Good, Sound

\* Who stops following, and the owner if it was a pet, lose what tied them to each other; nobody
\* gains anything (stop_follower).
LEMMA StopFollowerGood ==
    ASSUME SceneOK, NEW w, Good(w), NEW c \in Chars
    PROVE  LET v == stop_follower(w, c)
           IN  /\ Good(v)
               /\ Lets(w, v)
               /\ v[c].master = None /\ ~v[c].charm
               /\ \A x \in Chars : v[x].pet # c
               /\ \A x \in Chars \ {c} : v[x].master = w[x].master
               /\ \A o \in Chars : w[o].pet = c => v[c].ridden_by = None /\ \A x \in Chars : v[x].riding # c
<1> DEFINE v == stop_follower(w, c)
           m == w[c].master
           left == [w[c] EXCEPT !.charm = FALSE, !.master = None, !.leader = None]
<1>1. \A x \in Chars : w[x] \in Person
  BY DEF Good, Sound
<1>4. /\ left \in Person /\ left.room = w[c].room /\ left.fighting = w[c].fighting /\ left.reply = w[c].reply
      /\ left.charm = FALSE /\ left.master = None /\ left.leader = None /\ left.pet = w[c].pet
      /\ left.riding = w[c].riding /\ left.ridden_by = w[c].ridden_by
  BY <1>1, ZenonT(40) DEF Person
<1>2. CASE m = None
  BY <1>2, BondsAssumption DEF Good, Sound, PetsOwned, Riders, Lets, stop_follower
<1>3. CASE m # None
  <2>1. m \in Chars /\ (w[m].pet = c => m # c)
    BY <1>1, <1>3, SceneOK DEF Person, Good, Sound, PetsOwned, Riders, SceneOK
  <2>2. v = IF w[m].pet # c THEN With(w, c, left)
            ELSE PetOf(IF w[m].riding = c THEN unride_char(With(w, c, left), m, c) ELSE With(w, c, left), m, None)
    BY <1>3 DEF stop_follower, stop_following_only
  <2>3. /\ v \in [Chars -> Person]
        /\ \A x \in Chars :
             /\ v[x].room = w[x].room /\ v[x].fighting = w[x].fighting /\ v[x].reply = w[x].reply
             /\ v[x].charm <=> x # c /\ w[x].charm
             /\ v[x].master = IF x = c THEN None ELSE w[x].master
             /\ v[x].leader = IF x = c THEN None ELSE w[x].leader
             /\ v[x].pet = IF x = m /\ w[m].pet = c THEN None ELSE w[x].pet
             /\ v[x].riding = IF x = m /\ w[m].pet = c /\ w[m].riding = c THEN None ELSE w[x].riding
             /\ v[x].ridden_by = IF x = c /\ w[m].pet = c /\ w[m].riding = c THEN None ELSE w[x].ridden_by
             /\ x \notin {c, m} => v[x] = w[x]
             /\ x = m /\ m # c => w[m].pet = c \/ v[m] = w[m]
    <3> DEFINE u1 == With(w, c, left)
    <3> HIDE DEF left
    <3>4. u1 \in [Chars -> Person] /\ u1[c] = left /\ \A x \in Chars \ {c} : u1[x] = w[x]
      BY <1>1, <1>4 DEF With
    <3>1. CASE w[m].pet # c
      <4>1. v = u1
        BY <2>2, <3>1
      <4> HIDE DEF u1, v
      <4> QED
        BY <1>4, <2>1, <3>1, <3>4, <4>1
    <3>2. CASE w[m].pet = c /\ w[m].riding # c
      <4> DEFINE q == [w[m] EXCEPT !.pet = None]
      <4>1. v = With(u1, m, q)
        BY <2>1, <2>2, <3>2, <3>4 DEF PetOf
      <4>2. /\ q \in Person /\ q.room = w[m].room /\ q.fighting = w[m].fighting /\ q.reply = w[m].reply
            /\ q.charm = w[m].charm /\ q.master = w[m].master /\ q.leader = w[m].leader /\ q.pet = None
            /\ q.riding = w[m].riding /\ q.ridden_by = w[m].ridden_by
        BY <1>1, <2>1 DEF Person
      <4> HIDE DEF u1, v, q
      <4>3. v \in [Chars -> Person] /\ v[m] = q /\ \A x \in Chars \ {m} : v[x] = u1[x]
        BY <2>1, <3>4, <4>1, <4>2 DEF With
      <4> QED
        BY <1>4, <2>1, <3>2, <3>4, <4>2, <4>3
    <3>3. CASE w[m].pet = c /\ w[m].riding = c
      <4> DEFINE off == [w[m] EXCEPT !.riding = None]
                 q == [off EXCEPT !.pet = None]
                 l == [left EXCEPT !.ridden_by = None]
                 u2 == With(u1, c, l)
                 u3 == With(u2, m, off)
      <4>1. v = With(u3, m, q)
        <5>1. u1[m] = w[m] /\ u1[c] = left
          BY <2>1, <3>3, <3>4
        <5>2. unride_char(u1, m, c) = u3
          BY <5>1 DEF unride_char
        <5>3. u3[m] = off
          BY <2>1 DEF With
        <5> QED
          BY <2>2, <3>3, <5>2, <5>3 DEF PetOf
      <4>2. /\ q \in Person /\ q.room = w[m].room /\ q.fighting = w[m].fighting /\ q.reply = w[m].reply
            /\ q.charm = w[m].charm /\ q.master = w[m].master /\ q.leader = w[m].leader /\ q.pet = None
            /\ q.riding = None /\ q.ridden_by = w[m].ridden_by
        <5>1. w[m] \in Person
          BY <1>1, <2>1
        <5>2. /\ off \in Person /\ off.room = w[m].room /\ off.fighting = w[m].fighting
              /\ off.reply = w[m].reply /\ off.charm = w[m].charm /\ off.master = w[m].master
              /\ off.leader = w[m].leader /\ off.riding = None /\ off.ridden_by = w[m].ridden_by
          BY <5>1 DEF Person
        <5> HIDE DEF off
        <5> QED
          BY <5>2 DEF Person
      <4>3. /\ l \in Person /\ l.room = left.room /\ l.fighting = left.fighting /\ l.reply = left.reply
            /\ l.charm = left.charm /\ l.master = left.master /\ l.leader = left.leader /\ l.pet = left.pet
            /\ l.riding = left.riding /\ l.ridden_by = None
        BY <1>4 DEF Person
      <4> HIDE DEF u1, v, q, l
      <4>4. /\ v \in [Chars -> Person] /\ v[m] = q /\ v[c] = l 
            /\ \A x \in Chars \ {c, m} : v[x] = w[x]
        BY <2>1, <3>3, <3>4, <4>1, <4>2, <4>3 DEF With
      <4> QED
        BY <1>4, <2>1, <3>3, <4>2, <4>3, <4>4
    <3> QED
      BY <3>1, <3>2, <3>3
  <2> HIDE DEF v
  <2>4. Here(w, c) /\ Here(w, m) /\ \A x \in Chars : Here(v, x) <=> Here(w, x)
    BY <1>3, <2>1, <2>3, BondsAssumption DEF Good, Sound, Alive, Clean, Here, NewChar
  <2>5. Clean(v)
    BY <2>1, <2>3, <2>4 DEF Good, Sound, Clean
  <2>6. Alive(v) /\ Mounted(v)
    BY <2>1, <2>3, <2>4, BondsAssumption DEF Good, Sound, Alive, Mounted, Person
  <2>7. Riders(v)
    BY <2>3 DEF Good, Sound, Riders
  <2>8. PetsOwned(v)
    <3> SUFFICES ASSUME NEW o \in Chars, NEW p \in Chars, v[o].pet = p
                 PROVE  /\ v[p].master = o /\ p \in scene.pets
                        /\ v[p].ridden_by \in {None, o}
                        /\ \A b \in Chars : v[b].riding = p <=> v[p].ridden_by = b
      BY DEF PetsOwned
    <3>1. w[o].pet = p /\ p # c
      BY <2>3, BondsAssumption DEF Good, Sound, PetsOwned
    <3> QED
      BY <2>3, <3>1, BondsAssumption DEF Good, Sound, PetsOwned
  <2>9. LoopFree(v)
    BY <2>3, LoopFreeLooser DEF Good, Sound
  <2>10. \A x \in Chars : v[x].pet # c
    BY <2>3, BondsAssumption DEF Good, Sound, PetsOwned
  <2>11. ASSUME NEW o \in Chars, w[o].pet = c
         PROVE  v[c].ridden_by = None /\ \A x \in Chars : v[x].riding # c
    BY <2>1, <2>3, <2>11, BondsAssumption DEF Good, Sound, PetsOwned
  <2> QED
    BY <2>3, <2>5, <2>6, <2>7, <2>8, <2>9, <2>10, <2>11, MountedMet DEF Good, Sound, Lets, v
<1> QED
  BY <1>2, <1>3

\* Who had a pet has none any more, and the pet follows on.
LEMMA PetLostGood ==
    ASSUME NEW w, Good(w), NEW c \in Chars
    PROVE  LET v == PetOf(w, c, None)
           IN  Good(v) /\ Lets(w, v) /\ v[c].pet = None
<1> DEFINE v == PetOf(w, c, None)
           q == [w[c] EXCEPT !.pet = None]
<1>1. w \in [Chars -> Person]
  BY DEF Good, Sound
<1>2. /\ q \in Person /\ q.room = w[c].room /\ q.charm = w[c].charm /\ q.master = w[c].master
      /\ q.leader = w[c].leader /\ q.pet = None /\ q.riding = w[c].riding
      /\ q.ridden_by = w[c].ridden_by /\ q.fighting = w[c].fighting /\ q.reply = w[c].reply
      /\ w[c] = NewChar(w[c].room) => q = w[c]
  <2>1. w[c] \in Person
    BY <1>1
  <2>2. ASSUME w[c] = NewChar(w[c].room) PROVE q = w[c]
    <3>1. w[c].pet = None
      BY <2>2 DEF NewChar
    <3>2. [w[c] EXCEPT !.pet = w[c].pet] = w[c]
      BY <2>1 DEF Person
    <3> QED
      BY <3>1, <3>2
  <2> QED
    BY <2>1, <2>2 DEF Person
<1>3. v = With(w, c, q)
  BY DEF PetOf
<1> HIDE DEF v, q
<1>4. v \in [Chars -> Person] /\ v[c] = q /\ \A x \in Chars \ {c} : v[x] = w[x]
  BY <1>1, <1>2, <1>3 DEF With
<1>5. \A x \in Chars :
         /\ v[x].room = w[x].room /\ v[x].master = w[x].master /\ v[x].leader = w[x].leader
         /\ v[x].charm = w[x].charm /\ v[x].riding = w[x].riding /\ v[x].ridden_by = w[x].ridden_by
         /\ v[x].fighting = w[x].fighting /\ v[x].reply = w[x].reply
         /\ v[x].pet = IF x = c THEN None ELSE w[x].pet
  BY <1>2, <1>4
<1>6. Clean(v)
  BY <1>2, <1>4 DEF Good, Sound, Clean, Here
<1>7. Alive(v) /\ Mounted(v)
  <2>1. \A x \in Chars : Here(v, x) <=> Here(w, x)
    BY <1>5 DEF Here
  <2> QED
    BY <1>1, <1>5, <2>1, BondsTyped DEF Good, Sound, Alive, Mounted, Someone
<1>8. Riders(v)
  BY <1>5 DEF Good, Sound, Riders
<1>9. PetsOwned(v)
  BY <1>5, BondsAssumption DEF Good, Sound, PetsOwned
<1>10. LoopFree(v)
  BY <1>5, LoopFreeLooser DEF Good, Sound
<1> QED
  BY <1>4, <1>5, <1>6, <1>7, <1>8, <1>9, <1>10, MountedMet DEF Good, Sound, Lets, v

\* All that followed somebody are let go, and nobody is led by them (FollowersFreed).
LEMMA FollowersFreedGood ==
    ASSUME SceneOK, NEW w, Good(w), NEW c \in Chars
    PROVE  LET v == FollowersFreed(w, c)
           IN  /\ Good(v) /\ Lets(w, v)
               /\ w[c].master = None /\ (\A x \in Chars : w[x].pet # c) => Untied(v, c)
<1> DEFINE v == FollowersFreed(w, c)
           pet == w[c].pet
           dismounts == pet \in {x \in Chars : w[x].master = c} /\ w[c].riding = pet
           owner == [w[c] EXCEPT !.leader = None,
                                 !.pet = IF pet \in {x \in Chars : w[x].master = c} THEN None ELSE @,
                                 !.riding = IF dismounts THEN None ELSE @]
           Freed(x) == [w[x] EXCEPT !.charm = FALSE, !.master = None, !.leader = None,
                                    !.ridden_by = IF dismounts /\ x = pet THEN None ELSE @]
           Headless(x) == [w[x] EXCEPT !.leader = IF @ = c THEN x ELSE @]
<1>1. \A x \in Chars : w[x] \in Person
  BY DEF Good, Sound
<1>2. pet # None => pet \in Chars /\ w[pet].master = c /\ pet # c
  BY <1>1, SceneOK DEF Good, Sound, PetsOwned, Riders, SceneOK, Person
<1>3. dismounts <=> pet # None /\ w[c].riding = pet
  BY <1>2, BondsAssumption
<1>4. v = [x \in Chars |-> IF x = c THEN owner ELSE IF w[x].master = c THEN Freed(x) ELSE Headless(x)]
  BY DEF FollowersFreed
<1> HIDE DEF v
<1>5. /\ owner \in Person /\ owner.room = w[c].room /\ owner.charm = w[c].charm
      /\ owner.master = w[c].master /\ owner.leader = None /\ owner.pet = None
      /\ owner.riding = IF dismounts THEN None ELSE w[c].riding
      /\ owner.ridden_by = w[c].ridden_by /\ owner.fighting = w[c].fighting /\ owner.reply = w[c].reply
  <2> DEFINE p1 == IF pet \in {x \in Chars : w[x].master = c} THEN None ELSE pet
             r1 == IF dismounts THEN None ELSE w[c].riding
  <2>1. p1 = None /\ r1 \in Someone
    BY <1>1, <1>2 DEF Person, Someone
  <2>2. owner = [w[c] EXCEPT !.leader = None, !.pet = p1, !.riding = r1]
    OBVIOUS
  <2>3. w[c] \in Person
    BY <1>1
  <2> HIDE DEF owner, p1, r1
  <2>4. /\ owner \in Person /\ owner.room = w[c].room /\ owner.charm = w[c].charm
        /\ owner.master = w[c].master /\ owner.leader = None /\ owner.pet = None
        /\ owner.riding = r1
        /\ owner.ridden_by = w[c].ridden_by /\ owner.fighting = w[c].fighting /\ owner.reply = w[c].reply
    BY <2>1, <2>2, <2>3, ZenonT(40) DEF Person, Someone
  <2> QED
    BY <2>4 DEF r1
<1>6. ASSUME NEW x \in Chars
      PROVE  /\ Freed(x) \in Person /\ Freed(x).room = w[x].room /\ ~Freed(x).charm
             /\ Freed(x).master = None /\ Freed(x).leader = None /\ Freed(x).pet = w[x].pet
             /\ Freed(x).riding = w[x].riding
             /\ Freed(x).ridden_by = IF dismounts /\ x = pet THEN None ELSE w[x].ridden_by
             /\ Freed(x).fighting = w[x].fighting /\ Freed(x).reply = w[x].reply
  <2> DEFINE b1 == IF dismounts /\ x = pet THEN None ELSE w[x].ridden_by
             f == Freed(x)
  <2>1. b1 \in Someone
    BY <1>1 DEF Person, Someone
  <2>2. f = [w[x] EXCEPT !.charm = FALSE, !.master = None, !.leader = None, !.ridden_by = b1]
    OBVIOUS
  <2>3. w[x] \in Person
    BY <1>1
  <2> HIDE DEF f, b1
  <2>4. /\ f \in Person /\ f.room = w[x].room /\ ~f.charm
        /\ f.master = None /\ f.leader = None /\ f.pet = w[x].pet
        /\ f.riding = w[x].riding /\ f.ridden_by = b1
        /\ f.fighting = w[x].fighting /\ f.reply = w[x].reply
    BY <2>1, <2>2, <2>3 DEF Person, Someone
  <2> QED
    BY <2>4 DEF b1, f
<1>7. ASSUME NEW x \in Chars
      PROVE  /\ Headless(x) \in Person /\ Headless(x).room = w[x].room /\ Headless(x).charm = w[x].charm
             /\ Headless(x).master = w[x].master
             /\ Headless(x).leader = IF w[x].leader = c THEN x ELSE w[x].leader
             /\ Headless(x).pet = w[x].pet /\ Headless(x).riding = w[x].riding
             /\ Headless(x).ridden_by = w[x].ridden_by
             /\ Headless(x).fighting = w[x].fighting /\ Headless(x).reply = w[x].reply
  <2>1. w[x] \in Person
    BY <1>1
  <2> QED
    BY <2>1 DEF Person
<1> HIDE DEF owner, Freed, Headless, dismounts
<1>8. v \in [Chars -> Person]
  BY <1>4, <1>5, <1>6, <1>7
<1>9. \A x \in Chars :
         /\ v[x].room = w[x].room /\ v[x].fighting = w[x].fighting /\ v[x].reply = w[x].reply
         /\ v[x].charm => w[x].charm /\ v[x].master = w[x].master
         /\ v[x].master = IF x # c /\ w[x].master = c THEN None ELSE w[x].master
         /\ v[x].leader \in {w[x].leader, None} \/ (x # c /\ w[x].leader = c /\ v[x].leader = x)
         /\ v[x].leader # c
         /\ v[x].pet = IF x = c THEN None ELSE w[x].pet
         /\ v[x].riding = IF x = c /\ dismounts THEN None ELSE w[x].riding
         /\ v[x].ridden_by = IF x = pet /\ dismounts THEN None ELSE w[x].ridden_by
  BY <1>2, <1>3, <1>4, <1>5, <1>6, <1>7, BondsAssumption
<1>10. \A x \in Chars : Here(v, x) <=> Here(w, x)
  BY <1>9 DEF Here
<1>11. Clean(v)
  <2> SUFFICES ASSUME NEW x \in Chars, ~Here(w, x) PROVE v[x] = NewChar(v[x].room)
    BY <1>10 DEF Clean
  <2>1. w[x] = NewChar(w[x].room)
    BY DEF Good, Sound, Clean
  <2>2. w[x].leader = None /\ w[x].pet = None /\ w[x].riding = None /\ w[x].master = None
    BY <2>1 DEF NewChar
  <2>3. v[x] \in Person /\ w[x] \in Person /\ v[x].room = w[x].room
    BY <1>1, <1>8, <1>9
  <2>4. v[x] = w[x]
    <3>1. CASE x = c
      <4>1. v[x] = owner /\ ~dismounts
        BY <1>3, <1>4, <2>2, <3>1
      <4>2. [w[c] EXCEPT !.leader = w[c].leader, !.pet = w[c].pet, !.riding = w[c].riding] = w[c]
        BY <1>1 DEF Person
      <4> QED
        BY <2>2, <3>1, <4>1, <4>2 DEF owner
    <3>2. CASE x # c
      <4>1. v[x] = Headless(x)
        BY <1>4, <2>2, <3>2, BondsAssumption
      <4>2. [w[x] EXCEPT !.leader = w[x].leader] = w[x]
        BY <1>1 DEF Person
      <4> QED
        BY <2>2, <4>1, <4>2, BondsAssumption DEF Headless
    <3> QED
      BY <3>1, <3>2
  <2> QED
    BY <2>1, <2>3, <2>4
<1>12. Alive(v) /\ Mounted(v)
  <2>1. \A x \in Chars : w[x].leader = c => Here(w, x)
    BY BondsAssumption DEF Good, Sound, Clean, NewChar
  <2>2. \A x \in Chars : w[x].leader \in Someone /\ w[x].master \in Someone /\ w[x].pet \in Someone
                           /\ w[x].riding \in Someone /\ w[x].ridden_by \in Someone
                           /\ w[x].fighting \in Someone /\ w[x].reply \in Someone
    BY BondsTyped DEF Good, Sound
  <2>3. Mounted(v)
    BY <1>9, <1>10, <2>2 DEF Good, Mounted, Someone
  <2>4. Alive(v)
    BY <1>9, <1>10, <2>1, <2>2 DEF Good, Sound, Alive, Someone
  <2> QED
    BY <2>3, <2>4
<1>13. Riders(v)
  BY <1>9 DEF Good, Sound, Riders
<1>14. PetsOwned(v)
  <2> SUFFICES ASSUME NEW o \in Chars, NEW p \in Chars, v[o].pet = p
               PROVE  /\ v[p].master = o /\ p \in scene.pets
                      /\ v[p].ridden_by \in {None, o}
                      /\ \A b \in Chars : v[b].riding = p <=> v[p].ridden_by = b
    BY DEF PetsOwned
  <2>1. w[o].pet = p /\ o # c
    BY <1>9, BondsAssumption
  <2>2. p # pet /\ w[p].master # c
    BY <1>2, <2>1, BondsAssumption DEF Good, Sound, PetsOwned
  <2> QED
    BY <1>3, <1>9, <2>1, <2>2, BondsAssumption DEF Good, Sound, PetsOwned
<1>15. LoopFree(v)
  BY <1>9, LoopFreeLooser DEF Good, Sound
<1> QED
  BY <1>8, <1>9, <1>11, <1>12, <1>13, <1>14, <1>15, MountedMet, BondsAssumption DEF Good, Sound, Lets, Untied, v

\* After die_follower nobody follows, leads or owns any more who did so with c.
LEMMA DieFollowerGood ==
    ASSUME SceneOK, NEW w, Good(w), NEW c \in Chars
    PROVE  LET v == die_follower(w, c) IN Good(v) /\ Lets(w, v) /\ Untied(v, c)
<1> DEFINE m == w[c].master
           disowned == IF w[m].pet = c THEN PetOf(w, m, None) ELSE w
           free == IF m = None THEN w ELSE stop_follower(disowned, c)
<1>1. m \in Someone
  BY BondsTyped DEF Good, Sound
<1>2. Lets(w, w)
  BY DEF Lets
<1>3. m # None => Good(disowned) /\ Lets(w, disowned)
  BY <1>1, <1>2, PetLostGood DEF Someone
<1>4. Good(free) /\ Lets(w, free) /\ free[c].master = None /\ \A x \in Chars : free[x].pet # c
  <2>1. CASE m = None
    <3>1. \A x \in Chars : w[x].pet # c
      BY <2>1, BondsAssumption DEF Good, Sound, PetsOwned
    <3> QED
      BY <1>2, <2>1, <3>1
  <2>2. CASE m # None
    <3> HIDE DEF disowned
    <3> QED
      BY <1>3, <2>2, StopFollowerGood, LetsTransitive
  <2> QED
    BY <2>1, <2>2
<1>5. die_follower(w, c) = FollowersFreed(free, c)
  BY DEF die_follower
<1> HIDE DEF free
<1> QED
  BY <1>4, <1>5, FollowersFreedGood, LetsTransitive

-----------------------------------------------------------------------------
(***************************************************************************)
(* Leaving the game, and dying.                                            *)
(***************************************************************************)
LEMMA GoneIsNowhere == NewChar("gone").room = "gone" /\ "gone" \notin Rooms
BY BondsAssumption DEF NewChar, Nowhere

\* Nobody rides on c, or is ridden by c.
Footed(w, c) == \A x \in Chars : w[x].riding # c /\ w[x].ridden_by # c

\* All but c stay where they are, with the pets, mounts and riders they had, or without.
Outlives(w, v, c) ==
    /\ v[c] = NewChar("gone")
    /\ \A x \in Chars \ {c} : /\ v[x].room = w[x].room
                              /\ v[x].pet \in {w[x].pet, None}
                              /\ v[x].riding \in {w[x].riding, None}
                              /\ v[x].ridden_by \in {w[x].ridden_by, None}

\* Who is tied to nobody any more can be taken out of the game; a pointer of a rider or a mount
\* to them is all that may be left.
LEMMA DepartsSound ==
    ASSUME NEW w, Good(w), NEW c \in Chars, Untied(w, c), \A x \in Chars : w[x].fighting # c
    PROVE  LET v == Departs(w, c, TRUE)
           IN  Sound(v) /\ (Footed(w, c) => Mounted(v)) /\ Outlives(w, v, c)
<1> DEFINE v == Departs(w, c, TRUE)
           Forgets(x) == [w[x] EXCEPT !.reply = IF @ = c THEN None ELSE @]
<1>1. \A x \in Chars : w[x] \in Person
  BY DEF Good, Sound
<1>2. v = [x \in Chars |-> IF x = c THEN NewChar("gone") ELSE Forgets(x)]
  BY DEF Departs
<1>3. /\ NewChar("gone") \in Person
      /\ NewChar("gone").room = "gone" /\ ~NewChar("gone").charm
      /\ NewChar("gone").master = None /\ NewChar("gone").leader = None /\ NewChar("gone").pet = None
      /\ NewChar("gone").riding = None /\ NewChar("gone").ridden_by = None
      /\ NewChar("gone").fighting = None /\ NewChar("gone").reply = None
  BY DEF NewChar, Person, Positions, Nowhere
<1>4. ASSUME NEW x \in Chars
      PROVE  /\ Forgets(x) \in Person /\ Forgets(x).room = w[x].room /\ Forgets(x).charm = w[x].charm
             /\ Forgets(x).master = w[x].master /\ Forgets(x).leader = w[x].leader
             /\ Forgets(x).pet = w[x].pet /\ Forgets(x).riding = w[x].riding
             /\ Forgets(x).ridden_by = w[x].ridden_by /\ Forgets(x).fighting = w[x].fighting
             /\ Forgets(x).reply = IF w[x].reply = c THEN None ELSE w[x].reply
             /\ w[x].reply = None => Forgets(x) = w[x]
  <2>1. w[x] \in Person
    BY <1>1
  <2>2. w[x].reply = None => Forgets(x) = w[x]
    <3>1. [w[x] EXCEPT !.reply = w[x].reply] = w[x]
      BY <2>1 DEF Person
    <3> QED
      BY <3>1, BondsAssumption
  <2> QED
    BY <2>1, <2>2 DEF Person
<1> HIDE DEF v, Forgets
<1>5. v \in [Chars -> Person] /\ v[c] = NewChar("gone") /\ \A x \in Chars \ {c} : v[x] = Forgets(x)
  BY <1>2, <1>3, <1>4
<1>6. \A x \in Chars : Here(v, x) <=> x # c /\ Here(w, x)
  BY <1>3, <1>4, <1>5, BondsAssumption DEF Here, Nowhere
<1>7. Clean(v)
  <2> SUFFICES ASSUME NEW x \in Chars, ~Here(v, x) PROVE v[x] = NewChar(v[x].room)
    BY DEF Clean
  <2>1. CASE x = c
    BY <1>3, <1>5, <2>1
  <2>2. CASE x # c
    <3>1. w[x] = NewChar(w[x].room)
      BY <1>6, <2>2 DEF Good, Sound, Clean
    <3>2. w[x].reply = None
      BY <3>1 DEF NewChar
    <3> QED
      BY <1>4, <1>5, <2>2, <3>1, <3>2
  <2> QED
    BY <2>1, <2>2
<1>8. Alive(v)
  BY <1>3, <1>4, <1>5, <1>6, BondsTyped, BondsAssumption DEF Good, Sound, Alive, Someone, Untied
<1>9. Footed(w, c) => Mounted(v)
  BY <1>3, <1>4, <1>5, <1>6, BondsTyped DEF Good, Sound, Mounted, Someone, Footed
<1>10. Riders(v)
  BY <1>3, <1>4, <1>5 DEF Good, Sound, Riders
<1>11. PetsOwned(v)
  BY <1>3, <1>4, <1>5, BondsAssumption DEF Good, Sound, PetsOwned, Untied
<1>12. LoopFree(v)
  BY <1>3, <1>4, <1>5, LoopFreeLooser DEF Good, Sound
<1>13. Met(v)
  <2>1. \A x \in Chars : v[x].room = "unborn" => w[x].room = "unborn"
    BY <1>3, <1>4, <1>5
  <2>2. \A x \in Chars :
           /\ v[x].riding # None => v[x].riding = w[x].riding /\ w[x].riding \in Chars
           /\ v[x].ridden_by # None => v[x].ridden_by = w[x].ridden_by /\ w[x].ridden_by \in Chars
    BY <1>3, <1>4, <1>5, BondsTyped DEF Good, Sound, Someone
  <2> QED
    BY <2>1, <2>2 DEF Good, Sound, Met
<1> QED
  BY <1>4, <1>5, <1>7, <1>8, <1>9, <1>10, <1>11, <1>12, <1>13, ZenonT(40) DEF Sound, Outlives, v

\* extract_char, for good.
LEMMA TakenSound ==
    ASSUME SceneOK, NEW w, Good(w), NEW c \in Chars
    PROVE  LET v == Taken(w, c, TRUE)
           IN  Sound(v) /\ (Footed(w, c) => Mounted(v)) /\ Outlives(w, v, c)
<1> DEFINE u == die_follower(w, c)
           s == stop_fighting(u, c, TRUE)
<1>1. Good(u) /\ Lets(w, u) /\ Untied(u, c)
  BY DieFollowerGood
<1> HIDE DEF u
<1>2. Quiet(u, s)
  BY <1>1, StopFightingQuiet DEF Good, Sound
<1>3. \A x \in Chars : s[x].fighting # c /\ s[x].room = u[x].room
  <2>1. u \in [Chars -> Person]
    BY <1>1 DEF Good, Sound
  <2> QED
    BY <2>1, StoppedFighting
<1>4. Taken(w, c, TRUE) = Departs(s, c, TRUE)
  BY DEF Taken, u
<1> HIDE DEF s
<1>5. Good(s)
  BY <1>1, <1>2, QuietGood DEF Good
<1>6. Untied(s, c)
  BY <1>1, <1>2 DEF Quiet, Untied
<1>9. \A x \in Chars : /\ s[x].room = w[x].room
                       /\ s[x].pet \in {w[x].pet, None}
                       /\ s[x].riding \in {w[x].riding, None}
                       /\ s[x].ridden_by \in {w[x].ridden_by, None}
  BY <1>1, <1>2, <1>3 DEF Quiet, Lets
<1>7. /\ Footed(w, c) => Footed(s, c)
      /\ \A v : Outlives(s, v, c) => Outlives(w, v, c)
  BY <1>9, BondsAssumption DEF Footed, Outlives
<1>8. /\ Sound(Departs(s, c, TRUE))
      /\ Footed(s, c) => Mounted(Departs(s, c, TRUE))
      /\ Outlives(s, Departs(s, c, TRUE), c)
  BY <1>3, <1>5, <1>6, DepartsSound
<1> QED
  BY <1>4, <1>7, <1>8

\* Back to the altar.
LEMMA TakenToAltar ==
    ASSUME NEW w, Sound(w), NEW c \in Chars, Here(w, c)
    PROVE  Quiet(w, Taken(w, c, FALSE))
<1> DEFINE s == stop_fighting(w, c, TRUE)
<1>1. Quiet(w, s)
  BY StopFightingQuiet DEF Sound
<1>2. Taken(w, c, FALSE) = Moved(s, c, Altar)
  BY DEF Taken, Departs
<1>3. s \in [Chars -> Person] /\ Here(s, c)
  BY <1>1 DEF Quiet
<1> HIDE DEF s
<1>4. Quiet(s, Moved(s, c, Altar))
  BY <1>3, MovedQuiet, BondsAssumption
<1> QED
  BY <1>1, <1>2, <1>4, QuietTransitive

\* Who stays in the game: all, or all but c.
Same(w, v) == \A x \in Chars : Here(v, x) <=> Here(w, x)
AllBut(w, v, c) == \A x \in Chars : Here(v, x) <=> Here(w, x) /\ x # c

LEMMA LetsSame == ASSUME NEW w, NEW v, Lets(w, v) PROVE Same(w, v)
BY DEF Lets, Same, Here

LEMMA QuietSame == ASSUME NEW w, NEW v, Quiet(w, v) PROVE Same(w, v)
BY DEF Quiet, Same

LEMMA SameTransitive ==
    ASSUME NEW u, NEW w, NEW v, Same(u, w), Same(w, v)
    PROVE  Same(u, v)
BY DEF Same

\* Nobody is left riding on a pet that was sold with its owner (nuke_pets).
LEMMA NukePetsGood ==
    ASSUME SceneOK, NEW w, Good(w), NEW c \in Chars
    PROVE  LET v == nuke_pets(w, c)
           IN  Good(v) /\ w[c].pet # c /\ AllBut(w, v, w[c].pet)
<1> DEFINE p == w[c].pet
           x == stop_follower(w, p)
           sold == Taken(x, p, TRUE)
<1>1. CASE p = None
  BY <1>1, BondsAssumption DEF nuke_pets, AllBut
<1>2. CASE p # None
  <2>1. p \in Chars /\ p # c /\ p \in scene.npc /\ Here(w, p)
    BY <1>2, BondsTyped, SceneOK DEF Someone, Good, Sound, PetsOwned, Riders, SceneOK, Alive
  <2>2. /\ Good(x) /\ Lets(w, x) /\ x[p].ridden_by = None
        /\ \A b \in Chars : x[b].riding # p
    BY <2>1, StopFollowerGood
  <2>3. Here(x, p) /\ Footed(x, p)
    BY <2>1, <2>2, BondsAssumption DEF Lets, Here, Footed, Good, Sound, Riders
  <2>4. nuke_pets(w, c) = PetOf(sold, c, None)
    BY <1>2, <2>2, <2>3 DEF nuke_pets
  <2> HIDE DEF x
  <2>5. Sound(sold) /\ Mounted(sold) /\ Outlives(x, sold, p)
    BY <2>1, <2>2, <2>3, TakenSound
  <2>6. AllBut(w, sold, p)
    <3>1. sold[p].room \notin Rooms
      BY <2>5, GoneIsNowhere DEF Outlives
    <3>2. \A y \in Chars \ {p} : sold[y].room = w[y].room
      BY <2>2, <2>5 DEF Outlives, Lets
    <3> QED
      BY <3>1, <3>2 DEF AllBut, Here
  <2>7. Good(PetOf(sold, c, None)) /\ Same(sold, PetOf(sold, c, None))
    BY <2>5, PetLostGood, LetsSame DEF Good
  <2> QED
    BY <2>1, <2>4, <2>6, <2>7 DEF AllBut, Same
<1> QED
  BY <1>1, <1>2

\* Who dies and is a player wakes at the altar.
LEMMA PlayerDiesGood ==
    ASSUME SceneOK, NEW w, Good(w), NEW c \in Chars, Here(w, c)
    PROVE  Good(PlayerDies(w, c))
<1> DEFINE s == stop_fighting(w, c, TRUE)
           n == nuke_pets(s, c)
           t == Taken(n, c, FALSE)
           q == [t[c] EXCEPT !.charm = FALSE, !.pos = "resting"]
<1>1. Good(s) /\ Here(s, c)
  <2>1. Quiet(w, s)
    BY StopFightingQuiet DEF Good, Sound
  <2> QED
    BY <2>1, QuietGood DEF Good, Quiet
<1> HIDE DEF s
<1>2. Good(n) /\ Here(n, c)
  BY <1>1, NukePetsGood DEF AllBut
<1> HIDE DEF n
<1>3. Good(t) /\ Here(t, c)
  <2>1. Quiet(n, t)
    BY <1>2, TakenToAltar DEF Good
  <2> QED
    BY <1>2, <2>1, QuietGood DEF Good, Quiet
<1>4. PlayerDies(w, c) = With(t, c, q)
  BY DEF PlayerDies, t, n, s
<1> HIDE DEF t
<1>5. t \in [Chars -> Person]
  BY <1>3 DEF Good, Sound
<1>6. /\ q \in Person /\ q.room = t[c].room /\ ~q.charm /\ q.master = t[c].master
      /\ q.leader = t[c].leader /\ q.pet = t[c].pet /\ q.riding = t[c].riding
      /\ q.ridden_by = t[c].ridden_by /\ q.fighting = t[c].fighting /\ q.reply = t[c].reply
  <2>1. t[c] \in Person
    BY <1>5
  <2>2. q = [t[c] EXCEPT !.charm = FALSE, !.pos = "resting"]
    OBVIOUS
  <2> HIDE DEF q
  <2> QED
    BY <2>1, <2>2 DEF Person, Positions
<1> HIDE DEF q
<1>7. Quiet(t, With(t, c, q))
  BY <1>3, <1>5, <1>6 DEF Quiet, With, Here
<1> QED
  BY <1>3, <1>4, <1>7, QuietGood DEF Good

-----------------------------------------------------------------------------
(***************************************************************************)
(* Blows, falls and deaths.                                                *)
(***************************************************************************)
LEMMA CheckKillerGood ==
    ASSUME SceneOK, NEW w, Good(w), NEW a \in Chars, NEW c
    PROVE  Good(check_killer(w, a, c)) /\ Same(w, check_killer(w, a, c))
<1>1. Good(w) /\ Same(w, w)
  BY DEF Same
<1>2. Good(stop_follower(w, a)) /\ Same(w, stop_follower(w, a))
  BY StopFollowerGood, LetsSame
<1>3. w[a].charm => w[a].master # None
  BY DEF Good, Sound, Riders
<1> QED
  BY <1>1, <1>2, <1>3 DEF check_killer

LEMMA EngagedGood ==
    ASSUME NEW w, Good(w), NEW a \in Chars, NEW c \in Chars, Here(w, a), Here(w, c)
    PROVE  Good(set_fighting(w, a, c)) /\ Same(w, set_fighting(w, a, c))
<1>1. Quiet(w, set_fighting(w, a, c))
  BY SetFightingQuiet DEF Good, Sound
<1> QED
  BY <1>1, QuietGood, QuietSame DEF Good

LEMMA StruckGood ==
    ASSUME SceneOK, NEW w, Good(w), NEW a \in Chars, NEW c \in Chars, Here(w, a), Here(w, c)
    PROVE  Good(Struck(w, a, c)) /\ Same(w, Struck(w, a, c))
<1> DEFINE k == check_killer(w, a, c)
           e1 == set_fighting(k, c, a)
           e2 == set_fighting(e1, a, c)
           f == IF Dying(k, c) THEN k ELSE e2
<1>1. Good(k) /\ Same(w, k)
  BY CheckKillerGood
<1> HIDE DEF k
<1>2. Good(e1) /\ Same(k, e1)
  BY <1>1, EngagedGood DEF Same
<1> HIDE DEF e1
<1>3. Good(e2) /\ Same(e1, e2)
  BY <1>1, <1>2, EngagedGood DEF Same
<1> HIDE DEF e2
<1>4. Good(f) /\ Same(w, f)
  BY <1>1, <1>2, <1>3, SameTransitive
<1>5. Struck(w, a, c) = IF f[c].master = a THEN stop_follower(f, c) ELSE f
  BY DEF Struck, k, e1, e2
<1> HIDE DEF f
<1>6. Good(stop_follower(f, c)) /\ Same(f, stop_follower(f, c))
  BY <1>4, StopFollowerGood, LetsSame
<1> QED
  BY <1>4, <1>5, <1>6, SameTransitive

LEMMA HurtGood ==
    ASSUME NEW w, Good(w), NEW c \in Chars, Here(w, c)
    PROVE  Good(Hurt(w, c)) /\ Same(w, Hurt(w, c))
<1>1. Quiet(w, Hurt(w, c))
  BY HurtQuiet DEF Good, Sound
<1> QED
  BY <1>1, QuietGood, QuietSame DEF Good

LEMMA CalmedGood ==
    ASSUME NEW w, Good(w), NEW c
    PROVE  Good(Calmed(w, c)) /\ Same(w, Calmed(w, c))
<1>1. Quiet(w, Calmed(w, c))
  BY CalmedQuiet DEF Good, Sound
<1> QED
  BY <1>1, QuietGood, QuietSame DEF Good

LEMMA MovedGood ==
    ASSUME NEW w, Good(w), NEW c \in Chars, Here(w, c), NEW to \in Rooms
    PROVE  Good(Moved(w, c, to)) /\ Same(w, Moved(w, c, to))
<1>1. Quiet(w, Moved(w, c, to))
  BY MovedQuiet DEF Good, Sound
<1> QED
  BY <1>1, QuietGood, QuietSame DEF Good

LEMMA PraysGood ==
    ASSUME NEW w, Good(w), NEW c \in Chars, Here(w, c), NEW v \in Prays(w, c)
    PROVE  Good(v) /\ Same(w, v)
<1> DEFINE k == Calmed(w, c)
<1>1. Good(k) /\ Same(w, k) /\ Here(k, c)
  BY CalmedGood DEF Same
<1>2. v = Moved(k, c, Temple)
  BY DEF Prays
<1> HIDE DEF k
<1> QED
  BY <1>1, <1>2, MovedGood, BondsAssumption, SameTransitive

\* A rider is thrown, and may be struck or killed by the mount, or recall (fallen_off_mount).
LEMMA FallenGood ==
    ASSUME SceneOK, NEW w, Good(w), NEW c \in Chars, NEW v \in fallen_off_mount(w, c)
    PROVE  Good(v)
<1> DEFINE p == w[c].riding
           off == unride_char(w, c, p)
           down == Grounded(off, c)
           hit == Struck(down, p, c)
<1>1. CASE p = None
  BY <1>1 DEF fallen_off_mount
<1>2. CASE p # None
  <2>1. p \in Chars /\ Here(w, p) /\ Here(w, c)
    BY <1>2, BondsTyped DEF Someone, Good, Sound, Mounted, Clean, NewChar
  <2>2. Good(off) /\ Same(w, off)
    BY <2>1, UnrideGood DEF Same
  <2> HIDE DEF off
  <2>3. Quiet(off, down)
    BY <2>1, <2>2, GroundedQuiet DEF Good, Sound, Same
  <2> HIDE DEF down
  <2>4. Good(down) /\ Here(down, p) /\ Here(down, c)
    BY <2>1, <2>2, <2>3, QuietGood, QuietSame DEF Good, Same
  <2>5. Good(hit) /\ Here(hit, c)
    BY <2>1, <2>4, StruckGood DEF Same
  <2> DEFINE Comes(u) == {u} \cup (IF u[c].pet = None THEN {} ELSE Prays(u, u[c].pet))
             Away(x) == {x} \cup UNION {Comes(u) : u \in Prays(x, c)}
  <2>6. v \in {down, PlayerDies(hit, c)} \/ v \in Away(hit) \/ v \in Away(Hurt(hit, c))
    BY <1>2 DEF fallen_off_mount, off, down
  <2> HIDE DEF hit
  <2>7. ASSUME NEW x, Good(x), Here(x, c), v \in Away(x)
        PROVE  Good(v)
    <3>1. CASE v = x
      BY <2>7, <3>1
    <3>2. CASE v # x
      <4>1. PICK u \in Prays(x, c) : v \in Comes(u)
        BY <2>7, <3>2
      <4>2. Good(u)
        BY <2>7, <4>1, PraysGood
      <4>3. u[c].pet \in Someone /\ (u[c].pet # None => Here(u, u[c].pet))
        BY <4>2, BondsTyped DEF Good, Sound, Alive
      <4> QED
        BY <4>1, <4>2, <4>3, PraysGood DEF Someone
    <3> QED
      BY <3>1, <3>2
  <2>8. Good(Hurt(hit, c)) /\ Here(Hurt(hit, c), c)
    BY <2>5, HurtGood DEF Same
  <2>9. Good(PlayerDies(hit, c))
    BY <2>5, PlayerDiesGood
  <2> HIDE DEF Away
  <2> QED
    BY <2>4, <2>5, <2>6, <2>7, <2>8, <2>9
<1> QED
  BY <1>1, <1>2

LEMMA UnseatedGood ==
    ASSUME SceneOK, NEW w, Good(w), NEW p \in Chars, NEW v \in Unseated(w, p)
    PROVE  Good(v)
<1>1. w[p].ridden_by \in Someone
  BY BondsTyped DEF Good, Sound
<1> QED
  BY <1>1, FallenGood DEF Unseated, Someone

\* One is taken out of the game, whoever rode on them thrown before; pointers of others who took
\* them for their mount, or their rider, may be left.
LEMMA ExtractSound ==
    ASSUME SceneOK, NEW w, Good(w), NEW c \in Chars, NEW v \in extract_char(w, c, TRUE)
    PROVE  Sound(v) /\ v[c] = NewChar("gone")
<1>1. Good(nuke_pets(w, c))
  BY NukePetsGood
<1>2. PICK u \in Unseated(nuke_pets(w, c), c) : v = Taken(u, c, TRUE)
  BY DEF extract_char
<1>3. Good(u)
  BY <1>1, <1>2, UnseatedGood
<1> QED
  BY <1>2, <1>3, TakenSound DEF Outlives

LEMMA RawKillSound ==
    ASSUME SceneOK, NEW w, Good(w), NEW c \in Chars, Here(w, c), NEW v \in raw_kill(w, c)
    PROVE  /\ Sound(v) /\ (Mounted(v) \/ v[c] = NewChar("gone"))
           /\ c \notin scene.npc => Mounted(v)
<1>1. Good(stop_fighting(w, c, TRUE))
  BY StopFightingQuiet, QuietGood DEF Good, Sound
<1> QED
  BY <1>1, ExtractSound, PlayerDiesGood DEF raw_kill, IsNpc, Good

-----------------------------------------------------------------------------
(***************************************************************************)
(* Walking.                                                                *)
(***************************************************************************)
LEMMA WalksWalked ==
    ASSUME NEW w, NEW c \in Chars, NEW d, NEW v \in Walks(w, c, d), v # w
    PROVE  \E go, off : /\ v = Walked(w, go, LeadsTo(w[c].room, d), off)
                        /\ go \subseteq {x \in Chars : Together(w, c, x)}
                        /\ off \subseteq {x \in Chars : Together(w, c, x)}
<1> DEFINE to == LeadsTo(w[c].room, d)
           follow == {y \in Chars : Together(w, c, y) /\ y # c /\ w[y].master # None}
           Idle(column) == {y \in follow : w[y].charm /\ w[y].master \in column /\ w[y].pos # "standing"}
<1>1. PICK barred, passed :
         v = Walked(w, Column(w, c, d, barred), to, Idle(Column(w, c, d, barred)) \ passed)
  BY DEF Walks
<1>2. Column(w, c, d, barred) \subseteq {x \in Chars : Together(w, c, x)}
  BY DEF Column
<1>3. Idle(Column(w, c, d, barred)) \ passed \subseteq {x \in Chars : Together(w, c, x)}
  OBVIOUS
<1> QED
  BY <1>1, <1>2, <1>3

\* Those who walk take their bonds along, and who had to get off a mount is no longer said to be on it.
LEMMA WalksGood ==
    ASSUME NEW w, Good(w), NEW c \in Chars, Here(w, c), NEW d \in Directions, NEW v \in Walks(w, c, d)
    PROVE  Good(v) /\ Same(w, v)
<1> DEFINE to == LeadsTo(w[c].room, d)
<1>1. CASE v = w
  BY <1>1 DEF Same
<1>2. CASE v # w
  <2>1. PICK go, off :
           /\ v = Walked(w, go, to, off)
           /\ go \subseteq {x \in Chars : Together(w, c, x)}
           /\ off \subseteq {x \in Chars : Together(w, c, x)}
    BY <1>2, WalksWalked
  <2> DEFINE room(x) == IF x \in go THEN to ELSE w[x].room
             pos(x) == IF x \in off /\ w[x].riding = None /\ Relaxing(w, x) THEN "standing" ELSE w[x].pos
             riding(x) == IF x \in off THEN None ELSE w[x].riding
             ridden_by(x) == IF \E y \in off : w[y].riding = x THEN None ELSE w[x].ridden_by
             Walker(x) == [w[x] EXCEPT !.room = room(x), !.pos = pos(x), !.riding = riding(x),
                                       !.ridden_by = ridden_by(x)]
  <2>2. v = [x \in Chars |-> Walker(x)]
    BY <2>1 DEF Walked
  <2>3. to \in Rooms
    <3>1. CanGo(w, c, d)
      BY DEF Walks
    <3> QED
      BY <3>1, DoorsAssumption DEF CanGo, Has, LeadsTo, Here
  <2>4. off \in SUBSET Chars /\ go \in SUBSET Chars /\ \A x \in go : Here(w, x)
    BY <2>1 DEF Together, Here
  <2>5. \A y \in off : Here(w, y)
    BY <2>1 DEF Together, Here
  <2>6. \A x \in Chars : /\ room(x) \in Rooms \cup Nowhere /\ pos(x) \in Positions
                         /\ riding(x) \in Someone /\ ridden_by(x) \in Someone
    <3>1. "standing" \in Positions
      BY DEF Positions
    <3>2. \A x \in Chars : w[x] \in Person
      BY DEF Good, Sound
    <3> QED
      BY <2>3, <3>1, <3>2 DEF Person, Someone
  <2> HIDE DEF room, pos, riding, ridden_by, to
  <2>7. ASSUME NEW x \in Chars
        PROVE  /\ Walker(x) \in Person /\ Walker(x).room = room(x) /\ Walker(x).pos = pos(x)
               /\ Walker(x).riding = riding(x) /\ Walker(x).ridden_by = ridden_by(x)
               /\ Walker(x).charm = w[x].charm /\ Walker(x).master = w[x].master
               /\ Walker(x).leader = w[x].leader /\ Walker(x).pet = w[x].pet
               /\ Walker(x).fighting = w[x].fighting /\ Walker(x).reply = w[x].reply
    <3>1. w[x] \in Person
      BY DEF Good, Sound
    <3> QED
      BY <2>6, <3>1 DEF Person, Someone
  <2> HIDE DEF Walker
  <2>8. v \in [Chars -> Person]
    BY <2>2, <2>7
  <2>9. \A x \in Chars :
           /\ v[x].room = room(x) /\ v[x].riding = riding(x) /\ v[x].ridden_by = ridden_by(x)
           /\ v[x].charm = w[x].charm /\ v[x].master = w[x].master
           /\ v[x].leader = w[x].leader /\ v[x].pet = w[x].pet
           /\ v[x].fighting = w[x].fighting /\ v[x].reply = w[x].reply
    BY <2>2, <2>7
  <2>10. \A x \in Chars : Here(v, x) <=> Here(w, x)
    BY <2>3, <2>4, <2>9 DEF Here, room
  <2>11. Clean(v)
    <3> SUFFICES ASSUME NEW x \in Chars, ~Here(w, x) PROVE v[x] = NewChar(v[x].room)
      BY <2>10 DEF Clean
    <3>1. w[x] = NewChar(w[x].room) /\ w[x] \in Person
      BY DEF Good, Sound, Clean
    <3>2. w[x].ridden_by = None /\ w[x].riding = None
      BY <3>1 DEF NewChar
    <3>3. room(x) = w[x].room /\ pos(x) = w[x].pos /\ riding(x) = w[x].riding /\ ridden_by(x) = w[x].ridden_by
      BY <2>4, <2>5, <3>2 DEF room, pos, riding, ridden_by
    <3>4. [w[x] EXCEPT !.room = w[x].room, !.pos = w[x].pos, !.riding = w[x].riding,
                       !.ridden_by = w[x].ridden_by] = w[x]
      BY <3>1 DEF Person
    <3>5. v[x] = w[x]
      BY <2>2, <3>3, <3>4 DEF Walker
    <3> QED
      BY <3>1, <3>5
  <2>12. Alive(v)
    BY <2>9, <2>10, BondsTyped DEF Good, Sound, Alive, Someone
  <2>13. Mounted(v)
    BY <2>9, <2>10, BondsTyped DEF Good, Sound, Mounted, Someone, riding, ridden_by
  <2>14. Riders(v)
    BY <2>9 DEF Good, Sound, Riders, riding, ridden_by
  <2>15. PetsOwned(v)
    <3> SUFFICES ASSUME NEW o \in Chars, NEW q \in Chars, v[o].pet = q
                 PROVE  /\ v[q].master = o /\ q \in scene.pets
                        /\ v[q].ridden_by \in {None, o}
                        /\ \A b \in Chars : v[b].riding = q <=> v[q].ridden_by = b
      BY DEF PetsOwned
    <3>1. /\ w[q].master = o /\ q \in scene.pets
          /\ w[q].ridden_by \in {None, o}
          /\ \A b \in Chars : w[b].riding = q <=> w[q].ridden_by = b
      BY <2>9 DEF Good, Sound, PetsOwned
    <3>2. \A b \in Chars : v[b].riding = q <=> v[q].ridden_by = b
      BY <2>4, <2>9, <3>1, BondsAssumption DEF riding, ridden_by
    <3> QED
      BY <2>9, <3>1, <3>2 DEF ridden_by
  <2>16. LoopFree(v)
    BY <2>9, LoopFreeLooser DEF Good, Sound
  <2> QED
    BY <2>8, <2>10, <2>11, <2>12, <2>13, <2>14, <2>15, <2>16, MountedMet DEF Good, Sound, Same
<1> QED
  BY <1>1, <1>2

LEMMA FleesGood ==
    ASSUME SceneOK, NEW w, Good(w), NEW c \in Chars, NEW v \in Flees(w, c)
    PROVE  Good(v)
<1>0. PICK d \in Directions :
         \E x, u : /\ w[c].fighting # None
                   /\ x \in Walks(w, c, d)
                   /\ u \in Unseated(x, c) /\ v = stop_fighting(u, c, TRUE)
  BY DEF Flees
<1>1. PICK x, u : /\ w[c].fighting # None
                  /\ x \in Walks(w, c, d)
                  /\ u \in Unseated(x, c) /\ v = stop_fighting(u, c, TRUE)
  BY <1>0
<1>2. Here(w, c)
  BY <1>1 DEF Good, Sound, Clean, NewChar
<1>3. Good(x)
  BY <1>1, <1>2, WalksGood
<1>4. Good(u)
  BY <1>1, <1>3, UnseatedGood
<1>5. Quiet(u, v)
  BY <1>1, <1>4, StopFightingQuiet DEF Good, Sound
<1> QED
  BY <1>4, <1>5, QuietGood DEF Good

LEMMA RecalledAloneGood ==
    ASSUME SceneOK, NEW w, Good(w), NEW c \in Chars, Here(w, c), NEW v \in RecalledAlone(w, c)
    PROVE  Good(v)
<1>1. PICK away \in Prays(w, c) : v \in IF IsNpc(c) THEN Unseated(away, c) ELSE {away}
  BY DEF RecalledAlone
<1> QED
  BY <1>1, PraysGood, UnseatedGood

LEMMA WithPetGood ==
    ASSUME SceneOK, NEW w, Good(w), NEW p \in Someone, p # None => Here(w, p), NEW v \in WithPet(w, p)
    PROVE  Good(v)
BY RecalledAloneGood DEF WithPet, Someone

LEMMA RecalledGood ==
    ASSUME SceneOK, NEW w, Good(w), NEW c \in Chars, Here(w, c), NEW v \in Recalled(w, c)
    PROVE  Good(v)
<1>1. PICK u \in RecalledAlone(w, c) : v \in WithPet(u, u[c].pet)
  BY DEF Recalled
<1>2. Good(u)
  BY <1>1, RecalledAloneGood
<1>3. u[c].pet \in Someone /\ (u[c].pet # None => Here(u, u[c].pet))
  BY <1>2, BondsTyped DEF Good, Sound, Alive
<1> QED
  BY <1>1, <1>2, <1>3, WithPetGood

-----------------------------------------------------------------------------
(***************************************************************************)
(* Blows.                                                                  *)
(***************************************************************************)
LEMMA ShakenGood ==
    ASSUME SceneOK, NEW w, Good(w), NEW c \in Chars, Here(w, c), NEW v \in Shaken(w, c)
    PROVE  Good(v)
<1>1. \A u \in {w} \cup Flees(w, c) : Good(u)
  BY FleesGood
<1>2. \/ v \in {w} \cup Flees(w, c)
      \/ \E u \in {w} \cup Flees(w, c) : v \in fallen_off_mount(u, c)
      \/ v \in Recalled(w, c)
  BY DEF Shaken
<1> QED
  BY <1>1, <1>2, FallenGood, RecalledGood

\* Whoever is hurt may be killed.  A mobile is then gone, and pointers of a rider may be left; a
\* player is not.
Survived(v, c) == Sound(v) /\ (Mounted(v) \/ (v[c] = NewChar("gone") /\ c \in scene.npc))

LEMMA LandedSound ==
    ASSUME SceneOK, NEW w, Good(w), NEW a \in Chars, NEW c \in Chars, Here(w, a), Here(w, c),
           NEW hurts \in BOOLEAN, NEW v \in Landed(w, a, c, hurts)
    PROVE  Survived(v, c) /\ (~hurts => Good(v))
<1> DEFINE hit == Struck(w, a, c)
<1>1. Good(hit) /\ Here(hit, c)
  BY StruckGood DEF Same
<1>2. \/ v = hit
      \/ hurts /\ (v \in Shaken(hit, c) \/ v \in Shaken(Hurt(hit, c), c) \/ v \in raw_kill(hit, c))
  BY DEF Landed
<1> HIDE DEF hit
<1>3. Good(Hurt(hit, c)) /\ Here(Hurt(hit, c), c)
  BY <1>1, HurtGood DEF Same
<1>4. v \in Shaken(hit, c) \/ v \in Shaken(Hurt(hit, c), c) => Good(v)
  BY <1>1, <1>3, ShakenGood
<1>5. v \in raw_kill(hit, c) => Survived(v, c)
  BY <1>1, RawKillSound DEF Survived
<1> QED
  BY <1>1, <1>2, <1>4, <1>5 DEF Good, Survived

\* A mobile turns on a player.
LEMMA TurnedGood ==
    ASSUME SceneOK, NEW w, Good(w), NEW a \in Chars, NEW c \in Chars, Here(w, a), Here(w, c),
           NEW t \in Turned(w, a, c)
    PROVE  /\ Good(t[1]) /\ t[2] \in Chars /\ t[2] \notin scene.npc
           /\ Here(t[1], a) /\ Here(t[1], t[2])
<1> DEFINE m == w[c].master
           k == check_killer(w, a, c)
           e == set_fighting(k, c, a)
           turned == stop_fighting(e, a, FALSE)
<1>1. t = <<turned, m>> /\ w[c].charm /\ m # None /\ Together(w, a, m)
  BY DEF Turned
<1>2. m \in Chars /\ m \notin scene.npc /\ Here(w, m)
  BY <1>1, BondsTyped DEF Good, Sound, Riders, Someone, Together, Here
<1>3. Good(k) /\ Same(w, k)
  BY CheckKillerGood
<1> HIDE DEF k
<1>4. Good(e) /\ Same(k, e)
  BY <1>3, EngagedGood DEF Same
<1> HIDE DEF e
<1>5. Quiet(e, turned)
  BY <1>4, StopFightingQuiet DEF Good, Sound
<1> HIDE DEF turned
<1>6. Good(turned) /\ Same(e, turned)
  BY <1>4, <1>5, QuietGood, QuietSame DEF Good
<1>7. Here(turned, a) /\ Here(turned, m)
  BY <1>2, <1>3, <1>4, <1>6 DEF Same
<1> QED
  BY <1>1, <1>2, <1>6, <1>7

LEMMA DamageSound ==
    ASSUME SceneOK, NEW w, Good(w), NEW a \in Chars, NEW c \in Chars, Here(w, a), Here(w, c),
           NEW hurts \in BOOLEAN, NEW v \in damage(w, a, c, hurts)
    PROVE  Survived(v, c) /\ (~hurts => Good(v))
<1>1. CASE v = w
  BY <1>1 DEF Survived, Good
<1>2. CASE v \in Landed(w, a, c, hurts)
  BY <1>2, LandedSound
<1>3. CASE \E t \in Turned(w, a, c) : v \in Landed(t[1], a, t[2], hurts \/ t[2] # c)
  <2>1. PICK t \in Turned(w, a, c) : v \in Landed(t[1], a, t[2], hurts \/ t[2] # c)
    BY <1>3
  <2> DEFINE m == t[2]
             u == t[1]
             h == hurts \/ m # c
  <2>2. Good(u) /\ m \in Chars /\ m \notin scene.npc /\ Here(u, a) /\ Here(u, m)
    BY TurnedGood
  <2>3. h \in BOOLEAN /\ v \in Landed(u, a, m, h)
    BY <2>1
  <2> HIDE DEF u, m, h
  <2>4. Survived(v, m)
    BY <2>2, <2>3, LandedSound
  <2> QED
    BY <2>2, <2>4 DEF Survived, Good
<1>4. \/ v = w \/ v \in Landed(w, a, c, hurts)
      \/ \E t \in Turned(w, a, c) : v \in Landed(t[1], a, t[2], hurts \/ t[2] # c)
  <2>1. v # w => \E t \in {<<w, c>>} \cup Turned(w, a, c) : v \in Landed(t[1], a, t[2], hurts \/ t[2] # c)
    BY DEF damage
  <2> QED
    BY <2>1
<1> QED
  BY <1>1, <1>2, <1>3, <1>4

\* One hits, bashes, or misses a bash.
LEMMA BlowsSound ==
    ASSUME SceneOK, NEW w, Good(w), NEW a \in Chars, NEW c \in Chars, Here(w, a), Here(w, c),
           NEW v \in Blows(w, a, c)
    PROVE  Sound(v)
<1> DEFINE g == Grounded(w, c)
<1>1. Good(g) /\ Here(g, a) /\ Here(g, c)
  <2>1. Quiet(w, g)
    BY GroundedQuiet DEF Good, Sound
  <2> QED
    BY <2>1, QuietGood, QuietSame DEF Good, Same
<1>2. PICK how \in {"hit", "bash", "miss"} :
         \E x \in damage(IF how = "bash" THEN g ELSE w, a, c, how # "miss") : v \in Bashed(x, a, c, how)
  BY DEF Blows
<1>3. PICK x : /\ x \in damage(IF how = "bash" THEN g ELSE w, a, c, how # "miss")
               /\ v \in Bashed(x, a, c, how)
  BY <1>2
<1> HIDE DEF g
<1>4. Survived(x, c) /\ (how = "miss" => Good(x))
  <2>1. CASE how = "bash"
    <3>1. x \in damage(g, a, c, TRUE)
      BY <1>3, <2>1
    <3> QED
      BY <1>1, <2>1, <3>1, DamageSound
  <2>2. CASE how = "hit"
    <3>1. x \in damage(w, a, c, TRUE)
      BY <1>3, <2>2
    <3> QED
      BY <2>2, <3>1, DamageSound
  <2>3. CASE how = "miss"
    <3>1. x \in damage(w, a, c, FALSE)
      BY <1>3, <2>3
    <3> QED
      BY <3>1, DamageSound
  <2> QED
    BY <2>1, <2>2, <2>3
<1>5. CASE how = "hit"
  BY <1>3, <1>4, <1>5 DEF Bashed, Survived
<1>6. CASE how = "bash"
  <2>1. v \in Unseated(x, c)
    BY <1>3, <1>6 DEF Bashed
  <2>2. CASE Good(x)
    BY <2>1, <2>2, UnseatedGood DEF Good
  <2>3. CASE x[c] = NewChar("gone")
    <3>1. x[c].ridden_by = None
      BY <2>3 DEF NewChar
    <3> QED
      BY <1>4, <2>1, <3>1 DEF Unseated, Survived
  <2> QED
    BY <1>4, <2>2, <2>3 DEF Survived, Good
<1>7. CASE how = "miss"
  <2>1. v \in IF Here(x, a) THEN Unseated(Grounded(x, a), a) ELSE {x}
    BY <1>3, <1>7 DEF Bashed
  <2>2. CASE Here(x, a)
    <3>1. Quiet(x, Grounded(x, a))
      BY <1>4, <1>7, <2>2, GroundedQuiet DEF Good, Sound
    <3>2. Good(Grounded(x, a))
      BY <1>4, <1>7, <3>1, QuietGood DEF Good
    <3> QED
      BY <2>1, <2>2, <3>2, UnseatedGood DEF Good
  <2>3. CASE ~Here(x, a)
    BY <1>4, <2>1, <2>3 DEF Survived
  <2> QED
    BY <2>2, <2>3
<1> QED
  BY <1>5, <1>6, <1>7

-----------------------------------------------------------------------------
(***************************************************************************)
(* Bonds that begin.                                                       *)
(***************************************************************************)
\* Somebody with no master and no owner comes to follow another, and is charmed by nobody but a
\* player that is not charmed: then the charm thread ends where it did, or there.
LEMMA TiedGood ==
    ASSUME NEW w, Good(w), NEW c \in Chars, NEW m \in Chars, c # m, Here(w, c), Here(w, m),
           w[c].master = None, ~w[c].charm, \A x \in Chars : w[x].pet # c,
           NEW q \in Person, q.room = w[c].room, q.master = m, q.leader \in {None, m},
           q.pet = w[c].pet, q.riding = w[c].riding, q.ridden_by = w[c].ridden_by,
           q.fighting = w[c].fighting, q.reply = w[c].reply,
           q.charm => m \notin scene.npc /\ ~w[m].charm
    PROVE  Good(With(w, c, q))
<1> DEFINE v == With(w, c, q)
<1>1. v \in [Chars -> Person] /\ v[c] = q /\ \A x \in Chars \ {c} : v[x] = w[x]
  BY DEF Good, Sound, With
<1> HIDE DEF v
<1>2. \A x \in Chars :
         /\ v[x].room = w[x].room /\ v[x].pet = w[x].pet
         /\ v[x].riding = w[x].riding /\ v[x].ridden_by = w[x].ridden_by
         /\ v[x].fighting = w[x].fighting /\ v[x].reply = w[x].reply
         /\ x # c => v[x].master = w[x].master /\ v[x].leader = w[x].leader /\ v[x].charm = w[x].charm
  BY <1>1
<1>3. \A x \in Chars : Here(v, x) <=> Here(w, x)
  BY <1>2 DEF Here
<1>4. Clean(v)
  BY <1>1, <1>3 DEF Good, Sound, Clean
<1>5. Alive(v) /\ Mounted(v)
  BY <1>1, <1>2, <1>3, BondsTyped DEF Good, Sound, Alive, Mounted, Someone
<1>6. Riders(v)
  BY <1>1, <1>2, BondsAssumption DEF Good, Sound, Riders
<1>7. PetsOwned(v)
  BY <1>1, <1>2 DEF Good, Sound, PetsOwned
<1>8. LoopFree(v)
  <2> SUFFICES ASSUME NEW S \in SUBSET Chars, S # {} PROVE \E x \in S : ~(v[x].charm /\ v[x].master \in S)
    BY DEF LoopFree
  <2>1. PICK x \in S : ~(w[x].charm /\ w[x].master \in S)
    BY DEF Good, Sound, LoopFree
  <2>2. CASE c \notin S
    BY <1>2, <2>1, <2>2
  <2>3. CASE c \in S /\ m \in S
    BY <1>1, <1>2, <2>3
  <2>4. CASE c \in S /\ m \notin S
    BY <1>1, <2>4
  <2> QED
    BY <2>2, <2>3, <2>4
<1> QED
  BY <1>1, <1>4, <1>5, <1>6, <1>7, <1>8, MountedMet DEF Good, Sound, v

\* Somebody is led by another in the game, or by nobody.
LEMMA LedGood ==
    ASSUME NEW w, Good(w), NEW c \in Chars, Here(w, c), NEW l \in Someone, l # None => Here(w, l)
    PROVE  Good(Led(w, c, l))
<1> DEFINE v == Led(w, c, l)
           q == [w[c] EXCEPT !.leader = l]
<1>1. /\ q \in Person /\ q.room = w[c].room /\ q.charm = w[c].charm /\ q.master = w[c].master
      /\ q.leader = l /\ q.pet = w[c].pet /\ q.riding = w[c].riding /\ q.ridden_by = w[c].ridden_by
      /\ q.fighting = w[c].fighting /\ q.reply = w[c].reply
  <2>1. w[c] \in Person
    BY DEF Good, Sound
  <2> QED
    BY <2>1 DEF Person, Someone
<1>2. v = With(w, c, q)
  BY DEF Led
<1> HIDE DEF v, q
<1>3. v \in [Chars -> Person] /\ v[c] = q /\ \A x \in Chars \ {c} : v[x] = w[x]
  BY <1>1, <1>2 DEF Good, Sound, With
<1>4. \A x \in Chars :
         /\ v[x].room = w[x].room /\ v[x].charm = w[x].charm /\ v[x].master = w[x].master
         /\ v[x].pet = w[x].pet /\ v[x].riding = w[x].riding /\ v[x].ridden_by = w[x].ridden_by
         /\ v[x].fighting = w[x].fighting /\ v[x].reply = w[x].reply
         /\ v[x].leader = IF x = c THEN l ELSE w[x].leader
  BY <1>1, <1>3
<1>5. \A x \in Chars : Here(v, x) <=> Here(w, x)
  BY <1>4 DEF Here
<1>6. Clean(v)
  BY <1>3, <1>5 DEF Good, Sound, Clean
<1>7. Alive(v) /\ Mounted(v)
  BY <1>4, <1>5, BondsTyped DEF Good, Sound, Alive, Mounted, Someone
<1>8. Riders(v) /\ PetsOwned(v)
  BY <1>4 DEF Good, Sound, Riders, PetsOwned
<1>9. LoopFree(v)
  BY <1>4, LoopFreeLooser DEF Good, Sound
<1> QED
  BY <1>3, <1>6, <1>7, <1>8, <1>9, MountedMet DEF Good, Sound, v

\* A player gets on somebody that follows, and is nobody else's pet therefore (do_ride).
LEMMA RideGood ==
    ASSUME SceneOK, NEW w, Good(w), NEW c \in Chars, NEW p \in Chars, Here(w, c), Here(w, p),
           c \notin scene.npc, w[c].riding = None, w[p].master = c
    PROVE  Good(char_ride(w, c, p))
<1> DEFINE v == char_ride(w, c, p)
           q == [w[c] EXCEPT !.riding = p]
           r == [w[p] EXCEPT !.ridden_by = c]
<1>1. w[c] \in Person /\ w[p] \in Person
  BY DEF Good, Sound
<1>2. /\ q \in Person /\ q.room = w[c].room /\ q.charm = w[c].charm /\ q.master = w[c].master
      /\ q.leader = w[c].leader /\ q.pet = w[c].pet /\ q.riding = p /\ q.ridden_by = w[c].ridden_by
      /\ q.fighting = w[c].fighting /\ q.reply = w[c].reply
  BY <1>1 DEF Person
<1>3. /\ r \in Person /\ r.room = w[p].room /\ r.charm = w[p].charm /\ r.master = w[p].master
      /\ r.leader = w[p].leader /\ r.pet = w[p].pet /\ r.riding = w[p].riding /\ r.ridden_by = c
      /\ r.fighting = w[p].fighting /\ r.reply = w[p].reply
  BY <1>1 DEF Person
<1>4. v = With(With(w, c, q), p, r)
  BY DEF char_ride
<1> HIDE DEF v, q, r
<1>5. /\ v \in [Chars -> Person] /\ v[p] = r
      /\ c # p => v[c] = q
      /\ \A x \in Chars \ {c, p} : v[x] = w[x]
  BY <1>2, <1>3, <1>4 DEF Good, Sound, With
<1>6. \A x \in Chars :
         /\ v[x].room = w[x].room /\ v[x].charm = w[x].charm /\ v[x].master = w[x].master
         /\ v[x].leader = w[x].leader /\ v[x].pet = w[x].pet
         /\ v[x].fighting = w[x].fighting /\ v[x].reply = w[x].reply
         /\ v[x].riding = IF x = c /\ c # p THEN p ELSE w[x].riding
         /\ v[x].ridden_by = IF x = p THEN c ELSE w[x].ridden_by
  BY <1>2, <1>3, <1>5
<1>7. \A x \in Chars : Here(v, x) <=> Here(w, x)
  BY <1>6 DEF Here
<1>8. Clean(v)
  BY <1>5, <1>7 DEF Good, Sound, Clean
<1>9. Alive(v) /\ Mounted(v)
  BY <1>6, <1>7, BondsTyped DEF Good, Sound, Alive, Mounted, Someone
<1>10. Riders(v)
  BY <1>6 DEF Good, Sound, Riders
<1>11. PetsOwned(v)
  <2> SUFFICES ASSUME NEW o \in Chars, NEW z \in Chars, v[o].pet = z
               PROVE  /\ v[z].master = o /\ z \in scene.pets
                      /\ v[z].ridden_by \in {None, o}
                      /\ \A b \in Chars : v[b].riding = z <=> v[z].ridden_by = b
    BY DEF PetsOwned
  <2>1. /\ w[z].master = o /\ z \in scene.pets
        /\ w[z].ridden_by \in {None, o}
        /\ \A b \in Chars : w[b].riding = z <=> w[z].ridden_by = b
    BY <1>6 DEF Good, Sound, PetsOwned
  <2>2. CASE z = p
    <3>1. o = c /\ c # p
      BY <2>1, <2>2, SceneOK DEF SceneOK
    <3>2. \A b \in Chars : w[b].riding # p
      BY <2>1, <2>2, <3>1, BondsAssumption
    <3> QED
      BY <1>6, <2>1, <2>2, <3>1, <3>2
  <2>3. CASE z # p
    <3>1. w[c].riding # z
      BY BondsAssumption
    <3> QED
      BY <1>6, <2>1, <2>3, <3>1
  <2> QED
    BY <2>2, <2>3
<1>12. LoopFree(v)
  BY <1>6, LoopFreeLooser DEF Good, Sound
<1> QED
  BY <1>5, <1>8, <1>9, <1>10, <1>11, <1>12, MountedMet DEF Good, Sound, v

\* Nobody has a bond to one that is not in the game.
LEMMA NobodyKnows ==
    ASSUME NEW w, Good(w), NEW c \in Chars, ~Here(w, c)
    PROVE  \A x \in Chars : /\ w[x].master # c /\ w[x].leader # c /\ w[x].pet # c
                            /\ w[x].riding # c /\ w[x].ridden_by # c
                            /\ w[x].fighting # c /\ w[x].reply # c
BY BondsAssumption DEF Good, Sound, Alive, Mounted

\* One comes into the game with no bonds.
LEMMA ArrivesGood ==
    ASSUME NEW w, Good(w), NEW c \in Chars, NEW r \in Rooms
    PROVE  ~Here(w, c) => Good(With(w, c, NewChar(r)))
<1> DEFINE v == With(w, c, NewChar(r))
<1>1. /\ NewChar(r) \in Person /\ NewChar(r).room = r /\ ~NewChar(r).charm
      /\ NewChar(r).master = None /\ NewChar(r).leader = None /\ NewChar(r).pet = None
      /\ NewChar(r).riding = None /\ NewChar(r).ridden_by = None
      /\ NewChar(r).fighting = None /\ NewChar(r).reply = None
  BY DEF NewChar, Person, Positions
<1> SUFFICES ASSUME ~Here(w, c) PROVE Good(v)
  OBVIOUS
<1>2. v \in [Chars -> Person] /\ v[c] = NewChar(r) /\ \A x \in Chars \ {c} : v[x] = w[x]
  BY <1>1 DEF Good, Sound, With
<1> HIDE DEF v
<1>3. \A x \in Chars : Here(v, x) <=> Here(w, x) \/ x = c
  BY <1>1, <1>2 DEF Here
<1>4. Clean(v)
  BY <1>2, <1>3 DEF Good, Sound, Clean
<1>5. Alive(v) /\ Mounted(v)
  BY <1>1, <1>2, <1>3, BondsTyped DEF Good, Sound, Alive, Mounted, Someone
<1>6. Riders(v)
  BY <1>1, <1>2 DEF Good, Sound, Riders
<1>7. PetsOwned(v)
  BY <1>1, <1>2, NobodyKnows, BondsAssumption DEF Good, Sound, PetsOwned
<1>8. LoopFree(v)
  BY <1>1, <1>2, LoopFreeLooser DEF Good, Sound
<1> QED
  BY <1>2, <1>4, <1>5, <1>6, <1>7, <1>8, MountedMet DEF Good, Sound, v

\* A pet comes into the game, with its owner or from the shop.
LEMMA PetArrivesGood ==
    ASSUME SceneOK, NEW w, Good(w), NEW c \in Chars, c \notin scene.npc, Here(w, c), w[c].pet = None,
           NEW p \in scene.pets, ~Here(w, p), NEW r \in Rooms,
           NEW v, v = With(With(w, p, [NewChar(r) EXCEPT !.charm = TRUE, !.master = c, !.leader = c]),
                           c, [w[c] EXCEPT !.pet = p])
    PROVE  Good(v)
<1> DEFINE q == [NewChar(r) EXCEPT !.charm = TRUE, !.master = c, !.leader = c]
           o == [w[c] EXCEPT !.pet = p]
<1>1. p \in Chars /\ p # c /\ p \in scene.npc
  BY SceneOK DEF SceneOK
<1>2. /\ q \in Person /\ q.room = r /\ q.charm = TRUE
      /\ q.master = c /\ q.leader = c /\ q.pet = None
      /\ q.riding = None /\ q.ridden_by = None
      /\ q.fighting = None /\ q.reply = None
  BY DEF NewChar, Person, Positions
<1>3. /\ o \in Person /\ o.room = w[c].room /\ o.charm = w[c].charm /\ o.master = w[c].master
      /\ o.leader = w[c].leader /\ o.pet = p /\ o.riding = w[c].riding /\ o.ridden_by = w[c].ridden_by
      /\ o.fighting = w[c].fighting /\ o.reply = w[c].reply
  <2>1. w[c] \in Person
    BY DEF Good, Sound
  <2> QED
    BY <1>1, <2>1 DEF Person
<1>4. /\ v \in [Chars -> Person] /\ v[p] = q /\ v[c] = o
      /\ \A x \in Chars \ {c, p} : v[x] = w[x]
  <2>1. v = With(With(w, p, q), c, o)
    OBVIOUS
  <2> HIDE DEF q, o
  <2>2. w \in [Chars -> Person]
    BY DEF Good, Sound
  <2> QED
    BY <1>1, <1>2, <1>3, <2>1, <2>2 DEF With
<1> HIDE DEF q, o
<1>5. \A x \in Chars : Here(v, x) <=> Here(w, x) \/ x = p
  BY <1>2, <1>3, <1>4 DEF Here
<1>6. Clean(v)
  BY <1>4, <1>5 DEF Good, Sound, Clean
<1>7. Alive(v) /\ Mounted(v)
  <2>1. \A x \in Chars \ {p} :
           /\ v[x].master = w[x].master /\ v[x].leader = w[x].leader
           /\ v[x].fighting = w[x].fighting /\ v[x].reply = w[x].reply
           /\ v[x].riding = w[x].riding /\ v[x].ridden_by = w[x].ridden_by
           /\ v[x].pet = IF x = c THEN p ELSE w[x].pet
    BY <1>3, <1>4
  <2>2. Alive(v)
    BY <1>1, <1>2, <1>4, <1>5, <2>1, BondsTyped DEF Good, Sound, Alive, Someone
  <2>3. Mounted(v)
    BY <1>1, <1>2, <1>4, <1>5, <2>1, BondsTyped DEF Good, Sound, Mounted, Someone
  <2> QED
    BY <2>2, <2>3
<1>8. Riders(v)
  BY <1>1, <1>2, <1>3, <1>4, BondsAssumption DEF Good, Sound, Riders
<1>9. PetsOwned(v)
  <2>1. \A x \in Chars : w[x].pet # p /\ w[x].riding # p /\ w[x].ridden_by # p
    BY <1>1, NobodyKnows
  <2> QED
    BY <1>1, <1>2, <1>3, <1>4, <2>1, BondsAssumption DEF Good, Sound, PetsOwned
<1>10. LoopFree(v)
  <2> SUFFICES ASSUME NEW S \in SUBSET Chars, S # {} PROVE \E x \in S : ~(v[x].charm /\ v[x].master \in S)
    BY DEF LoopFree
  <2>1. \A x \in Chars \ {p} : v[x].charm = w[x].charm /\ v[x].master = w[x].master /\ w[x].master # p
    BY <1>1, <1>3, <1>4, NobodyKnows
  <2>2. CASE c \notin S /\ p \in S
    BY <1>2, <1>4, <2>2
  <2>3. CASE c \in S \/ p \notin S
    <3>1. S \ {p} \in SUBSET Chars /\ S \ {p} # {}
      BY <1>1, <2>3
    <3>2. PICK x \in S \ {p} : ~(w[x].charm /\ w[x].master \in S \ {p})
      BY <3>1 DEF Good, Sound, LoopFree
    <3> QED
      BY <2>1, <3>2
  <2> QED
    BY <2>2, <2>3
<1> QED
  BY <1>4, <1>6, <1>7, <1>8, <1>9, <1>10, MountedMet DEF Good, Sound

-----------------------------------------------------------------------------
(***************************************************************************)
(* Commands: the state they find is good, and the one they leave sound.    *)
(***************************************************************************)
LEMMA GoodSound == ASSUME NEW w, Good(w) PROVE Sound(w) /\ w \in [Chars -> Person]
BY DEF Good, Sound

LEMMA NofollowOnly ==
    ASSUME NEW r \in Person, NEW b \in BOOLEAN, NEW q, q = [r EXCEPT !.nofollow = b]
    PROVE  /\ q \in Person /\ q.room = r.room /\ (q.charm <=> r.charm) /\ q.master = r.master
           /\ q.leader = r.leader /\ q.pet = r.pet /\ q.riding = r.riding
           /\ q.ridden_by = r.ridden_by /\ q.fighting = r.fighting /\ q.reply = r.reply
BY DEF Person

LEMMA FollowSound ==
    ASSUME SceneOK, Good(char), NEW c \in Chars, NEW m \in Chars, do_follow(c, m)
    PROVE  Sound(char')
<1> DEFINE free == stop_follower(char, c)
           f1 == [free[c] EXCEPT !.nofollow = FALSE]
           f2 == [f1 EXCEPT !.master = m, !.leader = None]
           u == With(free, c, f1)
<1>1. /\ Good(free) /\ Lets(char, free) /\ free[c].master = None /\ ~free[c].charm
      /\ \A x \in Chars : free[x].pet # c
  BY StopFollowerGood
<1>2. CASE m = c
  BY <1>1, <1>2, GoodSound DEF do_follow, Becomes
<1>3. CASE m # c
  <2>1. char' = add_follower(u, c, m) /\ Together(char, c, m)
    BY <1>3 DEF do_follow, Becomes
  <2> HIDE DEF free
  <2>2. Here(free, c) /\ Here(free, m)
    BY <1>1, <2>1 DEF Lets, Together, Here
  <2>3. free[c] \in Person
    BY <1>1, GoodSound
  <2>4. /\ f1 \in Person /\ f1.room = free[c].room /\ (f1.charm <=> free[c].charm)
        /\ f1.master = free[c].master
        /\ f1.pet = free[c].pet /\ f1.riding = free[c].riding /\ f1.ridden_by = free[c].ridden_by
        /\ f1.fighting = free[c].fighting /\ f1.reply = free[c].reply
    BY <2>3, NofollowOnly, ZenonT(40)
  <2>5. u[c] = f1
    BY DEF With
  <2> HIDE DEF f1
  <2>6. /\ f2 \in Person /\ f2.room = f1.room /\ f2.charm = f1.charm /\ f2.master = m /\ f2.leader = None
        /\ f2.pet = f1.pet /\ f2.riding = f1.riding /\ f2.ridden_by = f1.ridden_by
        /\ f2.fighting = f1.fighting /\ f2.reply = f1.reply
    BY <2>4 DEF Person
  <2>7. char' = With(u, c, f2)
    BY <1>1, <2>1, <2>4, <2>5 DEF add_follower
  <2> HIDE DEF f2
  <2>8. With(u, c, f2) = With(free, c, f2)
    BY DEF With
  <2>9. Good(With(free, c, f2))
    BY <1>1, <1>3, <2>2, <2>4, <2>6, TiedGood
  <2> QED
    BY <2>7, <2>8, <2>9, GoodSound
<1> QED
  BY <1>2, <1>3

\* What touches no bond leaves a sound state.
LEMMA QuietSound == ASSUME NEW w, Good(w), NEW v, Quiet(w, v) PROVE Sound(v)
BY QuietGood DEF Good

LEMMA NofollowSound ==
    ASSUME SceneOK, Good(char), NEW c \in Chars, Here(char, c), do_nofollow(c)
    PROVE  Sound(char')
<1> DEFINE u == [char EXCEPT ![c].nofollow = TRUE]
           d == [char EXCEPT ![c].nofollow = FALSE]
<1>1. Quiet(char, u) /\ Quiet(char, d)
  <2> SUFFICES ASSUME NEW b \in BOOLEAN PROVE Quiet(char, [char EXCEPT ![c].nofollow = b])
    OBVIOUS
  <2> DEFINE q == [char[c] EXCEPT !.nofollow = b]
             v == [char EXCEPT ![c].nofollow = b]
  <2>1. char \in [Chars -> Person]
    BY GoodSound
  <2>2. /\ q \in Person /\ q.room = char[c].room /\ (q.charm <=> char[c].charm)
        /\ q.master = char[c].master /\ q.leader = char[c].leader /\ q.pet = char[c].pet
        /\ q.riding = char[c].riding /\ q.ridden_by = char[c].ridden_by
        /\ q.fighting = char[c].fighting /\ q.reply = char[c].reply
    BY <2>1, NofollowOnly
  <2>3. v = [char EXCEPT ![c] = q]
    BY <2>1
  <2> HIDE DEF q, v
  <2>4. v \in [Chars -> Person] /\ v[c] = q /\ \A x \in Chars \ {c} : v[x] = char[x]
    BY <2>1, <2>2, <2>3
  <2>5. Quiet(char, v)
    BY <2>2, <2>4 DEF Quiet, Here
  <2> QED
    BY <2>5 DEF v
<1>2. Good(u)
  BY <1>1, QuietGood DEF Good
<1>3. char' \in {d, die_follower(u, c)}
  BY DEF do_nofollow, Becomes
<1> HIDE DEF u, d
<1> QED
  BY <1>1, <1>2, <1>3, QuietSound, DieFollowerGood, GoodSound

LEMMA GroupSound ==
    ASSUME SceneOK, Good(char), NEW c \in Chars, NEW m \in Chars, do_group(c, m)
    PROVE  Sound(char')
<1>1. Here(char, c) /\ Here(char, m)
  BY DEF do_group, Together, Here
<1>2. PICK l \in {None, c} : char' = [char EXCEPT ![m].leader = l]
  BY DEF do_group, Becomes
<1>3. char' = Led(char, m, l)
  BY <1>2, GoodSound DEF Led, With
<1> QED
  BY <1>1, <1>3, LedGood, GoodSound DEF Someone

LEMMA TellSound ==
    ASSUME SceneOK, Good(char), NEW c \in Chars, Here(char, c), NEW m \in Chars, tell_to(c, m)
    PROVE  Sound(char')
<1>1. Quiet(char, char')
  BY GoodSound DEF tell_to, Becomes, Quiet, Person, Here
<1> QED
  BY <1>1, QuietSound

LEMMA RideSound ==
    ASSUME SceneOK, Good(char), NEW c \in Chars, NEW p \in Chars, do_ride(c, p)
    PROVE  Sound(char')
<1>1. Here(char, c) /\ Here(char, p)
  BY DEF do_ride, Together, Here
<1> QED
  BY <1>1, RideGood, GoodSound DEF do_ride, Becomes, IsNpc

LEMMA DismountSound ==
    ASSUME SceneOK, Good(char), NEW c \in Chars,
           char[c].riding # None, char' = unride_char(char, c, char[c].riding)
    PROVE  Sound(char')
<1>1. char[c].riding \in Chars
  BY BondsTyped, GoodSound DEF Someone
<1> QED
  BY <1>1, UnrideGood, GoodSound

LEMMA PosSound ==
    ASSUME SceneOK, Good(char), NEW c \in Chars, Here(char, c), NEW p \in Positions,
           char' = [char EXCEPT ![c].pos = p]
    PROVE  Sound(char')
<1>1. char' = With(char, c, [char[c] EXCEPT !.pos = p])
  BY GoodSound DEF With
<1> QED
  BY <1>1, PosQuiet, QuietSound, GoodSound

LEMMA StandSound ==
    ASSUME SceneOK, Good(char), NEW c \in Chars, Here(char, c), do_stand(c)
    PROVE  Sound(char')
<1>1. "standing" \in Positions
  BY DEF Positions
<1> QED
  BY <1>1, DismountSound, PosSound DEF do_stand, Becomes

LEMMA SettlesSound ==
    ASSUME SceneOK, Good(char), NEW c \in Chars, Here(char, c), do_rest(c) \/ do_sit(c) \/ do_sleep(c)
    PROVE  Sound(char')
BY PosSound DEF do_rest, do_sit, do_sleep, Settles, Becomes, Positions

LEMMA WakeSound ==
    ASSUME SceneOK, Good(char), NEW c \in Chars, Here(char, c), NEW m \in Chars, do_wake(c, m)
    PROVE  Sound(char')
<1>1. CASE do_stand(c)
  BY <1>1, StandSound
<1>2. CASE Together(char, c, m) /\ char' = [char EXCEPT ![m].pos = "standing"]
  <2>1. Here(char, m) /\ "standing" \in Positions
    BY <1>2 DEF Together, Here, Positions
  <2> QED
    BY <1>2, <2>1, PosSound
<1> QED
  BY <1>1, <1>2 DEF do_wake, Becomes

LEMMA MoveSound ==
    ASSUME SceneOK, Good(char), NEW c \in Chars, Here(char, c), move_char(c)
    PROVE  Sound(char')
BY WalksGood, GoodSound DEF move_char, OneOf, Becomes

LEMMA EnterSound ==
    ASSUME SceneOK, Good(char), NEW c \in Chars, Here(char, c), NEW to \in Rooms, do_enter(c, to)
    PROVE  Sound(char')
<1>1. char' = Moved(char, c, to)
  BY GoodSound DEF do_enter, Becomes, Moved, With
<1> QED
  BY <1>1, MovedGood, GoodSound

LEMMA RecallSound ==
    ASSUME SceneOK, Good(char), NEW c \in Chars, Here(char, c), do_recall(c)
    PROVE  Sound(char')
BY RecalledGood, GoodSound DEF do_recall, OneOf, Becomes

LEMMA FleeSound ==
    ASSUME SceneOK, Good(char), NEW c \in Chars, do_flee(c)
    PROVE  Sound(char')
BY FleesGood, GoodSound DEF do_flee, OneOf, Becomes

LEMMA AttacksSound ==
    ASSUME SceneOK, Good(char), NEW c \in Chars, NEW m \in Chars, Attacks(c, m)
    PROVE  Sound(char')
<1>1. Here(char, c) /\ Here(char, m)
  BY DEF Attacks, Together, Here
<1> QED
  BY <1>1, BlowsSound DEF Attacks, OneOf, Becomes

LEMMA QuitSound ==
    ASSUME SceneOK, Good(char), NEW c \in Chars, do_quit(c)
    PROVE  Sound(char')
BY ExtractSound DEF do_quit, OneOf, Becomes

LEMMA BuySound ==
    ASSUME SceneOK, Good(char), NEW c \in Chars, Here(char, c), NEW p \in Chars, do_buy(c, p)
    PROVE  Sound(char')
<1> DEFINE r == char[c].room
           n == [NewChar(r) EXCEPT !.charm = TRUE]
           b == [char EXCEPT ![p] = n]
           n2 == [n EXCEPT !.master = c, !.leader = None]
           n3 == [n2 EXCEPT !.leader = c]
           o == [char[c] EXCEPT !.pet = p]
           q == [NewChar(r) EXCEPT !.charm = TRUE, !.master = c, !.leader = c]
<1>1. /\ c \notin scene.npc /\ char[c].pet = None /\ p \in scene.pets /\ char[p].room = "unborn"
      /\ char' = PetOf(Led(add_follower(b, p, c), p, c), c, p)
  BY DEF do_buy, Becomes, IsNpc
<1>2. r \in Rooms /\ ~Here(char, p) /\ p # c
  BY <1>1, SceneOK, UnbornIsNowhere DEF SceneOK, Here
<1>3. n.master = None /\ n3 = q
  BY DEF NewChar
<1>4. b[p] = n /\ \A x \in Chars \ {p} : b[x] = char[x]
  BY GoodSound
<1> HIDE DEF b, n
<1>5. add_follower(b, p, c) = With(b, p, n2)
  BY <1>3, <1>4 DEF add_follower
<1>6. Led(With(b, p, n2), p, c) = With(b, p, n3)
  BY DEF Led, With
<1> HIDE DEF n2, n3
<1>7. With(b, p, n3)[c] = char[c]
  BY <1>2, <1>4 DEF With
<1>8. PetOf(With(b, p, n3), c, p) = With(With(b, p, n3), c, o)
  BY <1>7 DEF PetOf
<1>9. With(b, p, n3) = With(char, p, q)
  BY <1>3, <1>4 DEF With
<1>10. char' = With(With(char, p, q), c, o)
  BY <1>1, <1>5, <1>6, <1>8, <1>9
<1> QED
  BY <1>1, <1>2, <1>10, PetArrivesGood, GoodSound

LEMMA CommandsSound ==
    ASSUME SceneOK, Good(char), NEW c \in Chars, Here(char, c), Commands(c)
    PROVE  Sound(char')
BY FollowSound, NofollowSound, GroupSound, TellSound, RideSound, DismountSound, StandSound, SettlesSound,
   WakeSound, MoveSound, EnterSound, RecallSound, FleeSound, AttacksSound, QuitSound, BuySound
   DEF Commands, do_dismount, do_kill, Becomes

-----------------------------------------------------------------------------
(***************************************************************************)
(* Spells, immortals' commands, and what happens of itself.                *)
(***************************************************************************)
\* A player who is not charmed charms somebody who is not (spell_charm_person).
LEMMA CharmSound ==
    ASSUME SceneOK, Good(char), NEW c \in Chars, c \notin scene.npc, NEW m \in Chars, Together(char, c, m),
           char' = spell_charm_person(char, c, m)
    PROVE  Sound(char')
<1> DEFINE free == stop_follower(char, m)
           f1 == [free[m] EXCEPT !.master = c, !.leader = None]
           f2 == [f1 EXCEPT !.leader = c, !.charm = TRUE]
<1>1. CASE char' = char
  BY <1>1, GoodSound
<1>2. CASE char' # char
  <2>1. char' = Charmed(char, c, m) /\ m # c /\ ~char[c].charm
    BY <1>2 DEF spell_charm_person
  <2>2. /\ Good(free) /\ Lets(char, free) /\ free[m].master = None /\ ~free[m].charm
        /\ \A x \in Chars : free[x].pet # m
    BY StopFollowerGood
  <2>3. Charmed(char, c, m) = LET mine == add_follower(free, m, c)
                              IN  With(mine, m, [mine[m] EXCEPT !.leader = c, !.charm = TRUE])
    BY DEF Charmed
  <2> HIDE DEF free
  <2>4. Here(free, c) /\ Here(free, m) /\ ~free[c].charm
    BY <2>1, <2>2 DEF Lets, Together, Here
  <2>5. add_follower(free, m, c) = With(free, m, f1)
    BY <2>2 DEF add_follower
  <2>6. free[m] \in Person
    BY <2>2, GoodSound
  <2>7. /\ f1 \in Person /\ f1.room = free[m].room /\ f1.charm = free[m].charm /\ f1.master = c
        /\ f1.pet = free[m].pet /\ f1.riding = free[m].riding /\ f1.ridden_by = free[m].ridden_by
        /\ f1.fighting = free[m].fighting /\ f1.reply = free[m].reply
    BY <2>6 DEF Person
  <2> HIDE DEF f1
  <2>8. /\ f2 \in Person /\ f2.room = f1.room /\ f2.charm /\ f2.master = f1.master /\ f2.leader = c
        /\ f2.pet = f1.pet /\ f2.riding = f1.riding /\ f2.ridden_by = f1.ridden_by
        /\ f2.fighting = f1.fighting /\ f2.reply = f1.reply
    BY <2>7 DEF Person
  <2>9. With(free, m, f1)[m] = f1
    BY DEF With
  <2>10. char' = With(With(free, m, f1), m, f2)
    BY <2>1, <2>3, <2>5, <2>9
  <2> HIDE DEF f2
  <2>11. char' = With(free, m, f2)
    BY <2>10 DEF With
  <2>12. Good(With(free, m, f2))
    BY <2>1, <2>2, <2>4, <2>7, <2>8, TiedGood
  <2> QED
    BY <2>11, <2>12, GoodSound
<1> QED
  BY <1>1, <1>2

LEMMA GateSound ==
    ASSUME SceneOK, Good(char), NEW c \in Chars, Here(char, c), NEW m \in Chars, spell_gate(c, m)
    PROVE  Sound(char')
<1> DEFINE p == char[c].pet
           at == char[m].room
           gone == Moved(char, c, at)
<1>1. at \in Rooms /\ char' \in {gone, Moved(gone, p, at)} /\ (char' # gone => p # None)
  BY DEF spell_gate, Becomes, Here
<1>2. Good(gone) /\ Same(char, gone)
  BY <1>1, MovedGood
<1>3. p # None => p \in Chars /\ Here(char, p)
  BY BondsTyped DEF Good, Sound, Alive, Someone
<1> HIDE DEF gone, at, p
<1>4. p # None => Good(Moved(gone, p, at))
  BY <1>1, <1>2, <1>3, MovedGood DEF Same
<1> QED
  BY <1>1, <1>2, <1>4, GoodSound

LEMMA DismountedGood ==
    ASSUME SceneOK, NEW w, Good(w), NEW c \in Chars
    PROVE  Good(Dismounted(w, c)) /\ Same(w, Dismounted(w, c))
<1>1. w[c].riding \in Someone
  BY BondsTyped, GoodSound
<1> QED
  BY <1>1, UnrideGood DEF Dismounted, Same, Someone

LEMMA SummonSound ==
    ASSUME SceneOK, Good(char), NEW c \in Chars, Here(char, c), NEW m \in Chars, spell_summon(c, m)
    PROVE  Sound(char')
<1>1. /\ Here(char, m) /\ char[c].room \in Rooms
      /\ char' = Moved(Dismounted(char, m), m, char[c].room)
  BY DEF spell_summon, Becomes, Here
<1> QED
  BY <1>1, DismountedGood, MovedGood, GoodSound DEF Same

LEMMA TeleportSound ==
    ASSUME SceneOK, Good(char), NEW c \in Chars, NEW m \in Chars, spell_teleport(c, m)
    PROVE  Sound(char')
<1>1. PICK r \in Rooms : char' \in fallen_off_mount(Moved(char, m, r), c)
  BY DEF spell_teleport, OneOf, Becomes
<1>2. Here(char, m)
  BY DEF spell_teleport, Together, Here
<1> QED
  BY <1>1, <1>2, MovedGood, FallenGood, GoodSound

LEMMA WordOfRecallSound ==
    ASSUME SceneOK, Good(char), NEW c \in Chars, NEW m \in Chars, spell_word_of_recall(c, m)
    PROVE  Sound(char')
<1> DEFINE p == char[m].riding
           calm == Calmed(char, m)
           alone == Moved(calm, m, Temple)
           calmer == Calmed(calm, p)
           there == Moved(calmer, m, Temple)
           mounted == Moved(there, p, Temple)
           u == IF p = None THEN alone ELSE mounted
           pet == char[c].pet
<1>1. Here(char, m) /\ char' \in WithPet(u, pet)
  BY DEF spell_word_of_recall, Together, Here, OneOf, Becomes
<1>2. p \in Someone /\ (p # None => Here(char, p))
  BY BondsTyped DEF Good, Sound, Mounted
<1>3. pet \in Someone /\ (pet # None => Here(char, pet))
  BY BondsTyped DEF Good, Sound, Alive
<1>4. Good(calm) /\ Same(char, calm)
  BY CalmedGood
<1> HIDE DEF calm, p, pet
<1>5. Good(alone) /\ Same(char, alone)
  BY <1>1, <1>4, MovedGood, SameTransitive, BondsAssumption DEF Same
<1>6. Good(calmer) /\ Same(char, calmer)
  BY <1>4, CalmedGood, SameTransitive
<1> HIDE DEF calmer, alone
<1>7. Good(there) /\ Same(char, there)
  BY <1>1, <1>6, MovedGood, SameTransitive, BondsAssumption DEF Same
<1> HIDE DEF there
<1>8. p # None => Good(mounted) /\ Same(char, mounted)
  BY <1>2, <1>7, MovedGood, SameTransitive, BondsAssumption DEF Same, Someone
<1> HIDE DEF mounted
<1>9. Good(u) /\ Same(char, u)
  BY <1>5, <1>8
<1> HIDE DEF u
<1> QED
  BY <1>1, <1>3, <1>9, WithPetGood, GoodSound DEF Same, Someone

LEMMA SpellsSound ==
    ASSUME SceneOK, Good(char), NEW c \in Chars, Here(char, c), Spells(c)
    PROVE  Sound(char')
BY CharmSound, GateSound, SummonSound, TeleportSound, WordOfRecallSound DEF Spells, IsNpc, Becomes

LEMMA TransferSound ==
    ASSUME SceneOK, Good(char), NEW m \in Chars, NEW to \in Rooms, transfer(m, to)
    PROVE  Sound(char')
<1>1. Here(char, m) /\ char' = Moved(Dismounted(Calmed(char, m), m), m, to)
  BY DEF transfer, Becomes
<1>2. Good(Calmed(char, m)) /\ Same(char, Calmed(char, m))
  BY CalmedGood
<1>3. Good(Dismounted(Calmed(char, m), m)) /\ Same(Calmed(char, m), Dismounted(Calmed(char, m), m))
  BY <1>2, DismountedGood
<1> QED
  BY <1>1, <1>2, <1>3, MovedGood, GoodSound DEF Same

LEMMA GotoSound ==
    ASSUME SceneOK, Good(char), NEW c \in Chars, Here(char, c), NEW to \in Rooms, do_goto(c, to)
    PROVE  Sound(char')
<1> DEFINE p == char[c].pet
           calm == Calmed(char, c)
           gone == Moved(calm, c, to)
<1>1. char' = IF p = None THEN gone ELSE Moved(gone, p, to)
  BY DEF do_goto, Becomes
<1>2. p # None => p \in Chars /\ Here(char, p)
  BY BondsTyped DEF Good, Sound, Alive, Someone
<1>3. Good(calm) /\ Same(char, calm)
  BY CalmedGood
<1> HIDE DEF calm, p
<1>4. Good(gone) /\ Same(char, gone)
  BY <1>3, MovedGood, SameTransitive DEF Same
<1> HIDE DEF gone
<1>5. p # None => Good(Moved(gone, p, to))
  BY <1>2, <1>4, MovedGood DEF Same
<1> QED
  BY <1>1, <1>4, <1>5, GoodSound

LEMMA PurgeSound ==
    ASSUME SceneOK, Good(char), NEW c, NEW m \in Chars, do_purge(c, m)
    PROVE  Sound(char')
BY ExtractSound DEF do_purge, OneOf, Becomes

LEMMA WizardrySound ==
    ASSUME SceneOK, Good(char), NEW c \in Chars, Wizardry(c)
    PROVE  Sound(char')
BY TransferSound, GotoSound, PurgeSound DEF Wizardry

\* To limbo and back.
LEMMA AwayQuiet ==
    ASSUME NEW w, w \in [Chars -> Person], NEW c \in Chars, Here(w, c),
           NEW r \in Rooms, NEW was \in Rooms \cup {None},
           NEW q, q = [w[c] EXCEPT !.room = r, !.was_in_room = was]
    PROVE  Quiet(w, With(w, c, q))
<1>1. /\ q \in Person /\ q.room = r /\ q.charm = w[c].charm /\ q.master = w[c].master
      /\ q.leader = w[c].leader /\ q.pet = w[c].pet /\ q.riding = w[c].riding
      /\ q.ridden_by = w[c].ridden_by /\ q.fighting = w[c].fighting /\ q.reply = w[c].reply
  <2>1. w[c] \in Person
    OBVIOUS
  <2> QED
    BY <2>1 DEF Person
<1> QED
  BY <1>1 DEF Quiet, With, Here

LEMMA IdleSound ==
    ASSUME SceneOK, Good(char), NEW c \in Chars, move_idle_char_to_limbo(c)
    PROVE  Sound(char')
<1> DEFINE p == char[c].pet
           Void(w, x) == With(w, x, [w[x] EXCEPT !.was_in_room = w[x].room, !.room = Limbo])
           calm == Calmed(char, c)
           alone == Void(calm, c)
           calmer == Calmed(alone, p)
<1>1. Here(char, c) /\ char' = IF p = None THEN alone ELSE Void(calmer, p)
  BY DEF move_idle_char_to_limbo, Becomes
<1>2. p # None => p \in Chars /\ Here(char, p)
  BY BondsTyped DEF Good, Sound, Alive, Someone
<1>3. ASSUME NEW w, NEW x \in Chars, Good(w), Here(w, x)
      PROVE  Good(Void(w, x)) /\ Same(w, Void(w, x))
  <2>1. w \in [Chars -> Person] /\ w[x].room \in Rooms /\ Limbo \in Rooms
    BY <1>3, GoodSound, BondsAssumption DEF Here
  <2>2. Quiet(w, Void(w, x))
    <3>1. [w[x] EXCEPT !.was_in_room = w[x].room, !.room = Limbo]
            = [w[x] EXCEPT !.room = Limbo, !.was_in_room = w[x].room]
      OBVIOUS
    <3> QED
      BY <1>3, <2>1, <3>1, AwayQuiet
  <2> QED
    BY <1>3, <2>2, QuietGood, QuietSame DEF Good
<1>4. Good(calm) /\ Same(char, calm)
  BY CalmedGood
<1> HIDE DEF calm, p, Void
<1>5. Good(alone) /\ Same(char, alone)
  BY <1>1, <1>3, <1>4, SameTransitive DEF Same
<1> HIDE DEF alone
<1>6. Good(calmer) /\ Same(char, calmer)
  BY <1>5, CalmedGood, SameTransitive
<1> HIDE DEF calmer
<1>7. p # None => Good(Void(calmer, p))
  BY <1>2, <1>3, <1>6 DEF Same
<1> QED
  BY <1>1, <1>5, <1>7, GoodSound

LEMMA ActiveSound ==
    ASSUME SceneOK, Good(char), NEW c \in Chars, move_active_char_from_limbo(c)
    PROVE  Sound(char')
<1> DEFINE p == char[c].pet
           was == char[c].was_in_room
           Back(w, x) == With(w, x, [w[x] EXCEPT !.room = was, !.was_in_room = None])
           back == Back(char, c)
<1>1. /\ was # None /\ char[c].room = Limbo
      /\ char' = IF p = None THEN back ELSE Back(back, p)
  BY DEF move_active_char_from_limbo, Becomes
<1>2. p # None => p \in Chars /\ Here(char, p)
  BY BondsTyped DEF Good, Sound, Alive, Someone
<1>3. was \in Rooms /\ Here(char, c)
  <2>1. char[c] \in Person
    BY GoodSound
  <2> QED
    BY <1>1, <2>1, BondsAssumption DEF Person, Here
<1> HIDE DEF was, p
<1>4. ASSUME NEW w, NEW x \in Chars, Good(w), Here(w, x)
      PROVE  Good(Back(w, x)) /\ Same(w, Back(w, x))
  <2>1. Quiet(w, Back(w, x))
    BY <1>3, <1>4, AwayQuiet, GoodSound
  <2> QED
    BY <1>4, <2>1, QuietGood, QuietSame DEF Good
<1> HIDE DEF Back
<1>5. Good(back) /\ Same(char, back)
  BY <1>3, <1>4
<1> HIDE DEF back
<1>6. p # None => Good(Back(back, p))
  BY <1>2, <1>4, <1>5 DEF Same
<1> QED
  BY <1>1, <1>5, <1>6, GoodSound

LEMMA WandersSound ==
    ASSUME SceneOK, Good(char), NEW c \in Chars, Wanders(c)
    PROVE  Sound(char')
BY WalksGood, GoodSound DEF Wanders, OneOf, Becomes

LEMMA RecoversSound ==
    ASSUME SceneOK, Good(char), NEW c \in Chars, Recovers(c)
    PROVE  Sound(char')
<1>1. "standing" \in Positions /\ NewChar(char[c].room).pos # "dying"
  BY DEF Positions, NewChar
<1>2. Here(char, c)
  BY <1>1 DEF Recovers, Dying, Good, Sound, Clean
<1> QED
  BY <1>1, <1>2, PosSound DEF Recovers, Becomes

LEMMA Uncharmed ==
    ASSUME NEW r \in Person, NEW q, q = [r EXCEPT !.charm = FALSE]
    PROVE  /\ q \in Person /\ q.room = r.room /\ ~q.charm /\ q.master = r.master
           /\ q.leader = r.leader /\ q.pet = r.pet /\ q.riding = r.riding
           /\ q.ridden_by = r.ridden_by /\ q.fighting = r.fighting /\ q.reply = r.reply
BY DEF Person

LEMMA CharmFadesSound ==
    ASSUME SceneOK, Good(char), NEW c \in Chars, CharmFades(c)
    PROVE  Sound(char')
<1> DEFINE q == [char[c] EXCEPT !.charm = FALSE]
<1>1. char' = [char EXCEPT ![c] = q] /\ char[c].charm
  BY GoodSound DEF CharmFades, Becomes
<1>2. Here(char, c)
  <2>1. ~NewChar(char[c].room).charm
    BY DEF NewChar
  <2> QED
    BY <1>1, <2>1 DEF Good, Sound, Clean
<1>3. /\ q \in Person /\ q.room = char[c].room /\ ~q.charm
      /\ q.master = char[c].master /\ q.leader = char[c].leader /\ q.pet = char[c].pet
      /\ q.riding = char[c].riding /\ q.ridden_by = char[c].ridden_by
      /\ q.fighting = char[c].fighting /\ q.reply = char[c].reply
  <2>1. char[c] \in Person
    BY GoodSound
  <2> QED
    BY <2>1, Uncharmed
<1> HIDE DEF q
<1>4. char' \in [Chars -> Person] /\ char'[c] = q /\ \A x \in Chars \ {c} : char'[x] = char[x]
  BY <1>1, <1>3, GoodSound
<1>5. Quiet(char, char')
  BY <1>2, <1>3, <1>4 DEF Quiet, Here
<1> QED
  BY <1>5, QuietSound

LEMMA ViolenceSound ==
    ASSUME SceneOK, Good(char), NEW c \in Chars, violence_update(c)
    PROVE  Sound(char')
<1>1. char[c].fighting \in Chars
  BY BondsTyped, GoodSound DEF violence_update, Someone
<1>2. CASE Attacks(c, char[c].fighting)
  BY <1>1, <1>2, AttacksSound
<1>3. CASE char' = stop_fighting(char, c, FALSE)
  <2>1. Quiet(char, char')
    BY <1>3, StopFightingQuiet DEF Good, Sound
  <2> QED
    BY <2>1, QuietSound
<1> QED
  BY <1>2, <1>3 DEF violence_update, Becomes

LEMMA EnterGameSound ==
    ASSUME SceneOK, Good(char), NEW c \in Chars, EnterGame(c)
    PROVE  Sound(char')
<1> DEFINE new == NewChar(Temple)
           owner == [new EXCEPT !.pet = char'[c].pet]
           come == With(char, c, new)
<1>1. c \notin scene.npc /\ ~Here(char, c) /\ Temple \in Rooms
  BY UnbornIsNowhere, BondsAssumption DEF EnterGame, IsNpc, Here
<1>2. Good(come)
  BY <1>1, ArrivesGood
<1>3. CASE char' = [char EXCEPT ![c] = new]
  <2>1. char' = come
    BY <1>3, GoodSound DEF With
  <2> QED
    BY <1>2, <2>1, GoodSound
<1>4. ASSUME NEW p \in scene.pets, char[p].room = "unborn",
             char' = [char EXCEPT ![c] = [new EXCEPT !.pet = p],
                                  ![p] = [new EXCEPT !.charm = TRUE, !.master = c, !.leader = c]]
      PROVE  Sound(char')
  <2> DEFINE q == [new EXCEPT !.charm = TRUE, !.master = c, !.leader = c]
             o == [new EXCEPT !.pet = p]
  <2>1. p \in Chars /\ p # c
    BY <1>1, SceneOK DEF SceneOK
  <2>2. come[c] = new /\ come[p] = char[p]
    BY <2>1 DEF With
  <2>3. Here(come, c) /\ ~Here(come, p) /\ come[c].pet = None
    BY <1>1, <1>4, <2>2, UnbornIsNowhere DEF Here, NewChar
  <2>4. char' = [char EXCEPT ![c] = o, ![p] = q]
    BY <1>4
  <2>5. o = [come[c] EXCEPT !.pet = p] /\ q = [NewChar(Temple) EXCEPT !.charm = TRUE, !.master = c, !.leader = c]
    BY <2>2
  <2> HIDE DEF o, q
  <2>6. char' = With(With(come, p, q), c, o)
    BY <2>1, <2>4, GoodSound DEF With
  <2> HIDE DEF come
  <2>7. Good(char')
    BY <1>1, <1>2, <2>3, <2>5, <2>6, PetArrivesGood
  <2> QED
    BY <2>7, GoodSound
<1> QED
  BY <1>3, <1>4 DEF EnterGame, Becomes

LEMMA WorldSound ==
    ASSUME SceneOK, Good(char), NEW c \in Chars, World(c)
    PROVE  Sound(char')
BY IdleSound, ActiveSound, WandersSound, ViolenceSound, RecoversSound, CharmFadesSound, EnterGameSound DEF World

-----------------------------------------------------------------------------
(***************************************************************************)
(* Doors.                                                                  *)
(***************************************************************************)
\* Where the area has no door there never is one: so a reset may leave alone what leads back
\* somewhere else.
DoorsKept ==
    /\ exit_info \in [Rooms -> [Directions -> SUBSET DoorFlags]]
    /\ \A r \in Rooms, d \in Directions : Has(r, d) /\ Exits[r][d].rs_flags = {} => exit_info[r][d] = {}
    /\ DoorsAgree

\* The way back from the way back is the way there.
LEMMA BackAndForth ==
    ASSUME NEW r \in Rooms, NEW d \in Directions, TwoSided(r, d)
    PROVE  /\ LeadsTo(r, d) \in Rooms /\ Reverse[d] \in Directions /\ Reverse[Reverse[d]] = d
           /\ Has(r, d) /\ Has(LeadsTo(r, d), Reverse[d])
           /\ TwoSided(LeadsTo(r, d), Reverse[d]) /\ LeadsTo(LeadsTo(r, d), Reverse[d]) = r
           /\ Exits[LeadsTo(r, d)][Reverse[d]].rs_flags = Exits[r][d].rs_flags
<1>1. LeadsTo(r, d) \in Rooms /\ Reverse[d] \in Directions /\ Reverse[Reverse[d]] = d
  BY DoorsAssumption DEF TwoSided, Has, LeadsTo
<1>2. Has(r, d) /\ Has(LeadsTo(r, d), Reverse[d]) /\ LeadsTo(LeadsTo(r, d), Reverse[d]) = r
  BY DEF TwoSided
<1>3. TwoSided(LeadsTo(r, d), Reverse[d])
  BY <1>1, <1>2 DEF TwoSided
<1>4. Exits[LeadsTo(r, d)][Reverse[d]].rs_flags = Exits[r][d].rs_flags
  BY <1>2, AreasAgree
<1> QED
  BY <1>1, <1>2, <1>3, <1>4

\* One who works a door does so on both of its sides (update_reverse_exit).
LEMMA DoorKept ==
    ASSUME DoorsKept, NEW r \in Rooms, NEW d \in Directions, find_door(r, d),
           NEW set \in SUBSET DoorFlags, NEW cleared, Door(r, d, set, cleared)
    PROVE  DoorsKept'
<1> DEFINE Side(s, e) == (s = r /\ e = d) \/ (TwoSided(r, d) /\ s = LeadsTo(r, d) /\ e = Reverse[d])
<1>1. /\ exit_info' = [s \in Rooms |-> [e \in Directions |->
                          IF Side(s, e) THEN (exit_info[s][e] \ cleared) \cup set ELSE exit_info[s][e]]]
      /\ exit_info \in [Rooms -> [Directions -> SUBSET DoorFlags]]
  BY DEF Door, update_reverse_exit, DoorsKept
<1>2. exit_info' \in [Rooms -> [Directions -> SUBSET DoorFlags]]
  BY <1>1
<1>3. \A s \in Rooms, e \in Directions :
         exit_info'[s][e] = IF Side(s, e) THEN (exit_info[s][e] \ cleared) \cup set ELSE exit_info[s][e]
  BY <1>1
<1>4. \A s \in Rooms, e \in Directions : Side(s, e) => Exits[s][e].rs_flags # {}
  <2>1. Exits[r][d].rs_flags # {}
    BY DEF DoorsKept, find_door
  <2> QED
    BY <2>1, BackAndForth
<1>5. ASSUME NEW s \in Rooms, NEW e \in Directions, TwoSided(s, e)
      PROVE  Side(s, e) <=> Side(LeadsTo(s, e), Reverse[e])
  <2>1. Side(s, e) => Side(LeadsTo(s, e), Reverse[e])
    BY <1>5, BackAndForth
  <2>2. Side(LeadsTo(s, e), Reverse[e]) => Side(s, e)
    BY <1>5, BackAndForth
  <2> QED
    BY <2>1, <2>2
<1>6. DoorsAgree'
  <2> SUFFICES ASSUME NEW s \in Rooms, NEW e \in Directions, TwoSided(s, e)
               PROVE  exit_info'[s][e] = exit_info'[LeadsTo(s, e)][Reverse[e]]
    BY DEF DoorsAgree, TwoSided, Has, LeadsTo
  <2>1. exit_info[s][e] = exit_info[LeadsTo(s, e)][Reverse[e]]
    BY DEF DoorsKept, DoorsAgree
  <2>2. LeadsTo(s, e) \in Rooms /\ Reverse[e] \in Directions
    BY BackAndForth
  <2> DEFINE t == LeadsTo(s, e)
             f == Reverse[e]
             Worked(i) == (i \ cleared) \cup set
  <2>3. Side(s, e) <=> Side(t, f)
    BY <1>5
  <2> HIDE DEF Side
  <2>4. exit_info'[s][e] = IF Side(s, e) THEN Worked(exit_info[s][e]) ELSE exit_info[s][e]
    BY <1>3
  <2>5. exit_info'[t][f] = IF Side(t, f) THEN Worked(exit_info[t][f]) ELSE exit_info[t][f]
    BY <1>3, <2>2
  <2> HIDE DEF Worked
  <2> QED
    BY <2>1, <2>3, <2>4, <2>5
<1>7. \A s \in Rooms, e \in Directions : Has(s, e) /\ Exits[s][e].rs_flags = {} => exit_info'[s][e] = {}
  BY <1>3, <1>4 DEF DoorsKept
<1> QED
  BY <1>2, <1>6, <1>7 DEF DoorsKept, Has

\* An area is reset: the exits of a room, and those that lead back or would lead back.
LEMMA ResetKept ==
    ASSUME DoorsKept, NEW r \in Rooms, reset_exits(r)
    PROVE  DoorsKept'
<1> DEFINE Reached(s, e) == Has(s, e) /\ (s = r \/ (Has(r, Reverse[e]) /\ LeadsTo(r, Reverse[e]) = s))
<1>1. /\ exit_info' = [s \in Rooms |-> [e \in Directions |->
                          IF Reached(s, e) THEN Exits[s][e].rs_flags ELSE exit_info[s][e]]]
      /\ exit_info \in [Rooms -> [Directions -> SUBSET DoorFlags]]
  BY DEF reset_exits, DoorsKept
<1>2. exit_info' \in [Rooms -> [Directions -> SUBSET DoorFlags]]
  <2>1. \A s \in Rooms, e \in Directions : Reached(s, e) => Exits[s][e].rs_flags \in SUBSET DoorFlags
    BY DoorsAssumption DEF Has
  <2> HIDE DEF Reached
  <2> QED
    BY <1>1, <2>1
<1>3. \A s \in Rooms, e \in Directions :
         exit_info'[s][e] = IF Reached(s, e) THEN Exits[s][e].rs_flags ELSE exit_info[s][e]
  BY <1>1
<1>4. \A s \in Rooms, e \in Directions : Has(s, e) /\ Exits[s][e].rs_flags = {} => exit_info'[s][e] = {}
  BY <1>3 DEF DoorsKept
\* The exit that reset_room finds on the far side does not lead back to the room: it is no door.
<1>5. ASSUME NEW s \in Rooms, NEW e \in Directions, TwoSided(s, e),
             Reached(s, e), ~Reached(LeadsTo(s, e), Reverse[e])
      PROVE  Exits[s][e].rs_flags = {}
  <2>1. /\ Has(LeadsTo(s, e), Reverse[e]) /\ Reverse[Reverse[e]] = e /\ Reverse[e] \in Directions
        /\ LeadsTo(LeadsTo(s, e), Reverse[e]) = s
    BY <1>5, BackAndForth
  <2>2. s # r /\ LeadsTo(s, e) # r
    BY <1>5, <2>1
  <2>3. Has(r, Reverse[e]) /\ LeadsTo(r, Reverse[e]) = s /\ Has(s, e)
    BY <1>5, <2>2
  <2>4. ~TwoSided(r, Reverse[e])
    BY <2>1, <2>2, <2>3 DEF TwoSided
  <2>5. Has(LeadsTo(r, Reverse[e]), Reverse[Reverse[e]])
    BY <2>1, <2>3
  <2>6. Exits[LeadsTo(r, Reverse[e])][Reverse[Reverse[e]]].rs_flags = {}
    BY <2>1, <2>3, <2>4, <2>5, AreasAgree
  <2> QED
    BY <2>1, <2>3, <2>6
<1>6. ASSUME NEW s \in Rooms, NEW e \in Directions, TwoSided(s, e)
      PROVE  exit_info'[s][e] = exit_info'[LeadsTo(s, e)][Reverse[e]]
  <2> DEFINE t == LeadsTo(s, e)
             f == Reverse[e]
  <2>1. /\ t \in Rooms /\ f \in Directions /\ TwoSided(t, f) /\ LeadsTo(t, f) = s /\ Reverse[f] = e
        /\ Has(s, e) /\ Has(t, f) /\ Exits[t][f].rs_flags = Exits[s][e].rs_flags
    BY <1>6, BackAndForth
  <2>2. exit_info[s][e] = exit_info[t][f]
    BY <1>6 DEF DoorsKept, DoorsAgree
  <2>3. Reached(s, e) /\ ~Reached(t, f) => Exits[s][e].rs_flags = {}
    BY <1>5, <1>6
  <2>4. Reached(t, f) /\ ~Reached(s, e) => Exits[t][f].rs_flags = {}
    BY <1>5, <2>1
  <2> HIDE DEF Reached, t, f
  <2>5. CASE Reached(s, e) <=> Reached(t, f)
    <3>1. exit_info'[s][e] = IF Reached(s, e) THEN Exits[s][e].rs_flags ELSE exit_info[s][e]
      BY <1>3
    <3>2. exit_info'[t][f] = IF Reached(t, f) THEN Exits[t][f].rs_flags ELSE exit_info[t][f]
      BY <1>3, <2>1
    <3>3. exit_info'[s][e] = exit_info'[t][f]
      BY <2>1, <2>2, <2>5, <3>1, <3>2
    <3> QED
      BY <3>3 DEF t, f
  <2>6. CASE ~(Reached(s, e) <=> Reached(t, f))
    <3>1. Exits[s][e].rs_flags = {} /\ Exits[t][f].rs_flags = {}
      BY <2>1, <2>3, <2>4, <2>6
    <3>2. exit_info'[s][e] = {} /\ exit_info'[t][f] = {}
      BY <1>4, <2>1, <3>1
    <3> QED
      BY <3>2 DEF t, f
  <2> QED
    BY <2>5, <2>6 DEF t, f
<1>7. DoorsAgree'
  BY <1>6 DEF DoorsAgree, TwoSided, Has, LeadsTo
<1> QED
  BY <1>2, <1>4, <1>7 DEF DoorsKept, Has

LEMMA DoorsUntouched == ASSUME DoorsKept, UNCHANGED exit_info PROVE DoorsKept'
BY DEF DoorsKept, DoorsAgree, TwoSided, Has, LeadsTo

LEMMA DoorworkKept ==
    ASSUME DoorsKept, NEW c \in Chars, Here(char, c), Doorwork(c)
    PROVE  DoorsKept'
<1> DEFINE r == char[c].room
<1>1. r \in Rooms /\ {} \subseteq DoorFlags /\ {"Closed"} \subseteq DoorFlags /\ {"Locked"} \subseteq DoorFlags
  BY DEF Here, DoorFlags
<1>2. do_open(r) => DoorsKept'
  BY <1>1, DoorKept, DoorsUntouched DEF do_open, Lid
<1>3. do_close(r) => DoorsKept'
  BY <1>1, DoorKept, DoorsUntouched DEF do_close, Lid
<1>4. do_lock(r, scene.keys[c]) => DoorsKept'
  BY <1>1, DoorKept, DoorsUntouched DEF do_lock, Lid
<1>5. do_unlock(r, scene.keys[c]) => DoorsKept'
  BY <1>1, DoorKept, DoorsUntouched DEF do_unlock, Lid
<1>6. do_pick(r, Immortal(c)) => DoorsKept'
  BY <1>1, DoorKept, DoorsUntouched DEF do_pick, Lid
<1> QED
  BY <1>2, <1>3, <1>4, <1>5, <1>6 DEF Doorwork

-----------------------------------------------------------------------------
(***************************************************************************)
(* The invariant, and what follows from it.                                *)
(***************************************************************************)
IInv == scene \in Scenes /\ Sound(char) /\ DoorsKept

LEMMA InitIInv == Init => IInv
<1> SUFFICES ASSUME Init PROVE IInv
  OBVIOUS
<1>1. scene \in Scenes /\ scene.at \in [Chars -> Rooms \cup {"unborn"}]
  BY BondsAssumption DEF Init
<1>2. ASSUME NEW r \in Rooms \cup {"unborn"}
      PROVE  /\ NewChar(r) \in Person /\ NewChar(r).room = r /\ ~NewChar(r).charm
             /\ NewChar(r).master = None /\ NewChar(r).leader = None /\ NewChar(r).pet = None
             /\ NewChar(r).riding = None /\ NewChar(r).ridden_by = None
             /\ NewChar(r).fighting = None /\ NewChar(r).reply = None
  BY DEF NewChar, Person, Positions, Nowhere
<1>3. /\ char \in [Chars -> Person]
      /\ \A c \in Chars : char[c] = NewChar(scene.at[c]) /\ scene.at[c] \in Rooms \cup {"unborn"}
  BY <1>1, <1>2 DEF Init
<1>4. Sound(char)
  BY <1>2, <1>3, BondsAssumption DEF Sound, Clean, Alive, Riders, PetsOwned, LoopFree, Met
<1>5. DoorsKept
  <2>1. exit_info = [r \in Rooms |-> [d \in Directions |-> IF Has(r, d) THEN Exits[r][d].rs_flags ELSE {}]]
    BY DEF Init, DoorsInit
  <2>2. \A r \in Rooms, d \in Directions : Has(r, d) => Exits[r][d].rs_flags \in SUBSET DoorFlags
    BY DoorsAssumption DEF Has
  <2>3. exit_info \in [Rooms -> [Directions -> SUBSET DoorFlags]]
    BY <2>1, <2>2
  <2>4. DoorsAgree
    BY <2>1, BackAndForth DEF DoorsAgree
  <2> QED
    BY <2>1, <2>3, <2>4 DEF DoorsKept
<1> QED
  BY <1>1, <1>4, <1>5 DEF IInv

\* A step starts where no pointer between rider and mount is to one who is gone.
LEMMA NextGood ==
    ASSUME Sound(char), \A c \in Chars : ~Dangles(c)
    PROVE  Good(char)
<1>1. ASSUME NEW c \in Chars, NEW x \in Chars, x = char[c].riding \/ x = char[c].ridden_by
      PROVE  Here(char, x)
  <2>1. char[x].room # "gone" /\ char[x].room # "unborn" /\ char[x] \in Person
    BY <1>1, BondsAssumption DEF Dangles, Sound, Met
  <2> QED
    BY <2>1 DEF Person, Here, Nowhere
<1> QED
  BY <1>1, BondsTyped DEF Good, Sound, Mounted, Someone

LEMMA NextIInv == IInv /\ [Next]_vars => IInv'
<1> SUFFICES ASSUME IInv, [Next]_vars PROVE IInv'
  OBVIOUS
<1>1. CASE UNCHANGED vars
  <2>1. Sound(char)' /\ (scene \in Scenes)'
    BY <1>1 DEF IInv, vars, Sound, Clean, Alive, Riders, PetsOwned, LoopFree, Met, Here
  <2> QED
    BY <1>1, <2>1, DoorsUntouched DEF IInv, vars
<1>2. CASE Next
  <2>1. Good(char)
    BY <1>2, NextGood DEF IInv, Next
  <2>2. SceneOK
    BY BondsAssumption DEF IInv, SceneOK
  <2>3. UNCHANGED scene /\ (scene \in Scenes)'
    BY <1>2 DEF IInv, Next
  <2>4. Sound(char') => Sound(char)'
    BY <2>3 DEF Sound, Clean, Alive, Riders, PetsOwned, LoopFree, Met, Here
  <2>5. UNCHANGED char => Sound(char)'
    BY <2>4 DEF IInv
  <2>6. UNCHANGED exit_info => DoorsKept'
    BY DoorsUntouched DEF IInv
  <2>7. ASSUME NEW c \in Chars, Commanded(c), Commands(c) PROVE Sound(char') /\ UNCHANGED exit_info
    <3>1. Sound(char')
      BY <2>1, <2>2, <2>7, CommandsSound DEF Commanded
    <3>2. UNCHANGED exit_info
      BY <2>7 DEF Commands, do_follow, do_nofollow, do_group, tell_to, do_dismount, do_ride, do_stand, do_rest,
                  do_sit, do_sleep, Settles, do_wake, move_char, do_enter, do_recall, do_flee, do_kill, Attacks,
                  do_quit, do_buy, OneOf, Becomes, doorVars
    <3> QED
      BY <3>1, <3>2
  <2>8. ASSUME NEW c \in Chars, Commanded(c), Doorwork(c) PROVE UNCHANGED char /\ DoorsKept'
    BY <2>8, DoorworkKept DEF Commanded, Doorwork, IInv
  <2>9. ASSUME NEW c \in Chars, Commanded(c), Spells(c) PROVE Sound(char') /\ UNCHANGED exit_info
    <3>1. Sound(char')
      BY <2>1, <2>2, <2>9, SpellsSound DEF Commanded
    <3>2. UNCHANGED exit_info
      BY <2>9 DEF Spells, spell_gate, spell_summon, spell_teleport, spell_word_of_recall, OneOf, Becomes, doorVars
    <3> QED
      BY <3>1, <3>2
  <2>10. ASSUME NEW c \in Chars, Wizardry(c) PROVE Sound(char') /\ UNCHANGED exit_info
    <3>1. Sound(char')
      BY <2>1, <2>2, <2>10, WizardrySound
    <3>2. UNCHANGED exit_info
      BY <2>10 DEF Wizardry, transfer, do_goto, do_purge, OneOf, Becomes, doorVars
    <3> QED
      BY <3>1, <3>2
  <2>11. ASSUME NEW c \in Chars, World(c) PROVE Sound(char') /\ UNCHANGED exit_info
    <3>1. Sound(char')
      BY <2>1, <2>2, <2>11, WorldSound
    <3>2. UNCHANGED exit_info
      BY <2>11 DEF World, move_idle_char_to_limbo, move_active_char_from_limbo, Wanders, violence_update, Recovers,
                   CharmFades, EnterGame, Attacks, OneOf, Becomes, doorVars
    <3> QED
      BY <3>1, <3>2
  <2>12. ASSUME reset_room PROVE UNCHANGED char /\ DoorsKept'
    BY <2>12, ResetKept DEF reset_room, IInv
  <2>13. Sound(char)' /\ DoorsKept'
    BY <1>2, <2>4, <2>5, <2>6, <2>7, <2>8, <2>9, <2>10, <2>11, <2>12 DEF Next
  <2> QED
    BY <2>3, <2>13 DEF IInv
<1> QED
  BY <1>1, <1>2

LEMMA SpecIInv == Spec => []IInv
BY InitIInv, NextIInv, PTL DEF Spec

\* What everybody's state and a door's can be (the types of the Char's fields and of exit_info).
THEOREM TypesHold == Spec => []BondsOK
<1>1. IInv => BondsOK
  BY DEF IInv, Sound, DoorsKept, BondsOK
<1> QED
  BY <1>1, SpecIInv, PTL

\* A pet follows its owner, its owner knows when it rides it, and nobody else does, for any people,
\* mobiles and rooms (stop_follower, die_follower, nuke_pets, unride_char, do_ride).
THEOREM BondsStayMutual == Spec => []BondsMutual
<1>1. IInv => BondsMutual
  BY DEF IInv, Sound, PetsOwned, BondsMutual
<1> QED
  BY <1>1, SpecIInv, PTL

\* Nobody follows, is led by, owns, fights or would answer one that has been freed (extract_char and
\* what it calls), as long as no such rider or mount is used.
THEOREM NoBondDangles == Spec => []NoDanglingBond
<1>1. IInv => NoDanglingBond
  BY DEF IInv, Sound, Alive, NoDanglingBond
<1> QED
  BY <1>1, SpecIInv, PTL

\* The charm thread has an end, so that check_killer comes to one, however many have charmed
\* whomever in whatever order (spell_charm_person, do_follow, stop_follower).
THEOREM CharmThreadEnds == Spec => []CharmHasNoLoops
<1>1. IInv => CharmHasNoLoops
  BY DEF IInv, Sound, LoopFree, CharmHasNoLoops
<1> QED
  BY <1>1, SpecIInv, PTL

\* Both sides of a door stay alike, for any map whose area files agree (update_reverse_exit, reset_room).
THEOREM DoorsStayAlike == Spec => []DoorsAgree
<1>1. IInv => DoorsAgree
  BY DEF IInv, DoorsKept
<1> QED
  BY <1>1, SpecIInv, PTL
=============================================================================
