------------------------------- MODULE Affects -------------------------------
(***************************************************************************)
(* What spells, skills and worn items do to a Char (AFFECT_DATA.cpp,       *)
(* handler.cpp): each affect adds a modifier to a score and sets bits, and *)
(* takes them away again when it ends.  Below are the operations on        *)
(* affects, and hits and deaths as far as they change them (fight.cpp).    *)
(* Spells are in Spells, those who cast them and the passing of time in    *)
(* Magic.                                                                  *)
(*                                                                         *)
(* An operator whose outcome is left to a die returns the set of worlds    *)
(* that may come of it.  Scores are kept as what the affects and the items *)
(* have made of them: a score that nothing has touched is 0.  Hit points   *)
(* are left out: a hit that does harm may also leave the victim down, or   *)
(* dead.  Durations are abstracted: a spell lasts for Lasts ticks more.    *)
(***************************************************************************)
EXTENDS Integers, Sequences, SequencesExt, FiniteSetsExt, Skills

CONSTANTS
    Players,
    Mobs,
    Items,
    Armour,       \* the items of ObjectType::Armor; every other is a weapon
    Undead,       \* the mobiles with CharActFlag::Undead
    Natural,      \* the bits a Char has from its race, or from its index
    CharLevel,    \* the level of every Char
    Lasts,        \* bound on how long a spell lasts
    ArmourValue   \* value[0] of armour

Chars == Players \cup Mobs
Nobody == "nobody"
Gone == "gone"            \* an item that is not in the world

Locations == {"None", "Str", "Dex", "Int", "Wis", "Sex", "Ac", "Hitroll", "Damroll", "SavingSpell"}

Positions == {"dead", "down", "sleeping", "resting", "fighting", "standing"}

ASSUME AffectsAssumption ==
    /\ Players \cap Mobs = {} /\ Nobody \notin Chars /\ Gone \notin Chars
    /\ IsFiniteSet(Players) /\ IsFiniteSet(Mobs) /\ IsFiniteSet(Items)
    /\ Armour \subseteq Items /\ Undead \subseteq Mobs
    /\ Cardinality(Mobs) <= 1     \* so that no mobile fights another
    /\ Natural \in [Chars -> SUBSET STRING]
    /\ CharLevel \in Nat /\ Lasts \in Nat /\ ArmourValue \in Nat

\* One AFFECT_DATA.
Affect(sn, level, lasts, location, modifier, bits) ==
    [type |-> sn, level |-> level, lasts |-> lasts,    \* duration
     location |-> location, modifier |-> modifier, bits |-> bits]

NoModifiers == [x \in Locations |-> 0]

NewItem(c, armour) ==
    [at |-> c, worn |-> FALSE, value |-> IF armour THEN ArmourValue ELSE 0,
     mods |-> NoModifiers,     \* of obj->affected, or of its index
     flags |-> {}]             \* extra_flags, and value[4] of a weapon

Living(w) == {c \in w.here : w.pos[c] # "dead"}

\* Damage can be done in a duel that could not be done otherwise.
is_duel_in_progress(w, c, v) == w.duel /\ {c, v} \subseteq Players /\ c # v

-----------------------------------------------------------------------------
affect_modify(w, c, a, on) ==
    [w EXCEPT !.bits[c] = IF on THEN @ \cup a.bits ELSE @ \ a.bits,
              !.mods[c][a.location] = IF on THEN @ + a.modifier ELSE @ - a.modifier]

affect_to_char(w, c, a) == affect_modify([w EXCEPT !.affs[c] = <<a>> \o @], c, a, TRUE)

\* Several affects of one spell, each <<location, modifier, bits>>, for lasts ticks.
AddedFor(w, c, sn, level, lasts, adds) ==
    FoldLeft(LAMBDA x, y : affect_to_char(x, c, Affect(sn, level, lasts, y[1], y[2], y[3])), w, adds)

Added(w, c, sn, level, adds) == AddedFor(w, c, sn, level, Lasts, adds)

\* The affects of a list that are of some, in their order.
Among(affs, some) == FoldLeft(LAMBDA l, a : IF a \in some THEN Append(l, a) ELSE l, <<>>, affs)

OfType(w, c, sn) == {a \in ToSet(w.affs[c]) : a.type = sn}

find_affect(w, c, sn) == Among(w.affs[c], OfType(w, c, sn))

is_affected_by(w, c, sn) == OfType(w, c, sn) # {}

affect_remove_listed(w, c, i) == \* mutant: the modifier stays
    [w EXCEPT !.affs[c] = RemoveAt(@, i), !.bits[c] = @ \ w.affs[c][i].bits]

\* The i-th of the affects of c.
affect_remove(w, c, i) ==
    affect_modify([w EXCEPT !.affs[c] = RemoveAt(@, i)], c, w.affs[c][i], FALSE)

affect_strip_unlisted(w, c, sn) == \* mutant: the affects are freed, what they did stays
    [w EXCEPT !.affs[c] = Among(@, ToSet(@) \ OfType(w, c, sn))]

\* Of the affects of c, those that are over are undone; the others stay listed.
RemovedAll(w, c, over) ==
    FoldLeft(LAMBDA x, a : IF a \in over THEN affect_modify(x, c, a, FALSE) ELSE [x EXCEPT !.affs[c] = Append(@, a)],
             [w EXCEPT !.affs[c] = <<>>], w.affs[c])

affect_strip(w, c, sn) == RemovedAll(w, c, OfType(w, c, sn))

AffectsStripped(w, c, sns) == FoldLeft(LAMBDA x, sn : affect_strip(x, c, sn), w, sns)

\* net_af, which the code computes, comes to nothing: the new affect is added.
affect_join(w, c, a) ==
    affect_to_char(IF is_affected_by(w, c, a.type)
                   THEN affect_remove(w, c, SelectInSeq(w.affs[c], LAMBDA x : x.type = a.type))
                   ELSE w, c, a)

ClearBits(w, c, bits) == [w EXCEPT !.bits[c] = @ \ bits]

AFF(w, c, bit) == bit \in w.bits[c]

\* As long as the dice resist it, each affect of the spell loses a level.
Weaker(a, sn) == IF a.type = sn THEN [a EXCEPT !.level = @ - 1] ELSE a

Weakened(w, c, sn) == [w EXCEPT !.affs[c] = [i \in DOMAIN @ |-> Weaker(@[i], sn)]]

check_dispel(w, c, sn) ==
    IF is_affected_by(w, c, sn) THEN {affect_strip(w, c, sn), Weakened(w, c, sn)} ELSE {w}

\* Of a mobile, a bit that is permanent may go besides: at most one, and, for
\* the code asks for it, of a spell that it is still affected by.
DispelTried(w, c, present) ==
    LET Permanent(x) == {sn \in present : is_affected_by(x, c, sn) /\ skill_table[sn].bits \cap x.bits[c] # {}}
    IN  UNION {{x} \cup IF c \in Players THEN {}
                       ELSE {ClearBits(x, c, skill_table[sn].bits) : sn \in Permanent(x)}
               : x \in FoldSet(LAMBDA sn, ws : UNION {check_dispel(x, c, sn) : x \in ws}, {w}, present)}

try_dispel_all_dispellables(w, c) == DispelTried(w, c, {sn \in Dispellables : is_affected_by(w, c, sn)})

-----------------------------------------------------------------------------
ItemModifiers(i) ==
    [i.mods EXCEPT !["Ac"] = @ - i.value]      \* apply_ac

Worn(w, c) == {o \in Items : w.item[o].at = c /\ w.item[o].worn}

Carried(w, c) == {o \in Items : w.item[o].at = c}

Shifted(w, c, mods, sign) ==
    [w EXCEPT !.mods[c] = [x \in Locations |-> @[x] + sign * mods[x]]]

equip_char(w, c, o) ==
    Shifted([w EXCEPT !.item[o].worn = TRUE], c, ItemModifiers(w.item[o]), 1)

unequip_char(w, c, o) ==
    Shifted([w EXCEPT !.item[o].worn = FALSE], c, ItemModifiers(w.item[o]), -1)

extract_obj(w, o) ==
    LET c == w.item[o].at
        off == IF w.item[o].worn THEN unequip_char(w, c, o) ELSE w
    IN  [off EXCEPT !.item[o].at = Gone]

-----------------------------------------------------------------------------
stop_follower_charmed(w, c) == \* mutant: who is let go stays charmed
    [w EXCEPT !.master[c] = Nobody]

stop_follower(w, c) ==
    IF w.master[c] = Nobody THEN w
    ELSE LET free == IF AFF(w, c, "Charm")
                     THEN affect_strip(ClearBits(w, c, {"Charm"}), c, "charm person") ELSE w
         IN  [free EXCEPT !.master[c] = Nobody]

add_follower(w, c, master) == [w EXCEPT !.master[c] = master]

die_follower(w, c) ==
    FoldSet(LAMBDA f, x : stop_follower(x, f), stop_follower(w, c), {f \in Chars : w.master[f] = c})

Leader(w, c) == IF w.master[c] = Nobody THEN c ELSE w.master[c]

is_same_group(w, c, d) == Leader(w, c) = Leader(w, d)

update_pos(w, c) == IF w.pos[c] = "down" THEN [w EXCEPT !.pos[c] = "standing"] ELSE w

set_fighting(w, c, v) ==
    IF w.foe[c] # Nobody THEN w
    ELSE LET awake == IF AFF(w, c, "Sleep") THEN affect_strip(w, c, "sleep") ELSE w
         IN  [awake EXCEPT !.foe[c] = v, !.pos[c] = "fighting"]

stop_fighting(w, c, both) ==
    LET stops == {d \in Chars : d = c \/ (both /\ w.foe[d] = c)}
    IN  [w EXCEPT !.foe = [d \in Chars |-> IF d \in stops THEN Nobody ELSE @[d]],
                  !.pos = [d \in Chars |-> IF d \in stops /\ @[d] \notin {"down", "dead"}
                                           THEN "standing" ELSE @[d]]]

is_safe(w, c, v) ==
    /\ w.foe[v] # c
    /\ IF c \in Mobs THEN v \in Players /\ AFF(w, c, "Charm")
       ELSE \/ AFF(w, v, "Charm") /\ w.master[v] # c
            \/ v \in Players /\ ~is_duel_in_progress(w, c, v)

is_safe_spell(w, c, v, area) ==
    \/ c = v
    \/ /\ w.foe[v] # c
       /\ IF c \in Mobs THEN \/ v \in Players /\ AFF(w, c, "Charm")
                             \/ v \in Mobs /\ area
          ELSE \/ AFF(w, v, "Charm") /\ w.master[v] # c
               \/ v \in Players
               \/ w.foe[v] # Nobody /\ ~is_same_group(w, c, w.foe[v])

check_killer(w, c, v) ==
    LET owner == IF AFF(w, v, "Charm") /\ w.master[v] # Nobody THEN w.master[v] ELSE v
    IN  IF owner \in Mobs \/ ~AFF(w, c, "Charm") THEN w
        ELSE IF w.master[c] = Nobody
             THEN ClearBits(affect_strip(w, c, "charm person"), c, {"Charm"})
             ELSE stop_follower(w, c)

Visible(w, c) ==
    ClearBits(AffectsStripped(w, c, <<"invis", "mass invis">>), c, {"Invisible"})

\* Outside a duel everything that c has goes into the corpse.
raw_kill(w, c, duel) ==
    LET Bare(x) == IF duel THEN x ELSE FoldSet(LAMBDA o, y : extract_obj(y, o), x, Carried(w, c))
        Left(x) == IF duel THEN x ELSE [x EXCEPT !.here = @ \ {c}]
        Clean(x) == RemovedAll(x, c, ToSet(x.affs[c]))
        dead == Left(Bare(stop_fighting(w, c, TRUE)))
    IN  IF c \in Mobs THEN [die_follower(dead, c) EXCEPT !.pos[c] = "dead"]
        ELSE [Clean(dead) EXCEPT !.bits[c] = Natural[c],
                                 !.mods[c]["Ac"] = IF duel THEN @ ELSE 0,
                                 !.pos[c] = "resting",
                                 !.duel = FALSE]

\* What a hit of c on v that does some harm comes to.
Hurt(w, c, v) ==
    {w, raw_kill(w, v, is_duel_in_progress(w, c, v))}
    \cup IF v \in Players THEN {stop_fighting([w EXCEPT !.pos[v] = "down"], v, FALSE)} ELSE {}

Harmless(w, c, v) ==
    LET Fought(x) == IF c = v \/ x.pos[v] = "down" THEN x ELSE set_fighting(set_fighting(x, v, c), c, v)
        Freed(x) == IF c # v /\ x.master[v] = c THEN stop_follower(x, v) ELSE x
        Seen(x) == IF AFF(x, c, "Invisible") THEN Visible(x, c) ELSE x
    IN  Seen(Freed(Fought(IF c = v THEN w ELSE check_killer(w, c, v))))

damage(w, c, v) ==
    LET Asleep(hit) == IF hit.pos[v] = "sleeping" THEN stop_fighting(hit, v, FALSE) ELSE hit
    IN  IF w.pos[v] = "dead" \/ (c # v /\ is_safe(w, c, v)) THEN {w}
        ELSE UNION {{hit} \cup Hurt(Asleep(hit), c, v) : hit \in {Harmless(w, c, v)}}

multi_hit(w, c, v) == IF w.pos[c] \in {"down", "dead", "sleeping"} THEN {w} ELSE damage(w, c, v)

-----------------------------------------------------------------------------
(***************************************************************************)
(* Commands.                                                               *)
(***************************************************************************)
do_sneak(w, c) ==
    LET heard == affect_strip(w, c, "sneak")
    IN  {heard, Added(heard, c, "sneak", CharLevel, <<<<"None", 0, {"Sneak"}>>>>)}

do_hide(w, c) ==
    LET seen == ClearBits(w, c, {"Hide"})
    IN  {seen, [seen EXCEPT !.bits[c] = @ \cup {"Hide"}]}

do_visible(w, c) ==
    {ClearBits(AffectsStripped(w, c, <<"invis", "mass invis", "sneak">>), c,
               {"Hide", "Invisible", "Sneak"})}

do_berserk(w, c) ==
    IF AFF(w, c, "Berserk") \/ is_affected_by(w, c, "berserk") \/ is_affected_by(w, c, "frenzy")
       \/ AFF(w, c, "Calm")
    THEN {w}
    ELSE {w, Added(w, c, "berserk", CharLevel,
                   <<<<"Hitroll", CharLevel \div 5, {"Berserk"}>>,
                     <<"Damroll", CharLevel \div 5, {"Berserk"}>>,
                     <<"Ac", CharLevel, {"Berserk"}>>>>)}

\* The dirt is in the eyes of the victim, though the kick may have killed it.
\* Whoever is named, it is the foe who is kicked.
do_dirt(w, c) ==
    LET v == w.foe[c]
    IN  IF \/ v = Nobody
           \/ AFF(w, v, "Blind")
           \/ is_safe(w, c, v)
           \/ w.foe[v] # Nobody /\ ~is_same_group(w, c, w.foe[v])
           \/ AFF(w, c, "Charm") /\ w.master[c] = v
        THEN {w}
        ELSE UNION {{x, AddedFor(x, v, "dirt kicking", CharLevel, 0, <<<<"Hitroll", -4, {"Blind"}>>>>)}
                    : x \in damage(w, c, v)}

do_headbutt(w, c, v) ==
    IF \/ c = v
       \/ v \in Players /\ ~is_duel_in_progress(w, c, v)
       \/ w.foe[c] \notin {Nobody, v}
       \/ w.foe[c] # v /\ w.foe[v] \notin {Nobody, c}
    THEN {w}
    ELSE {w} \cup UNION {{x, AddedFor(x, v, "headbutt", CharLevel, 0, <<<<"Hitroll", -5, {"Blind"}>>>>)}
                        : x \in damage(w, c, v)}

do_wear(w, c, o) == IF w.item[o].worn THEN {w} ELSE {equip_char(w, c, o)}

do_remove(w, c, o) ==
    IF ~w.item[o].worn \/ "NoRemove" \in w.item[o].flags THEN {w} ELSE {unequip_char(w, c, o)}

\* Of drinking and of eating what is poisoned.
Poisoned(w, c) == {affect_join(w, c, Affect("poison", CharLevel, Lasts, "None", 0, {"Poison"}))}

do_sleep(w, c) == IF w.pos[c] \in {"resting", "standing"} THEN {[w EXCEPT !.pos[c] = "sleeping"]} ELSE {w}

do_wake(w, c) ==
    IF w.pos[c] # "sleeping" \/ AFF(w, c, "Sleep") THEN {w} ELSE {[w EXCEPT !.pos[c] = "standing"]}

\* What immortals can do to v.
do_awaken(w, v) ==
    IF w.pos[v] # "sleeping" THEN {w} ELSE {[ClearBits(w, v, {"Sleep"}) EXCEPT !.pos[v] = "standing"]}

do_coma(w, v) ==
    IF AFF(w, v, "Sleep") THEN {w}
    ELSE LET slept == affect_join(w, v, Affect("sleep", CharLevel, Lasts, "None", 0, {"Sleep"}))
         IN  {IF w.pos[v] \in {"resting", "fighting", "standing"}
              THEN [slept EXCEPT !.pos[v] = "sleeping"] ELSE slept}

do_restore(w, v) ==
    {update_pos(AffectsStripped(w, v, <<"plague", "poison", "blindness", "sleep", "curse">>), v)}
=============================================================================
