--------------------------------- MODULE Magic ---------------------------------
(***************************************************************************)
(* Those who use Spells, in one room: people who cast them, quaff, recite, *)
(* brandish, zap and throw them (magic.cpp, act_obj.cpp), mobiles whose    *)
(* special function casts them (special.cpp), weapons that carry them      *)
(* (fight.cpp); the commands of Affects; and the tick in which spells wear *)
(* off, plague spreads and poison hurts (char_update of update.cpp).       *)
(*                                                                         *)
(* A behaviour plays one scene: who is there, and which spells, things and *)
(* commands are used.  Things that spells are cast with are plentiful.     *)
(***************************************************************************)
EXTENDS Spells

CONSTANTS
    Scenes,        \* the scenes that may be played
    CharList,      \* char_list: all of Chars, in the order they are updated in
    FaintestPlague \* bound: a plague of this level does not spread on

VARIABLES
    world,
    scene,
    casts          \* what people have done so far

vars == <<world, scene, casts>>

\* The spells of Spells that people have, by what they are cast on.
OnPeople ==
    {"armor", "bless", "giant strength", "regeneration", "pass door", "sanctuary", "talon", "shield",
     "fly", "haste", "infravision", "change sex", "frenzy", "invis", "cancellation", "cure blindness",
     "cure disease", "cure poison", "remove curse", "cure light", "cure serious", "cure critical", "heal",
     "detect evil", "detect hidden", "detect invis", "detect magic", "protection evil",
     "protection good", "stone skin", "blindness", "charm person", "curse", "faerie fire",
     "octarine fire", "insanity", "lethargy", "weaken", "plague", "poison", "sleep", "chill touch",
     "colour spray", "chain lightning", "exorcise", "demonfire", "dispel evil", "dispel good",
     "energy drain", "psychic tornado", "dispel magic", "acid breath", "acid blast", "burning hands",
     "cause light", "cause critical", "cause serious", "fireball", "flamestrike", "harm",
     "lightning bolt", "magic missile", "shocking grasp", "lightning breath", "general purpose",
     "high explosive", "fire breath", "frost breath"}

OnThings ==
    {"vorpal", "venom", "black death", "damnation", "vampire", "acid wash", "tame lightning",
     "enchant armor", "enchant weapon", "remove invisible", "remove alignment"}

OnNobody ==
    {"calm", "faerie fog", "mass invis", "mass healing", "earthquake", "gas breath", "call lightning",
     "holy word", "undo spell"}

\* What the table says of them.
ASSUME TableAssumption ==
    /\ OnPeople \cup OnThings \cup OnNobody \subseteq SkillNames
    /\ \A sn \in OnPeople : skill_table[sn].target \in {"CharOffensive", "CharDefensive", "CharSelf"}
    /\ \A sn \in OnThings : skill_table[sn].target = "ObjectInventory"
    /\ IsFiniteSet(Dispellables)

ASSUME MagicAssumption ==
    /\ CharList \in Seq(Chars) /\ IsInjective(CharList) /\ ToSet(CharList) = Chars
    /\ FaintestPlague \in Int
    /\ \A s \in Scenes : /\ s.who \subseteq Chars
                         /\ s.most \in Nat     \* bound on what people do
                         /\ s.spells \subseteq OnPeople \cup OnThings \cup OnNobody
                         /\ s.levels \subseteq Nat
                         /\ s.things \subseteq Items /\ s.owner \in Chars
                         /\ s.align \in [Chars -> {"good", "neutral", "evil"}]
                         /\ s.duel \in BOOLEAN

Rank == [dead |-> 0, down |-> 1, sleeping |-> 2, resting |-> 3, fighting |-> 4, standing |-> 5]

Awake(c) == Rank[world.pos[c]] > Rank["sleeping"]

NewWorld(s) ==
    [affs |-> [c \in Chars |-> <<>>],
     bits |-> Natural,
     mods |-> [c \in Chars |-> NoModifiers],
     item |-> [o \in Items |-> NewItem(IF o \in s.things THEN s.owner ELSE Gone, o \in Armour)],
     pos |-> [c \in Chars |-> "standing"],
     foe |-> [c \in Chars |-> Nobody],
     master |-> [c \in Chars |-> Nobody],
     here |-> s.who,
     align |-> s.align,
     duel |-> s.duel,
     etched |-> {}]     \* who acid has burnt in what they wear

\* A duel begins with the strife of the duelist upon both (Duel.cpp).
Init ==
    \E s \in Scenes :
        /\ scene = s
        /\ \E w \in IF s.duel
                    THEN Each(NewWorld(s), Players, LAMBDA x, v : spell_strife_duelist(x, CharLevel, v))
                    ELSE {NewWorld(s)} : world = w
        /\ casts = 0

-----------------------------------------------------------------------------
(***************************************************************************)
(* Casting.                                                                *)
(***************************************************************************)
None == "none"            \* the target of a spell that needs none

spell_fun(w, sn, l, c, t) ==
    CASE sn = "armor" -> spell_armor(w, l, t)
      [] sn = "bless" -> spell_bless(w, l, t)
      [] sn = "detect evil" -> spell_detect_evil(w, l, t)
      [] sn = "detect hidden" -> spell_detect_hidden(w, l, t)
      [] sn = "detect invis" -> spell_detect_invis(w, l, t)
      [] sn = "detect magic" -> spell_detect_magic(w, l, t)
      [] sn = "giant strength" -> spell_giant_strength(w, l, t)
      [] sn = "regeneration" -> spell_regeneration(w, l, t)
      [] sn = "pass door" -> spell_pass_door(w, l, t)
      [] sn = "protection evil" -> spell_protection_evil(w, l, t)
      [] sn = "protection good" -> spell_protection_good(w, l, t)
      [] sn = "sanctuary" -> spell_sanctuary(w, l, t)
      [] sn = "talon" -> spell_talon(w, l, t)
      [] sn = "shield" -> spell_shield(w, l, t)
      [] sn = "stone skin" -> spell_stone_skin(w, l, t)
      [] sn = "fly" -> spell_fly(w, l, t)
      [] sn = "haste" -> spell_haste(w, l, t)
      [] sn = "infravision" -> spell_infravision(w, l, t)
      [] sn = "strife of the duelist" -> spell_strife_duelist(w, l, t)
      [] sn = "blindness" -> spell_blindness(w, l, t)
      [] sn = "change sex" -> spell_change_sex(w, l, t)
      [] sn = "charm person" -> spell_charm_person(w, l, c, t)
      [] sn = "curse" -> spell_curse(w, l, t)
      [] sn = "faerie fire" -> spell_faerie_fire(w, l, t)
      [] sn = "octarine fire" -> spell_octarine_fire(w, l, t)
      [] sn = "frenzy" -> spell_frenzy(w, l, c, t)
      [] sn = "insanity" -> spell_insanity(w, l, t)
      [] sn = "lethargy" -> spell_lethargy(w, l, t)
      [] sn = "invis" -> spell_invis(w, l, t)
      [] sn = "weaken" -> spell_weaken(w, l, t)
      [] sn = "plague" -> spell_plague(w, l, t)
      [] sn = "poison" -> spell_poison(w, l, t)
      [] sn = "sleep" -> spell_sleep(w, l, t)
      [] sn = "chill touch" -> spell_chill_touch(w, l, c, t)
      [] sn = "colour spray" -> spell_colour_spray(w, l, c, t)
      [] sn = "calm" -> spell_calm(w, l)
      [] sn = "faerie fog" -> spell_faerie_fog(w, c)
      [] sn = "mass invis" -> spell_mass_invis(w, l, c)
      [] sn = "mass healing" -> spell_mass_healing(w, c)
      [] sn = "earthquake" -> spell_earthquake(w, c)
      [] sn = "gas breath" -> spell_gas_breath(w, c)
      [] sn = "call lightning" -> spell_call_lightning(w, c)
      [] sn = "holy word" -> spell_holy_word(w, l, c)
      [] sn = "chain lightning" -> spell_chain_lightning(w, l, c, t)
      [] sn = "exorcise" -> spell_exorcise(w, c, t)
      [] sn = "demonfire" -> spell_demonfire(w, c, t)
      [] sn = "dispel evil" -> spell_dispel_evil(w, c, t)
      [] sn = "dispel good" -> spell_dispel_good(w, c, t)
      [] sn = "energy drain" -> spell_energy_drain(w, c, t)
      [] sn = "psychic tornado" -> spell_psy_tornado(w, c, t)
      [] sn = "cancellation" -> spell_cancellation(w, c, t)
      [] sn = "dispel magic" -> spell_dispel_magic(w, t)
      [] sn = "cure blindness" -> spell_cure_blindness(w, t)
      [] sn = "cure disease" -> spell_cure_disease(w, t)
      [] sn = "cure poison" -> spell_cure_poison(w, t)
      [] sn = "remove curse" -> spell_remove_curse(w, t)
      [] sn = "cure light" -> spell_cure_light(w, t)
      [] sn = "cure serious" -> spell_cure_serious(w, t)
      [] sn = "cure critical" -> spell_cure_critical(w, t)
      [] sn = "heal" -> spell_heal(w, t)
      [] sn = "vorpal" -> spell_vorpal(w, t)
      [] sn = "venom" -> spell_venom(w, t)
      [] sn = "black death" -> spell_black_death(w, t)
      [] sn = "damnation" -> spell_damnation(w, t)
      [] sn = "vampire" -> spell_vampire(w, t)
      [] sn = "acid wash" -> spell_acid_wash(w, t)
      [] sn = "tame lightning" -> spell_tame_lightning(w, t)
      [] sn = "enchant armor" -> spell_enchant_armor(w, t)
      [] sn = "enchant weapon" -> spell_enchant_weapon(w, t)
      [] sn = "remove invisible" -> spell_remove_invisible(w, t)
      [] sn = "remove alignment" -> spell_remove_alignment(w, t)
      [] sn = "acid breath" -> spell_acid_breath(w, c, t)
      [] sn \in Striking -> damage(w, c, t)

\* The spell that is undone is of the scene.
TargetsOf(w, c, target) ==
    CASE target = "CharOffensive" ->
            {v \in Living(w) : /\ c \in Players => c = v \/ ~is_safe_spell(w, c, v, FALSE)
                               /\ ~(AFF(w, c, "Charm") /\ w.master[c] = v)}
      [] target = "CharDefensive" -> Living(w)
      [] target = "CharSelf" -> {c}
      [] target = "ObjectInventory" -> {o \in Carried(w, c) : ~w.item[o].worn}
      [] OTHER -> {None}

get_casting_spell_target(w, c, sn) == TargetsOf(w, c, skill_table[sn].target)

\* From what is used, at v or at what o is.
ObjTargetsOf(w, c, v, o, target) ==
    CASE target = "CharOffensive" ->
            LET d == IF v = Nobody THEN w.foe[c] ELSE v
            IN  IF d = Nobody \/ (d # c /\ is_safe_spell(w, c, d, FALSE)) THEN {} ELSE {d}
      [] target = "CharDefensive" -> {IF v = Nobody THEN c ELSE v}
      [] target = "CharSelf" -> {c}
      [] target = "ObjectInventory" -> IF o = Gone THEN {} ELSE {o}
      [] OTHER -> {None}

get_obj_casting_spell_target(w, c, v, o, sn) == ObjTargetsOf(w, c, v, o, skill_table[sn].target)

casting_may_provoke_victim(w, c, t, sn) ==
    IF /\ skill_table[sn].target = "CharOffensive" /\ t # c /\ w.master[t] # c
       /\ t \in Mobs \/ is_duel_in_progress(w, c, t)
       /\ {c, t} \subseteq w.here
       /\ w.foe[t] = Nobody
    THEN multi_hit(w, t, c) ELSE {w}

\* The worlds that an undo of a spell, which names the spell, or any other comes to.
CastOn(w, sn, l, c, t) ==
    IF sn = "undo spell" THEN UNION {UNION {spell_undo_spell(w, v, u) : v \in Living(w)} : u \in scene.spells}
    ELSE spell_fun(w, sn, l, c, t)

do_cast(w, c, sn) ==
    IF Rank[w.pos[c]] < Rank[skill_table[sn].position] THEN {w}
    ELSE UNION {UNION {casting_may_provoke_victim(x, c, t, sn) : x \in {w} \cup CastOn(w, sn, CharLevel, c, t)} :
                    t \in get_casting_spell_target(w, c, sn)}

CastAt(w, c, targets, sn, l) ==
    IF targets = {} THEN {w}
    ELSE UNION {UNION {casting_may_provoke_victim(x, c, t, sn) : x \in CastOn(w, sn, l, c, t)} : t \in targets}

obj_cast_spell(w, c, v, o, sn, l) == CastAt(w, c, get_obj_casting_spell_target(w, c, v, o, sn), sn, l)

\* A potion and a scroll have up to three spells, one after the other.
CastAll(w, c, v, o, sns, l) ==
    FoldLeft(LAMBDA ws, sn : UNION {IF c \in Living(x) THEN obj_cast_spell(x, c, v, o, sn, l) ELSE {x} : x \in ws},
             {w}, sns)

do_quaff(w, c, sns, l) == CastAll(w, c, c, Gone, sns, l)

\* Somebody, or something that c has, and nobody.
Aims(w, c) == {<<v, Gone>> : v \in Living(w)} \cup {<<Nobody, o>> : o \in Carried(w, c)}

do_recite(w, c, sns, l) == {w} \cup UNION {CastAll(w, c, aim[1], aim[2], sns, l) : aim \in Aims(w, c)}

Brandished(w, c, target) ==
    CASE target = "CharOffensive" -> {v \in Living(w) : (v \in Players) # (c \in Players)}
      [] target = "CharDefensive" -> {v \in Living(w) : (v \in Players) = (c \in Players)}
      [] target \in {"Ignore", "CharSelf"} -> {c}
      [] OTHER -> {}

do_brandish(w, c, sn, l) ==
    {w} \cup Each(w, Brandished(w, c, skill_table[sn].target),
                  LAMBDA x, v : obj_cast_spell(x, c, v, Gone, sn, l))

do_zap(w, c, sn, l) == {w} \cup UNION {obj_cast_spell(w, c, aim[1], aim[2], sn, l) : aim \in Aims(w, c)}

\* Whoever throws it, the bomb's spells are cast on who it goes off at,
\* whether they are safe from the thrower or not.
explode_bomb(w, v, thrower, sn, l) ==
    {w} \cup IF skill_table[sn].target = "CharOffensive" THEN CastOn(w, sn, l, thrower, v) ELSE {}

do_throw(w, c, v, sn, l) ==
    UNION {IF {c, v} \subseteq Living(x) THEN multi_hit(x, c, v) ELSE {x} :
               x \in {w} \cup UNION {explode_bomb(w, d, c, sn, l) : d \in {c, v}}}

-----------------------------------------------------------------------------
(***************************************************************************)
(* Mobiles that cast.  Each spell of theirs has a least level.             *)
(***************************************************************************)
OfLevel(book) == {x[1] : x \in {y \in book : y[2] <= CharLevel}}

spec_cast_cleric ==
    {<<"blindness", 0>>, <<"earthquake", 7>>, <<"dispel evil", 10>>, <<"dispel good", 10>>, <<"curse", 12>>,
     <<"plague", 15>>, <<"demonfire", 30>>, <<"exorcise", 30>>, <<"dispel magic", 16>>}

spec_cast_mage ==
    {<<"magic missile", 0>>, <<"chill touch", 3>>, <<"burning hands", 6>>, <<"shocking grasp", 8>>,
     <<"colour spray", 11>>, <<"lightning bolt", 14>>, <<"fireball", 20>>, <<"acid blast", 30>>}

spec_cast_undead ==
    {<<"poison", 0>>, <<"blindness", 3>>, <<"curse", 6>>, <<"weaken", 8>>, <<"plague", 11>>,
     <<"energy drain", 14>>, <<"insanity", 20>>, <<"cause serious", 10>>, <<"cause critical", 20>>,
     <<"harm", 30>>, <<"change sex", 30>>}

spec_cast_bastard ==
    {<<"blindness", 1>>, <<"curse", 10>>, <<"energy drain", 10>>, <<"dispel magic", 10>>, <<"lethargy", 10>>,
     <<"gas breath", 10>>}

spec_cast_judge == {<<"high explosive", 0>>}

spec_poison == {<<"poison", 0>>}

spec_breath_any ==
    {<<"fire breath", 0>>, <<"lightning breath", 0>>, <<"gas breath", 0>>, <<"acid breath", 0>>, <<"frost breath", 0>>}

\* An adept helps the young who pass.
spec_cast_adept(w, c) ==
    UNION {spell_armor(w, CharLevel \div 4, v) \cup spell_bless(w, CharLevel \div 4, v)
           \cup spell_cure_blindness(w, v) \cup spell_cure_light(w, v) \cup spell_cure_poison(w, v) :
               v \in Living(w) \ Mobs}

Book(special) ==
    CASE special = "cleric" -> spec_cast_cleric
      [] special = "mage" -> spec_cast_mage
      [] special = "undead" -> spec_cast_undead
      [] special = "bastard" -> spec_cast_bastard
      [] special = "judge" -> spec_cast_judge
      [] special = "poison" -> spec_poison
      [] special = "breath" -> spec_breath_any
      [] OTHER -> {}

spec_cast(w, c, book) ==
    UNION {UNION {CastOn(w, sn, CharLevel, c, v) : v \in {d \in Living(w) : w.foe[d] = c}} : sn \in OfLevel(book)}

\* A hit with a weapon that has been poisoned or plagued: the poison comes
\* after the hit, even to one who has died of it.
one_hit(w, c, v) ==
    LET flags == UNION {w.item[o].flags : o \in Worn(w, c) \ Armour}
        poisoned(x) == IF "Poisoned" \in flags /\ ~AFF(x, v, "Poison") THEN spell_poison(x, CharLevel, v) ELSE {x}
        plagued(x) == IF "Plagued" \in flags /\ ~AFF(x, v, "Plague") THEN spell_plague(x, CharLevel, v) ELSE {x}
    IN  UNION {UNION {plagued(y) : y \in poisoned(x)} : x \in multi_hit(w, c, v)}

-----------------------------------------------------------------------------
(***************************************************************************)
(* The tick.                                                               *)
(***************************************************************************)
\* What is left of an affect of the list, if it fades and if it does not; of
\* each list, in all the worlds that may be.
Aged(a, fades) ==
    IF a.lasts <= 0 THEN a
    ELSE [a EXCEPT !.lasts = @ - 1, !.level = IF fades /\ @ > 0 THEN @ - 1 ELSE @]

AgesOf(affs) == {[i \in DOMAIN affs |-> Aged(affs[i], i \in fades)] : fades \in SUBSET DOMAIN affs}

WornOff(w, c) == RemovedAll(w, c, {a \in ToSet(w.affs[c]) : a.lasts = 0})

TimePassesAwake(w, c) == \* mutant: time stands still for those who sleep
    LET off == WornOff(update_pos(w, c), c)
    IN  IF w.pos[c] = "sleeping" THEN {w} ELSE {[off EXCEPT !.affs[c] = affs] : affs \in AgesOf(off.affs[c])}

TimePasses(w, c) ==
    LET up == update_pos(w, c)
        off == WornOff(up, c)
    IN  {[off EXCEPT !.affs[c] = affs] : affs \in AgesOf(off.affs[c])}

\* Who has it and who catches it: the plague that is passed on is weaker.
Spread(w, c) ==
    LET plague == find_affect(w, c, "plague")[1]
        catches == {v \in Living(w) : c \in w.here /\ ~AFF(w, v, "Plague") /\ plague.level > FaintestPlague}
    IN  {FoldSet(LAMBDA v, x : affect_join(x, v, Affect("plague", plague.level - 1, Lasts, "Str", -5, {"Plague"})),
                 w, S) : S \in SUBSET catches}

\* One whose plague is of level 1 ends the update of all who come after it
\* in the list.
EndsUpdate(w, c) == is_affected_by(w, c, "plague") /\ find_affect(w, c, "plague")[1].level = 1

Suffers(w, c) ==
    IF is_affected_by(w, c, "plague") THEN UNION {damage(x, c, c) : x \in Spread(w, c)}
    ELSE IF AFF(w, c, "Poison") THEN damage(w, c, c)
    ELSE {w}

char_update(w) ==
    LET Step(done, c) ==
            UNION {IF d.over \/ d.w.pos[c] = "dead" THEN {d}
                   ELSE UNION {IF EndsUpdate(x, c) THEN {[w |-> x, over |-> TRUE]}
                               ELSE {[w |-> y, over |-> FALSE] : y \in Suffers(x, c)} : x \in TimePasses(d.w, c)} :
                       d \in done}
    IN  {d.w : d \in FoldLeft(Step, {[w |-> w, over |-> FALSE]}, CharList)}

-----------------------------------------------------------------------------
Acts(c, ws) ==
    /\ casts < scene.most
    /\ world' \in ws
    /\ casts' = casts + 1
    /\ UNCHANGED scene

Actors == {c \in Living(world) : Awake(c)}

Cast(c) == \E sn \in scene.spells : Acts(c, do_cast(world, c, sn))

\* Quaff, recite, brandish, zap or throw.
Use(c) ==
    \E sn \in scene.spells, l \in scene.levels :
        CASE scene.uses = "quaff" -> \E other \in scene.spells : Acts(c, do_quaff(world, c, <<sn, other>>, l))
          [] scene.uses = "recite" -> Acts(c, do_recite(world, c, <<sn>>, l))
          [] scene.uses = "brandish" -> Acts(c, do_brandish(world, c, sn, l))
          [] scene.uses = "zap" -> Acts(c, do_zap(world, c, sn, l))
          [] scene.uses = "throw" -> \E v \in Living(world) : Acts(c, do_throw(world, c, v, sn, l))
          [] OTHER -> FALSE

Commands(c, verb) ==
    CASE verb = "sneak" -> do_sneak(world, c)
      [] verb = "hide" -> do_hide(world, c)
      [] verb = "visible" -> do_visible(world, c)
      [] verb = "berserk" -> do_berserk(world, c)
      [] verb = "dirt" -> do_dirt(world, c)
      [] verb = "headbutt" -> UNION {do_headbutt(world, c, v) : v \in Living(world)}
      [] verb = "wear" -> UNION {do_wear(world, c, o) : o \in Carried(world, c)}
      [] verb = "remove" -> UNION {do_remove(world, c, o) : o \in Carried(world, c)}
      [] verb = "drink" -> Poisoned(world, c)
      [] verb = "sleep" -> do_sleep(world, c)
      [] verb = "kill" -> UNION {one_hit(world, c, v) :
                                     v \in {d \in Living(world) \ {c} : ~is_safe(world, c, d)}}
      [] verb = "awaken" -> UNION {do_awaken(world, v) : v \in Living(world)}
      [] verb = "coma" -> UNION {do_coma(world, v) : v \in Living(world)}
      [] verb = "restore" -> UNION {do_restore(world, v) : v \in Living(world)}
      [] verb = "lose" -> {stop_follower(world, c)}
      [] OTHER -> {}

Command(c) == \E verb \in scene.verbs : Acts(c, Commands(c, verb))

\* One can wake while asleep.
Wake(c) == world.pos[c] = "sleeping" /\ Acts(c, do_wake(world, c))

Special(c) ==
    /\ world.pos[c] = "fighting"
    /\ Acts(c, spec_cast(world, c, Book(scene.special)))

Adept(c) == scene.special = "adept" /\ Acts(c, spec_cast_adept(world, c))

Tick == UNCHANGED <<scene, casts>> /\ world' \in char_update(world)

Next ==
    \/ \E c \in Actors : Cast(c) \/ Use(c) \/ Command(c)
    \/ \E c \in Actors \cap Mobs : Special(c) \/ Adept(c)
    \/ \E c \in Living(world) : Wake(c)
    \/ Tick

\* update_handler calls char_update once in every minute's pulses.
Spec == Init /\ [][Next]_vars /\ WF_vars(Tick)

-----------------------------------------------------------------------------
(***************************************************************************)
(* What must hold.                                                         *)
(***************************************************************************)
\* What listed affects, and the items that c wears, add to a score.
OfAffects(affs, x) ==
    SumFunction([i \in DOMAIN affs |-> IF affs[i].location = x THEN affs[i].modifier ELSE 0])

OfItems(w, c, x) == SumFunctionOnSet([o \in Items |-> ItemModifiers(w.item[o])[x]], Worn(w, c))

\* Every score is what the listed affects and the worn items make of it,
\* whatever was cast, stripped, dispelled, worn, enchanted or outlived in
\* between (affect_modify; acid_breath alone errs).
ModifiersAddUp ==
    \A c \in Chars \ world.etched : \A x \in Locations :
        world.mods[c][x] = OfAffects(world.affs[c], x) + OfItems(world, c, x)

\* Nobody is left with a bit of a spell that is over: each bit is their
\* own, or of an affect that is still listed.  Hiding has no affect.
NoBitWithoutSource ==
    \A c \in Chars :
        world.bits[c] \subseteq
            Natural[c] \cup {"Hide"} \cup UNION {a.bits : a \in ToSet(world.affs[c])}

\* Whoever is charmed has a master (damage() of fight.cpp asks the master
\* of a charmed killer whether it is a mobile, without looking).
CharmedHaveMasters ==
    \A c \in Living(world) : AFF(world, c, "Charm") /\ "Charm" \notin Natural[c] => world.master[c] # Nobody

\* What is cleared of a mobile that something is dispelled from is a bit
\* that is permanent, and so not of a listed affect (SkillTables.hpp:35-37):
\* a spell that is listed still shows.
ListedAffectsShow ==
    \A c \in Living(world) \cap Mobs : \A a \in ToSet(world.affs[c]) : a.bits \subseteq world.bits[c]

\* Once people leave off, every spell that is to end ends, but for a plague
\* that has faded below level 1, which is passed on for ever.
SpellsFade ==
    \/ <>[](\A c \in Chars : world.pos[c] # "dead" => \A i \in DOMAIN world.affs[c] : world.affs[c][i].lasts < 0)
    \/ <>(\E c \in Chars : \E i \in DOMAIN world.affs[c] :
              world.affs[c][i].type = "plague" /\ world.affs[c][i].level < 1)
=============================================================================
