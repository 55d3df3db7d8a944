-------------------------------- MODULE Spells --------------------------------
(***************************************************************************)
(* The spell functions (magic.cpp, magic2.cpp), but for those that move    *)
(* somebody.  A spell of level l that c casts on the Char v, on the thing  *)
(* o, or on nobody, gives the worlds that may come of it: saving throws    *)
(* and the other dice are left open.  What a spell only tells the caster,  *)
(* and what it does to hit points, mana, moves, gold and the weather, is   *)
(* left out.                                                               *)
(***************************************************************************)
EXTENDS Affects

\* Of most spells that help: a stronger one of the kind stays as it is.
Renewed(w, v, sn, l, adds) ==
    IF \E i \in 1 .. Len(find_affect(w, v, sn)) : i = 1 /\ find_affect(w, v, sn)[i].level > l THEN {w}
    ELSE {Added(affect_strip(w, v, sn), v, sn, l, adds)}

\* Of a few, it is replaced.
Replaced(w, v, sn, l, adds) == {Added(affect_strip(w, v, sn), v, sn, l, adds)}

Bit(bit) == <<<<"None", 0, {bit}>>>>

Mod(location, modifier) == <<<<location, modifier, {}>>>>

Saved(w, ws) == {w} \cup ws

\* The steps up with the level that several spells have.
Steps(l, levels) == 1 + Cardinality({x \in levels : l >= x})

\* One after the other, each on what the others have left.
Each(w, S, Does(_, _)) ==
    FoldSet(LAMBDA v, ws : UNION {Does(x, v) : x \in ws}, {w}, S)

Aligned(w, c, v) == w.align[c] = w.align[v]

-----------------------------------------------------------------------------
spell_armor(w, l, v) == Renewed(w, v, "armor", l, Mod("Ac", -20))
spell_bless(w, l, v) ==
    Renewed(w, v, "bless", l, Mod("Hitroll", l \div 8) \o Mod("SavingSpell", -(l \div 8)))
spell_detect_evil(w, l, v) == Renewed(w, v, "detect evil", l, Bit("DetectEvil"))
spell_detect_hidden(w, l, v) == Renewed(w, v, "detect hidden", l, Bit("DetectHidden"))
spell_detect_invis(w, l, v) == Renewed(w, v, "detect invis", l, Bit("DetectInvis"))
spell_detect_magic(w, l, v) == Renewed(w, v, "detect magic", l, Bit("DetectMagic"))
spell_giant_strength(w, l, v) ==
    Renewed(w, v, "giant strength", l, Mod("Str", Steps(l, {18, 25, 32})))
spell_regeneration(w, l, v) == Renewed(w, v, "regeneration", l, Bit("Regeneration"))
spell_pass_door(w, l, v) == Renewed(w, v, "pass door", l, Bit("PassDoor"))
spell_protection_evil(w, l, v) == Renewed(w, v, "protection evil", l, Bit("ProtectionEvil"))
spell_protection_good(w, l, v) == Renewed(w, v, "protection good", l, Bit("ProtectionGood"))
spell_sanctuary(w, l, v) == Renewed(w, v, "sanctuary", l, Bit("Sanctuary"))
spell_talon(w, l, v) == Renewed(w, v, "talon", l, Bit("Talon"))
spell_shield(w, l, v) == Renewed(w, v, "shield", l, Mod("Ac", -20))
spell_stone_skin(w, l, v) == Renewed(w, v, "stone skin", l, Mod("Ac", -40))

spell_fly(w, l, v) == Replaced(w, v, "fly", l, Bit("Flying"))
spell_haste(w, l, v) ==
    Replaced(w, v, "haste", l, <<<<"Dex", Steps(l, {18, 25, 32}), {"Haste"}>>>>)
spell_infravision(w, l, v) == Replaced(w, v, "infravision", l, Bit("Infrared"))
spell_strife_duelist(w, l, v) == Replaced(w, v, "strife of the duelist", l, Bit("Curse"))

-----------------------------------------------------------------------------
\* Spells that do nothing to who is under them already.
spell_blindness(w, l, v) ==
    IF AFF(w, v, "Blind") THEN {w}
    ELSE Saved(w, {Added(w, v, "blindness", l, <<<<"Hitroll", -4, {"Blind"}>>>>)})

spell_change_sex(w, l, v) ==
    IF is_affected_by(w, v, "change sex") THEN {w}
    ELSE Saved(w, {Added(w, v, "change sex", l, Mod("Sex", x)) : x \in {-1, 1}})

spell_charm_person(w, l, c, v) ==
    IF c = v \/ AFF(w, v, "Charm") \/ AFF(w, c, "Charm") THEN {w}
    ELSE Saved(w, {Added(add_follower(stop_follower(w, v), v, c), v, "charm person", l, Bit("Charm"))})

spell_curse(w, l, v) ==
    IF AFF(w, v, "Curse") THEN {w}
    ELSE Saved(w, {Added(w, v, "curse", l, <<<<"Hitroll", -(l \div 8), {"Curse"}>>,
                                             <<"SavingSpell", l \div 8, {"Curse"}>>>>)})

spell_faerie_fire(w, l, v) ==
    IF AFF(w, v, "FaerieFire") THEN {w}
    ELSE {Added(w, v, "faerie fire", l, <<<<"Ac", 2 * l, {"FaerieFire"}>>>>)}

spell_octarine_fire(w, l, v) ==
    IF AFF(w, v, "OctarineFire") THEN {w}
    ELSE {Added(w, v, "octarine fire", l, <<<<"Ac", 10 * l, {"OctarineFire"}>>>>)}

spell_frenzy(w, l, c, v) ==
    IF is_affected_by(w, v, "frenzy") \/ AFF(w, v, "Berserk") \/ AFF(w, v, "Calm") \/ ~Aligned(w, c, v)
    THEN {w}
    ELSE {Added(w, v, "frenzy", l, Mod("Hitroll", l \div 6) \o Mod("Damroll", l \div 6) \o Mod("Ac", CharLevel))}

spell_insanity(w, l, v) ==
    LET loss == -Steps(l, {20, 30, 50, 75, 91})
    IN  IF is_affected_by(w, v, "insanity") THEN {w}
        ELSE Saved(w, {Added(w, v, "insanity", l, Mod("Wis", loss) \o Mod("Int", loss))})

spell_lethargy(w, l, v) ==
    IF is_affected_by(w, v, "lethargy") \/ AFF(w, v, "Lethargy") THEN {w}
    ELSE Saved(w, {Added(w, v, "lethargy", l, <<<<"Dex", -Steps(l, {18, 25, 32}), {"Lethargy"}>>>>)})

spell_invis(w, l, v) ==
    IF AFF(w, v, "Invisible") THEN {w} ELSE {Added(w, v, "invis", l, Bit("Invisible"))}

spell_weaken(w, l, v) ==
    IF is_affected_by(w, v, "weaken") THEN {w}
    ELSE Saved(w, {Added(w, v, "weaken", l, <<<<"Str", -(l \div 5), {"Weaken"}>>>>)})

\* Spells that join what is there already.
spell_plague(w, l, v) ==
    IF v \in Undead THEN {w}
    ELSE Saved(w, {affect_join(w, v, Affect("plague", (l * 3) \div 4, Lasts, "Str", -5, {"Plague"}))})

spell_poison(w, l, v) ==
    Saved(w, {affect_join(w, v, Affect("poison", l, Lasts, "Str", -2, {"Poison"}))})

spell_sleep(w, l, v) ==
    IF AFF(w, v, "Sleep") \/ v \in Undead \/ l < CharLevel THEN {w}
    ELSE LET slept == affect_join(w, v, Affect("sleep", l, Lasts, "None", 0, {"Sleep"}))
         IN  Saved(w, {IF w.pos[v] \in {"resting", "fighting", "standing"}
                       THEN [slept EXCEPT !.pos[v] = "sleeping"] ELSE slept})

spell_chill_touch(w, l, c, v) ==
    UNION {damage(x, c, v) :
               x \in Saved(w, {affect_join(w, v, Affect("chill touch", l, Lasts, "Str", -1, {}))})}

spell_colour_spray(w, l, c, v) ==
    UNION {damage(x, c, v) : x \in Saved(w, spell_blindness(w, l \div 2, v))}

-----------------------------------------------------------------------------
\* Spells on all in the room.
Calmed(w, l, v) ==
    Added(IF w.foe[v] # Nobody THEN stop_fighting(w, v, FALSE) ELSE w, v, "calm", l,
          LET less == IF v \in Players THEN -5 ELSE -2
          IN  <<<<"Hitroll", less, {"Calm"}>>, <<"Damroll", less, {"Calm"}>>>>)

\* At the first who cannot be calmed the spell ends: those who come later in
\* the list of the room are left as they are.
spell_calm(w, l) ==
    LET stubborn == {v \in Living(w) : \/ v \in Undead
                                       \/ AFF(w, v, "Calm") \/ AFF(w, v, "Berserk")
                                       \/ is_affected_by(w, v, "frenzy")}
        before == IF stubborn = {} THEN {Living(w)} ELSE SUBSET (Living(w) \ stubborn)
    IN  {w} \cup {FoldSet(LAMBDA v, x : Calmed(x, l, v), w, S) : S \in before}

spell_faerie_fog(w, c) ==
    LET seen(x, v) == ClearBits(AffectsStripped(x, v, <<"invis", "mass invis", "sneak">>), v,
                                {"Hide", "Invisible", "Sneak"})
    IN  Each(w, Living(w) \ {c}, LAMBDA x, v : Saved(x, {seen(x, v)}))

spell_mass_invis(w, l, c) ==
    Each(w, {v \in Living(w) : is_same_group(w, v, c) /\ ~AFF(w, v, "Invisible")},
         LAMBDA x, v : {Added(x, v, "mass invis", l \div 2, Bit("Invisible"))})

spell_mass_healing(w, c) ==
    Each(w, {v \in Living(w) : (v \in Players) = (c \in Players)}, LAMBDA x, v : {update_pos(x, v)})

\* At all that it is not safe to strike.
AtAll(w, c, S) ==
    Each(w, S, LAMBDA x, v : IF v \in Living(x) /\ c \in Living(x) /\ ~is_safe_spell(x, c, v, TRUE)
                             THEN damage(x, c, v) ELSE {x})

spell_earthquake(w, c) == AtAll(w, c, Living(w))
spell_gas_breath(w, c) == AtAll(w, c, Living(w))

spell_call_lightning(w, c) ==
    {w} \cup Each(w, {v \in Living(w) : (v \in Players) # (c \in Players)}, LAMBDA x, v : damage(x, c, v))

spell_holy_word(w, l, c) ==
    Each(w, Living(w),
         LAMBDA x, v :
            IF Aligned(x, c, v) THEN UNION {spell_bless(y, l, v) : y \in spell_frenzy(x, l, c, v)}
            ELSE IF \/ {x.align[c], x.align[v]} = {"good", "neutral"} /\ x.align[c] = "good"
                    \/ {x.align[c], x.align[v]} = {"evil", "neutral"} /\ x.align[c] = "evil"
                    \/ c \notin Living(x) \/ is_safe_spell(x, c, v, TRUE)
                 THEN {x}
                 ELSE UNION {damage(y, c, v) :
                                y \in spell_curse(x, IF x.align[c] = "neutral" THEN l \div 2 ELSE l, v)})

\* A bolt: what it has come to, whom it struck last, and what is left of its
\* level.  Of those it strikes in one round, any may be the last.
Arcs(b, c, struck) ==
    {[w |-> x, last |-> v, level |-> b.level - 4 * Cardinality(struck)] :
         x \in AtAll(b.w, c, struck), v \in struck}

\* While its level lasts it goes round the room: whoever it struck last is
\* struck again only by way of another.  Where there is no other, it strikes
\* the caster, but not twice running.
Round(b, c) ==
    LET open == {v \in Living(b.w) : ~is_safe_spell(b.w, c, v, TRUE)}
        others == open \ {b.last}
    IN  IF b.level <= 0 \/ c \notin Living(b.w) THEN {b}
        ELSE IF others # {} THEN Arcs(b, c, others) \cup Arcs(b, c, open)
        ELSE IF b.last = c THEN {b}
        ELSE {[w |-> x, last |-> c, level |-> b.level - 4] : x \in damage(b.w, c, c)}

\* Each round takes 4 of the level at least.
spell_chain_lightning(w, l, c, v) ==
    LET first == {[w |-> x, last |-> v, level |-> l - 4] : x \in damage(w, c, v)}
    IN  {b.w : b \in FoldSet(LAMBDA round, bs : UNION {Round(b, c) : b \in bs}, first, 1 .. (l \div 4))}

-----------------------------------------------------------------------------
\* Spells that strike, and no more: what each comes to is what damage comes to.
Striking ==
    {"acid blast", "burning hands", "cause light", "cause critical", "cause serious", "fireball",
     "flamestrike", "harm", "lightning bolt", "magic missile", "shocking grasp", "lightning breath",
     "general purpose", "high explosive", "fire breath", "frost breath"}

spell_acid_blast(w, c, v) == damage(w, c, v)
spell_burning_hands(w, c, v) == damage(w, c, v)
spell_cause_light(w, c, v) == damage(w, c, v)
spell_cause_critical(w, c, v) == damage(w, c, v)
spell_cause_serious(w, c, v) == damage(w, c, v)
spell_fireball(w, c, v) == damage(w, c, v)
spell_flamestrike(w, c, v) == damage(w, c, v)
spell_harm(w, c, v) == damage(w, c, v)
spell_lightning_bolt(w, c, v) == damage(w, c, v)
spell_magic_missile(w, c, v) == damage(w, c, v)
spell_shocking_grasp(w, c, v) == damage(w, c, v)
spell_lightning_breath(w, c, v) == damage(w, c, v)
spell_general_purpose(w, c, v) == damage(w, c, v)
spell_high_explosive(w, c, v) == damage(w, c, v)

Leans(w, c, aligns) == {[w EXCEPT !.align[c] = a] : a \in aligns}

Upwards(w, c) ==
    Leans(w, c, CASE w.align[c] = "evil" -> {"evil", "neutral"}
                  [] w.align[c] = "neutral" -> {"neutral", "good"}
                  [] OTHER -> {"good"})

Downwards(w, c) ==
    Leans(w, c, CASE w.align[c] = "good" -> {"good", "neutral"}
                  [] w.align[c] = "neutral" -> {"neutral", "evil"}
                  [] OTHER -> {"evil"})

\* Whoever is the worse of the two may be struck by the spell itself.
spell_exorcise(w, c, v) ==
    LET struck == {v} \cup IF c \in Players /\ ~(w.align[v] = "evil" /\ w.align[c] = "good") THEN {c} ELSE {}
    IN  UNION {UNION {damage(x, c, d) : x \in Upwards(w, c)} : d \in struck}

spell_demonfire(w, c, v) ==
    LET struck == {v} \cup IF c \in Players /\ ~(w.align[v] = "good" /\ w.align[c] = "evil") THEN {c} ELSE {}
    IN  UNION {UNION {damage(x, c, d) : x \in Downwards(w, c)} : d \in struck}

spell_dispel_evil(w, c, v) ==
    LET d == IF c \in Players /\ w.align[c] = "evil" THEN c ELSE v
    IN  IF w.align[d] # "evil" THEN {w} ELSE damage(w, c, d)

spell_dispel_good(w, c, v) ==
    LET d == IF c \in Players /\ w.align[c] = "good" THEN c ELSE v
    IN  IF w.align[d] # "good" THEN {w} ELSE damage(w, c, d)

spell_energy_drain(w, c, v) == Saved(w, UNION {damage(x, c, v) : x \in Downwards(w, c)})

\* magic2.cpp: it is the victim that each bystander's share falls on, even
\* when the tornado has taken it out of the room.
tornado_mental(w, l, v) ==
    LET loss == -Steps(l, {20, 30, 50, 75, 91})
    IN  [Added(w, v, "psychic tornado", l, <<<<"Hitroll", -4, {"Blind"}>>, <<"Wis", loss, {}>>, <<"Int", loss, {}>>>>)
         EXCEPT !.pos[v] = "resting"]

spell_psy_tornado(w, c, v) ==
    LET near(x) == {d \in Living(x) \ {c, v} : ~is_safe_spell(x, c, d, TRUE)}
        felt(x) == FoldSet(LAMBDA d, y : tornado_mental(y, CharLevel, v), tornado_mental(x, CharLevel, v), near(x))
        blown(x) == [x EXCEPT !.here = @ \ {v}]
    IN  IF c = v \/ v \in Players \/ is_safe(w, c, v) THEN {w}
        ELSE {tornado_mental(x, CharLevel, c) : x \in damage(w, v, c)}
             \cup UNION {{felt(x), blown(felt(x))} : x \in damage(w, c, v)}

-----------------------------------------------------------------------------
\* Spells that undo others.
spell_cancellation(w, c, v) ==
    IF /\ (c \in Players) # (v \in Players)
       /\ ~(c \in Players /\ AFF(w, c, "Charm") /\ w.master[c] = v)
    THEN {w} ELSE try_dispel_all_dispellables(w, v)

spell_dispel_magic(w, v) == Saved(w, try_dispel_all_dispellables(w, v))

spell_cure_blindness(w, v) == check_dispel(w, v, "blindness")
spell_cure_disease(w, v) == check_dispel(w, v, "plague")
spell_cure_poison(w, v) == check_dispel(w, v, "poison")

\* One thing of those that cannot be removed may be freed, worn or not.
spell_remove_curse(w, v) ==
    UNION {{x} \cup {[x EXCEPT !.item[o].flags = @ \ {"NoRemove"}] : o \in Carried(x, v)} :
               x \in check_dispel(w, v, "curse")}

spell_undo_spell(w, v, sn) == IF sn \in Dispellables THEN check_dispel(w, v, sn) ELSE {w}

spell_cure_light(w, v) == {w, update_pos(w, v)}
spell_cure_serious(w, v) == {w, update_pos(w, v)}
spell_cure_critical(w, v) == {w, update_pos(w, v)}
spell_heal(w, v) == {w, update_pos(w, v)}

-----------------------------------------------------------------------------
\* Spells on what the caster has.  Only what is not worn can be changed.
Flagged(w, o, flag) ==
    IF o \in Armour \/ w.item[o].worn THEN {w} ELSE {w, [w EXCEPT !.item[o].flags = @ \cup {flag}]}

spell_vorpal(w, o) == Flagged(w, o, "Vorpal")
spell_venom(w, o) == Flagged(w, o, "Poisoned")
spell_black_death(w, o) == Flagged(w, o, "Plagued")
spell_damnation(w, o) == Flagged(w, o, "NoRemove")
spell_vampire(w, o) == Flagged(w, o, "Vampiric")
spell_acid_wash(w, o) == IF "Lightning" \in w.item[o].flags THEN {w} ELSE Flagged(w, o, "Acid")
spell_tame_lightning(w, o) == IF "Acid" \in w.item[o].flags THEN {w} ELSE Flagged(w, o, "Lightning")

\* extra_flags go too; of the flags here that is NoRemove, for the others are
\* in value[4].
Disenchanted(w, o) ==
    [w EXCEPT !.item[o].mods = NoModifiers, !.item[o].flags = @ \ {"NoRemove"}]

\* Worn while it is changed, an item would be taken off with other
\* modifiers than it was put on with.
EnchantedWorn(w, o, gains) == \* mutant: what is worn is enchanted too
    {w, extract_obj(w, o), Disenchanted(w, o)}
    \cup {[w EXCEPT !.item[o].mods = [x \in Locations |-> @[x] + gain[x]]] : gain \in gains}

Enchanted(w, o, gains) ==
    IF w.item[o].worn THEN {w}
    ELSE {w, extract_obj(w, o), Disenchanted(w, o)}
         \cup {[w EXCEPT !.item[o].mods = [x \in Locations |-> @[x] + gain[x]]] : gain \in gains}

spell_enchant_armor(w, o) ==
    IF o \notin Armour THEN {w} ELSE Enchanted(w, o, {[NoModifiers EXCEPT !["Ac"] = x] : x \in {-1, -2}})

spell_enchant_weapon(w, o) ==
    Enchanted(w, o, {[NoModifiers EXCEPT !["Hitroll"] = x, !["Damroll"] = x] : x \in {1, 2}})

spell_remove_invisible(w, o) == IF w.item[o].worn THEN {w} ELSE {w, extract_obj(w, o)}
spell_remove_alignment(w, o) ==
    IF w.item[o].worn THEN {w} ELSE {w, extract_obj(w, o)}

\* The armour is worth one less; of what is worn, the two corrections that
\* the wearer gets have the wrong signs (etched remembers that it happened).
Etched(w, v, o) ==
    LET thinner == [w EXCEPT !.item[o].value = @ - 1]
    IN  IF o \notin Armour \/ w.item[o].value = 0 THEN w
        ELSE IF ~w.item[o].worn THEN thinner
        ELSE [thinner EXCEPT !.mods[v]["Ac"] = @ - w.item[o].value + (w.item[o].value - 1),
                             !.etched = @ \cup {v}]

spell_acid_breath(w, c, v) ==
    UNION {damage(FoldSet(LAMBDA o, x : Etched(x, v, o), w, S), c, v) :
               S \in IF is_duel_in_progress(w, c, v) THEN {{}} ELSE SUBSET Carried(w, v)}

\* Potions, scrolls and the like burn, and drinks freeze: never armour or weapons.
spell_fire_breath(w, c, v) == damage(w, c, v)
spell_frost_breath(w, c, v) == damage(w, c, v)
=============================================================================
