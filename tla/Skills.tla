-------------------------------- MODULE Skills --------------------------------
(***************************************************************************)
(* The table of spells and skills (SkillTables.cpp): of each, what it may  *)
(* be aimed at, in which position it can be begun, and whether and how it  *)
(* can be dispelled.  Its names, messages, slots, mana, beats, levels and  *)
(* ratings are left out.                                                   *)
(***************************************************************************)
EXTENDS TLC

Targets == {"Ignore", "CharOffensive", "CharDefensive", "CharSelf", "ObjectInventory",
            "CharObject", "CharOther"}

Row(spell, target, position, dispel, bits) ==
    [spell    |-> spell,      \* spell_fun # spell_null
     target   |-> target,
     position |-> position,   \* minimum_position
     dispel   |-> dispel,     \* dispel_fun = check_dispel
     bits     |-> bits]       \* dispel_npc_perm_affect_bit

Dispellable(target, position, bits) == Row(TRUE, target, position, TRUE, bits)

Lasting(target, position) == Row(TRUE, target, position, FALSE, {})

Skill(target, position) == Row(FALSE, target, position, FALSE, {})

-----------------------------------------------------------------------------
skill_acid_blast == Lasting("CharOffensive", "fighting")
skill_octarine_fire == Dispellable("CharOffensive", "fighting", {})
skill_armor == Dispellable("CharDefensive", "standing", {})
skill_bless == Dispellable("CharDefensive", "standing", {})
skill_blindness == Dispellable("CharOffensive", "fighting", {"Blind"})
skill_burning_hands == Lasting("CharOffensive", "fighting")
skill_call_lightning == Lasting("Ignore", "fighting")
skill_calm == Dispellable("Ignore", "fighting", {"Calm"})
skill_cancellation == Lasting("CharDefensive", "fighting")
skill_cause_critical == Lasting("CharOffensive", "fighting")
skill_cause_light == Lasting("CharOffensive", "fighting")
skill_cause_serious == Lasting("CharOffensive", "fighting")
skill_chain_lightning == Lasting("CharOffensive", "fighting")
skill_change_sex == Dispellable("CharDefensive", "fighting", {})
skill_charm_person == Dispellable("CharOffensive", "standing", {})
skill_chill_touch == Dispellable("CharOffensive", "fighting", {})
skill_colour_spray == Lasting("CharOffensive", "fighting")
skill_continual_light == Lasting("Ignore", "standing")
skill_control_weather == Lasting("Ignore", "standing")
skill_create_food == Lasting("Ignore", "standing")
skill_create_spring == Lasting("Ignore", "standing")
skill_create_water == Lasting("ObjectInventory", "standing")
skill_cure_blindness == Lasting("CharDefensive", "fighting")
skill_cure_critical == Lasting("CharDefensive", "fighting")
skill_cure_disease == Lasting("CharDefensive", "standing")
skill_cure_light == Lasting("CharDefensive", "fighting")
skill_cure_poison == Lasting("CharDefensive", "standing")
skill_cure_serious == Lasting("CharDefensive", "fighting")
skill_curse == Dispellable("CharOffensive", "fighting", {})
skill_exorcise == Lasting("CharOffensive", "fighting")
skill_demonfire == Lasting("CharOffensive", "fighting")
skill_detect_evil == Dispellable("CharSelf", "standing", {"DetectEvil"})
skill_detect_hidden == Dispellable("CharSelf", "standing", {"DetectHidden"})
skill_detect_invis == Dispellable("CharSelf", "standing", {"DetectInvis"})
skill_detect_magic == Dispellable("CharSelf", "standing", {"DetectMagic"})
skill_detect_poison == Dispellable("ObjectInventory", "standing", {})
skill_dispel_evil == Lasting("CharOffensive", "fighting")
skill_dispel_good == Lasting("CharOffensive", "fighting")
skill_dispel_magic == Lasting("CharOffensive", "fighting")
skill_earthquake == Lasting("Ignore", "fighting")
skill_enchant_armor == Lasting("ObjectInventory", "standing")
skill_protect_container == Lasting("ObjectInventory", "standing")
skill_venom == Lasting("ObjectInventory", "standing")
skill_vorpal == Lasting("ObjectInventory", "standing")
skill_vampire == Lasting("ObjectInventory", "standing")
skill_black_death == Lasting("ObjectInventory", "standing")
skill_tame_lightning == Lasting("ObjectInventory", "standing")
skill_acid_wash == Lasting("ObjectInventory", "standing")
skill_damnation == Lasting("ObjectInventory", "standing")
skill_enchant_weapon == Lasting("ObjectInventory", "standing")
skill_energy_drain == Lasting("CharOffensive", "fighting")
skill_insanity == Dispellable("CharOffensive", "fighting", {})
skill_faerie_fire == Dispellable("CharOffensive", "fighting", {})
skill_faerie_fog == Lasting("Ignore", "standing")
skill_fireball == Lasting("CharOffensive", "fighting")
skill_flamestrike == Lasting("CharOffensive", "fighting")
skill_fly == Dispellable("CharDefensive", "standing", {"Flying"})
skill_frenzy == Dispellable("CharDefensive", "standing", {"Berserk"})
skill_gate == Lasting("Ignore", "fighting")
skill_giant_strength == Dispellable("CharDefensive", "standing", {})
skill_harm == Lasting("CharOffensive", "fighting")
skill_haste == Dispellable("CharDefensive", "fighting", {"Haste"})
skill_regeneration == Dispellable("CharDefensive", "standing", {"Regeneration"})
skill_lethargy == Dispellable("CharOffensive", "fighting", {})
skill_heal == Lasting("CharDefensive", "fighting")
skill_holy_word == Lasting("Ignore", "fighting")
skill_identify == Lasting("ObjectInventory", "standing")
skill_infravision == Dispellable("CharDefensive", "standing", {"Infrared"})
skill_invis == Dispellable("CharDefensive", "standing", {"Invisible"})
skill_know_alignment == Lasting("CharDefensive", "fighting")
skill_lightning_bolt == Lasting("CharOffensive", "fighting")
skill_locate_object == Lasting("Ignore", "standing")
skill_magic_missile == Lasting("CharOffensive", "fighting")
skill_mass_healing == Lasting("Ignore", "standing")
skill_mass_invis == Dispellable("Ignore", "standing", {})
skill_pass_door == Dispellable("CharDefensive", "standing", {"PassDoor"})
skill_plague == Lasting("CharOffensive", "fighting")
skill_poison == Lasting("CharOffensive", "fighting")
skill_portal == Lasting("Ignore", "standing")
skill_protection_evil == Dispellable("CharSelf", "standing", {"ProtectionEvil"})
skill_protection_good == Dispellable("CharSelf", "standing", {"ProtectionGood"})
skill_psychic_tornado == Lasting("CharOffensive", "standing")
skill_refresh == Lasting("CharDefensive", "standing")
skill_remove_curse == Lasting("CharDefensive", "standing")
skill_remove_alignment == Lasting("ObjectInventory", "standing")
skill_remove_invisible == Lasting("ObjectInventory", "standing")
skill_talon == Dispellable("CharDefensive", "standing", {"Talon"})
skill_sanctuary == Dispellable("CharDefensive", "standing", {"Sanctuary"})
skill_shield == Dispellable("CharDefensive", "standing", {})
skill_shocking_grasp == Lasting("CharOffensive", "fighting")
skill_sleep == Dispellable("CharOffensive", "standing", {})
skill_stone_skin == Dispellable("CharSelf", "standing", {})
skill_summon == Lasting("Ignore", "standing")
skill_teleport == Lasting("CharSelf", "fighting")
skill_teleport_object == Lasting("CharOther", "standing")
skill_undo_spell == Lasting("CharOther", "fighting")
skill_ventriloquate == Lasting("Ignore", "standing")
skill_weaken == Dispellable("CharOffensive", "fighting", {})
skill_word_of_recall == Lasting("CharSelf", "resting")
skill_acid_breath == Lasting("CharOffensive", "fighting")
skill_fire_breath == Lasting("CharOffensive", "fighting")
skill_frost_breath == Lasting("CharOffensive", "fighting")
skill_gas_breath == Lasting("Ignore", "fighting")
skill_lightning_breath == Lasting("CharOffensive", "fighting")
skill_general_purpose == Lasting("CharOffensive", "fighting")
skill_high_explosive == Lasting("CharOffensive", "fighting")
skill_strife_of_the_duelist == Lasting("Ignore", "fighting")
skill_axe == Skill("Ignore", "fighting")
skill_dagger == Skill("Ignore", "fighting")
skill_flail == Skill("Ignore", "fighting")
skill_mace == Skill("Ignore", "fighting")
skill_polearm == Skill("Ignore", "fighting")
skill_shield_block == Skill("Ignore", "fighting")
skill_spear == Skill("Ignore", "fighting")
skill_sword == Skill("Ignore", "fighting")
skill_whip == Skill("Ignore", "fighting")
skill_backstab == Skill("Ignore", "standing")
skill_bash == Skill("Ignore", "fighting")
skill_berserk == Skill("Ignore", "fighting")
skill_dirt_kicking == Skill("Ignore", "fighting")
skill_disarm == Skill("Ignore", "fighting")
skill_dodge == Skill("Ignore", "fighting")
skill_enhanced_damage == Skill("Ignore", "fighting")
skill_hand_to_hand == Skill("Ignore", "fighting")
skill_kick == Skill("CharOffensive", "fighting")
skill_headbutt == Skill("CharOffensive", "fighting")
skill_parry == Skill("Ignore", "fighting")
skill_rescue == Skill("Ignore", "fighting")
skill_trip == Skill("Ignore", "fighting")
skill_second_attack == Skill("Ignore", "fighting")
skill_third_attack == Skill("Ignore", "fighting")
skill_fast_healing == Skill("Ignore", "sleeping")
skill_haggle == Skill("Ignore", "resting")
skill_hide == Skill("Ignore", "resting")
skill_lore == Skill("Ignore", "resting")
skill_meditation == Skill("Ignore", "sleeping")
skill_peek == Skill("Ignore", "standing")
skill_ride == Skill("Ignore", "standing")
skill_sharpen == Skill("ObjectInventory", "standing")
skill_pick_lock == Skill("Ignore", "standing")
skill_sneak == Skill("Ignore", "standing")
skill_steal == Skill("Ignore", "standing")
skill_scrolls == Skill("Ignore", "standing")
skill_staves == Skill("Ignore", "standing")
skill_wands == Skill("Ignore", "standing")
skill_throw == Skill("Ignore", "standing")

skill_table ==
       "acid blast" :> skill_acid_blast @@ "octarine fire" :> skill_octarine_fire
    @@ "armor" :> skill_armor @@ "bless" :> skill_bless @@ "blindness" :> skill_blindness
    @@ "burning hands" :> skill_burning_hands @@ "call lightning" :> skill_call_lightning
    @@ "calm" :> skill_calm @@ "cancellation" :> skill_cancellation
    @@ "cause critical" :> skill_cause_critical @@ "cause light" :> skill_cause_light
    @@ "cause serious" :> skill_cause_serious @@ "chain lightning" :> skill_chain_lightning
    @@ "change sex" :> skill_change_sex @@ "charm person" :> skill_charm_person
    @@ "chill touch" :> skill_chill_touch @@ "colour spray" :> skill_colour_spray
    @@ "continual light" :> skill_continual_light @@ "control weather" :> skill_control_weather
    @@ "create food" :> skill_create_food @@ "create spring" :> skill_create_spring
    @@ "create water" :> skill_create_water @@ "cure blindness" :> skill_cure_blindness
    @@ "cure critical" :> skill_cure_critical @@ "cure disease" :> skill_cure_disease
    @@ "cure light" :> skill_cure_light @@ "cure poison" :> skill_cure_poison
    @@ "cure serious" :> skill_cure_serious @@ "curse" :> skill_curse
    @@ "exorcise" :> skill_exorcise @@ "demonfire" :> skill_demonfire
    @@ "detect evil" :> skill_detect_evil @@ "detect hidden" :> skill_detect_hidden
    @@ "detect invis" :> skill_detect_invis @@ "detect magic" :> skill_detect_magic
    @@ "detect poison" :> skill_detect_poison @@ "dispel evil" :> skill_dispel_evil
    @@ "dispel good" :> skill_dispel_good @@ "dispel magic" :> skill_dispel_magic
    @@ "earthquake" :> skill_earthquake @@ "enchant armor" :> skill_enchant_armor
    @@ "protect container" :> skill_protect_container @@ "venom" :> skill_venom
    @@ "vorpal" :> skill_vorpal @@ "vampire" :> skill_vampire @@ "black death" :> skill_black_death
    @@ "tame lightning" :> skill_tame_lightning @@ "acid wash" :> skill_acid_wash
    @@ "damnation" :> skill_damnation @@ "enchant weapon" :> skill_enchant_weapon
    @@ "energy drain" :> skill_energy_drain @@ "insanity" :> skill_insanity
    @@ "faerie fire" :> skill_faerie_fire @@ "faerie fog" :> skill_faerie_fog
    @@ "fireball" :> skill_fireball @@ "flamestrike" :> skill_flamestrike @@ "fly" :> skill_fly
    @@ "frenzy" :> skill_frenzy @@ "gate" :> skill_gate @@ "giant strength" :> skill_giant_strength
    @@ "harm" :> skill_harm @@ "haste" :> skill_haste @@ "regeneration" :> skill_regeneration
    @@ "lethargy" :> skill_lethargy @@ "heal" :> skill_heal @@ "holy word" :> skill_holy_word
    @@ "identify" :> skill_identify @@ "infravision" :> skill_infravision @@ "invis" :> skill_invis
    @@ "know alignment" :> skill_know_alignment @@ "lightning bolt" :> skill_lightning_bolt
    @@ "locate object" :> skill_locate_object @@ "magic missile" :> skill_magic_missile
    @@ "mass healing" :> skill_mass_healing @@ "mass invis" :> skill_mass_invis
    @@ "pass door" :> skill_pass_door @@ "plague" :> skill_plague @@ "poison" :> skill_poison
    @@ "portal" :> skill_portal @@ "protection evil" :> skill_protection_evil
    @@ "protection good" :> skill_protection_good @@ "psychic tornado" :> skill_psychic_tornado
    @@ "refresh" :> skill_refresh @@ "remove curse" :> skill_remove_curse
    @@ "remove alignment" :> skill_remove_alignment @@ "remove invisible" :> skill_remove_invisible
    @@ "talon" :> skill_talon @@ "sanctuary" :> skill_sanctuary @@ "shield" :> skill_shield
    @@ "shocking grasp" :> skill_shocking_grasp @@ "sleep" :> skill_sleep
    @@ "stone skin" :> skill_stone_skin @@ "summon" :> skill_summon @@ "teleport" :> skill_teleport
    @@ "teleport object" :> skill_teleport_object @@ "undo spell" :> skill_undo_spell
    @@ "ventriloquate" :> skill_ventriloquate @@ "weaken" :> skill_weaken
    @@ "word of recall" :> skill_word_of_recall @@ "acid breath" :> skill_acid_breath
    @@ "fire breath" :> skill_fire_breath @@ "frost breath" :> skill_frost_breath
    @@ "gas breath" :> skill_gas_breath @@ "lightning breath" :> skill_lightning_breath
    @@ "general purpose" :> skill_general_purpose @@ "high explosive" :> skill_high_explosive
    @@ "strife of the duelist" :> skill_strife_of_the_duelist @@ "axe" :> skill_axe
    @@ "dagger" :> skill_dagger @@ "flail" :> skill_flail @@ "mace" :> skill_mace
    @@ "polearm" :> skill_polearm @@ "shield block" :> skill_shield_block @@ "spear" :> skill_spear
    @@ "sword" :> skill_sword @@ "whip" :> skill_whip @@ "backstab" :> skill_backstab
    @@ "bash" :> skill_bash @@ "berserk" :> skill_berserk @@ "dirt kicking" :> skill_dirt_kicking
    @@ "disarm" :> skill_disarm @@ "dodge" :> skill_dodge
    @@ "enhanced damage" :> skill_enhanced_damage @@ "hand to hand" :> skill_hand_to_hand
    @@ "kick" :> skill_kick @@ "headbutt" :> skill_headbutt @@ "parry" :> skill_parry
    @@ "rescue" :> skill_rescue @@ "trip" :> skill_trip @@ "second attack" :> skill_second_attack
    @@ "third attack" :> skill_third_attack @@ "fast healing" :> skill_fast_healing
    @@ "haggle" :> skill_haggle @@ "hide" :> skill_hide @@ "lore" :> skill_lore
    @@ "meditation" :> skill_meditation @@ "peek" :> skill_peek @@ "ride" :> skill_ride
    @@ "sharpen" :> skill_sharpen @@ "pick lock" :> skill_pick_lock @@ "sneak" :> skill_sneak
    @@ "steal" :> skill_steal @@ "scrolls" :> skill_scrolls @@ "staves" :> skill_staves
    @@ "wands" :> skill_wands @@ "throw" :> skill_throw

SkillNames == DOMAIN skill_table

Dispellables == {sn \in SkillNames : skill_table[sn].dispel}
=============================================================================
