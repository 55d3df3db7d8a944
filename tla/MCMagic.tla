------------------------------- MODULE MCMagic -------------------------------
(***************************************************************************)
(* Magic for TLC: the scenes, each of a few spells, of two players and a   *)
(* mobile.                                                                 *)
(***************************************************************************)
EXTENDS Magic

CONSTANTS ann, bob, orc, mail, club

MCNatural == [c \in Chars |-> IF c = orc THEN {"Sanctuary"} ELSE {}]

MCFaintestPlague == -1

MCCharList == <<ann, orc, bob>>

Alone ==
    [who |-> {ann}, spells |-> {"armor"}, levels |-> {}, uses |-> "nothing", verbs |-> {}, special |-> "none",
     things |-> {}, owner |-> ann, align |-> [c \in Chars |-> "neutral"], duel |-> FALSE, most |-> 3]

Cast2(spells) == [Alone EXCEPT !.who = {ann, orc}, !.spells = spells]

Used(how, spells) == [Cast2(spells) EXCEPT !.uses = how, !.levels = {16, 17}]

Special2(special) == [Cast2({}) EXCEPT !.special = special, !.verbs = {"kill"}]

Duellists(spells) == [Alone EXCEPT !.who = {ann, bob}, !.spells = spells, !.duel = TRUE]

Armed(spells) ==
    [Alone EXCEPT !.who = {ann, orc}, !.spells = spells, !.things = {mail, club}, !.verbs = {"wear", "remove"}]

MCScenes ==
    {Used("quaff", {"giant strength", "bless"}), Used("recite", {"stone skin", "remove curse"}),
     Used("brandish", {"poison", "haste"}), Used("zap", {"curse", "dispel magic"}),
     Used("throw", {"blindness", "lethargy"}), [Used("zap", {"plague"}) EXCEPT !.levels = {2, 3}],
     Cast2({"charm person", "sleep"}), Cast2({"charm person", "cancellation"}),
     [Cast2({"charm person"}) EXCEPT !.who = {ann, bob, orc}, !.verbs = {"kill", "lose"}],
     Cast2({"sanctuary", "dispel magic"}), Cast2({"frenzy", "calm"}),
     [Cast2({"frenzy"}) EXCEPT !.verbs = {"berserk", "kill"}],
     [Alone EXCEPT !.verbs = {"sneak", "hide", "visible"}, !.spells = {"invis", "mass invis"}],
     [Cast2({"mass invis", "faerie fog"}) EXCEPT !.verbs = {"hide"}],
     [Cast2({"blindness", "cure blindness"}) EXCEPT !.verbs = {"dirt", "headbutt", "kill"}],
     [Cast2({"undo spell", "weaken", "change sex"}) EXCEPT !.verbs = {"restore"}],
     [Cast2({"sleep"}) EXCEPT !.verbs = {"sleep", "coma", "awaken", "kill"}],
     Special2("cleric"), Special2("mage"), Special2("undead"), Special2("bastard"), Special2("judge"),
     Special2("poison"), Special2("breath"), [Special2("adept") EXCEPT !.verbs = {"drink"}],
     [Cast2({"psychic tornado", "cure blindness"}) EXCEPT !.most = 2],
     [Cast2({"chain lightning", "invis"}) EXCEPT !.most = 2],
     Duellists({"blindness", "curse", "weaken"}),
     Duellists({"acid breath", "chill touch", "armor"}),
     [Cast2({"holy word", "earthquake"}) EXCEPT !.most = 1, !.align = [c \in Chars |-> IF c = orc THEN "evil" ELSE "good"]],
     Armed({"enchant armor", "damnation"}), Armed({"enchant weapon", "remove curse"}),
     [Armed({"venom", "black death"}) EXCEPT !.verbs = {"wear", "kill"}],
     [Armed({"acid breath", "faerie fire"}) EXCEPT !.owner = orc]}

\* Scenes to see spells fade in.
MCFading ==
    {[Used("zap", {"plague"}) EXCEPT !.levels = {2, 3}, !.most = 2],
     [Cast2({"plague", "cure disease"}) EXCEPT !.most = 1, !.who = {ann, bob}],
     [Cast2({"sleep", "stone skin"}) EXCEPT !.most = 2],
     [Duellists({"blindness"}) EXCEPT !.most = 1],
     [Alone EXCEPT !.verbs = {"sneak", "drink"}, !.most = 2]}
=============================================================================
