\* Thirty-odd scenes: a player or two, a mobile, a few spells.
SPECIFICATION Spec
CONSTANTS
    ann = ann
    bob = bob
    orc = orc
    mail = mail
    club = club
    Players = {ann, bob}
    Mobs = {orc}
    Items = {mail, club}
    Armour = {mail}
    Undead = {}
    Natural <- MCNatural
    CharLevel = 16
    Lasts = 1
    ArmourValue = 2
    Scenes <- MCScenes
    CharList <- MCCharList
    FaintestPlague <- MCFaintestPlague
INVARIANTS
    ModifiersAddUp
    NoBitWithoutSource
    CharmedHaveMasters
