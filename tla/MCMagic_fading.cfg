\* Five scenes after which people leave off.
SPECIFICATION Spec
CONSTANTS
    ann = ann
    bob = bob
    orc = orc
    mail = mail
    club = club
    Players = {ann, bob}
    Mobs = {orc}
    Items = {mail, club}
    Armour = {mail}
    Undead = {}
    Natural <- MCNatural
    CharLevel = 16
    Lasts = 1
    ArmourValue = 2
    Scenes <- MCFading
    CharList <- MCCharList
    FaintestPlague <- MCFaintestPlague
PROPERTIES
    SpellsFade
