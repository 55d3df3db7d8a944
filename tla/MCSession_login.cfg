\* Three descriptors after one name; two versions beyond creation.
SPECIFICATION Spec
CONSTANTS
    Descs = {d1, d2, d3}
    Players = {b1, b2, b3, b4}
    Names = {bob}
    Mob = mob
    MobName = mobname
    NoDesc = nodesc
    NoBody = nobody
    MaxVersion = 3
    Commands = {"ban", "delete"}
SYMMETRY Symmetry
\* What char_update reads in a freed descriptor may end the behaviour.
CHECK_DEADLOCK FALSE
INVARIANTS
    OneDescriptorPerPerson
    NoDanglingBody
    LinksAgree
