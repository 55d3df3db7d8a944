\* Two descriptors after one name.
SPECIFICATION Spec
CONSTANTS
    Descs = {d1, d2}
    Players = {b1, b2, b3}
    Names = {bob}
    Mob = mob
    MobName = mobname
    NoDesc = nodesc
    NoBody = nobody
    MaxVersion = 3
    Commands = {}
SYMMETRY Symmetry
\* What char_update reads in a freed descriptor may end the behaviour.
CHECK_DEADLOCK FALSE
PROPERTIES
    FileNeverRollsBack
