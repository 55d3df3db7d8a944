\* Two descriptors, with an immortal's commands.
SPECIFICATION Spec
CONSTANTS
    Descs = {d1, d2}
    Players = {b1, b2, b3}
    Names = {bob}
    Mob = mob
    MobName = mobname
    NoDesc = nodesc
    NoBody = nobody
    MaxVersion = 3
    Commands = {"ban", "purge", "switch"}
SYMMETRY Symmetry
\* A descriptor left with a freed Char, or the crash, ends the behaviour.
CHECK_DEADLOCK FALSE
INVARIANTS
    OneBodyPerPlayer
