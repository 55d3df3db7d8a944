\* Three players in a group, mobiles, purges, a plague.
SPECIFICATION Spec
CONSTANTS
    Players = {ann, bob, cat}
    NoOne = noone
    Mob = mob
    Rooms = {"arena", "temple"}
    Safe = {"temple"}
    Altar = "temple"
    InvitationTimeoutTicks = 1
    DuelTimeoutTicks = 2
    Grouped = TRUE
    Events = {"mob", "plague", "purge"}
SYMMETRY Symmetry
\* A duel with a Char that was purged and freed ends the behaviour.
CHECK_DEADLOCK FALSE
INVARIANTS
    TypeOK
    DuelsMutual
PROPERTIES
    FightsBeginInDuels
    DuelEndsFight
    DuelRunsDown
