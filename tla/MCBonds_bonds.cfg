\* Players, mobiles and a pet that follow, charm, ride, travel, fight and leave.
SPECIFICATION Spec
CONSTANTS
    ann = ann
    bob = bob
    imm = imm
    wolf = wolf
    bear = bear
    horse = horse
    temple = temple
    altar = altar
    limbo = limbo
    n = n
    s = s
    None = None
    Chars = {ann, bob, imm, wolf, bear, horse}
    Rooms = {temple, altar, limbo}
    Directions = {n, s}
    Reverse <- MCReverse
    Exits <- MCExits
    Boxes <- MCBoxes
    Scenes <- MCScenes
    Temple = temple
    Altar = altar
    Limbo = limbo
CHECK_DEADLOCK FALSE
INVARIANTS
    BondsMutual
    NoDanglingBond
    CharmHasNoLoops
    DoorsAgree
