\* Seven small worlds: one player or two, and what they may own.
SPECIFICATION Spec
CONSTANTS
    ware = ware
    ann = ann
    bob = bob
    cat = cat
    smith = smith
    seer = seer
    altar = altar
    field = field
    bag = bag
    ring = ring
    gem = gem
    copy = copy
    sword = sword
    girdle = girdle
    lamp = lamp
    shard = shard
    potion = potion
    heap = heap
    corpse = corpse
    pit = pit
    idol = idol
    note = note
    Players = {ann, bob, cat}
    Mobs = {smith, seer}
    Keepers = {smith}
    Summoners = {seer}
    Rooms = {altar, field}
    Altar = altar
    Things = {bag, gem, copy, ring, sword, girdle, lamp, shard, potion, heap, corpse, pit, idol, note, ware}
    Containers = {bag, pit}
    Corpses = {corpse}
    Money = {heap}
    Lights = {lamp}
    Weapons = {sword}
    Girdles = {girdle}
    Rings = {ring, idol}
    Heavy = {sword}
    NoDrop = {idol}
    NoRemove = {sword}
    Pit = {pit}
    Uniques <- MCUniques
    Potions = {potion}
    Rubbish = {potion}
    Stock = {ware}
    Index <- MCIndex
    SubIssue = {note}
    Shards = {shard}
    Group = {ann, bob}
    Charmed = {}
    Thieves = {bob}
    AutoSplit = {ann}
    CanLoot = {}
    Immortals = {cat}
    Zapped <- MCZapped
    CarryN = 3
    CarryW = 4
    Fits = 3
    MaxGold = 2
    Purse = 1
    Casts <- MCCasts
INVARIANTS
    WorldOK
    CarryAccounts
    LightsCounted
    WornWell
PROPERTIES
    NoSecondCopy
    GoldKept
    OnlyFriendsLoot
