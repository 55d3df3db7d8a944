------------------------------- MODULE Things -------------------------------
(***************************************************************************)
(* Where things are: on the floor of a room, carried or worn by a Char, or *)
(* inside another thing (handler.cpp), and the commands, deaths and decay  *)
(* that move them (act_obj.cpp, Char.cpp, fight.cpp, update.cpp,           *)
(* CorpseSummoner.cpp).                                                    *)
(*                                                                         *)
(* Each place an Object points to (in_room, carried_by, in_obj) is kept    *)
(* together with the list it is a member of, for the functions that move   *)
(* things set both.  What a thing is, is a constant: membership of the     *)
(* sets below.  A heavy thing weighs 2 and every other 1.  Timers are      *)
(* abstracted to whether they run; prices and levels are left out, so that *)
(* a price is any that both sides can pay.  "all" and "all.name" visit a   *)
(* list one thing at a time and do with each what the command does with    *)
(* one: the differences are parameters of the actions.                     *)
(***************************************************************************)
EXTENDS Integers, Sequences, FiniteSetsExt

CONSTANTS
    Players,
    Mobs,
    Keepers,      \* the mobiles that keep a shop
    Rooms,
    Altar,        \* Rooms::MidgaardAltar
    Things,
    Containers,   \* ObjectType::Container
    Corpses,      \* Pccorpse and Npccorpse, made when somebody dies
    Money,        \* ObjectType::Money, made when coins are dropped
    Lights,
    Weapons,
    Girdles,      \* worn about the waist: each adds to strength
    Rings,
    Heavy,        \* things that weigh 2 and, wielded, need a girdle
    NoDrop,       \* ObjectExtraFlag::NoDrop
    NoRemove,     \* ObjectExtraFlag::NoRemove
    Pit,          \* Objects::Pit: a container nobody can take
    Uniques,      \* the things of each ObjectIndex flagged Unique
    Potions,      \* ObjectType::Potion
    Rubbish,      \* ObjectType::Trash
    Shards,       \* ObjectExtraFlag::SummonCorpse
    Stock,        \* ObjectExtraFlag::Inventory: what a reset gives a keeper
    Index,        \* obj->objIndex, of each thing
    SubIssue,     \* things that check_sub_issue destroys when dropped
    Summoners,    \* the mobiles with spec_summoner
    Group,        \* the players who form a group
    Charmed,      \* the players who are charmed by somebody
    Thieves,      \* the players who know how to steal
    AutoSplit,    \* the players with PlayerActFlag::PlrAutoSplit
    CanLoot,      \* the players with PlayerActFlag::PlrCanLoot
    Immortals,    \* the players of LEVEL_IMMORTAL
    Zapped,       \* <<c, o>>: the alignment of c is one that o rejects
    CarryN,       \* can_carry_n
    CarryW,       \* can_carry_w
    Fits,         \* container->value[0]
    MaxGold,      \* bound on all the coins there are
    Purse,        \* what a player begins with, where there are coins
    Casts         \* the Chars, things and rooms that one behaviour has

Chars == Players \cup Mobs

Nowhere == "nowhere"     \* a Char or an Object that is not in the world
Lost == "lost"           \* an Object in the world that nothing points to
NotWorn == "not worn"    \* Worn::None
Slots == {"light", "wield", "waist", "finger_l", "finger_r"}

ASSUME ThingsAssumption ==
    /\ Players \cap Mobs = {} /\ Keepers \subseteq Mobs /\ Summoners \subseteq Mobs
    /\ Things \cap (Chars \cup Rooms) = {} /\ Chars \cap Rooms = {}
    /\ {Nowhere, Lost} \cap (Things \cup Chars \cup Rooms) = {}
    /\ Altar \in Rooms
    /\ Containers \cup Corpses \cup Money \cup Lights \cup Weapons \cup Girdles \cup Rings \cup
       Heavy \cup NoDrop \cup NoRemove \cup Potions \cup Rubbish \cup Shards \cup Stock \cup SubIssue \subseteq Things
    /\ Pit \subseteq Containers
    /\ Containers \cap Corpses = {} /\ (Containers \cup Corpses) \cap Money = {}
    /\ Stock \cap (Corpses \cup Money) = {}
    /\ Uniques \subseteq SUBSET Things
    /\ \A k \in Uniques, o, x \in Things : o \in k /\ Index[x] = Index[o] => x \in k
    /\ Group \cup Charmed \cup Thieves \cup AutoSplit \cup CanLoot \cup Immortals \subseteq Players
    /\ Zapped \subseteq Chars \X Things
    /\ Casts \subseteq SUBSET (Chars \cup Things \cup Rooms)
    /\ CarryN \in Nat /\ CarryW \in Nat /\ Fits \in Nat /\ MaxGold \in Nat /\ Purse \in Nat
    /\ \A S \in Casts : Cardinality(Players \cap S) * Purse <= MaxGold
    /\ IsFiniteSet(Chars \cup Things)

VARIABLES
    world,
    cast      \* one of Casts, chosen once and for all

vars == <<world, cast>>

World ==
    [at     : [Things -> Chars \cup Rooms \cup Things \cup {Nowhere, Lost}],
     worn   : [Things -> Slots \cup {NotWorn}],    \* obj->worn_loc
     number : [Chars -> Int],                      \* ch->carry_number
     weight : [Chars -> Int],                      \* ch->carry_weight
     gold   : [Chars -> 0 .. MaxGold],
     coins  : [Money -> 0 .. MaxGold],             \* obj->value[0]
     rots   : SUBSET Things,                       \* obj->decay_timer_ticks # 0
     lit    : SUBSET Lights,                       \* obj->value[2] # 0
     owner  : [Corpses -> Players \cup {Nowhere}], \* obj->owner
     whose  : [Corpses -> Players \cup {Nowhere}], \* of a Pccorpse: short_descr
     weak   : SUBSET Players,                      \* fatigued by the summoner
     room   : [Chars -> Rooms \cup {Nowhere}],     \* ch->in_room
     light  : [Rooms -> Int]]                      \* room->light


-----------------------------------------------------------------------------
\* What a thing holds, itself included, however deep.
Inside(w, o) ==
    LET depth == Cardinality(Containers \cup Corpses)
        within[n \in 0 .. depth] ==
            IF n = 0 THEN {o}
            ELSE LET held == within[n - 1] IN held \cup {x \in Things : w.at[x] \in held}
    IN  IF o \in Containers \cup Corpses THEN within[depth] ELSE {o}

get_obj_number(w, o) == Cardinality(Inside(w, o) \ (Containers \cup Money))

get_obj_weight(w, o) == Cardinality(Inside(w, o)) + Cardinality(Inside(w, o) \cap Heavy)

Carrying(w, c) == {o \in Things : w.at[o] = c}

Inventory(w, c) == {o \in Carrying(w, c) : w.worn[o] = NotWorn}

People(w, r) == {c \in Chars : w.room[c] = r}

Contents(w, o) == {x \in Things : w.at[x] = o}

get_eq_char(w, c, slot) == {o \in Carrying(w, c) : w.worn[o] = slot}

\* The Char, if any, in whose hands the thing is in the end.
Carriers(w, o) == {c \in Chars : \E x \in Carrying(w, c) : o \in Inside(w, x)}

Charge(w, who, n, kg) ==
    [w EXCEPT !.number = [c \in Chars |-> IF c \in who THEN @[c] + n ELSE @[c]],
              !.weight = [c \in Chars |-> IF c \in who THEN @[c] + kg ELSE @[c]]]

obj_from_room(w, o) == [w EXCEPT !.at[o] = Lost]

obj_to_room(w, o, r) == IF r = Nowhere THEN w ELSE [w EXCEPT !.at[o] = r]

obj_to_char(w, o, c) ==
    Charge([w EXCEPT !.at[o] = c], {c}, get_obj_number(w, o), get_obj_weight(w, o))

obj_to_obj(w, o, k) ==
    Charge([w EXCEPT !.at[o] = k], Carriers(w, k), get_obj_number(w, o), get_obj_weight(w, o))

obj_from_obj_uncounted(w, o) == \* mutant: the carrier's counts are forgotten
    [w EXCEPT !.at[o] = Lost]

obj_from_obj(w, o) ==
    Charge([w EXCEPT !.at[o] = Lost], Carriers(w, w.at[o]),
           -get_obj_number(w, o), -get_obj_weight(w, o))

IsLight(w, o, slot) == slot = "light" /\ o \in w.lit

LightsGoOut(w, r, n) ==
    IF r # Nowhere /\ n > 0 /\ w.light[r] > 0 THEN [w EXCEPT !.light[r] = @ - n] ELSE w

\* unequip_char but for the check of the weapon.
TakenOff(w, o) ==
    LET off == [w EXCEPT !.worn[o] = NotWorn]
    IN  LightsGoOut(off, w.room[w.at[o]], IF IsLight(w, o, w.worn[o]) THEN 1 ELSE 0)

\* obj_from_char where affect_modify is at work already (depth > 0).
LetGo(w, o) ==
    LET off == IF w.worn[o] = NotWorn THEN w ELSE TakenOff(w, o)
    IN  Charge([off EXCEPT !.at[o] = Lost], {w.at[o]},
               -get_obj_number(w, o), -get_obj_weight(w, o))

\* get_obj_weight(wield) <= str_app[curr_stat(Str)].wield
CanWield(w, c, o) ==
    \/ o \notin Heavy
    \/ c \notin w.weak /\ \E g \in Girdles : w.at[g] = c /\ w.worn[g] = "waist"

AffectModifyOnly(w, c) == \* mutant: who becomes too weak keeps the weapon
    w

\* affect_modify: whoever has become too weak drops the weapon.
AffectModify(w, c) ==
    IF c \in Players /\ \E o \in get_eq_char(w, c, "wield") : ~CanWield(w, c, o)
    THEN LET o == CHOOSE o \in get_eq_char(w, c, "wield") : TRUE
         IN  obj_to_room(LetGo(w, o), o, w.room[c])
    ELSE w

unequip_char(w, c, o) ==
    IF o \in Girdles THEN AffectModify(TakenOff(w, o), c) ELSE TakenOff(w, o)

obj_from_char(w, o) ==
    LetGo(IF w.worn[o] = NotWorn THEN w ELSE unequip_char(w, w.at[o], o), o)

equip_char(w, c, o, slot) ==
    IF get_eq_char(w, c, slot) # {} THEN w
    ELSE IF <<c, o>> \in Zapped THEN obj_to_room(obj_from_char(w, o), o, w.room[c])
    ELSE LET on == [w EXCEPT !.worn[o] = slot]
             affected == IF o \in Girdles THEN AffectModify(on, c) ELSE on
         IN  IF IsLight(w, o, slot) /\ w.room[c] # Nowhere
             THEN [affected EXCEPT !.light[w.room[c]] = @ + 1] ELSE affected

Removed(w, o) ==
    IF w.at[o] \in Rooms THEN obj_from_room(w, o)
    ELSE IF w.at[o] \in Chars THEN obj_from_char(w, o)
    ELSE IF w.at[o] \in Things THEN obj_from_obj(w, o)
    ELSE w

extract_obj_only(w, o) == \* mutant: the contents stay behind
    [Removed(w, o) EXCEPT !.at[o] = Nowhere, !.rots = @ \ {o}, !.lit = @ \cup ({o} \cap Lights)]

\* extract_obj, and collect_all_garbage with it: what is made anew from its
\* index is as every other that is.
extract_obj(w, o) ==
    LET gone == Inside(w, o)
        out == Removed(w, o)
    IN  [out EXCEPT !.at = [x \in Things |-> IF x \in gone THEN Nowhere ELSE @[x]],
                    !.rots = @ \ gone,
                    !.lit = @ \cup (gone \cap Lights),
                    !.coins = [m \in Money |-> IF m \in gone THEN 0 ELSE @[m]],
                    !.owner = [k \in Corpses |-> IF k \in gone THEN Nowhere ELSE @[k]],
                    !.whose = [k \in Corpses |-> IF k \in gone THEN Nowhere ELSE @[k]]]

WornLights(w, c) == {o \in get_eq_char(w, c, "light") : o \in w.lit}

char_from_room_aglow(w, c) == \* mutant: the light stays in the room
    [w EXCEPT !.room[c] = Nowhere]

char_from_room(w, c) ==
    [LightsGoOut(w, w.room[c], Cardinality(WornLights(w, c))) EXCEPT !.room[c] = Nowhere]

char_to_room(w, c, r) ==
    [w EXCEPT !.room[c] = r, !.light[r] = @ + Cardinality(WornLights(w, c))]

\* Things that are not in the world, from which the next one is made.
Unmade(w, S) == {o \in S \cap cast : w.at[o] = Nowhere}

\* What create_object makes of the thing's index.
Copies(o) == {x \in Things \ (Corpses \cup Money \cup Stock) : Index[x] = Index[o]}

create_money(w, m, n) == [w EXCEPT !.at[m] = Lost, !.coins[m] = n]

-----------------------------------------------------------------------------
can_drop_obj(c, o) == o \in NoDrop => c \in Immortals

is_takeable(o) == o \notin Pit

same_group(c, d) == c = d \/ {c, d} \subseteq Group

can_loot(w, c, o) ==
    LET owner == IF o \in Corpses THEN w.owner[o] ELSE Nowhere
    IN  c \notin Immortals /\ owner # Nowhere =>
            w.room[owner] = Nowhere \/ owner \in CanLoot \/ same_group(c, owner)

\* can_carry_n and can_carry_w: an immortal's are out of reach.
CanCarry(w, c, n, kg) ==
    c \notin Immortals => w.number[c] + n <= CarryN /\ w.weight[c] + kg <= CarryW

HasRoomFor(w, c, o) == CanCarry(w, c, get_obj_number(w, o), get_obj_weight(w, o))

collect_outer_obj_indexes(w, S) == \* mutant: containers are not looked into
    {k \in Uniques : S \cap k # {}}

collect_unique_obj_indexes(w, S) ==
    {k \in Uniques : \E o \in S : Inside(w, o) \cap k # {}}

\* source and dest are Chars, or Nowhere for nullptr.
obj_move_violates_uniqueness(w, source, dest, o, to) ==
    /\ source # dest
    /\ dest \notin Keepers
    /\ collect_unique_obj_indexes(w, {o}) \cap collect_unique_obj_indexes(w, to) # {}

CarriedBy(w, o) == IF w.at[o] \in Chars THEN w.at[o] ELSE Nowhere

split_coins_twice(w, c, amount) == \* mutant: the extra coins are handed out to everybody
    LET sharers == {d \in People(w, w.room[c]) \cap Players : same_group(c, d) /\ d \notin Charmed}
        share == (amount \div Cardinality(sharers)) + (amount % Cardinality(sharers))
    IN  IF amount <= 0 \/ w.gold[c] < amount \/ Cardinality(sharers) < 2 THEN w
        ELSE [w EXCEPT !.gold = [d \in Chars |-> IF d \in sharers
                                                 THEN @[d] + share - (IF d = c THEN amount ELSE 0)
                                                 ELSE @[d]]]

split_coins(w, c, amount) ==
    LET sharers == {d \in People(w, w.room[c]) \cap Players : same_group(c, d) /\ d \notin Charmed}
        members == Cardinality(sharers)
        share == amount \div members
        extra == amount % members
    IN  IF amount <= 0 \/ w.gold[c] < amount \/ members < 2 \/ share = 0 THEN w
        ELSE [w EXCEPT !.gold = [d \in Chars |-> IF d = c THEN @[d] - amount + share + extra
                                                 ELSE IF d \in sharers THEN @[d] + share
                                                 ELSE @[d]]]

\* What the commands of c can name: in the room, and in its own hands.
Here(w, c) == {o \in Things : w.at[o] \in {c, w.room[c]} /\ w.room[c] # Nowhere}

Together(w, c, d) == c # d /\ w.room[c] = w.room[d] /\ w.room[c] # Nowhere

AllGold(w) == MapThenSumSet(LAMBDA c : w.gold[c], Chars) + MapThenSumSet(LAMBDA m : w.coins[m], Money)

-----------------------------------------------------------------------------
AutoSplits(w, c, amount) ==
    IF c \in AutoSplit /\ amount > 1 THEN split_coins(w, c, amount) ELSE w

\* get_obj, where k is the container, or Nowhere for the floor.
CanGet(w, c, o, k) ==
    /\ is_takeable(o)
    /\ HasRoomFor(w, c, o)
    /\ can_loot(w, c, o)
    /\ ~obj_move_violates_uniqueness(w, IF k = Nowhere THEN Nowhere ELSE CarriedBy(w, k), c,
                                     o, Carrying(w, c))

Got(w, c, o, k) ==
    LET off == IF k = Nowhere THEN obj_from_room(w, o)
               ELSE obj_from_obj(IF k \in Pit THEN [w EXCEPT !.rots = @ \ {o}] ELSE w, o)
    IN  IF o \in Money
        THEN extract_obj(AutoSplits([off EXCEPT !.gold[c] = @ + w.coins[o]], c, w.coins[o]), o)
        ELSE obj_to_char(off, o, c)

GetFromRoom(c, o) ==
    /\ o \in Here(world, c) /\ world.at[o] \in Rooms
    /\ CanGet(world, c, o, Nowhere)
    /\ world' = Got(world, c, o, Nowhere)

GetFromContainerFreely(c, o) == \* mutant: nobody asks whose corpse it is
    /\ world.at[o] \in Here(world, c) \cap (Containers \cup Corpses)
    /\ CanGet(world, c, o, world.at[o])
    /\ world' = Got(world, c, o, world.at[o])

GetFromContainer(c, o) ==
    /\ world.at[o] \in Here(world, c) \cap (Containers \cup Corpses)
    /\ LET k == world.at[o]
       IN  /\ k \in Corpses => can_loot(world, c, k)
           /\ CanGet(world, c, o, k)
           /\ world' = Got(world, c, o, k)

Put(c, o, k) ==
    /\ o \in Inventory(world, c) /\ k \in Here(world, c) \cap Containers /\ o # k
    /\ can_drop_obj(c, o)
    /\ ~obj_move_violates_uniqueness(world, c, CarriedBy(world, k), o, {k})
    /\ get_obj_weight(world, o) + get_obj_weight(world, k) <= Fits
    /\ k \in Pit => o \notin world.rots
    /\ world' = LET timed == IF k \in Pit THEN [world EXCEPT !.rots = @ \cup {o}] ELSE world
                IN  obj_to_obj(obj_from_char(timed, o), o, k)

Donate(c, o) ==
    /\ o \in Inventory(world, c) /\ world.room[c] # Nowhere
    /\ can_drop_obj(c, o) /\ o \notin world.rots
    /\ \E pit \in Pit :
          /\ world.at[pit] = Altar
          /\ world' = obj_to_obj(obj_from_char([world EXCEPT !.rots = @ \cup {o}], o), o, pit)

GiveCoins(c, d, n) ==
    /\ Together(world, c, d) /\ world.gold[c] >= n
    /\ CanCarry(world, d, 1, 1)
    /\ world' = [world EXCEPT !.gold[c] = @ - n, !.gold[d] = @ + n]

\* do_split
Split(c, n) ==
    /\ world.room[c] # Nowhere
    /\ world' = split_coins(world, c, n)

\* The coins on the floor become part of the new heap.
DropCoins(c, n, m) ==
    /\ world.room[c] # Nowhere /\ world.gold[c] >= n
    /\ LET heaps == {h \in Money : world.at[h] = world.room[c]}
           swept == FoldSet(LAMBDA h, w : extract_obj(w, h),
                            [world EXCEPT !.gold[c] = @ - n], heaps)
       IN  /\ m \in Unmade(swept, Money)
           /\ world' = obj_to_room(create_money(swept, m,
                                      n + MapThenSumSet(LAMBDA h : world.coins[h], heaps)),
                                   m, world.room[c])

Drop(c, o) ==
    /\ o \in Inventory(world, c) /\ world.room[c] # Nowhere
    /\ can_drop_obj(c, o)
    /\ world' = LET off == obj_from_char(world, o)
                IN  IF o \in SubIssue THEN off ELSE obj_to_room(off, o, world.room[c])

\* SummonCorpse: one corpse of the player, out of another room, if there is any.
SummonCorpse(w, p, d, shard) ==
    LET afar == {k \in Corpses : w.whose[k] = p /\ w.at[k] \in Rooms \ {w.room[d]}}
        tired == AffectModify([w EXCEPT !.weak = @ \cup {p}], p)
    IN  IF afar = {} THEN {extract_obj(w, shard)}
        ELSE {extract_obj(obj_to_room(obj_from_room(tired, k), k, w.room[d]), shard) : k \in afar}

\* handle_corpse_summoner: what is of no use to it is handed back.
Summoned(w, p, d, o) ==
    IF p \notin Players \/ d \notin Summoners THEN {w}
    ELSE IF o \notin Shards THEN {obj_to_char(obj_from_char(w, o), o, p)}
    ELSE SummonCorpse(w, p, d, o)

Give(c, d, o) ==
    /\ o \in Inventory(world, c) /\ Together(world, c, d)
    /\ can_drop_obj(c, o)
    /\ ~obj_move_violates_uniqueness(world, c, d, o, Carrying(world, d))
    /\ HasRoomFor(world, d, o)
    /\ world' \in Summoned(obj_to_char(obj_from_char(world, o), o, d), c, d, o)

-----------------------------------------------------------------------------
\* Where wear_obj puts a thing: the second is tried where the first is taken.
WearAt(o) ==
    IF o \in Lights THEN <<"light">>
    ELSE IF o \in Rings THEN <<"finger_l", "finger_r">>
    ELSE IF o \in Girdles THEN <<"waist">>
    ELSE IF o \in Weapons THEN <<"wield">>
    ELSE <<>>

FreeSlots(w, c, slots) == {i \in DOMAIN slots : get_eq_char(w, c, slots[i]) = {}}

\* remove_obj of what is in the way, if it must be and can be.
remove_obj(w, c, slots, replace) ==
    LET loose == {i \in DOMAIN slots : replace /\ get_eq_char(w, c, slots[i]) \cap NoRemove = {}}
    IN  IF slots = <<>> \/ FreeSlots(w, c, slots) # {} \/ loose = {} THEN w
        ELSE unequip_char(w, c, CHOOSE o \in get_eq_char(w, c, slots[Min(loose)]) : TRUE)

wear_obj(w, c, o, replace) ==
    LET slots == WearAt(o)
        bare == remove_obj(w, c, slots, replace)
        free == FreeSlots(bare, c, slots)
    IN  IF free = {} \/ (slots = <<"wield">> /\ c \in Players /\ ~CanWield(bare, c, o)) THEN bare
        ELSE equip_char(bare, c, o, slots[Min(free)])

\* do_wear: one thing in the place of another, "all" only where nothing is.
Wear(c, o, replace) ==
    /\ o \in Inventory(world, c) /\ world.room[c] # Nowhere
    /\ world' = wear_obj(world, c, o, replace)

Remove(c, o) ==
    /\ o \in Carrying(world, c) \ Inventory(world, c) /\ o \notin NoRemove
    /\ world' = unequip_char(world, c, o)

Sacrifice(c, o, g) ==
    /\ o \in Here(world, c) /\ world.at[o] \in Rooms /\ is_takeable(o)
    /\ (o \in Corpses /\ world.whose[o] # Nowhere) => Contents(world, o) = {}
    /\ AllGold(world) + g <= MaxGold
    /\ world' = extract_obj(AutoSplits([world EXCEPT !.gold[c] = @ + g], c, g), o)

Trash(c, o) ==
    /\ o \in Inventory(world, c)
    /\ o \in Containers => Contents(world, o) = {}
    /\ world' = extract_obj(world, o)

Quaff(c, o) ==
    /\ o \in Inventory(world, c) \cap Potions
    /\ world' = extract_obj(world, o)

StealCoins(c, d) ==
    /\ Together(world, c, d) /\ c \in Thieves /\ d \in Mobs
    /\ \E n \in 1 .. world.gold[d] : world' = [world EXCEPT !.gold[c] = @ + n, !.gold[d] = @ - n]

Steal(c, d, o) ==
    /\ Together(world, c, d) /\ c \in Thieves /\ d \in Mobs
    /\ o \in Inventory(world, d) \ Stock /\ can_drop_obj(c, o)
    /\ HasRoomFor(world, c, o)
    /\ world' = obj_to_char(obj_from_char(world, o), o, c)

\* What the keeper has from a reset it keeps, and another is made for the buyer.
Buy(c, d, o) ==
    /\ Together(world, c, d) /\ d \in Keepers
    /\ o \in Inventory(world, d)
    /\ HasRoomFor(world, c, o)
    /\ ~obj_move_violates_uniqueness(world, d, c, o, Carrying(world, c))
    /\ \E x \in IF o \in Stock THEN Unmade(world, Copies(o)) ELSE {o}, p \in 0 .. world.gold[c] :
          LET paid == [world EXCEPT !.gold[c] = @ - p, !.gold[d] = @ + p, !.rots = @ \ {x}]
          IN  world' = obj_to_char(IF o \in Stock THEN paid ELSE obj_from_char(paid, o), x, c)

Sell(c, d, o) ==
    /\ Together(world, c, d) /\ d \in Keepers
    /\ o \in Inventory(world, c) /\ can_drop_obj(c, o) /\ o \notin world.rots
    /\ \A x \in Carrying(world, d) : Index[x] # Index[o]    \* get_cost
    /\ \E p \in 1 .. world.gold[d] :
          LET paid == [world EXCEPT !.gold[c] = @ + p, !.gold[d] = @ - p]
          IN  world' = IF o \in Rubbish THEN extract_obj(paid, o)
                       ELSE obj_to_char([obj_from_char(paid, o) EXCEPT !.rots = @ \cup {o}], o, d)

-----------------------------------------------------------------------------
\* What is in hand goes into the corpse, unless it has been dropped meanwhile.
IntoCorpse(w, c, k, o) ==
    IF w.at[o] # c THEN w
    ELSE IF o \in Stock THEN extract_obj(w, o)
    ELSE obj_to_obj(obj_from_char(w, o), o, k)

\* make_corpse: k is the corpse, m its coins, and first are those of the
\* things in hand that come first in the list.  An outlaw, a killer or a thief,
\* leaves a corpse that nobody owns.
make_corpse(w, c, k, m, first, outlaw) ==
    LET laid == [w EXCEPT !.at[k] = Lost, !.rots = @ \cup {k},
                          !.owner[k] = IF c \in Players /\ ~outlaw THEN c ELSE Nowhere,
                          !.whose[k] = IF c \in Players THEN c ELSE Nowhere]
        coins == IF c \in Mobs /\ w.gold[c] > 0
                 THEN [obj_to_obj(create_money(laid, m, w.gold[c]), m, k) EXCEPT !.gold[c] = 0]
                 ELSE laid
        Strip(v, S) == FoldSet(LAMBDA o, u : IntoCorpse(u, c, k, o), v, S)
        bare == Strip(Strip(coins, Carrying(w, c) \cap first), Carrying(w, c))
    IN  obj_to_room(bare, k, w.room[c])

\* extract_char, of one who has nothing left.
extract_char(w, c) ==
    IF c \in Players THEN char_to_room(char_from_room(w, c), c, Altar) ELSE char_from_room(w, c)

\* The order of the list matters only for girdles and what they let one wield.
Dies(c, k) ==
    /\ world.room[c] # Nowhere
    /\ k \in Unmade(world, Corpses)
    /\ LET coins == IF c \in Mobs /\ world.gold[c] > 0 THEN Unmade(world, Money) ELSE {Nowhere}
       IN  \E m \in coins, first \in {Girdles, Weapons}, outlaw \in BOOLEAN :
              world' = [extract_char(make_corpse(world, c, k, m, first, outlaw), c)
                            EXCEPT !.weak = @ \ {c}]

\* obj_update, of a thing whose time has come: a player's corpse leaves its
\* contents behind only where it lies in a room.
Decay(o) ==
    /\ o \in world.rots
    /\ \E price \in IF CarriedBy(world, o) \in Keepers THEN 0 .. MaxGold - AllGold(world) ELSE {0} :
          LET paid == [world EXCEPT !.gold = [c \in Chars |-> IF c = CarriedBy(world, o)
                                                              THEN @[c] + price ELSE @[c]]]
              spills == o \in Corpses /\ paid.whose[o] # Nowhere /\ paid.at[o] \in Rooms
              Spill(x, w) == obj_to_room(obj_from_obj(w, x), x, w.at[o])
          IN  world' = extract_obj(IF spills THEN FoldSet(Spill, paid, Contents(paid, o)) ELSE paid, o)

\* char_update: a light burns out in somebody's hand.
BurnsOut(c, o) ==
    /\ c \in Players /\ world.room[c] # Nowhere
    /\ o \in WornLights(world, c)
    /\ world' = extract_obj([world EXCEPT !.lit = @ \ {o}, !.light[world.room[c]] = @ - 1], o)

\* char_update: the fatigue wears off.
Recovers(c) ==
    /\ c \in world.weak
    /\ world' = AffectModify([world EXCEPT !.weak = @ \ {c}], c)

Walk(c, r) ==
    /\ world.room[c] \notin {r, Nowhere}
    /\ world' = char_to_room(char_from_room(world, c), c, r)

\* A player who carries nothing may quit and return: belongings that come
\* and go with their owner are a matter of save.cpp.
Quit(c) ==
    /\ c \in Players /\ world.room[c] # Nowhere /\ Carrying(world, c) = {}
    /\ world' = [char_from_room(world, c) EXCEPT !.weak = @ \ {c}]

Enter(c, r) ==
    /\ world.room[c] = Nowhere /\ c \in cast
    /\ world' = char_to_room(world, c, r)

\* Resets 'O', 'P', 'G' and 'E' make the things that the world lacks; what a
\* keeper is given is its stock.
Made(o, place) ==
    /\ o \in Unmade(world, Things \ (Corpses \cup Money))
    /\ o \in Stock <=> place \in Keepers
    /\ \/ place \in Rooms /\ world' = obj_to_room(world, o, place)
       \/ place \in Mobs /\ world.room[place] # Nowhere /\ world' = obj_to_char(world, o, place)

Init ==
    /\ cast \in Casts
    /\ world =
            [at     |-> [o \in Things |-> IF o \in Pit \cap cast THEN Altar ELSE Nowhere],
             worn   |-> [o \in Things |-> NotWorn],
             number |-> [c \in Chars |-> 0],
             weight |-> [c \in Chars |-> 0],
             gold   |-> [c \in Chars |-> IF c \in Players \cap cast /\ Money \cap cast # {}
                                              THEN Purse ELSE 0],
             coins  |-> [m \in Money |-> 0],
             rots   |-> {},
             lit    |-> Lights,
             owner  |-> [k \in Corpses |-> Nowhere],
             whose  |-> [k \in Corpses |-> Nowhere],
             weak   |-> {},
             room   |-> [c \in Chars |-> IF c \in Players \cap cast THEN Altar ELSE Nowhere],
             light  |-> [r \in Rooms |-> 0]]

Folk == Chars \cap cast

Props == Things \cap cast

Command(c) ==
    \/ \E o \in Props :
          \/ GetFromRoom(c, o) \/ GetFromContainer(c, o)
          \/ Drop(c, o) \/ Donate(c, o) \/ Trash(c, o) \/ Quaff(c, o) \/ Remove(c, o)
          \/ \E k \in Containers \cap cast : Put(c, o, k)
          \/ \E replace \in BOOLEAN : Wear(c, o, replace)
          \/ \E g \in 0 .. 1 : Sacrifice(c, o, g)
    \/ \E d \in Folk :
          \/ \E n \in 1 .. MaxGold : GiveCoins(c, d, n)
          \/ StealCoins(c, d)
          \/ \E o \in Props : Give(c, d, o) \/ Steal(c, d, o) \/ Buy(c, d, o) \/ Sell(c, d, o)
    \/ \E n \in 1 .. MaxGold : Split(c, n) \/ \E m \in Money \cap cast : DropCoins(c, n, m)

Step ==
    \/ \E c \in Folk \cap Players : Command(c)
    \/ \E c \in Folk, k \in Corpses \cap cast : Dies(c, k)
    \/ \E o \in Props : Decay(o) \/ \E c \in Folk \cap Players : BurnsOut(c, o)
    \/ \E c \in Folk \cap Players : Recovers(c) \/ Quit(c)
    \/ \E c \in Folk, r \in Rooms \cap cast : Walk(c, r) \/ Enter(c, r)
    \/ \E o \in Props, place \in (Rooms \cap cast) \cup (Folk \cap Mobs) : Made(o, place)

Next == Step /\ UNCHANGED cast

Spec == Init /\ [][Next]_vars

-----------------------------------------------------------------------------
Holds(w, c) == UNION {Inside(w, o) : o \in Carrying(w, c)}

\* Every thing lies in something that is in the world, and none in itself:
\* what is extracted takes its contents with it, who leaves the world leaves
\* nothing in mid-air, and nothing but check_sub_issue loses a thing.
WorldOK ==
    /\ world \in World /\ cast \in Casts
    /\ \A o \in Things :
          /\ world.at[o] \in Things => world.at[world.at[o]] # Nowhere /\ world.at[o] \notin Inside(world, o)
          /\ world.at[o] \in Chars => world.room[world.at[o]] # Nowhere
          /\ world.at[o] = Lost => o \in SubIssue

\* What a Char is said to carry is what it carries, however deep and however
\* it came to be there: can_carry_n and can_carry_w are asked of these counts,
\* which seven functions keep by adding and subtracting.
CarryAccounts ==
    \A c \in Chars :
        LET all == Holds(world, c)
        IN  /\ world.number[c] = Cardinality(all \ (Containers \cup Money))
            /\ world.weight[c] = Cardinality(all) + Cardinality(all \cap Heavy)

\* The light of a room is that of the lamps that shine there: whoever comes,
\* goes, dies, or is left in the dark by a lamp that burns out is accounted for.
LightsCounted ==
    \A r \in Rooms \cap cast :
        world.light[r] = Cardinality({o \in world.lit : \E c \in People(world, r) :
                                         o \in get_eq_char(world, c, "light")})

\* A thing that is worn is in the hands of its wearer, alone in its place, and
\* a player wields what it has the strength for: who loses it drops the weapon.
WornWell ==
    /\ \A o \in Things : world.worn[o] # NotWorn => world.at[o] \in Chars
    /\ \A c \in Chars, s \in Slots : Cardinality(get_eq_char(world, c, s)) <= 1
    /\ \A c \in Players : \A o \in get_eq_char(world, c, "wield") : CanWield(world, c, o)

\* Nobody who has one of what is unique comes by another, but a thief: neither
\* from the floor, a bag, a corpse, a shop or a friend, nor inside something.
NoSecondCopy ==
    [][\A c \in Players \ Thieves, k \in Uniques :
          k \cap Holds(world, c) # {} => k \cap Holds(world', c) \subseteq Holds(world, c)]_vars

Vanishes(o) == world.at[o] # Nowhere /\ world'.at[o] = Nowhere

\* Coins change hands but are not made, whether they are given, split, dropped
\* on a heap, left in a corpse or paid: where nothing vanishes their sum is
\* kept, and where only coins do (they are picked up, swept together or
\* sacrificed) it does not grow.
GoldKept ==
    [][/\ (\A o \in Things \ Money : ~Vanishes(o)) => AllGold(world') <= AllGold(world)
       /\ (\A o \in Things : ~Vanishes(o)) => AllGold(world') = AllGold(world)]_vars

\* A corpse is not for strangers, immortals excepted, while its owner is in the
\* game; a killer's or a thief's has no owner.
OnlyFriendsLoot ==
    [][\A k \in Corpses, c \in Players, o \in Things :
          LET p == world.owner[k]
          IN  (p # Nowhere /\ world.room[p] # Nowhere /\ world.at[o] = k /\ world'.at[o] = c)
              => p \in CanLoot \/ c \in Immortals \/ same_group(c, p)]_vars

=============================================================================
