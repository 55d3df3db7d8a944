------------------------------ MODULE MCThings ------------------------------
(***************************************************************************)
(* Things for TLC.                                                         *)
(***************************************************************************)
EXTENDS Things

CONSTANTS ware, ann, bob, cat, smith, seer, altar, field, bag, gem, copy, ring, sword, girdle, lamp,
          shard, potion, heap, corpse, pit, idol, note

\* The copy and the ware are of the index of the one unique gem.
MCUniques == {{gem, copy, ware}}

MCIndex == [o \in Things |-> IF o \in {gem, copy, ware} THEN gem ELSE o]

\* Ann is not of a mind to hold idols.
MCZapped == {<<ann, idol>>}

MCCasts ==
    {{altar, ann, smith, ware, gem, copy, corpse},             \* what is unique
     {altar, ann, bag, gem, copy, corpse},                     \* and in bags
     {altar, ann, bob, smith, gem, heap, corpse},              \* coins and shops
     {altar, field, ann, seer, sword, girdle, shard, corpse},  \* strength
     {altar, field, ann, lamp, ring, idol},                    \* light, and rejection
     {altar, field, ann, cat, lamp, corpse},                   \* graves
     {altar, ann, bob, pit, bag, potion, note}}                \* the pit
=============================================================================
