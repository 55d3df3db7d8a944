------------------------------- MODULE MCBonds -------------------------------
(***************************************************************************)
(* The bonds for TLC: two players, an immortal, two mobiles and a pet.     *)
(***************************************************************************)
EXTENDS Bonds, TLC

CONSTANTS ann, bob, imm, wolf, bear, horse,   \* people and mobiles
          temple, altar, limbo, n, s

MCReverse == n :> s @@ s :> n

\* A locked door and an open way between the temple and the altar; the way out of limbo only leads there.
MCExits == LET door(to) == Exit(to, {"IsDoor", "Closed", "Locked"}, "key")
               open(to) == Exit(to, {}, None)
           IN  temple :> (n :> door(altar) @@ s :> open(altar))
               @@ altar :> (s :> door(temple) @@ n :> open(temple))
               @@ limbo :> (n :> open(temple) @@ s :> None)
MCBoxes == "chest" :> Box({"Closeable", "Closed", "Locked"}, "key")

Scene(there, does) ==
    [at |-> [c \in Chars |-> IF c \in there THEN temple ELSE "unborn"],
     npc |-> {wolf, bear, horse}, pets |-> {horse}, rideable |-> {wolf, horse}, immortal |-> {imm},
     passdoor |-> {bob, horse}, keys |-> [c \in Chars |-> IF c = ann THEN {"key"} ELSE {}], does |-> does]

MCScenes == {
    Scene({ann, bob, wolf, bear}, {"follow", "nofollow", "group", "charm", "quit"}),
    Scene({ann, bob, wolf}, {"buy", "ride", "fight", "quit"}),
    Scene({ann, wolf, bear}, {"charm", "fight"}),
    Scene({ann, wolf}, {"charm", "ride", "fight"}),
    Scene({ann, bob, wolf}, {"charm", "ride", "move", "wander", "follow"}),
    Scene({ann, wolf}, {"buy", "charm", "ride", "move", "recall", "teleport", "quit"}),
    Scene({ann, bob}, {"enter game", "buy", "ride", "gate", "idle", "quit"}),
    Scene({ann, wolf}, {"charm", "ride", "settle", "quit", "enter", "tell"}),
    Scene({ann, bob, imm}, {"doors", "reset", "move"}),
    Scene({ann, imm}, {"buy", "ride", "tell", "wizard", "quit"})}
=============================================================================
