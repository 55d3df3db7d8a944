-------------------------------- MODULE Doors --------------------------------
(***************************************************************************)
(* Exits between rooms, and containers, that are opened, closed, locked,   *)
(* unlocked and picked (act_move.cpp), and put back as the area has them   *)
(* (db.cpp, reset_room).                                                   *)
(*                                                                         *)
(* A door has two sides, each an exit of its own with flags of its own.    *)
(* Each action is given who does it: the room, the keys that are carried,  *)
(* and whether it is an immortal.                                          *)
(***************************************************************************)
EXTENDS Naturals, FiniteSets

CONSTANTS Rooms, Directions,
          None,
          Reverse,      \* the opposite of each direction
          Exits,        \* [Rooms -> [Directions -> exit or None]]
          Boxes         \* [names of containers -> container]

(* An exit has the room it leads to, the flags of the area file, and the key, if it has a lock. *)
Exit(to, rs, key) == [to |-> to, rs_flags |-> rs, key |-> key]
Box(value, key) == [flags |-> value, key |-> key]

DoorFlags == {"IsDoor", "Closed", "Locked", "PickProof", "PassProof"}

ASSUME DoorsAssumption ==
    /\ None \notin Rooms
    /\ Reverse \in [Directions -> Directions]
    /\ \A d \in Directions : Reverse[Reverse[d]] = d
    /\ DOMAIN Exits = Rooms
    /\ \A r \in Rooms : DOMAIN Exits[r] = Directions
    /\ \A r \in Rooms, d \in Directions :
         Exits[r][d] # None => Exits[r][d].to \in Rooms /\ Exits[r][d].rs_flags \subseteq DoorFlags

Has(r, d) == Exits[r][d] # None
LeadsTo(r, d) == Exits[r][d].to

\* The other side of an exit, if the room it leads to has one that leads back.
TwoSided(r, d) ==
    /\ Has(r, d)
    /\ Has(LeadsTo(r, d), Reverse[d])
    /\ LeadsTo(LeadsTo(r, d), Reverse[d]) = r

\* The area's doors start out alike on both sides, and where an exit of the room it leads to goes
\* somewhere else that one is no door: reset_room would put back one side of a door only.
ASSUME AreasAgree ==
    \A r \in Rooms, d \in Directions :
       Has(r, d) /\ Has(LeadsTo(r, d), Reverse[d]) =>
          LET back == Exits[LeadsTo(r, d)][Reverse[d]]
          IN  IF TwoSided(r, d) THEN back.rs_flags = Exits[r][d].rs_flags
              ELSE back.rs_flags = {}

VARIABLES exit_info,    \* the flags of each exit
          value1        \* the flags of each container

doorVars == <<exit_info, value1>>

DoorsInit ==
    /\ exit_info = [r \in Rooms |-> [d \in Directions |-> IF Has(r, d) THEN Exits[r][d].rs_flags ELSE {}]]
    /\ value1 = [b \in DOMAIN Boxes |-> Boxes[b].flags]

-----------------------------------------------------------------------------
\* Mutant: the other side is forgotten.
this_exit_only(r, d, set, cleared) == [exit_info EXCEPT ![r][d] = (@ \ cleared) \cup set]

\* What is done to one side of a door is done to the other.
update_reverse_exit(r, d, set, cleared) ==
    [s \in Rooms |-> [e \in Directions |->
        IF (s = r /\ e = d) \/ (TwoSided(r, d) /\ s = LeadsTo(r, d) /\ e = Reverse[d])
        THEN (exit_info[s][e] \ cleared) \cup set
        ELSE exit_info[s][e]]]

find_door(r, d) == Has(r, d) /\ "IsDoor" \in exit_info[r][d]

Door(r, d, set, cleared) == exit_info' = update_reverse_exit(r, d, set, cleared) /\ UNCHANGED value1
Lid(b, set, cleared) == value1' = [value1 EXCEPT ![b] = (@ \ cleared) \cup set] /\ UNCHANGED exit_info

do_open(r) ==
    \/ \E b \in DOMAIN Boxes :
          /\ "Closed" \in value1[b] /\ "Closeable" \in value1[b] /\ "Locked" \notin value1[b]
          /\ Lid(b, {}, {"Closed"})
    \/ \E d \in Directions :
          /\ find_door(r, d)
          /\ "Closed" \in exit_info[r][d] /\ "Locked" \notin exit_info[r][d]
          /\ Door(r, d, {}, {"Closed"})

do_close(r) ==
    \/ \E b \in DOMAIN Boxes :
          /\ "Closed" \notin value1[b] /\ "Closeable" \in value1[b]
          /\ Lid(b, {"Closed"}, {})
    \/ \E d \in Directions :
          /\ find_door(r, d) /\ "Closed" \notin exit_info[r][d]
          /\ Door(r, d, {"Closed"}, {})

do_lock(r, keys) ==
    \/ \E b \in DOMAIN Boxes :
          /\ "Closed" \in value1[b] /\ Boxes[b].key \in keys
          /\ "Locked" \notin value1[b]
          /\ Lid(b, {"Locked"}, {})
    \/ \E d \in Directions :
          /\ find_door(r, d) /\ "Closed" \in exit_info[r][d]
          /\ Exits[r][d].key \in keys /\ "Locked" \notin exit_info[r][d]
          /\ Door(r, d, {"Locked"}, {})

do_unlock(r, keys) ==
    \/ \E b \in DOMAIN Boxes :
          /\ "Closed" \in value1[b] /\ Boxes[b].key \in keys
          /\ "Locked" \in value1[b]
          /\ Lid(b, {}, {"Locked"})
    \/ \E d \in Directions :
          /\ find_door(r, d) /\ "Closed" \in exit_info[r][d]
          /\ Exits[r][d].key \in keys /\ "Locked" \in exit_info[r][d]
          /\ Door(r, d, {}, {"Locked"})

\* Immortals pick what is open, has no lock or cannot be picked.
do_pick(r, immortal) ==
    \/ \E b \in DOMAIN Boxes :
          /\ {"Closed", "Locked"} \subseteq value1[b] /\ Boxes[b].key # None
          /\ "PickProof" \notin value1[b]
          /\ Lid(b, {}, {"Locked"})
    \/ \E d \in Directions :
          /\ find_door(r, d) /\ "Locked" \in exit_info[r][d]
          /\ immortal \/ ("Closed" \in exit_info[r][d] /\ Exits[r][d].key # None
                          /\ "PickProof" \notin exit_info[r][d])
          /\ Door(r, d, {}, {"Locked"})

\* The exits of a room, and the exits back, whether or not they lead back.
reset_exits(r) ==
    LET Reached(s, e) == Has(s, e) /\ (s = r \/ (Has(r, Reverse[e]) /\ LeadsTo(r, Reverse[e]) = s))
    IN  /\ exit_info' = [s \in Rooms |-> [e \in Directions |->
                            IF Reached(s, e) THEN Exits[s][e].rs_flags ELSE exit_info[s][e]]]
        /\ UNCHANGED value1

-----------------------------------------------------------------------------
\* A door is open, shut or locked from both of its sides alike, whoever works it from where and
\* whenever the area is reset (update_reverse_exit, reset_room).
DoorsAgree ==
    \A r \in Rooms, d \in Directions :
       TwoSided(r, d) => exit_info[r][d] = exit_info[LeadsTo(r, d)][Reverse[d]]
=============================================================================
