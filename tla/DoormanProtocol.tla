-------------------------- MODULE DoormanProtocol --------------------------
(***************************************************************************)
(* The Unix-domain stream between doorman and the MUD: its packets         *)
(* (common/doorman_protocol.h), the two directions as FIFO queues, and the *)
(* state of each end of the socket (common/Fd.cpp).                        *)
(*                                                                         *)
(* A client connection is a number, 1 for the first one doorman accepted.  *)
(* Packets carry the number of a channel, which doorman hands out again    *)
(* once a connection is gone.  The fields "conn" (the connection a packet  *)
(* was written for) and "who" are what the properties talk about; the      *)
(* program itself reads type, channel and, for RECONNECT and AUTHORIZED,   *)
(* the character named in the payload, which is "who": a character is      *)
(* named after the connection that first logged it in.                     *)
(***************************************************************************)
EXTENDS Naturals, Sequences, FiniteSets

CONSTANTS
    MaxAccepts,   \* bound: client connections accepted in a behaviour
    MaxChannels,  \* Doorman::MaxChannels, 64 in the code
    MaxQueue,     \* bound: packets in a queue above which nobody volunteers more
    MaxFaults,    \* bound: MUD stops plus truncated reads in a behaviour
    ClientFaults  \* may a client's socket start failing writes?

ASSUME BoundsAssumption ==
    /\ MaxAccepts \in Nat \ {0}
    /\ MaxChannels \in Nat
    /\ MaxQueue \in Nat
    /\ MaxFaults \in Nat
    /\ ClientFaults \in BOOLEAN

Ids   == 0 .. MaxAccepts - 1 \* channel numbers: one per connection is enough
Conns == 0 .. MaxAccepts     \* connections and characters; 0 is "none"

(***************************************************************************)
(* MESSAGE and GO_AHEAD towards doorman are one type: doorman treats them  *)
(* alike.  So are ECHO_ON and ECHO_OFF.                                    *)
(***************************************************************************)
PacketTypes == {"init", "connect", "reconnect", "disconnect", "ack",
                "message", "info", "echo", "authorized"}

Packet == [type : PacketTypes, channel : Ids, conn : Conns, who : Conns]

Pkt(type, channel, conn, who) ==
    [type |-> type, channel |-> channel, conn |-> conn, who |-> who]

VARIABLES
    toMud,    \* packets written by doorman, not yet read by the MUD
    toDoor,   \* packets written by the MUD, not yet read by doorman
    doorEnd,  \* doorman's fd: closed, pending (in the MUD's backlog), linked, orphan
    mudEnd,   \* the MUD's fd: closed, linked, orphan
    faults,   \* faults injected so far
    accepted  \* client connections accepted so far

linkVars == <<toMud, toDoor, doorEnd, mudEnd, faults, accepted>>

(***************************************************************************)
(* "orphan" is an fd whose peer is gone: what the peer wrote can still be  *)
(* read, then comes end of file; a write raises.                           *)
(***************************************************************************)
LinkTypeOK ==
    /\ toMud \in Seq(Packet)
    /\ toDoor \in Seq(Packet)
    /\ doorEnd \in {"closed", "pending", "linked", "orphan"}
    /\ mudEnd \in {"closed", "linked", "orphan"}
    /\ faults \in 0 .. MaxFaults
    /\ accepted \in 0 .. MaxAccepts

LinkInit ==
    /\ toMud = <<>>
    /\ toDoor = <<>>
    /\ doorEnd = "closed"
    /\ mudEnd = "closed"
    /\ faults = 0
    /\ accepted = 0

(***************************************************************************)
(* Each end dropping its fd: what it had not read is lost, the peer keeps  *)
(* what was written to it.                                                 *)
(***************************************************************************)
Orphaned(end) == IF end \in {"linked", "pending"} THEN "orphan" ELSE end

DoormanKeepsBacklog ==       \* mutant: what was not read survives the close
    /\ doorEnd' = "closed"
    /\ mudEnd' = Orphaned(mudEnd)
    /\ UNCHANGED toDoor

DoormanDropsLink ==
    /\ doorEnd' = "closed"
    /\ mudEnd' = Orphaned(mudEnd)
    /\ toDoor' = <<>>

MudDropsLink ==
    /\ mudEnd' = "closed"
    /\ doorEnd' = IF mudEnd = "linked" THEN "orphan" ELSE doorEnd
    /\ toMud' = <<>>

(***************************************************************************)
(* A write by the MUD: lost without trace when the peer is gone            *)
(* (MudImpl::send_to_doorman catches the error and returns false).         *)
(***************************************************************************)
MudWrites(ps) ==
    toDoor' = IF mudEnd = "linked" THEN toDoor \o ps ELSE toDoor
=============================================================================
