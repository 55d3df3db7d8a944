------------------------------ MODULE MudLink ------------------------------
(***************************************************************************)
(* The MUD's side of the stream: the process's life, its connection to     *)
(* doorman and its table of descriptors (MudImpl::game_loop,               *)
(* handle_doorman_packet, DescriptorList, Descriptor::close).              *)
(*                                                                         *)
(* "mudPhase" is "down" (no process), "booting" (init_socket to the start  *)
(* of the loop), "packets" (accept doorman if need be, then read what it   *)
(* sent) and "work" (players' commands, updates and output, with the       *)
(* reaping of closed descriptors at its end).  What a player does between  *)
(* login and quitting is reduced to the packets it makes the MUD write.    *)
(***************************************************************************)
EXTENDS DoormanProtocol, Functions

VARIABLES
    mudPhase,
    descriptors,  \* keys of DescriptorList::descriptors_
    desc          \* the Descriptor of each key

mudVars == <<mudPhase, descriptors, desc>>

\* "host" is the connection whose INFO set raw_host_; "who" the character.
Descriptor == [conn : Conns, state : {"lobby", "playing", "closed"},
               host : Conns, who : Conns]

NoDescriptor == [conn |-> 0, state |-> "closed", host |-> 0, who |-> 0]

MudTypeOK ==
    /\ mudPhase \in {"down", "booting", "packets", "work"}
    /\ descriptors \subseteq Ids
    /\ desc \in [Ids -> Descriptor]

MudInit ==
    /\ mudPhase = "down"
    /\ descriptors = {}
    /\ desc = [c \in Ids |-> NoDescriptor]

\* The listening socket exists from init_socket until the process ends.
MudListening == mudPhase # "down"

ToDoor(type, c) == Pkt(type, c, desc[c].conn, IF type = "authorized" THEN desc[c].who ELSE 0)

Alive == {c \in descriptors : desc[c].state # "closed"}

CloseDescriptors(S) ==
    [c \in Ids |-> IF c \in S THEN [desc[c] EXCEPT !.state = "closed"] ELSE desc[c]]

-----------------------------------------------------------------------------
(***************************************************************************)
(* The life of the process.                                                *)
(***************************************************************************)
\* MudImpl::init_socket: unlink, bind, listen.
MudStart ==
    /\ mudPhase = "down"
    /\ mudPhase' = "booting"
    /\ UNCHANGED <<linkVars, descriptors, desc>>

AcceptDoorman ==
    /\ mudEnd = "closed"
    /\ doorEnd = "pending"
    /\ doorEnd' = "linked"
    /\ mudEnd' = "linked"

\* init_socket waits for doorman before the world is loaded.
BootAccept ==
    /\ mudPhase = "booting"
    /\ AcceptDoorman
    /\ UNCHANGED <<toMud, toDoor, faults, accepted, mudVars>>

\* The world is loaded; game_loop says so with INIT.
BootDone ==
    /\ mudPhase = "booting"
    /\ mudEnd # "closed"
    /\ mudPhase' = "packets"
    /\ MudWrites(<<Pkt("init", 0, 0, 0)>>)
    /\ UNCHANGED <<toMud, doorEnd, mudEnd, faults, accepted, descriptors, desc>>

ProcessEnds ==
    /\ mudPhase' = "down"
    /\ descriptors' = {}
    /\ desc' = [c \in Ids |-> NoDescriptor]
    /\ mudEnd' = "closed"
    /\ doorEnd' = Orphaned(doorEnd)
    /\ toMud' = <<>>

\* A crash, or a reboot: do_reboot leaves the descriptors to the process's end.
MudStops ==
    /\ MudListening
    /\ faults < MaxFaults
    /\ faults' = faults + 1
    /\ ProcessEnds
    /\ UNCHANGED <<toDoor, accepted>>

\* do_shutdown and handle_signal_shutdown: terminate(true) closes everyone first.
MudShutdown ==
    /\ mudPhase = "work"
    /\ faults < MaxFaults
    /\ faults' = faults + 1
    /\ \E order \in Bijection(1 .. Cardinality(Alive), Alive) :
          MudWrites([i \in 1 .. Cardinality(Alive) |-> ToDoor("disconnect", order[i])])
    /\ ProcessEnds
    /\ UNCHANGED accepted

-----------------------------------------------------------------------------
(***************************************************************************)
(* Phase "packets".                                                        *)
(***************************************************************************)
\* Without doorman the loop blocks in accept; the packets wait for the next turn.
AcceptAgainSilently ==       \* mutant: no doorman_init()
    /\ mudPhase = "packets"
    /\ AcceptDoorman
    /\ mudPhase' = "work"
    /\ UNCHANGED <<toMud, toDoor, faults, accepted, descriptors, desc>>

AcceptAgain ==
    /\ mudPhase = "packets"
    /\ AcceptDoorman
    /\ toDoor' = toDoor \o <<Pkt("init", 0, 0, 0)>>
    /\ mudPhase' = "work"
    /\ UNCHANGED <<toMud, faults, accepted, descriptors, desc>>

\* doorman_lost: every descriptor is closed; nobody is there to be told.
DoormanLost ==
    /\ mudPhase = "packets"
    /\ \/ /\ mudEnd = "orphan"
          /\ toMud = <<>>
          /\ UNCHANGED faults
       \/ /\ mudEnd = "linked"   \* a short read
          /\ toMud # <<>>
          /\ faults < MaxFaults
          /\ faults' = faults + 1
    /\ MudDropsLink
    /\ desc' = CloseDescriptors(descriptors)
    /\ mudPhase' = "work"
    /\ UNCHANGED <<toDoor, accepted, descriptors>>

\* The reselect finds nothing more to read.
EndPackets ==
    /\ mudPhase = "packets"
    /\ mudEnd = "linked"
    /\ toMud = <<>>
    /\ mudPhase' = "work"
    /\ UNCHANGED <<linkVars, descriptors, desc>>

Receives(type) ==
    /\ mudPhase = "packets"
    /\ mudEnd # "closed"
    /\ toMud # <<>>
    /\ Head(toMud).type = type
    /\ toMud' = Tail(toMud)
    /\ UNCHANGED <<doorEnd, mudEnd, faults, accepted, mudPhase>>

\* DescriptorList::create refuses a channel it still has, closed or not.
CreateDescriptor(c, state, who) ==
    /\ descriptors' = descriptors \cup {c}
    /\ desc' = [desc EXCEPT ![c] = [conn |-> Head(toMud).conn, state |-> state,
                                    host |-> 0, who |-> who]]

ReceiveConnect ==
    /\ Receives("connect")
    /\ LET c == Head(toMud).channel
       IN IF c \in descriptors
          THEN UNCHANGED <<descriptors, desc>>
          ELSE CreateDescriptor(c, "lobby", Head(toMud).conn)
    /\ UNCHANGED toDoor

\* The lobby is gone through at once, with the character's name for a password.
\* What comes of it: still in the lobby (an unknown or illegal name; or, echo
\* switched off and on, a character that is playing already), refused
\* (wizlocked, denied, banned, or found link-dead), or playing.
ReconnectOutcomes(c, p) ==
    LET From(type) == Pkt(type, c, p.conn, IF type = "authorized" THEN p.who ELSE 0)
        echoes == <<From("echo"), From("echo")>>
    IN { [state |-> "lobby",   says |-> <<>>],
         [state |-> "lobby",   says |-> echoes],
         [state |-> "closed",  says |-> <<From("message"), From("disconnect")>>],
         [state |-> "closed",  says |-> echoes \o <<From("message"), From("disconnect")>>],
         [state |-> "playing", says |-> echoes \o <<From("authorized")>>] }

ReceiveReconnect ==
    /\ Receives("reconnect")
    /\ LET p == Head(toMud)
       IN IF p.channel \in descriptors
          THEN UNCHANGED <<toDoor, descriptors, desc>>
          ELSE \E outcome \in ReconnectOutcomes(p.channel, p) :
                  /\ CreateDescriptor(p.channel, outcome.state, p.who)
                  /\ MudWrites(outcome.says)

ReceiveDisconnectUnclosed ==   \* mutant: acknowledged, but left open
    /\ Receives("disconnect")
    /\ IF Head(toMud).channel \in descriptors
       THEN MudWrites(<<ToDoor("ack", Head(toMud).channel)>>)
       ELSE UNCHANGED toDoor
    /\ UNCHANGED <<descriptors, desc>>

\* A descriptor that is closed but not reaped yet is closed, and acknowledged,
\* once more: its state is overwritten before close() looks at it.
ReceiveDisconnect ==
    /\ Receives("disconnect")
    /\ LET c == Head(toMud).channel
       IN IF c \in descriptors
          THEN /\ desc' = CloseDescriptors({c})
               /\ MudWrites(<<ToDoor("ack", c)>>)
          ELSE UNCHANGED <<toDoor, desc>>
    /\ UNCHANGED descriptors

ReceiveInfo ==
    /\ Receives("info")
    /\ LET c == Head(toMud).channel
       IN desc' = IF c \in descriptors
                  THEN [desc EXCEPT ![c].host = Head(toMud).conn]
                  ELSE desc
    /\ UNCHANGED <<toDoor, descriptors>>

\* read_from_descriptor queues the line for the descriptor.
ReceiveMessage ==
    /\ Receives("message")
    /\ UNCHANGED <<toDoor, descriptors, desc>>

ReceivePacket ==
    \/ ReceiveConnect \/ ReceiveReconnect \/ ReceiveDisconnect
    \/ ReceiveInfo \/ ReceiveMessage

-----------------------------------------------------------------------------
(***************************************************************************)
(* Phase "work".                                                           *)
(***************************************************************************)
Works(c) ==
    /\ mudPhase = "work"
    /\ c \in Alive
    /\ UNCHANGED <<toMud, doorEnd, mudEnd, faults, accepted, mudPhase, descriptors>>

\* nanny reaches the game: doorman is told who the client is.
Login(c) ==
    /\ Works(c)
    /\ desc[c].state = "lobby"
    /\ desc' = [desc EXCEPT ![c].state = "playing"]
    /\ MudWrites(<<ToDoor("authorized", c)>>)

\* check_reconnect: the character is in the game already, without a link.  It
\* is taken over, and doorman is not told.
TakeOverLinkDead(c) ==
    /\ Works(c)
    /\ desc[c].state = "lobby"
    /\ desc' = [desc EXCEPT ![c].state = "playing"]
    /\ UNCHANGED toDoor

\* nanny asks for, or has got, a password.
SetEcho(c) ==
    /\ Works(c)
    /\ desc[c].state = "lobby"
    /\ Len(toDoor) < MaxQueue
    /\ MudWrites(<<ToDoor("echo", c)>>)
    /\ UNCHANGED desc

\* process_output; a descriptor whose output cannot be written is closed.
Output(c) ==
    /\ Works(c)
    /\ Len(toDoor) < MaxQueue
    /\ MudWrites(<<ToDoor("message", c)>>)
    /\ desc' = IF mudEnd = "linked" THEN desc ELSE CloseDescriptors({c})

\* Quitting, a lobby timeout, a refusal, another login: Descriptor::close.
CloseDescriptor(c) ==
    /\ Works(c)
    /\ desc' = CloseDescriptors({c})
    /\ MudWrites(<<ToDoor("disconnect", c)>>)

\* DescriptorList::reap_closed.
EndWork ==
    /\ mudPhase = "work"
    /\ mudPhase' = "packets"
    /\ descriptors' = Alive
    /\ desc' = [c \in Ids |-> IF c \in Alive THEN desc[c] ELSE NoDescriptor]
    /\ UNCHANGED linkVars

\* What the MUD's loop does by itself once the process has been started.
MudLoops ==
    \/ BootAccept \/ BootDone \/ AcceptAgain
    \/ (mudEnd = "orphan" /\ DoormanLost)
    \/ EndPackets \/ ReceivePacket \/ EndWork

MudNext ==
    \/ MudStart \/ MudStops \/ MudShutdown
    \/ MudLoops \/ DoormanLost
    \/ \E c \in Ids : \/ Login(c) \/ TakeOverLinkDead(c)
                      \/ SetEcho(c) \/ Output(c) \/ CloseDescriptor(c)
=============================================================================
