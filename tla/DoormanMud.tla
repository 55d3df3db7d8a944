---------------------------- MODULE DoormanMud ----------------------------
(***************************************************************************)
(* Doorman and the MUD joined by their stream: what the two processes      *)
(* promise the clients between them.                                       *)
(***************************************************************************)
EXTENDS Doorman, MudLink

vars == <<linkVars, doormanVars, mudVars>>

TypeOK == LinkTypeOK /\ DoormanTypeOK /\ MudTypeOK

Init == LinkInit /\ DoormanInit /\ MudInit

Next ==
    \/ DoormanNext /\ UNCHANGED mudVars
    \/ TryConnect(MudListening) /\ UNCHANGED mudVars
    \/ MudNext /\ UNCHANGED doormanVars

Spec == Init /\ [][Next]_vars

InFlight(q, type, c) == \E i \in DOMAIN q : q[i].type = type /\ q[i].channel = c

(***************************************************************************)
(* Fairness: the two loops go on by themselves; a MUD that has ended is    *)
(* started again (start-mud.sh); doorman tries to connect every ten        *)
(* seconds, and when a MUD listens every attempt succeeds, though many     *)
(* iterations of Doorman::poll make no attempt.  Nothing is assumed of     *)
(* clients, players or faults.                                             *)
(***************************************************************************)
Fairness ==
    /\ WF_vars(DoormanPolls /\ UNCHANGED mudVars)
    /\ WF_vars((MudLoops \/ MudStart) /\ UNCHANGED doormanVars)
    /\ SF_vars(TryConnect(MudListening) /\ UNCHANGED mudVars)

FairSpec == Spec /\ Fairness

-----------------------------------------------------------------------------
(***************************************************************************)
(* The implementation of ClientRelay: a client is present while a channel  *)
(* with an open socket is its own, and connected when that channel has     *)
(* sent the MUD a connect packet.                                          *)
(***************************************************************************)
ChannelOf(k) == {c \in OpenChannels : chan[c].conn = k}

Stage(k) ==
    CASE k > accepted                               -> "absent"
      [] \E c \in ChannelOf(k) : chan[c].connected  -> "connected"
      [] \E c \in ChannelOf(k) : ~chan[c].connected -> "waiting"
      [] OTHER                                      -> "gone"

Up == mudState = "Connected"

Stages == [k \in 1 .. MaxAccepts |-> Stage(k)]

Relay == INSTANCE ClientRelay WITH
    NumClients <- MaxAccepts,
    up         <- Up,
    client     <- Stages

\* Doorman is a relay: over any sequence of MUD stops, lost links, refusals and
\* failing sockets each client keeps the one stage the promise allows it.
\* (Channel::send_connect_packet, Channel::close, Xania::close, handle_init.)
ImplementsRelay == Relay!RelaySpec

\* A client that waits for a MUD gets one in the end, or has gone
\* ("... maintain connections, and reconnect automatically", main.cpp:8).
WaitingEnds == Relay!Reconnects

-----------------------------------------------------------------------------
(***************************************************************************)
(* Channel numbers.                                                        *)
(***************************************************************************)
\* IdAllocator: a number that was ever handed out is held by a channel or kept
\* for the MUD, or it is on the stack of released numbers, once, and not both.
PoolPartition ==
    /\ nextId <= accepted
    /\ \A i, j \in DOMAIN releasedIds : releasedIds[i] = releasedIds[j] => i = j
    /\ \A i \in DOMAIN releasedIds : releasedIds[i] \notin Held
    /\ Held \cup Range(releasedIds) = 0 .. nextId - 1

\* accept_new_connection's "This should be impossible!": a new client never
\* gets a number that a channel has or that the MUD may still know.
NumbersNotShared ==
    [][\A c \in Ids : chan'[c].conn \notin {0, chan[c].conn} => c \notin Held]_vars

\* Why ids_known_to_mud_ exists: as long as the MUD has an open descriptor for
\* a number, doorman keeps that number out of the pool.
MudNumbersHeld ==
    mudEnd = "linked" => Alive \subseteq Held

\* A number kept only for the MUD's sake is one the MUD still has to release:
\* our DISCONNECT is on its way to it or its DISCONNECT_ACK on the way back.
NoLeakedNumber ==
    doorEnd = "linked" =>
        \A c \in idsKnownToMud \ channels :
            InFlight(toMud, "disconnect", c) \/ InFlight(toDoor, "ack", c)

-----------------------------------------------------------------------------
(***************************************************************************)
(* What each process believes of the other.                                *)
(***************************************************************************)
\* connected_ is right: no channel believes in a MUD that is gone, and none
\* with an open socket was left out when the MUD came up.
ConnectedIffUp ==
    \A c \in channels :
        /\ chan[c].connected => mudState = "Connected"
        /\ chan[c].open /\ mudState = "Connected" => chan[c].connected

\* handle_init's "Got init packet when not expecting it!" never happens, even
\* when MUDs come and go while INITs and old packets are under way.
InitExpected ==
    phase = "mud" /\ toDoor # <<>> /\ Head(toDoor).type = "init"
        => mudState = "ConnectedAwaitingInit"

\* A connected client is not stranded: the MUD has a descriptor for it, or will
\* when it has read what is on its way, or has already sent it away.
NoStrandedClient ==
    doorEnd = "linked" =>
        \A c \in OpenChannels :
            chan[c].connected =>
                \/ c \in Alive /\ desc[c].conn = chan[c].conn
                \/ InFlight(toMud, "connect", c)
                \/ InFlight(toMud, "reconnect", c)
                \/ InFlight(toDoor, "disconnect", c)

\* Doorman knows who is playing, or is being told: what it needs to log the
\* player in to the next MUD (nanny, "tell doorman we logged in OK").
PlayersKnown ==
    doorEnd = "linked" =>
        \A c \in OpenChannels :
            /\ c \in Alive
            /\ desc[c].conn = chan[c].conn
            /\ desc[c].state = "playing"
            => chan[c].auth # 0 \/ InFlight(toDoor, "authorized", c)

-----------------------------------------------------------------------------
(***************************************************************************)
(* Nothing reaches the wrong party, although numbers are used again and    *)
(* packets for their former owners may still be under way.                 *)
(***************************************************************************)
\* find_channel_by_id: a packet the MUD wrote for a client's connection is
\* handled by that connection's channel, or by none.
DeliveredToOwner ==
    phase = "mud" /\ toDoor # <<>> =>
        LET p == Head(toDoor)
        IN p.type \notin {"ack", "init"} /\ p.channel \in channels
              => chan[p.channel].conn = p.conn

\* The character doorman would log a client in as is its own (on_auth), and
\* the host name by which the MUD bans and logs a descriptor is that of the
\* descriptor's own client (PACKET_INFO).
IdentityIsOwn ==
    /\ \A c \in channels : chan[c].auth \in {0, chan[c].conn}
    /\ \A c \in Alive : desc[c].host \in {0, desc[c].conn}

\* find_by_channel: a line, a host name or a DISCONNECT from a client is taken
\* for the descriptor that was made for it.
InputFromOwner ==
    mudPhase = "packets" /\ toMud # <<>> =>
        LET p == Head(toMud)
        IN p.type \in {"message", "info", "disconnect"} /\ p.channel \in Alive
              => desc[p.channel].conn = p.conn

-----------------------------------------------------------------------------
\* doorman/main.cpp: "Loop forever", and SIGPIPE is ignored to keep doorman
\* from crashing "if the MUD goes down, or if a connection goes funny".
DoormanStaysUp == phase # "exited"
=============================================================================
