------------------------------ MODULE Doorman ------------------------------
(***************************************************************************)
(* The doorman process (src/doorman): it accepts telnet clients, gives     *)
(* each a channel number, relays lines to the MUD and the MUD's packets to *)
(* the clients, and keeps the clients while the MUD is away.               *)
(*                                                                         *)
(* Doorman is one thread running Doorman::poll for ever.  "phase" is the   *)
(* part of an iteration it is in: "mud" (Xania::poll, then at most one     *)
(* packet of the MUD), "accept" (at most one new client), "channels" (the  *)
(* clients' sockets, then remove_dead_channels).  The MUD and the clients  *)
(* move between any two steps.  "exited": an exception reached main().     *)
(***************************************************************************)
EXTENDS DoormanProtocol, Functions

VARIABLES
    phase,
    nextId,            \* IdAllocator::next_id_
    releasedIds,       \* IdAllocator::released_ids_, a stack
    channels,          \* keys of Doorman::channels_
    chan,              \* the Channel of each key
    channelsToRemove,  \* Doorman::channels_to_remove_
    mudState,          \* Xania::state_
    idsKnownToMud      \* Xania::ids_known_to_mud_

poolVars == <<nextId, releasedIds>>
doormanVars == <<phase, nextId, releasedIds, channels, chan,
                 channelsToRemove, mudState, idsKnownToMud>>

\* "auth" is auth_char_name_; "broken" says that writes to the client fail.
Channel == [conn : Conns, open : BOOLEAN, connected : BOOLEAN,
            auth : Conns, broken : BOOLEAN]

NoChannel == [conn |-> 0, open |-> FALSE, connected |-> FALSE,
              auth |-> 0, broken |-> FALSE]

DoormanTypeOK ==
    /\ phase \in {"mud", "accept", "channels", "exited"}
    /\ nextId \in Nat
    /\ releasedIds \in Seq(Ids)
    /\ channels \subseteq Ids
    /\ chan \in [Ids -> Channel]
    /\ channelsToRemove \subseteq Ids
    /\ mudState \in {"Disconnected", "ConnectedAwaitingInit", "Connected"}
    /\ idsKnownToMud \subseteq Ids

DoormanInit ==
    /\ phase = "mud"
    /\ nextId = 0
    /\ releasedIds = <<>>
    /\ channels = {}
    /\ chan = [c \in Ids |-> NoChannel]
    /\ channelsToRemove = {}
    /\ mudState = "Disconnected"
    /\ idsKnownToMud = {}

-----------------------------------------------------------------------------
(***************************************************************************)
(* Channel numbers.  A Reservation is shared by the Channel and, if the    *)
(* MUD was told of it, by ids_known_to_mud_; the number goes back on the   *)
(* stack when the last of them drops it.  Hash maps drop several in any    *)
(* order.                                                                  *)
(***************************************************************************)
HeldByChannels == channels   \* mutant: the MUD's knowledge reserves nothing

Held == channels \cup idsKnownToMud

Orderings(S) == Bijection(1 .. Cardinality(S), S)

ReleaseUnheld ==
    \E order \in Orderings(Held \ Held') : releasedIds' = releasedIds \o order

\* The number reserve() returns, and the pool it leaves.
PreIncrementedId ==          \* mutant: ++next_id_ for next_id_++
    IF releasedIds = <<>> THEN nextId + 1 ELSE releasedIds[Len(releasedIds)]

ReservedId == IF releasedIds = <<>> THEN nextId ELSE releasedIds[Len(releasedIds)]

ReserveWithoutPop ==         \* mutant: no pop_back()
    nextId' = (IF releasedIds = <<>> THEN nextId + 1 ELSE nextId) /\ UNCHANGED releasedIds

ReserveAgain ==              \* mutant: next_id_ for next_id_++
    IF releasedIds = <<>>
    THEN UNCHANGED poolVars
    ELSE /\ releasedIds' = SubSeq(releasedIds, 1, Len(releasedIds) - 1)
         /\ UNCHANGED nextId

Reserve ==
    IF releasedIds = <<>>
    THEN nextId' = nextId + 1 /\ UNCHANGED releasedIds
    ELSE /\ releasedIds' = SubSeq(releasedIds, 1, Len(releasedIds) - 1)
         /\ UNCHANGED nextId

-----------------------------------------------------------------------------
OpenChannels == {c \in channels : chan[c].open}

BrokenChannels == {c \in OpenChannels : chan[c].broken}

ToMud(type, c) == Pkt(type, c, chan[c].conn, 0)

\* Xania::send_to_mud drops what is written before the MUD has booted, and
\* raises on a dead fd.
SendRaises == mudState = "Connected" /\ doorEnd # "linked"

Sends(ps) ==
    toMud' = IF mudState = "Connected" THEN toMud \o ps ELSE toMud

ConnectPackets(c) ==
    << IF chan[c].auth # 0
       THEN Pkt("reconnect", c, chan[c].conn, chan[c].auth)
       ELSE ToMud("connect", c),
       ToMud("info", c) >>

\* Xania::send_connect, to a MUD that has booted: the numbers in S are known to it.
SentConnectUnrecorded(S) == idsKnownToMud   \* mutant: no emplace

SentConnect(S) == idsKnownToMud \cup S

\* A new Channel.
AcceptedLate(up) ==          \* mutant: the constructor sends no connect packet
    [NoChannel EXCEPT !.conn = accepted + 1, !.open = TRUE]

Accepted(up) ==
    [NoChannel EXCEPT !.conn = accepted + 1, !.open = TRUE, !.connected = up]

\* An exception nobody catches ends the process: every client is dropped.
Exits ==
    /\ phase' = "exited"
    /\ nextId' = 0
    /\ releasedIds' = <<>>
    /\ channels' = {}
    /\ chan' = [c \in Ids |-> NoChannel]
    /\ channelsToRemove' = {}
    /\ mudState' = "Disconnected"
    /\ idsKnownToMud' = {}
    /\ DoormanDropsLink
    /\ UNCHANGED <<toMud, faults, accepted>>

\* Channel::close for a set of channels, but for what it writes to the MUD.
Closed(S) == [c \in Ids |-> IF c \in S THEN [chan[c] EXCEPT !.open = FALSE] ELSE chan[c]]

-----------------------------------------------------------------------------
(***************************************************************************)
(* Phase "mud".                                                            *)
(***************************************************************************)
MudReadable == doorEnd = "orphan" \/ (doorEnd = "linked" /\ toDoor # <<>>)

\* Nothing to read.  A failed or not yet due connection attempt only writes
\* to the clients, and ignores their errors.
PollIdle ==
    /\ phase = "mud"
    /\ ~MudReadable
    /\ phase' = "accept"
    /\ UNCHANGED <<linkVars, nextId, releasedIds, channels, chan,
                   channelsToRemove, mudState, idsKnownToMud>>

\* Xania::try_connect when the MUD's socket accepts it.  The broadcast closes
\* the clients it cannot write to.
TryConnect(mudListening) ==
    /\ phase = "mud"
    /\ mudState = "Disconnected"
    /\ mudListening
    /\ doorEnd' = "pending"
    /\ mudState' = "ConnectedAwaitingInit"
    /\ chan' = Closed(BrokenChannels)
    /\ channelsToRemove' = channelsToRemove \cup BrokenChannels
    /\ UNCHANGED <<toMud, toDoor, mudEnd, faults, accepted, phase, nextId,
                   releasedIds, channels, idsKnownToMud>>

\* Every channel after Xania::close: the broadcast closes those it cannot
\* write to, and all are marked disconnected.
ChannelsStillConnected == Closed(BrokenChannels)   \* mutant: no mark_disconnected

ChannelsDisconnected ==
    [c \in Ids |-> IF c \in channels
                   THEN [Closed(BrokenChannels)[c] EXCEPT !.connected = FALSE]
                   ELSE chan[c]]

\* Xania::close: the numbers the MUD knew are forgotten with it.
CloseMud ==
    /\ DoormanDropsLink
    /\ mudState' = "Disconnected"
    /\ idsKnownToMud' = {}
    /\ channelsToRemove' = channelsToRemove \cup BrokenChannels
    /\ chan' = ChannelsDisconnected
    /\ phase' = "accept"
    /\ UNCHANGED <<toMud, accepted, nextId, channels>>
    /\ ReleaseUnheld

\* process_mud_message finds end of file.
LoseMud ==
    /\ phase = "mud"
    /\ doorEnd = "orphan"
    /\ toDoor = <<>>
    /\ CloseMud
    /\ UNCHANGED faults

\* Fd::read_all treats a short read as an error.
TruncatedRead ==
    /\ phase = "mud"
    /\ doorEnd = "linked"
    /\ toDoor # <<>>
    /\ faults < MaxFaults
    /\ faults' = faults + 1
    /\ CloseMud

\* Reading a packet p; every handler below starts with it.
Reads(type) ==
    /\ phase = "mud"
    /\ doorEnd \in {"linked", "orphan"}
    /\ toDoor # <<>>
    /\ Head(toDoor).type = type

\* What a handler that neither closes the link nor exits leaves.
Consumes ==
    /\ toDoor' = Tail(toDoor)
    /\ phase' = "accept"
    /\ UNCHANGED <<doorEnd, mudEnd, faults, accepted, nextId>>

\* handle_init for a doorman that waits for it: tell the MUD of everyone who
\* has been waiting.  Only Xania::send_connect remembers a number as known to
\* the MUD, not a RECONNECT.  A write that fails is nobody's to catch.
ConnectEveryone ==
    \/ /\ doorEnd # "linked"
       /\ OpenChannels # {}
       /\ Exits
    \/ /\ doorEnd = "linked" \/ OpenChannels = {}
       /\ Consumes
       /\ mudState' = "Connected"
       /\ chan' = [c \in Ids |-> [chan[c] EXCEPT !.connected = @ \/ c \in OpenChannels]]
       /\ idsKnownToMud' = SentConnect({c \in OpenChannels : chan[c].auth = 0})
       /\ \E order \in Orderings(OpenChannels) :
             toMud' = toMud \o [i \in 1 .. 2 * Cardinality(OpenChannels) |->
                                  ConnectPackets(order[(i + 1) \div 2])[2 - (i % 2)]]
       /\ UNCHANGED <<channels, channelsToRemove, releasedIds>>

\* INIT when doorman does not expect it is an error of the MUD's.
HandleInit ==
    /\ Reads("init")
    /\ IF mudState = "ConnectedAwaitingInit"
       THEN ConnectEveryone
       ELSE CloseMud /\ UNCHANGED faults

\* MESSAGE and GO_AHEAD are written to the client.  When that fails,
\* handle_channel_message sends DISCONNECT and then closes the channel, which
\* sends it once more if the channel is connected.
HandleMessage ==
    /\ Reads("message")
    /\ LET c == Head(toDoor).channel
           again == IF chan[c].connected THEN <<ToMud("disconnect", c)>> ELSE <<>>
       IN \/ /\ c \notin BrokenChannels
             /\ Consumes
             /\ UNCHANGED <<toMud, releasedIds, channels, chan, channelsToRemove,
                            mudState, idsKnownToMud>>
          \/ /\ c \in BrokenChannels
             /\ SendRaises
             /\ Exits
          \/ /\ c \in BrokenChannels
             /\ ~SendRaises
             /\ Consumes
             /\ Sends(<<ToMud("disconnect", c)>> \o again)
             /\ chan' = Closed({c})
             /\ channelsToRemove' = channelsToRemove \cup {c}
             /\ UNCHANGED <<releasedIds, channels, mudState, idsKnownToMud>>

\* ECHO_ON and ECHO_OFF write to the client too, with nobody to catch a failure.
HandleEcho ==
    /\ Reads("echo")
    /\ \/ /\ Head(toDoor).channel \in BrokenChannels
          /\ Exits
       \/ /\ Head(toDoor).channel \notin BrokenChannels
          /\ Consumes
          /\ UNCHANGED <<toMud, releasedIds, channels, chan, channelsToRemove,
                         mudState, idsKnownToMud>>

\* AUTHORIZED: remember who logged in, for the next MUD.
HandleAuthorized ==
    /\ Reads("authorized")
    /\ Consumes
    /\ LET p == Head(toDoor)
       IN chan' = IF p.channel \in channels
                  THEN [chan EXCEPT ![p.channel].auth = p.who]
                  ELSE chan
    /\ UNCHANGED <<toMud, releasedIds, channels, channelsToRemove, mudState,
                   idsKnownToMud>>

\* DISCONNECT: the MUD is done with the channel.  For a channel that is
\* already gone it is logged and dropped.
HandleDisconnect ==
    /\ Reads("disconnect")
    /\ Consumes
    /\ LET c == Head(toDoor).channel
       IN IF c \in channels
          THEN /\ chan' = [Closed({c}) EXCEPT ![c].connected = FALSE]
               /\ channelsToRemove' = channelsToRemove \cup {c}
               /\ idsKnownToMud' = idsKnownToMud \ {c}
          ELSE UNCHANGED <<chan, channelsToRemove, idsKnownToMud>>
    /\ UNCHANGED <<toMud, releasedIds, channels, mudState>>

\* DISCONNECT_ACK.
HandleAck ==
    /\ Reads("ack")
    /\ Consumes
    /\ idsKnownToMud' = idsKnownToMud \ {Head(toDoor).channel}
    /\ UNCHANGED <<toMud, channels, chan, channelsToRemove, mudState>>
    /\ ReleaseUnheld

ProcessMudMessage ==
    \/ HandleInit \/ HandleMessage \/ HandleEcho \/ HandleAuthorized
    \/ HandleDisconnect \/ HandleAck

-----------------------------------------------------------------------------
(***************************************************************************)
(* Phase "accept".                                                         *)
(***************************************************************************)
\* No connection is waiting, or there are MaxChannels channels already and the
\* new one is told so and dropped.
AcceptNone ==
    /\ phase = "accept"
    /\ phase' = "channels"
    /\ UNCHANGED <<linkVars, nextId, releasedIds, channels, chan,
                   channelsToRemove, mudState, idsKnownToMud>>

AcceptsOne ==
    /\ phase = "accept"
    /\ accepted < MaxAccepts
    /\ Cardinality(channels) < MaxChannels
    /\ accepted' = accepted + 1
    /\ phase' = "channels"
    /\ UNCHANGED <<toDoor, doorEnd, mudEnd, faults, channelsToRemove, mudState>>

\* The Channel constructor tells a MUD that is up of the client at once.
AcceptNew ==
    /\ AcceptsOne
    /\ ~SendRaises
    /\ LET id == ReservedId
           up == mudState = "Connected"
       IN /\ Reserve
          /\ channels' = channels \cup {id}
          /\ chan' = [chan EXCEPT ![id] = Accepted(up)]
          /\ idsKnownToMud' = IF up THEN SentConnect({id}) ELSE idsKnownToMud
          /\ Sends(<<Pkt("connect", id, accepted + 1, 0), Pkt("info", id, accepted + 1, 0)>>)

\* The constructor raises: the client is gone already, or the MUD is.  The
\* number is reserved and released, unless the MUD died between CONNECT and
\* INFO: then ids_known_to_mud_ keeps it.
AcceptFails ==
    /\ AcceptsOne
    /\ ClientFaults \/ SendRaises
    /\ UNCHANGED <<toMud, channels, chan>>
    /\ \/ /\ UNCHANGED idsKnownToMud
          /\ IF releasedIds = <<>>
             THEN nextId' = nextId + 1 /\ releasedIds' = <<nextId>>
             ELSE UNCHANGED poolVars
       \/ /\ SendRaises
          /\ Reserve
          /\ idsKnownToMud' = SentConnect({ReservedId})

-----------------------------------------------------------------------------
(***************************************************************************)
(* Phase "channels".                                                       *)
(***************************************************************************)
Serves(c) ==
    /\ phase = "channels"
    /\ c \in OpenChannels

\* End of file, a read error, an exception on the fd or too much data:
\* Channel::close.  Its DISCONNECT raises too if the MUD is dead, and nothing
\* catches that.
ClientGone(c) ==
    /\ Serves(c)
    /\ \/ /\ SendRaises /\ chan[c].connected
          /\ Exits
       \/ /\ ~(SendRaises /\ chan[c].connected)
          /\ Sends(IF chan[c].connected THEN <<ToMud("disconnect", c)>> ELSE <<>>)
          /\ chan' = Closed({c})
          /\ channelsToRemove' = channelsToRemove \cup {c}
          /\ UNCHANGED <<toDoor, doorEnd, mudEnd, faults, accepted, phase, nextId,
                         releasedIds, channels, mudState, idsKnownToMud>>

\* A line (MESSAGE) or a terminal type (INFO) from a client.  A write to a dead
\* MUD raises, which on_data_available answers with close: ClientGone.  While the
\* MUD is not connected both are dropped.
ClientData(c, type) ==
    /\ Serves(c)
    /\ ~chan[c].broken
    /\ mudState = "Connected"
    /\ \/ /\ SendRaises
          /\ ClientGone(c)
       \/ /\ ~SendRaises
          /\ Len(toMud) < MaxQueue
          /\ Sends(<<ToMud(type, c)>>)
          /\ UNCHANGED <<toDoor, doorEnd, mudEnd, faults, accepted, doormanVars>>

\* Doorman::remove_dead_channels.
EndPoll ==
    /\ phase = "channels"
    /\ phase' = "mud"
    /\ channels' = channels \ channelsToRemove
    /\ chan' = [c \in Ids |-> IF c \in channelsToRemove THEN NoChannel ELSE chan[c]]
    /\ channelsToRemove' = {}
    /\ UNCHANGED <<linkVars, nextId, mudState, idsKnownToMud>>
    /\ ReleaseUnheld

\* Environment: a client resets its connection.
ClientBreaks(c) ==
    /\ ClientFaults
    /\ c \in OpenChannels
    /\ ~chan[c].broken
    /\ chan' = [chan EXCEPT ![c].broken = TRUE]
    /\ UNCHANGED <<linkVars, phase, nextId, releasedIds, channels,
                   channelsToRemove, mudState, idsKnownToMud>>

\* What doorman's loop does by itself.
DoormanPolls ==
    \/ PollIdle \/ LoseMud \/ ProcessMudMessage \/ AcceptNone \/ EndPoll

DoormanNext ==
    \/ DoormanPolls
    \/ TruncatedRead
    \/ AcceptNew \/ AcceptFails
    \/ \E c \in Ids : \/ ClientData(c, "message") \/ ClientData(c, "info")
                      \/ ClientGone(c) \/ ClientBreaks(c)
=============================================================================
