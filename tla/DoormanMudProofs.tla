-------------------------- MODULE DoormanMudProofs --------------------------
(***************************************************************************)
(* What holds of doorman and the MUD for any number of clients, channels   *)
(* and faults: the types, the partition of the channel numbers, and what   *)
(* follows from it; that INIT is always expected; that the two implement   *)
(* ClientRelay; and that nothing reaches the wrong party.                  *)
(*                                                                         *)
(* TypeOK and PoolPartition are proved together.  That the channel numbers *)
(* stay within Ids is not a matter of types: a number is at most the       *)
(* number of clients accepted before, which PoolPartition says.            *)
(***************************************************************************)
EXTENDS DoormanMud, TLAPS, FiniteSetTheorems, SequenceTheorems

IInv == TypeOK /\ PoolPartition

-----------------------------------------------------------------------------
(***************************************************************************)
(* Sets of channel numbers and their orderings.                            *)
(***************************************************************************)

\* Sets of channel numbers are finite, so that "in any order" means something
\* (the hash maps of doorman and the MUD).
LEMMA IdsFinite ==
    ASSUME NEW S, S \subseteq Ids
    PROVE  IsFiniteSet(S) /\ Cardinality(S) \in Nat
<1>1. MaxAccepts - 1 \in Int
  BY BoundsAssumption
<1>2. IsFiniteSet(Ids)
  BY <1>1, FS_Interval DEF Ids
<1> QED
  BY <1>2, FS_Subset, FS_CardinalityType

\* An ordering of a set of numbers is a sequence of just these, each once.
LEMMA OrderingProperties ==
    ASSUME NEW S, S \subseteq Ids, NEW order \in Orderings(S)
    PROVE  /\ order \in [1 .. Cardinality(S) -> S]
           /\ order \in Seq(S)
           /\ Len(order) = Cardinality(S)
           /\ \A i, j \in 1 .. Len(order) : order[i] = order[j] => i = j
           /\ \A c \in S : \E i \in 1 .. Len(order) : order[i] = c
<1>1. Cardinality(S) \in Nat
  BY IdsFinite
<1>2. /\ order \in [1 .. Cardinality(S) -> S]
      /\ IsInjective(order)
      /\ \A c \in S : \E i \in 1 .. Cardinality(S) : order[i] = c
  BY DEF Orderings, Bijection, Injection, Surjection
<1>3. order \in Seq(S) /\ Len(order) = Cardinality(S)
  BY <1>1, <1>2, SeqDef
<1> QED
  BY <1>1, <1>2, <1>3 DEF IsInjective

-----------------------------------------------------------------------------
(***************************************************************************)
(* Stacks of numbers: what pushing and popping do to what is on them.      *)
(***************************************************************************)
Distinct(s) == \A i, j \in DOMAIN s : s[i] = s[j] => i = j

\* The range of a sequence is a matter of the indices 1 to its length.
LEMMA SeqFacts ==
    ASSUME NEW T, NEW s \in Seq(T)
    PROVE  /\ Len(s) \in Nat
           /\ DOMAIN s = 1 .. Len(s)
           /\ \A i \in 1 .. Len(s) : s[i] \in T /\ s[i] \in Range(s)
           /\ \A x \in Range(s) : \E i \in 1 .. Len(s) : s[i] = x
           /\ Range(s) \subseteq T
<1>1. Len(s) \in Nat /\ DOMAIN s = 1 .. Len(s) /\ \A i \in 1 .. Len(s) : s[i] \in T
  BY LenProperties, ElementOfSeq
<1> QED
  BY <1>1 DEF Range

\* Pushing what is not there yet.
LEMMA PushDistinct ==
    ASSUME NEW T, NEW s \in Seq(T), NEW t \in Seq(T),
           Distinct(s), Distinct(t), Range(s) \cap Range(t) = {}
    PROVE  /\ s \o t \in Seq(T)
           /\ Distinct(s \o t)
           /\ Range(s \o t) = Range(s) \cup Range(t)
<1> DEFINE u == s \o t
           m == Len(s)
           n == Len(t)
<1>1. /\ m \in Nat /\ DOMAIN s = 1 .. m
      /\ n \in Nat /\ DOMAIN t = 1 .. n
  BY SeqFacts
<1>2. /\ u \in Seq(T)
      /\ DOMAIN u = 1 .. m + n
      /\ \A i \in 1 .. m : u[i] = s[i]
      /\ \A i \in 1 .. n : u[m + i] = t[i]
  <2>1. /\ u \in Seq(T)
        /\ Len(u) = m + n
        /\ \A i \in 1 .. m + n : u[i] = IF i <= m THEN s[i] ELSE t[i - m]
    BY ConcatProperties
  <2>2. DOMAIN u = 1 .. m + n
    BY <2>1, LenProperties
  <2>3. \A i \in 1 .. m : u[i] = s[i]
    BY <1>1, <2>1
  <2>4. ASSUME NEW i \in 1 .. n PROVE u[m + i] = t[i]
    <3>1. m + i \in 1 .. m + n /\ ~(m + i <= m) /\ (m + i) - m = i
      BY <1>1
    <3>2. u[m + i] = t[(m + i) - m]
      BY <2>1, <3>1
    <3> QED
      BY <3>1, <3>2
  <2> QED
    BY <2>1, <2>2, <2>3, <2>4
<1>3. \A i \in 1 .. m : s[i] \in Range(s)
  BY SeqFacts
<1>4. \A i \in 1 .. n : t[i] \in Range(t)
  BY SeqFacts
<1> HIDE DEF u, m, n
<1>5. \A i \in 1 .. m + n : i \in 1 .. m \/ \E k \in 1 .. n : i = m + k
  <2>1. ASSUME NEW i \in 1 .. m + n, i \notin 1 .. m
        PROVE  i - m \in 1 .. n /\ i = m + (i - m)
    BY <1>1, <2>1
  <2> QED
    BY <2>1
<1>6. Distinct(u)
  <2>1. SUFFICES ASSUME NEW i \in 1 .. m + n, NEW j \in 1 .. m + n, u[i] = u[j]
                 PROVE  i = j
    BY <1>2 DEF Distinct
  <2>2. CASE i \in 1 .. m /\ j \in 1 .. m
    BY <1>1, <1>2, <2>1, <2>2 DEF Distinct
  <2>3. ASSUME NEW k \in 1 .. n, NEW l \in 1 .. n, i = m + k, j = m + l
        PROVE  i = j
    <3>1. t[k] = t[l]
      BY <1>2, <2>1, <2>3
    <3>2. k = l
      BY <1>1, <3>1 DEF Distinct
    <3> QED
      BY <2>3, <3>2
  <2>4. ASSUME NEW k \in 1 .. n, i = m + k, j \in 1 .. m
        PROVE  FALSE
    BY <1>2, <1>3, <1>4, <2>1, <2>4
  <2>5. ASSUME NEW k \in 1 .. n, j = m + k, i \in 1 .. m
        PROVE  FALSE
    BY <1>2, <1>3, <1>4, <2>1, <2>5
  <2> QED
    BY <1>5, <2>2, <2>3, <2>4, <2>5
<1>7. Range(u) = Range(s) \cup Range(t)
  <2>1. ASSUME NEW x \in Range(s) PROVE x \in Range(u)
    <3>1. PICK i \in 1 .. m : s[i] = x
      BY <1>1 DEF Range
    <3>2. i \in DOMAIN u /\ u[i] = x
      BY <1>1, <1>2, <3>1
    <3> QED
      BY <3>2 DEF Range
  <2>2. ASSUME NEW x \in Range(t) PROVE x \in Range(u)
    <3>1. PICK i \in 1 .. n : t[i] = x
      BY <1>1 DEF Range
    <3>2. m + i \in DOMAIN u /\ u[m + i] = x
      BY <1>1, <1>2, <3>1
    <3> QED
      BY <3>2 DEF Range
  <2>3. ASSUME NEW x \in Range(u) PROVE x \in Range(s) \cup Range(t)
    <3>1. PICK i \in 1 .. m + n : u[i] = x
      BY <1>2 DEF Range
    <3> QED
      BY <1>2, <1>3, <1>4, <1>5, <3>1
  <2> QED
    BY <2>1, <2>2, <2>3
<1> QED
  BY <1>2, <1>6, <1>7 DEF u

\* Popping the top.
LEMMA PopDistinct ==
    ASSUME NEW T, NEW s \in Seq(T), s # <<>>, Distinct(s)
    PROVE  LET top == s[Len(s)]
               rest == SubSeq(s, 1, Len(s) - 1)
           IN /\ rest \in Seq(T)
              /\ Distinct(rest)
              /\ top \notin Range(rest)
              /\ Range(s) = Range(rest) \cup {top}
<1> DEFINE n == Len(s)
           u == SubSeq(s, 1, n - 1)
<1>1. n \in Nat \ {0} /\ DOMAIN s = 1 .. n /\ \A i \in 1 .. n : s[i] \in T
  BY SeqFacts, EmptySeq
<1>2. /\ u \in Seq(T)
      /\ DOMAIN u = 1 .. n - 1
      /\ \A i \in 1 .. n - 1 : u[i] = s[i]
  <2>1. u = [i \in 1 .. n - 1 |-> s[i]]
    <3>1. u = [i \in 1 .. (1 + (n - 1)) - 1 |-> s[(1 + i) - 1]]
      BY <1>1
    <3>2. (1 + (n - 1)) - 1 = n - 1 /\ \A i \in 1 .. n - 1 : (1 + i) - 1 = i
      BY <1>1
    <3> QED
      BY <1>1, <3>1, <3>2
  <2>2. n - 1 \in Nat /\ \A i \in 1 .. n - 1 : s[i] \in T
    BY <1>1
  <2> QED
    BY <2>1, <2>2, SeqDef
<1> HIDE DEF u, n
<1>3. 1 .. n = (1 .. n - 1) \cup {n} /\ n \notin 1 .. n - 1
  BY <1>1
<1>4. Distinct(u)
  BY <1>2, <1>1, <1>3 DEF Distinct
<1>5. s[n] \notin Range(u)
  BY <1>2, <1>1, <1>3 DEF Distinct, Range
<1>6. Range(s) = Range(u) \cup {s[n]}
  <2>1. Range(s) = {s[i] : i \in 1 .. n} /\ Range(u) = {u[i] : i \in 1 .. n - 1}
    BY <1>1, <1>2 DEF Range
  <2> QED
    BY <1>2, <1>3, <2>1
<1> QED
  BY <1>2, <1>4, <1>5, <1>6 DEF n, u

-----------------------------------------------------------------------------
(***************************************************************************)
(* The pool of channel numbers (IdAllocator).                              *)
(***************************************************************************)

\* What happens elsewhere leaves the pool as it is.
LEMMA PoolUnchanged ==
    ASSUME IInv, Held' = Held, UNCHANGED poolVars, accepted' \in Nat, accepted' >= accepted
    PROVE  PoolPartition'
BY DEF IInv, TypeOK, DoormanTypeOK, LinkTypeOK, PoolPartition, poolVars, Range

\* When holders drop numbers, exactly the numbers nobody holds any more are
\* pushed (ReservationObj's destructor).
LEMMA PoolReleases ==
    ASSUME IInv, Held' \subseteq Held, nextId' = nextId, accepted' = accepted, ReleaseUnheld
    PROVE  PoolPartition' /\ releasedIds' \in Seq(Ids)
<1> DEFINE S == Held \ Held'
<1>1. S \subseteq Ids
  BY DEF IInv, TypeOK, DoormanTypeOK, Held
<1>2. PICK order \in Orderings(S) : releasedIds' = releasedIds \o order
  BY DEF ReleaseUnheld
<1>3. order \in Seq(Ids) /\ Distinct(order) /\ Range(order) = S
  <2> HIDE DEF S
  <2>1. /\ order \in Seq(S)
        /\ \A i, j \in 1 .. Len(order) : order[i] = order[j] => i = j
        /\ \A c \in S : \E i \in 1 .. Len(order) : order[i] = c
    BY <1>1, OrderingProperties
  <2>2. DOMAIN order = 1 .. Len(order) /\ Range(order) \subseteq S
    BY <2>1, SeqFacts
  <2>3. order \in Seq(Ids)
    BY <1>1, <2>1, SeqMonotonic
  <2>4. S \subseteq Range(order)
    BY <2>1, <2>2 DEF Range
  <2> QED
    BY <2>1, <2>2, <2>3, <2>4 DEF Distinct
<1>4. /\ releasedIds \in Seq(Ids) /\ Distinct(releasedIds)
      /\ Range(releasedIds) \cap Held = {}
      /\ Held \cup Range(releasedIds) = 0 .. nextId - 1
      /\ nextId <= accepted
  BY DEF IInv, TypeOK, DoormanTypeOK, PoolPartition, Distinct, Range
<1>5. Range(releasedIds) \cap Range(order) = {}
  BY <1>3, <1>4
<1>6. /\ releasedIds' \in Seq(Ids)
      /\ Distinct(releasedIds')
      /\ Range(releasedIds') = Range(releasedIds) \cup S
  BY <1>2, <1>3, <1>4, <1>5, PushDistinct
<1>7. /\ Range(releasedIds') \cap Held' = {}
      /\ Held' \cup Range(releasedIds') = 0 .. nextId' - 1
  BY <1>4, <1>6
<1> HIDE DEF S
<1>8. \A i \in DOMAIN releasedIds' : releasedIds'[i] \in Range(releasedIds')
  BY DEF Range
<1> QED
  BY <1>4, <1>6, <1>7, <1>8 DEF PoolPartition, Distinct

\* A reservation gives a number that nobody holds and that is in range, and
\* leaves a pool that is partitioned again once the number is held
\* (IdAllocator::reserve).
LEMMA PoolReserves ==
    ASSUME IInv, Reserve, Held' = Held \cup {ReservedId},
           accepted' = accepted + 1, accepted < MaxAccepts
    PROVE  /\ PoolPartition'
           /\ ReservedId \in Ids
           /\ ReservedId \notin Held
           /\ nextId' \in Nat
           /\ releasedIds' \in Seq(Ids)
<1>1. /\ releasedIds \in Seq(Ids) /\ Distinct(releasedIds)
      /\ Range(releasedIds) \cap Held = {}
      /\ Held \cup Range(releasedIds) = 0 .. nextId - 1
      /\ nextId <= accepted
      /\ nextId \in Nat /\ accepted \in Nat /\ MaxAccepts \in Nat
  BY BoundsAssumption
     DEF IInv, TypeOK, DoormanTypeOK, LinkTypeOK, PoolPartition, Distinct, Range
<1>2. CASE releasedIds = <<>>
  <2>1. ReservedId = nextId /\ nextId' = nextId + 1 /\ releasedIds' = <<>>
    BY <1>2 DEF Reserve, ReservedId
  <2>2. Range(releasedIds) = {} /\ Range(releasedIds') = {} /\ DOMAIN releasedIds' = {}
    BY <1>2, <2>1 DEF Range
  <2>3. Held = 0 .. nextId - 1
    BY <1>1, <2>2
  <2>4. Held' = 0 .. nextId' - 1
    BY <1>1, <2>1, <2>3
  <2> QED
    BY <1>1, <2>1, <2>2, <2>3, <2>4 DEF PoolPartition, Ids
<1>3. CASE releasedIds # <<>>
  <2>1. /\ ReservedId = releasedIds[Len(releasedIds)]
        /\ nextId' = nextId
        /\ releasedIds' = SubSeq(releasedIds, 1, Len(releasedIds) - 1)
    BY <1>3 DEF Reserve, ReservedId
  <2>2. /\ releasedIds' \in Seq(Ids)
        /\ Distinct(releasedIds')
        /\ ReservedId \notin Range(releasedIds')
        /\ Range(releasedIds) = Range(releasedIds') \cup {ReservedId}
    BY <1>1, <1>3, <2>1, PopDistinct
  <2>3. Range(releasedIds) \subseteq Ids
    BY <1>1, SeqFacts
  <2>4. ReservedId \in Ids /\ ReservedId \notin Held
    BY <1>1, <2>2, <2>3
  <2>5. /\ Range(releasedIds') \cap Held' = {}
        /\ Held' \cup Range(releasedIds') = 0 .. nextId' - 1
    BY <1>1, <2>1, <2>2
  <2>6. \A i \in DOMAIN releasedIds' : releasedIds'[i] \in Range(releasedIds')
    BY DEF Range
  <2>7. nextId' <= accepted'
    BY <1>1, <2>1
  <2>8. PoolPartition'
    BY <2>2, <2>5, <2>6, <2>7 DEF PoolPartition, Distinct
  <2> QED
    BY <1>1, <2>1, <2>2, <2>4, <2>8
<1> QED
  BY <1>2, <1>3

-----------------------------------------------------------------------------
(***************************************************************************)
(* Packets, queues and channels have their types.                          *)
(***************************************************************************)

\* Packets, wherever they are written.
LEMMA PacketTyped ==
    ASSUME NEW type \in PacketTypes, NEW channel \in Ids, NEW conn \in Conns, NEW who \in Conns
    PROVE  Pkt(type, channel, conn, who) \in Packet
BY DEF Pkt, Packet

\* What either process writes about a channel or a descriptor of its own.
LEMMA OwnPackets ==
    ASSUME TypeOK, NEW c \in Ids, NEW type \in PacketTypes
    PROVE  /\ ToMud(type, c) \in Packet
           /\ ToDoor(type, c) \in Packet
           /\ ConnectPackets(c)[1] \in Packet /\ ConnectPackets(c)[2] \in Packet
<1>1. 0 \in Conns
  BY BoundsAssumption DEF Conns
<1>2. chan[c].conn \in Conns /\ chan[c].auth \in Conns
  BY DEF TypeOK, DoormanTypeOK, Channel
<1>3. desc[c].conn \in Conns /\ desc[c].who \in Conns
  BY DEF TypeOK, MudTypeOK, Descriptor
<1>4. \A t \in PacketTypes : ToMud(t, c) \in Packet
  BY <1>1, <1>2, PacketTyped DEF ToMud
<1>5. ToDoor(type, c) \in Packet
  BY <1>1, <1>3, PacketTyped DEF ToDoor
<1>6. Pkt("reconnect", c, chan[c].conn, chan[c].auth) \in Packet
  BY <1>2, PacketTyped DEF PacketTypes
<1>7. ToMud("connect", c) \in Packet /\ ToMud("info", c) \in Packet
  BY <1>4 DEF PacketTypes
<1> QED
  BY <1>4, <1>5, <1>6, <1>7 DEF ConnectPackets

\* Reading a queue's first packet.
LEMMA QueueRead ==
    ASSUME NEW q \in Seq(Packet), q # <<>>
    PROVE  /\ Tail(q) \in Seq(Packet)
           /\ Head(q) \in Packet
           /\ Head(q).channel \in Ids
           /\ Head(q).conn \in Conns
           /\ Head(q).who \in Conns
<1>1. Tail(q) \in Seq(Packet) /\ Head(q) \in Packet
  BY HeadTailProperties
<1> QED
  BY <1>1 DEF Packet

\* Writing up to three packets to a queue.
LEMMA QueueWrite ==
    ASSUME NEW q \in Seq(Packet), NEW a \in Packet, NEW b \in Packet, NEW d \in Packet
    PROVE  /\ q \o <<a>> \in Seq(Packet)
           /\ q \o <<a, b>> \in Seq(Packet)
           /\ q \o (<<a>> \o <<b>>) \in Seq(Packet)
           /\ q \o (<<a>> \o <<>>) \in Seq(Packet)
           /\ q \o <<>> \in Seq(Packet)
           /\ <<a, b>> \o <<d>> \in Seq(Packet)
           /\ <<a, b>> \o <<d, d>> \in Seq(Packet)
<1>1. <<a>> \in Seq(Packet) /\ <<b>> \in Seq(Packet) /\ <<d>> \in Seq(Packet)
      /\ <<a, b>> \in Seq(Packet) /\ <<d, d>> \in Seq(Packet) /\ <<>> \in Seq(Packet)
  OBVIOUS
<1>2. \A s, t \in Seq(Packet) : s \o t \in Seq(Packet)
  BY ConcatProperties
<1> QED
  BY <1>1, <1>2

\* Closing channels and descriptors, or forgetting them.
LEMMA ClosedTyped ==
    ASSUME TypeOK, NEW S
    PROVE  /\ Closed(S) \in [Ids -> Channel]
           /\ ChannelsDisconnected \in [Ids -> Channel]
           /\ CloseDescriptors(S) \in [Ids -> Descriptor]
           /\ NoChannel \in Channel
           /\ NoDescriptor \in Descriptor
           /\ BrokenChannels \subseteq Ids
           /\ OpenChannels \subseteq Ids
           /\ Alive \subseteq Ids
<1>1. chan \in [Ids -> Channel] /\ desc \in [Ids -> Descriptor] /\ 0 \in Conns
      /\ channels \subseteq Ids /\ descriptors \subseteq Ids
  BY BoundsAssumption DEF TypeOK, DoormanTypeOK, MudTypeOK, Conns
<1>2. \A T : Closed(T) \in [Ids -> Channel]
  BY <1>1 DEF Closed, Channel
<1>3. ChannelsDisconnected \in [Ids -> Channel]
  <2>1. \A c \in Ids : Closed(BrokenChannels)[c] \in Channel /\ chan[c] \in Channel
    BY <1>1, <1>2
  <2>2. \A r \in Channel : [r EXCEPT !.connected = FALSE] \in Channel
    BY DEF Channel
  <2> QED
    BY <2>1, <2>2 DEF ChannelsDisconnected
<1>4. CloseDescriptors(S) \in [Ids -> Descriptor]
  BY <1>1 DEF CloseDescriptors, Descriptor
<1>5. NoChannel \in Channel /\ NoDescriptor \in Descriptor
  BY <1>1 DEF NoChannel, Channel, NoDescriptor, Descriptor
<1>6. BrokenChannels \subseteq Ids /\ OpenChannels \subseteq Ids /\ Alive \subseteq Ids
  BY <1>1 DEF BrokenChannels, OpenChannels, Alive
<1> QED
  BY <1>2, <1>3, <1>4, <1>5, <1>6

-----------------------------------------------------------------------------
(***************************************************************************)
(* The MUD's steps keep the types, and leave the pool alone.               *)
(***************************************************************************)

\* What any step of the MUD leaves of doorman.
LEMMA MudLeavesPool ==
    ASSUME IInv, UNCHANGED doormanVars, UNCHANGED accepted
    PROVE  PoolPartition' /\ DoormanTypeOK'
<1>1. Held' = Held /\ UNCHANGED poolVars
  BY DEF doormanVars, poolVars, Held
<1>2. accepted \in Nat
  BY BoundsAssumption DEF IInv, TypeOK, LinkTypeOK
<1>3. PoolPartition'
  BY <1>1, <1>2, PoolUnchanged
<1>4. DoormanTypeOK'
  BY DEF IInv, TypeOK, DoormanTypeOK, doormanVars
<1> QED
  BY <1>3, <1>4

\* A write of the MUD's.
LEMMA MudWritesTyped ==
    ASSUME TypeOK, NEW ps \in Seq(Packet), MudWrites(ps)
    PROVE  toDoor' \in Seq(Packet)
<1>1. toDoor \in Seq(Packet) /\ toDoor \o ps \in Seq(Packet)
  BY ConcatProperties DEF TypeOK, LinkTypeOK
<1> QED
  BY <1>1 DEF MudWrites

\* The process's life: starting, booting, stopping, closing everyone.
LEMMA LifeTyped ==
    ASSUME IInv, UNCHANGED doormanVars,
           MudStart \/ BootAccept \/ BootDone \/ MudStops \/ MudShutdown
    PROVE  IInv'
<1> USE DEF IInv
<1>0. TypeOK /\ LinkTypeOK /\ MudTypeOK
  BY DEF TypeOK
<1>1. CASE MudStart
  <2>1. LinkTypeOK' /\ MudTypeOK' /\ UNCHANGED accepted
    BY <1>0, <1>1 DEF MudStart, LinkTypeOK, MudTypeOK, linkVars
  <2> QED
    BY <2>1, MudLeavesPool DEF TypeOK
<1>2. CASE BootAccept
  <2>1. LinkTypeOK' /\ MudTypeOK' /\ UNCHANGED accepted
    BY <1>0, <1>2 DEF BootAccept, AcceptDoorman, LinkTypeOK, MudTypeOK, mudVars
  <2> QED
    BY <2>1, MudLeavesPool DEF TypeOK
<1>3. CASE BootDone
  <2>1. Pkt("init", 0, 0, 0) \in Packet
    BY BoundsAssumption, PacketTyped DEF Ids, Conns, PacketTypes
  <2>2. <<Pkt("init", 0, 0, 0)>> \in Seq(Packet)
    BY <2>1
  <2>3. toDoor' \in Seq(Packet)
    BY <1>0, <1>3, <2>2, MudWritesTyped DEF BootDone
  <2>4. LinkTypeOK' /\ MudTypeOK' /\ UNCHANGED accepted
    BY <1>0, <1>3, <2>3 DEF BootDone, LinkTypeOK, MudTypeOK
  <2> QED
    BY <2>4, MudLeavesPool DEF TypeOK
<1>4. ASSUME ProcessEnds PROVE MudTypeOK' /\ toMud' \in Seq(Packet)
           /\ doorEnd' \in {"closed", "pending", "linked", "orphan"}
           /\ mudEnd' \in {"closed", "linked", "orphan"}
  BY <1>0, <1>4, ClosedTyped DEF ProcessEnds, Orphaned, MudTypeOK, LinkTypeOK
<1>5. CASE MudStops
  <2>1. faults' \in 0 .. MaxFaults /\ ProcessEnds /\ UNCHANGED <<toDoor, accepted>>
    BY <1>0, <1>5, BoundsAssumption DEF MudStops, LinkTypeOK
  <2>2. LinkTypeOK' /\ MudTypeOK'
    BY <1>0, <1>4, <2>1 DEF LinkTypeOK
  <2> QED
    BY <2>1, <2>2, MudLeavesPool DEF TypeOK
<1>6. CASE MudShutdown
  <2>1. faults' \in 0 .. MaxFaults /\ ProcessEnds /\ UNCHANGED accepted
    BY <1>0, <1>6, BoundsAssumption DEF MudShutdown, LinkTypeOK
  <2>2. PICK order \in Orderings(Alive) :
           MudWrites([i \in 1 .. Cardinality(Alive) |-> ToDoor("disconnect", order[i])])
    BY <1>6 DEF MudShutdown, Orderings
  <2>3. Alive \subseteq Ids
    BY <1>0, ClosedTyped
  <2>4. Cardinality(Alive) \in Nat /\ order \in [1 .. Cardinality(Alive) -> Alive]
    BY <2>3, IdsFinite, OrderingProperties
  <2>5. \A i \in 1 .. Cardinality(Alive) : ToDoor("disconnect", order[i]) \in Packet
    BY <1>0, <2>3, <2>4, OwnPackets DEF PacketTypes
  <2>6. [i \in 1 .. Cardinality(Alive) |-> ToDoor("disconnect", order[i])] \in Seq(Packet)
    BY <2>4, <2>5, SeqDef
  <2>7. toDoor' \in Seq(Packet)
    BY <1>0, <2>2, <2>6, MudWritesTyped
  <2>8. LinkTypeOK' /\ MudTypeOK'
    BY <1>0, <1>4, <2>1, <2>7 DEF LinkTypeOK
  <2> QED
    BY <2>1, <2>8, MudLeavesPool DEF TypeOK
<1> QED
  BY <1>1, <1>2, <1>3, <1>5, <1>6

\* Phase "packets" but for the packets.
LEMMA PacketPhaseTyped ==
    ASSUME IInv, UNCHANGED doormanVars, AcceptAgain \/ DoormanLost \/ EndPackets
    PROVE  IInv'
<1> USE DEF IInv
<1>0. TypeOK /\ LinkTypeOK /\ MudTypeOK
  BY DEF TypeOK
<1>1. CASE AcceptAgain
  <2>1. Pkt("init", 0, 0, 0) \in Packet
    BY BoundsAssumption, PacketTyped DEF Ids, Conns, PacketTypes
  <2>2. toDoor' \in Seq(Packet)
    BY <1>0, <1>1, <2>1, QueueWrite DEF AcceptAgain, LinkTypeOK
  <2>3. LinkTypeOK' /\ MudTypeOK' /\ UNCHANGED accepted
    BY <1>0, <1>1, <2>2 DEF AcceptAgain, AcceptDoorman, LinkTypeOK, MudTypeOK
  <2> QED
    BY <2>3, MudLeavesPool DEF TypeOK
<1>2. CASE DoormanLost
  <2>1. faults' \in 0 .. MaxFaults
    BY <1>0, <1>2, BoundsAssumption DEF DoormanLost, LinkTypeOK
  <2>2. LinkTypeOK' /\ MudTypeOK' /\ UNCHANGED accepted
    BY <1>0, <1>2, <2>1, ClosedTyped DEF DoormanLost, MudDropsLink, LinkTypeOK, MudTypeOK
  <2> QED
    BY <2>2, MudLeavesPool DEF TypeOK
<1>3. CASE EndPackets
  <2>1. LinkTypeOK' /\ MudTypeOK' /\ UNCHANGED accepted
    BY <1>0, <1>3 DEF EndPackets, LinkTypeOK, MudTypeOK, linkVars
  <2> QED
    BY <2>1, MudLeavesPool DEF TypeOK
<1> QED
  BY <1>1, <1>2, <1>3

\* handle_doorman_packet.
LEMMA ReceivePacketTyped ==
    ASSUME IInv, UNCHANGED doormanVars, ReceivePacket
    PROVE  IInv'
<1> USE DEF IInv
<1> DEFINE p == Head(toMud)
<1>0. TypeOK /\ LinkTypeOK /\ MudTypeOK
  BY DEF TypeOK
<1>1. /\ toMud # <<>> /\ toMud' = Tail(toMud)
      /\ UNCHANGED <<doorEnd, mudEnd, faults, accepted, mudPhase>>
  BY DEF ReceivePacket, ReceiveConnect, ReceiveReconnect, ReceiveDisconnect,
         ReceiveInfo, ReceiveMessage, Receives
<1>2. /\ toMud' \in Seq(Packet)
      /\ p.channel \in Ids /\ p.conn \in Conns /\ p.who \in Conns
  BY <1>0, <1>1, QueueRead DEF LinkTypeOK
<1>3. ASSUME toDoor' \in Seq(Packet), descriptors' \subseteq Ids, desc' \in [Ids -> Descriptor]
      PROVE  IInv'
  <2>1. LinkTypeOK' /\ MudTypeOK'
    BY <1>0, <1>1, <1>2, <1>3 DEF LinkTypeOK, MudTypeOK
  <2> QED
    BY <1>1, <2>1, MudLeavesPool DEF TypeOK
<1>4. 0 \in Conns
  BY BoundsAssumption DEF Conns
<1>5. ASSUME NEW state \in {"lobby", "playing", "closed"}, NEW who \in Conns,
             CreateDescriptor(p.channel, state, who)
      PROVE  descriptors' \subseteq Ids /\ desc' \in [Ids -> Descriptor]
  BY <1>0, <1>2, <1>4, <1>5 DEF CreateDescriptor, MudTypeOK, Descriptor
<1>6. toDoor \in Seq(Packet) /\ descriptors \subseteq Ids /\ desc \in [Ids -> Descriptor]
  BY <1>0 DEF LinkTypeOK, MudTypeOK
<1>7. CASE ReceiveConnect
  BY <1>2, <1>3, <1>5, <1>6, <1>7 DEF ReceiveConnect
<1>8. CASE ReceiveReconnect
  <2>1. CASE p.channel \in descriptors
    BY <1>3, <1>6, <1>8, <2>1 DEF ReceiveReconnect
  <2>2. CASE p.channel \notin descriptors
    <3>1. PICK outcome \in ReconnectOutcomes(p.channel, p) :
             /\ CreateDescriptor(p.channel, outcome.state, p.who)
             /\ MudWrites(outcome.says)
      BY <1>8, <2>2 DEF ReceiveReconnect
    <3>2. \A type \in PacketTypes :
             Pkt(type, p.channel, p.conn, IF type = "authorized" THEN p.who ELSE 0) \in Packet
      BY <1>2, <1>4, PacketTyped
    <3> DEFINE From(type) == Pkt(type, p.channel, p.conn,
                                 IF type = "authorized" THEN p.who ELSE 0)
    <3>3. /\ From("echo") \in Packet /\ From("message") \in Packet
          /\ From("disconnect") \in Packet /\ From("authorized") \in Packet
      BY <3>2 DEF PacketTypes
    <3> DEFINE echoes == <<From("echo"), From("echo")>>
               refused == <<From("message"), From("disconnect")>>
               echoesRefused == echoes \o refused
               echoesAccepted == echoes \o <<From("authorized")>>
    <3>4. \/ outcome = [state |-> "lobby",   says |-> <<>>]
          \/ outcome = [state |-> "lobby",   says |-> echoes]
          \/ outcome = [state |-> "closed",  says |-> refused]
          \/ outcome = [state |-> "closed",  says |-> echoesRefused]
          \/ outcome = [state |-> "playing", says |-> echoesAccepted]
      BY <3>1 DEF ReconnectOutcomes
    <3> HIDE DEF From
    <3>5. /\ <<>> \in Seq(Packet) /\ echoes \in Seq(Packet) /\ refused \in Seq(Packet)
          /\ echoesRefused \in Seq(Packet) /\ echoesAccepted \in Seq(Packet)
      <4>1. /\ echoes \in Seq(Packet) /\ refused \in Seq(Packet)
            /\ <<From("authorized")>> \in Seq(Packet)
        BY <3>3
      <4> HIDE DEF echoes, refused
      <4> QED
        BY <4>1, ConcatProperties
    <3> HIDE DEF echoes, refused, echoesRefused, echoesAccepted
    <3>6. outcome.says \in Seq(Packet) /\ outcome.state \in {"lobby", "playing", "closed"}
      <4>1. ASSUME NEW state \in {"lobby", "playing", "closed"}, NEW says \in Seq(Packet),
                   outcome = [state |-> state, says |-> says]
            PROVE  /\ outcome.says \in Seq(Packet)
                   /\ outcome.state \in {"lobby", "playing", "closed"}
        BY <4>1
      <4>2. CASE outcome = [state |-> "lobby", says |-> <<>>]
        BY <3>5, <4>1, <4>2
      <4>3. CASE outcome = [state |-> "lobby", says |-> echoes]
        BY <3>5, <4>1, <4>3
      <4>4. CASE outcome = [state |-> "closed", says |-> refused]
        BY <3>5, <4>1, <4>4
      <4>5. CASE outcome = [state |-> "closed", says |-> echoesRefused]
        BY <3>5, <4>1, <4>5
      <4>6. CASE outcome = [state |-> "playing", says |-> echoesAccepted]
        BY <3>5, <4>1, <4>6
      <4> QED
        BY <3>4, <4>2, <4>3, <4>4, <4>5, <4>6
    <3>7. toDoor' \in Seq(Packet)
      BY <1>0, <3>1, <3>6, MudWritesTyped
    <3> QED
      BY <1>2, <1>3, <1>5, <3>1, <3>6, <3>7
  <2> QED
    BY <2>1, <2>2
<1>9. CASE ReceiveDisconnect
  <2>1. CloseDescriptors({p.channel}) \in [Ids -> Descriptor]
    BY <1>0, ClosedTyped
  <2>2. <<ToDoor("ack", p.channel)>> \in Seq(Packet)
    BY <1>0, <1>2, OwnPackets DEF PacketTypes
  <2>3. toDoor' \in Seq(Packet)
    BY <1>0, <1>6, <1>9, <2>2, MudWritesTyped DEF ReceiveDisconnect
  <2> QED
    BY <1>3, <1>6, <1>9, <2>1, <2>3 DEF ReceiveDisconnect
<1>10. CASE ReceiveInfo
  <2>1. desc' \in [Ids -> Descriptor]
    BY <1>2, <1>6, <1>10 DEF ReceiveInfo, Descriptor
  <2> QED
    BY <1>3, <1>6, <1>10, <2>1 DEF ReceiveInfo
<1>11. CASE ReceiveMessage
  BY <1>3, <1>6, <1>11 DEF ReceiveMessage
<1> QED
  BY <1>7, <1>8, <1>9, <1>10, <1>11 DEF ReceivePacket

\* Phase "work".
LEMMA WorkTyped ==
    ASSUME IInv, UNCHANGED doormanVars,
           \/ EndWork
           \/ \E c \in Ids : \/ Login(c) \/ TakeOverLinkDead(c)
                             \/ SetEcho(c) \/ Output(c) \/ CloseDescriptor(c)
    PROVE  IInv'
<1> USE DEF IInv
<1>0. TypeOK /\ LinkTypeOK /\ MudTypeOK
  BY DEF TypeOK
<1>1. toDoor \in Seq(Packet) /\ descriptors \subseteq Ids /\ desc \in [Ids -> Descriptor]
  BY <1>0 DEF LinkTypeOK, MudTypeOK
<1>2. CASE EndWork
  <2>1. LinkTypeOK' /\ MudTypeOK' /\ UNCHANGED accepted
    BY <1>0, <1>2, ClosedTyped DEF EndWork, LinkTypeOK, MudTypeOK, linkVars
  <2> QED
    BY <2>1, MudLeavesPool DEF TypeOK
<1>3. ASSUME NEW c \in Ids,
             \/ Login(c) \/ TakeOverLinkDead(c) \/ SetEcho(c) \/ Output(c) \/ CloseDescriptor(c)
      PROVE  IInv'
  <2>1. UNCHANGED <<toMud, doorEnd, mudEnd, faults, accepted, mudPhase, descriptors>>
    BY <1>3 DEF Login, TakeOverLinkDead, SetEcho, Output, CloseDescriptor, Works
  <2>2. \A type \in PacketTypes : <<ToDoor(type, c)>> \in Seq(Packet)
    BY <1>0, OwnPackets
  <2>3. toDoor' \in Seq(Packet)
    BY <1>0, <1>1, <1>3, <2>2, MudWritesTyped
       DEF Login, TakeOverLinkDead, SetEcho, Output, CloseDescriptor, PacketTypes
  <2>4. CloseDescriptors({c}) \in [Ids -> Descriptor]
    BY <1>0, ClosedTyped
  <2>5. [desc EXCEPT ![c].state = "playing"] \in [Ids -> Descriptor]
    BY <1>1 DEF Descriptor
  <2>6. desc' \in [Ids -> Descriptor]
    BY <1>1, <1>3, <2>4, <2>5 DEF Login, TakeOverLinkDead, SetEcho, Output, CloseDescriptor
  <2>7. LinkTypeOK' /\ MudTypeOK'
    BY <1>0, <2>1, <2>3, <2>6 DEF LinkTypeOK, MudTypeOK
  <2> QED
    BY <2>1, <2>7, MudLeavesPool DEF TypeOK
<1> QED
  BY <1>2, <1>3

\* Every step of the MUD.
LEMMA MudSteps ==
    ASSUME IInv, MudNext, UNCHANGED doormanVars
    PROVE  IInv'
<1>1. CASE MudStart \/ BootAccept \/ BootDone \/ MudStops \/ MudShutdown
  BY <1>1, LifeTyped
<1>2. CASE AcceptAgain \/ DoormanLost \/ EndPackets
  BY <1>2, PacketPhaseTyped
<1>3. CASE ReceivePacket
  BY <1>3, ReceivePacketTyped
<1>4. CASE \/ EndWork
           \/ \E c \in Ids : \/ Login(c) \/ TakeOverLinkDead(c)
                             \/ SetEcho(c) \/ Output(c) \/ CloseDescriptor(c)
  BY <1>4, WorkTyped
<1> QED
  BY <1>1, <1>2, <1>3, <1>4 DEF MudNext, MudLoops

-----------------------------------------------------------------------------
(***************************************************************************)
(* Doorman's steps keep the types and the partition of the pool.           *)
(***************************************************************************)

\* A step that keeps the numbers' holders, and the pool, keeps the partition.
LEMMA HoldersKept ==
    ASSUME IInv, Held' = Held, UNCHANGED poolVars, UNCHANGED accepted
    PROVE  PoolPartition' /\ nextId' \in Nat /\ releasedIds' \in Seq(Ids)
<1>1. accepted \in Nat /\ nextId \in Nat /\ releasedIds \in Seq(Ids)
  BY BoundsAssumption DEF IInv, TypeOK, LinkTypeOK, DoormanTypeOK
<1> QED
  BY <1>1, PoolUnchanged DEF poolVars

\* An exception that reaches main() leaves nothing to hold a number.
LEMMA ExitsTyped ==
    ASSUME IInv, Exits, UNCHANGED mudVars
    PROVE  IInv'
<1> USE DEF IInv
<1>0. TypeOK /\ LinkTypeOK /\ DoormanTypeOK /\ MudTypeOK
  BY DEF TypeOK
<1>1. LinkTypeOK' /\ UNCHANGED accepted
  BY <1>0 DEF Exits, DoormanDropsLink, Orphaned, LinkTypeOK
<1>2. DoormanTypeOK'
  <2>1. NoChannel \in Channel
    BY <1>0, ClosedTyped
  <2> QED
    BY <2>1 DEF Exits, DoormanTypeOK
<1>3. MudTypeOK'
  BY <1>0 DEF mudVars, MudTypeOK
<1>4. PoolPartition'
  <2>1. Held' = {} /\ releasedIds' = <<>> /\ nextId' = 0 /\ DOMAIN releasedIds' = {}
    BY DEF Exits, Held
  <2>2. Range(releasedIds') = {}
    BY <2>1 DEF Range
  <2>3. 0 <= accepted'
    BY <1>0, <1>1, BoundsAssumption DEF LinkTypeOK
  <2> QED
    BY <2>1, <2>2, <2>3 DEF PoolPartition
<1> QED
  BY <1>1, <1>2, <1>3, <1>4 DEF TypeOK

\* Xania::close forgets what the MUD knew: those numbers go back on the stack.
LEMMA CloseMudTyped ==
    ASSUME IInv, CloseMud, faults' \in 0 .. MaxFaults, UNCHANGED mudVars
    PROVE  IInv'
<1> USE DEF IInv
<1>0. TypeOK /\ LinkTypeOK /\ DoormanTypeOK /\ MudTypeOK
  BY DEF TypeOK
<1>1. LinkTypeOK' /\ UNCHANGED accepted
  BY <1>0 DEF CloseMud, DoormanDropsLink, Orphaned, LinkTypeOK
<1>2. PoolPartition' /\ releasedIds' \in Seq(Ids)
  BY PoolReleases DEF CloseMud, Held
<1>3. DoormanTypeOK'
  BY <1>0, <1>2, ClosedTyped DEF CloseMud, DoormanTypeOK
<1> QED
  BY <1>0, <1>1, <1>2, <1>3 DEF TypeOK, mudVars, MudTypeOK

\* Looking for the MUD, losing it, connecting to it.
LEMMA MudPhaseTyped ==
    ASSUME IInv, UNCHANGED mudVars,
           PollIdle \/ TryConnect(MudListening) \/ LoseMud \/ TruncatedRead
    PROVE  IInv'
<1> USE DEF IInv
<1>0. TypeOK /\ LinkTypeOK /\ DoormanTypeOK /\ MudTypeOK
  BY DEF TypeOK
<1>1. MudTypeOK'
  BY <1>0 DEF mudVars, MudTypeOK
<1>2. CASE PollIdle
  <2>1. Held' = Held /\ UNCHANGED poolVars /\ UNCHANGED accepted
    BY <1>2 DEF PollIdle, Held, poolVars, linkVars
  <2>2. LinkTypeOK' /\ DoormanTypeOK'
    BY <1>0, <1>2 DEF PollIdle, LinkTypeOK, DoormanTypeOK, linkVars
  <2> QED
    BY <1>1, <2>1, <2>2, HoldersKept DEF TypeOK
<1>3. CASE TryConnect(MudListening)
  <2>1. Held' = Held /\ UNCHANGED poolVars /\ UNCHANGED accepted
    BY <1>3 DEF TryConnect, Held, poolVars
  <2>2. LinkTypeOK' /\ DoormanTypeOK'
    BY <1>0, <1>3, ClosedTyped DEF TryConnect, LinkTypeOK, DoormanTypeOK
  <2> QED
    BY <1>1, <2>1, <2>2, HoldersKept DEF TypeOK
<1>4. CASE LoseMud
  BY <1>0, <1>4, CloseMudTyped DEF LoseMud, LinkTypeOK
<1>5. CASE TruncatedRead
  <2>1. faults' \in 0 .. MaxFaults
    BY <1>0, <1>5, BoundsAssumption DEF TruncatedRead, LinkTypeOK
  <2> QED
    BY <1>5, <2>1, CloseMudTyped DEF TruncatedRead
<1> QED
  BY <1>2, <1>3, <1>4, <1>5

\* handle_init, the MUD expected: everyone with an open socket is known to it.
LEMMA ConnectEveryoneTyped ==
    ASSUME IInv, toDoor # <<>>, ConnectEveryone, UNCHANGED mudVars
    PROVE  IInv'
<1> USE DEF IInv
<1>0. TypeOK /\ LinkTypeOK /\ DoormanTypeOK /\ MudTypeOK
  BY DEF TypeOK
<1>1. CASE Exits
  BY <1>1, ExitsTyped
<1>2. CASE ~Exits
  <2>1. /\ Consumes /\ mudState' = "Connected"
        /\ chan' = [c \in Ids |-> [chan[c] EXCEPT !.connected = @ \/ c \in OpenChannels]]
        /\ idsKnownToMud' = SentConnect({c \in OpenChannels : chan[c].auth = 0})
        /\ UNCHANGED <<channels, channelsToRemove, releasedIds>>
    BY <1>2 DEF ConnectEveryone
  <2>2. PICK order \in Orderings(OpenChannels) :
           toMud' = toMud \o [i \in 1 .. 2 * Cardinality(OpenChannels) |->
                                ConnectPackets(order[(i + 1) \div 2])[2 - (i % 2)]]
    BY <1>2 DEF ConnectEveryone
  <2> DEFINE n == Cardinality(OpenChannels)
  <2>3. /\ OpenChannels \subseteq Ids /\ n \in Nat
        /\ order \in [1 .. n -> OpenChannels]
    BY <1>0, ClosedTyped, IdsFinite, OrderingProperties
  <2> HIDE DEF n
  <2>4. ASSUME NEW i \in 1 .. 2 * n
        PROVE  ConnectPackets(order[(i + 1) \div 2])[2 - (i % 2)] \in Packet
    <3>1. (i + 1) \div 2 \in 1 .. n /\ 2 - (i % 2) \in {1, 2}
      BY <2>3
    <3>2. order[(i + 1) \div 2] \in Ids
      BY <2>3, <3>1
    <3>3. /\ ConnectPackets(order[(i + 1) \div 2])[1] \in Packet
          /\ ConnectPackets(order[(i + 1) \div 2])[2] \in Packet
      BY <1>0, <3>2, OwnPackets DEF PacketTypes
    <3> QED
      BY <3>1, <3>3
  <2>5. toMud' \in Seq(Packet)
    <3>1. 2 * n \in Nat
      BY <2>3
    <3>2. [i \in 1 .. 2 * n |-> ConnectPackets(order[(i + 1) \div 2])[2 - (i % 2)]] \in Seq(Packet)
      BY <2>4, <3>1, SeqDef
    <3> QED
      BY <1>0, <2>2, <3>2, ConcatProperties DEF LinkTypeOK, n
  <2>6. LinkTypeOK'
    BY <1>0, <2>1, <2>5, QueueRead DEF Consumes, LinkTypeOK
  <2>7. chan' \in [Ids -> Channel]
    <3>1. \A c \in Ids : [chan[c] EXCEPT !.connected = @ \/ c \in OpenChannels] \in Channel
      BY <1>0 DEF DoormanTypeOK, Channel
    <3> QED
      BY <2>1, <3>1
  <2>8. Held' = Held
    BY <2>1 DEF Held, SentConnect, OpenChannels
  <2>9. PoolPartition' /\ nextId' \in Nat /\ releasedIds' \in Seq(Ids)
    BY <2>1, <2>8, HoldersKept DEF Consumes, poolVars
  <2>10. DoormanTypeOK'
    BY <1>0, <2>1, <2>3, <2>7, <2>9 DEF DoormanTypeOK, Consumes, SentConnect
  <2> QED
    BY <1>0, <2>6, <2>9, <2>10 DEF TypeOK, mudVars, MudTypeOK
<1> QED
  BY <1>1, <1>2

\* process_mud_message: one packet of the MUD's.
LEMMA MessageTyped ==
    ASSUME IInv, UNCHANGED mudVars, ProcessMudMessage
    PROVE  IInv'
<1> USE DEF IInv
<1> DEFINE p == Head(toDoor)
<1>0. TypeOK /\ LinkTypeOK /\ DoormanTypeOK /\ MudTypeOK
  BY DEF TypeOK
<1>1. toDoor # <<>>
  BY DEF ProcessMudMessage, HandleInit, HandleMessage, HandleEcho, HandleAuthorized,
         HandleDisconnect, HandleAck, Reads
<1>2. Tail(toDoor) \in Seq(Packet) /\ p.channel \in Ids /\ p.who \in Conns
  BY <1>0, <1>1, QueueRead DEF LinkTypeOK
<1>3. MudTypeOK'
  BY <1>0 DEF mudVars, MudTypeOK
<1>4. ASSUME Consumes, toMud' \in Seq(Packet), PoolPartition', releasedIds' \in Seq(Ids),
             UNCHANGED <<channels, mudState>>, chan' \in [Ids -> Channel],
             channelsToRemove' \subseteq Ids, idsKnownToMud' \subseteq Ids
      PROVE  IInv'
  <2>1. LinkTypeOK'
    BY <1>0, <1>2, <1>4 DEF Consumes, LinkTypeOK
  <2>2. DoormanTypeOK'
    BY <1>0, <1>4 DEF Consumes, DoormanTypeOK
  <2> QED
    BY <1>3, <1>4, <2>1, <2>2 DEF TypeOK
<1>5. ASSUME Consumes, Held' = Held, UNCHANGED releasedIds
      PROVE  PoolPartition' /\ releasedIds' \in Seq(Ids)
  BY <1>5, HoldersKept DEF Consumes, poolVars
<1>6. /\ toMud \in Seq(Packet) /\ chan \in [Ids -> Channel]
      /\ channelsToRemove \subseteq Ids /\ idsKnownToMud \subseteq Ids /\ channels \subseteq Ids
  BY <1>0 DEF LinkTypeOK, DoormanTypeOK
<1>7. CASE HandleInit
  <2>1. CASE mudState = "ConnectedAwaitingInit"
    BY <1>1, <1>7, <2>1, ConnectEveryoneTyped DEF HandleInit
  <2>2. CASE mudState # "ConnectedAwaitingInit"
    BY <1>0, <1>7, <2>2, CloseMudTyped DEF HandleInit, LinkTypeOK
  <2> QED
    BY <2>1, <2>2
<1>8. CASE HandleMessage
  <2>1. CASE Exits
    BY <2>1, ExitsTyped
  <2>2. CASE /\ Consumes
             /\ UNCHANGED <<toMud, releasedIds, channels, chan, channelsToRemove,
                            mudState, idsKnownToMud>>
    <3>1. Held' = Held
      BY <2>2 DEF Held
    <3> QED
      BY <1>4, <1>5, <1>6, <2>2, <3>1
  <2> DEFINE again == IF chan[p.channel].connected
                      THEN <<ToMud("disconnect", p.channel)>> ELSE <<>>
  <2>3. CASE /\ Consumes
             /\ Sends(<<ToMud("disconnect", p.channel)>> \o again)
             /\ chan' = Closed({p.channel})
             /\ channelsToRemove' = channelsToRemove \cup {p.channel}
             /\ UNCHANGED <<releasedIds, channels, mudState, idsKnownToMud>>
    <3>1. Held' = Held
      BY <2>3 DEF Held
    <3>2. ToMud("disconnect", p.channel) \in Packet
      BY <1>0, <1>2, OwnPackets DEF PacketTypes
    <3>3. toMud \o (<<ToMud("disconnect", p.channel)>> \o again) \in Seq(Packet)
      BY <1>6, <3>2, QueueWrite
    <3>4. toMud' \in Seq(Packet)
      BY <1>6, <2>3, <3>3 DEF Sends
    <3>5. Closed({p.channel}) \in [Ids -> Channel]
      BY <1>0, ClosedTyped
    <3> QED
      BY <1>2, <1>4, <1>5, <1>6, <2>3, <3>1, <3>4, <3>5
  <2> QED
    BY <1>8, <2>1, <2>2, <2>3 DEF HandleMessage
<1>9. CASE HandleEcho
  <2>1. CASE Exits
    BY <2>1, ExitsTyped
  <2>2. CASE /\ Consumes
             /\ UNCHANGED <<toMud, releasedIds, channels, chan, channelsToRemove,
                            mudState, idsKnownToMud>>
    <3>1. Held' = Held
      BY <2>2 DEF Held
    <3> QED
      BY <1>4, <1>5, <1>6, <2>2, <3>1
  <2> QED
    BY <1>9, <2>1, <2>2 DEF HandleEcho
<1>10. CASE HandleAuthorized
  <2>1. /\ Consumes
        /\ chan' = IF p.channel \in channels
                   THEN [chan EXCEPT ![p.channel].auth = p.who]
                   ELSE chan
        /\ UNCHANGED <<toMud, releasedIds, channels, channelsToRemove, mudState,
                       idsKnownToMud>>
    BY <1>10 DEF HandleAuthorized
  <2>2. chan' \in [Ids -> Channel]
    BY <1>2, <1>6, <2>1 DEF Channel
  <2>3. Held' = Held
    BY <2>1 DEF Held
  <2> QED
    BY <1>4, <1>5, <1>6, <2>1, <2>2, <2>3
<1>11. CASE HandleDisconnect
  <2> DEFINE c == p.channel
  <2>1. Consumes /\ UNCHANGED <<toMud, releasedIds, channels, mudState>>
    BY <1>11 DEF HandleDisconnect
  <2>2. CASE c \in channels
    <3>1. /\ chan' = [Closed({c}) EXCEPT ![c].connected = FALSE]
          /\ channelsToRemove' = channelsToRemove \cup {c}
          /\ idsKnownToMud' = idsKnownToMud \ {c}
      BY <1>11, <2>2 DEF HandleDisconnect
    <3>2. Held' = Held
      BY <2>1, <2>2, <3>1 DEF Held
    <3>3. Closed({c}) \in [Ids -> Channel]
      BY <1>0, ClosedTyped
    <3>4. chan' \in [Ids -> Channel]
      BY <1>2, <3>1, <3>3 DEF Channel
    <3> QED
      BY <1>2, <1>4, <1>5, <1>6, <2>1, <3>1, <3>2, <3>4
  <2>3. CASE c \notin channels
    <3>1. UNCHANGED <<chan, channelsToRemove, idsKnownToMud>>
      BY <1>11, <2>3 DEF HandleDisconnect
    <3>2. Held' = Held
      BY <2>1, <3>1 DEF Held
    <3> QED
      BY <1>4, <1>5, <1>6, <2>1, <3>1, <3>2
  <2> QED
    BY <2>2, <2>3
<1>12. CASE HandleAck
  <2>1. /\ Consumes /\ ReleaseUnheld
        /\ idsKnownToMud' = idsKnownToMud \ {p.channel}
        /\ UNCHANGED <<toMud, channels, chan, channelsToRemove, mudState>>
    BY <1>12 DEF HandleAck
  <2>2. Held' \subseteq Held
    BY <2>1 DEF Held
  <2>3. PoolPartition' /\ releasedIds' \in Seq(Ids)
    BY <2>1, <2>2, PoolReleases DEF Consumes
  <2> QED
    BY <1>4, <1>6, <2>1, <2>3
<1> QED
  BY <1>7, <1>8, <1>9, <1>10, <1>11, <1>12 DEF ProcessMudMessage

\* accept_new_connection.
LEMMA AcceptTyped ==
    ASSUME IInv, UNCHANGED mudVars, AcceptNone \/ AcceptNew \/ AcceptFails
    PROVE  IInv'
<1> USE DEF IInv
<1>0. TypeOK /\ LinkTypeOK /\ DoormanTypeOK /\ MudTypeOK
  BY DEF TypeOK
<1>1. MudTypeOK'
  BY <1>0 DEF mudVars, MudTypeOK
<1>2. CASE AcceptNone
  <2>1. Held' = Held /\ UNCHANGED poolVars /\ UNCHANGED accepted
    BY <1>2 DEF AcceptNone, Held, poolVars, linkVars
  <2>2. LinkTypeOK' /\ DoormanTypeOK'
    BY <1>0, <1>2 DEF AcceptNone, LinkTypeOK, DoormanTypeOK, linkVars
  <2> QED
    BY <1>1, <2>1, <2>2, HoldersKept DEF TypeOK
<1>3. ASSUME AcceptsOne
      PROVE  /\ accepted' = accepted + 1 /\ accepted < MaxAccepts
             /\ accepted \in Nat /\ accepted' \in 0 .. MaxAccepts /\ accepted' \in Conns
             /\ UNCHANGED <<toDoor, doorEnd, mudEnd, faults, channelsToRemove, mudState>>
             /\ phase' = "channels"
  BY <1>0, <1>3, BoundsAssumption DEF AcceptsOne, LinkTypeOK, Conns
<1>4. CASE AcceptNew
  <2> DEFINE id == ReservedId
             up == mudState = "Connected"
  <2>1. /\ AcceptsOne /\ Reserve
        /\ channels' = channels \cup {id}
        /\ chan' = [chan EXCEPT ![id] = Accepted(up)]
        /\ idsKnownToMud' = IF up THEN SentConnect({id}) ELSE idsKnownToMud
        /\ Sends(<<Pkt("connect", id, accepted + 1, 0), Pkt("info", id, accepted + 1, 0)>>)
    BY <1>4 DEF AcceptNew
  <2>2. Held' = Held \cup {id}
    BY <2>1 DEF Held, SentConnect
  <2>3. PoolPartition' /\ id \in Ids /\ nextId' \in Nat /\ releasedIds' \in Seq(Ids)
    BY <1>3, <2>1, <2>2, PoolReserves
  <2>4. 0 \in Conns /\ accepted + 1 \in Conns
    BY <1>3, <2>1, BoundsAssumption DEF Conns
  <2>5. /\ Pkt("connect", id, accepted + 1, 0) \in Packet
        /\ Pkt("info", id, accepted + 1, 0) \in Packet
    BY <2>3, <2>4, PacketTyped DEF PacketTypes
  <2>6. toMud' \in Seq(Packet)
    BY <1>0, <2>1, <2>5, QueueWrite DEF Sends, LinkTypeOK
  <2>7. LinkTypeOK'
    BY <1>0, <1>3, <2>1, <2>6 DEF LinkTypeOK
  <2>8. Accepted(up) \in Channel
    BY <2>4 DEF Accepted, NoChannel, Channel
  <2>9. DoormanTypeOK'
    BY <1>0, <1>3, <2>1, <2>3, <2>8 DEF DoormanTypeOK, SentConnect
  <2> QED
    BY <1>1, <2>3, <2>7, <2>9 DEF TypeOK
<1>5. CASE AcceptFails
  <2>1. AcceptsOne /\ UNCHANGED <<toMud, channels, chan>>
    BY <1>5 DEF AcceptFails
  <2>2. ASSUME PoolPartition', nextId' \in Nat, releasedIds' \in Seq(Ids),
               idsKnownToMud' \subseteq Ids
        PROVE  IInv'
    <3>1. LinkTypeOK'
      BY <1>0, <1>3, <2>1 DEF LinkTypeOK
    <3>2. DoormanTypeOK'
      BY <1>0, <1>3, <2>1, <2>2 DEF DoormanTypeOK
    <3> QED
      BY <1>1, <2>2, <3>1, <3>2 DEF TypeOK
  <2>3. CASE /\ UNCHANGED idsKnownToMud
             /\ releasedIds = <<>>
             /\ nextId' = nextId + 1 /\ releasedIds' = <<nextId>>
    <3>1. Held' = Held /\ Held = 0 .. nextId - 1 /\ nextId \in Nat /\ nextId <= accepted
      <4>1. Range(releasedIds) = {}
        BY <2>3 DEF Range
      <4> QED
        BY <1>0, <2>1, <2>3, <4>1 DEF Held, PoolPartition, DoormanTypeOK
    <3>2. nextId \in Ids /\ nextId' <= accepted'
      BY <1>3, <2>1, <2>3, <3>1, BoundsAssumption DEF Ids
    <3>3. /\ releasedIds' \in Seq(Ids) /\ DOMAIN releasedIds' = {1} /\ releasedIds'[1] = nextId
          /\ Range(releasedIds') = {nextId}
      BY <2>3, <3>2 DEF Range
    <3>4. Held' \cup Range(releasedIds') = 0 .. nextId' - 1
      BY <2>3, <3>1, <3>3
    <3>5. nextId \notin Held'
      BY <3>1
    <3>6. PoolPartition'
      BY <3>2, <3>3, <3>4, <3>5 DEF PoolPartition
    <3> QED
      BY <1>0, <2>2, <2>3, <3>1, <3>3, <3>6 DEF DoormanTypeOK
  <2>4. CASE UNCHANGED idsKnownToMud /\ UNCHANGED poolVars
    <3>1. Held' = Held /\ accepted' \in Nat /\ accepted' >= accepted
      BY <1>3, <2>1, <2>4 DEF Held
    <3>2. PoolPartition'
      BY <2>4, <3>1, PoolUnchanged
    <3> QED
      BY <1>0, <2>2, <2>4, <3>2 DEF DoormanTypeOK, poolVars
  <2>5. CASE Reserve /\ idsKnownToMud' = SentConnect({ReservedId})
    <3>1. Held' = Held \cup {ReservedId}
      BY <2>1, <2>5 DEF Held, SentConnect
    <3>2. /\ PoolPartition' /\ ReservedId \in Ids
          /\ nextId' \in Nat /\ releasedIds' \in Seq(Ids)
      BY <1>3, <2>1, <2>5, <3>1, PoolReserves
    <3> QED
      BY <1>0, <2>2, <2>5, <3>2 DEF DoormanTypeOK, SentConnect
  <2> QED
    BY <1>5, <2>3, <2>4, <2>5 DEF AcceptFails
<1> QED
  BY <1>2, <1>4, <1>5

\* The clients' sockets, and remove_dead_channels.
LEMMA ChannelPhaseTyped ==
    ASSUME IInv, UNCHANGED mudVars,
           \/ EndPoll
           \/ \E c \in Ids : \/ ClientData(c, "message") \/ ClientData(c, "info")
                             \/ ClientGone(c) \/ ClientBreaks(c)
    PROVE  IInv'
<1> USE DEF IInv
<1>0. TypeOK /\ LinkTypeOK /\ DoormanTypeOK /\ MudTypeOK
  BY DEF TypeOK
<1>1. MudTypeOK'
  BY <1>0 DEF mudVars, MudTypeOK
<1>2. CASE EndPoll
  <2>1. Held' \subseteq Held /\ UNCHANGED nextId /\ UNCHANGED accepted /\ ReleaseUnheld
    BY <1>2 DEF EndPoll, Held, linkVars
  <2>2. PoolPartition' /\ releasedIds' \in Seq(Ids)
    BY <2>1, PoolReleases
  <2>3. LinkTypeOK'
    BY <1>0, <1>2 DEF EndPoll, LinkTypeOK, linkVars
  <2>4. DoormanTypeOK'
    BY <1>0, <1>2, <2>2, ClosedTyped DEF EndPoll, DoormanTypeOK
  <2> QED
    BY <1>1, <2>2, <2>3, <2>4 DEF TypeOK
<1>3. ASSUME NEW c \in Ids, ClientGone(c)
      PROVE  IInv'
  <2>1. CASE Exits
    BY <2>1, ExitsTyped
  <2>2. CASE ~Exits
    <3> DEFINE ps == IF chan[c].connected THEN <<ToMud("disconnect", c)>> ELSE <<>>
    <3>1. /\ Sends(ps)
          /\ chan' = Closed({c})
          /\ channelsToRemove' = channelsToRemove \cup {c}
          /\ UNCHANGED <<toDoor, doorEnd, mudEnd, faults, accepted, phase, nextId,
                         releasedIds, channels, mudState, idsKnownToMud>>
      BY <1>3, <2>2 DEF ClientGone
    <3>2. ToMud("disconnect", c) \in Packet
      BY <1>0, OwnPackets DEF PacketTypes
    <3>3. toMud' \in Seq(Packet)
      BY <1>0, <3>1, <3>2, QueueWrite DEF Sends, LinkTypeOK
    <3>4. LinkTypeOK'
      BY <1>0, <3>1, <3>3 DEF LinkTypeOK
    <3>5. DoormanTypeOK'
      BY <1>0, <3>1, ClosedTyped DEF DoormanTypeOK
    <3>6. Held' = Held /\ UNCHANGED poolVars
      BY <3>1 DEF Held, poolVars
    <3> QED
      BY <1>1, <3>1, <3>4, <3>5, <3>6, HoldersKept DEF TypeOK
  <2> QED
    BY <2>1, <2>2
<1>4. ASSUME NEW c \in Ids, NEW type \in PacketTypes, ClientData(c, type)
      PROVE  IInv'
  <2>1. CASE ClientGone(c)
    BY <1>3, <2>1
  <2>2. CASE ~ClientGone(c)
    <3>1. /\ Sends(<<ToMud(type, c)>>)
          /\ UNCHANGED <<toDoor, doorEnd, mudEnd, faults, accepted, doormanVars>>
      BY <1>4, <2>2 DEF ClientData
    <3>2. ToMud(type, c) \in Packet
      BY <1>0, OwnPackets
    <3>3. toMud' \in Seq(Packet)
      BY <1>0, <3>1, <3>2, QueueWrite DEF Sends, LinkTypeOK
    <3>4. LinkTypeOK'
      BY <1>0, <3>1, <3>3 DEF LinkTypeOK
    <3>5. DoormanTypeOK'
      BY <1>0, <3>1 DEF DoormanTypeOK, doormanVars
    <3>6. Held' = Held /\ UNCHANGED poolVars
      BY <3>1 DEF Held, poolVars, doormanVars
    <3> QED
      BY <1>1, <3>1, <3>4, <3>5, <3>6, HoldersKept DEF TypeOK
  <2> QED
    BY <2>1, <2>2
<1>5. ASSUME NEW c \in Ids, ClientBreaks(c)
      PROVE  IInv'
  <2>1. Held' = Held /\ UNCHANGED poolVars /\ UNCHANGED accepted
    BY <1>5 DEF ClientBreaks, Held, poolVars, linkVars
  <2>2. chan' \in [Ids -> Channel]
    BY <1>0, <1>5 DEF ClientBreaks, DoormanTypeOK, Channel
  <2>3. LinkTypeOK' /\ DoormanTypeOK'
    BY <1>0, <1>5, <2>2 DEF ClientBreaks, LinkTypeOK, DoormanTypeOK, linkVars
  <2> QED
    BY <1>1, <2>1, <2>3, HoldersKept DEF TypeOK
<1> QED
  BY <1>2, <1>3, <1>4, <1>5 DEF PacketTypes

\* Every step of doorman.
LEMMA DoormanSteps ==
    ASSUME IInv, DoormanNext \/ TryConnect(MudListening), UNCHANGED mudVars
    PROVE  IInv'
<1>1. CASE PollIdle \/ TryConnect(MudListening) \/ LoseMud \/ TruncatedRead
  BY <1>1, MudPhaseTyped
<1>2. CASE ProcessMudMessage
  BY <1>2, MessageTyped
<1>3. CASE AcceptNone \/ AcceptNew \/ AcceptFails
  BY <1>3, AcceptTyped
<1>4. CASE \/ EndPoll
           \/ \E c \in Ids : \/ ClientData(c, "message") \/ ClientData(c, "info")
                             \/ ClientGone(c) \/ ClientBreaks(c)
  BY <1>4, ChannelPhaseTyped
<1> QED
  BY <1>1, <1>2, <1>3, <1>4 DEF DoormanNext, DoormanPolls

-----------------------------------------------------------------------------
(***************************************************************************)
(* The invariant.                                                          *)
(***************************************************************************)

\* It holds of two processes that have not started.
LEMMA InvariantInitially == Init => IInv
<1> SUFFICES ASSUME Init PROVE IInv
  OBVIOUS
<1>1. /\ MaxAccepts \in Nat \ {0} /\ MaxFaults \in Nat
      /\ 0 \in Conns /\ NoChannel \in Channel /\ NoDescriptor \in Descriptor
  BY BoundsAssumption DEF Conns, NoChannel, Channel, NoDescriptor, Descriptor
<1>2. TypeOK
  BY <1>1 DEF Init, LinkInit, DoormanInit, MudInit,
              TypeOK, LinkTypeOK, DoormanTypeOK, MudTypeOK
<1>3. PoolPartition
  <2>1. Held = {} /\ releasedIds = <<>> /\ nextId = 0 /\ accepted = 0 /\ DOMAIN releasedIds = {}
    BY DEF Init, LinkInit, DoormanInit, Held
  <2>2. Range(releasedIds) = {}
    BY <2>1 DEF Range
  <2> QED
    BY <2>1, <2>2 DEF PoolPartition
<1> QED
  BY <1>2, <1>3 DEF IInv

\* Every step keeps it.
LEMMA InvariantKept == IInv /\ [Next]_vars => IInv'
<1> SUFFICES ASSUME IInv, [Next]_vars PROVE IInv'
  OBVIOUS
<1>1. CASE DoormanNext /\ UNCHANGED mudVars
  BY <1>1, DoormanSteps
<1>2. CASE TryConnect(MudListening) /\ UNCHANGED mudVars
  BY <1>2, DoormanSteps
<1>3. CASE MudNext /\ UNCHANGED doormanVars
  BY <1>3, MudSteps
<1>4. CASE UNCHANGED vars
  <2>1. UNCHANGED <<linkVars, mudVars>> /\ UNCHANGED doormanVars /\ UNCHANGED accepted
    BY <1>4 DEF vars, linkVars
  <2>2. LinkTypeOK' /\ MudTypeOK'
    BY <2>1 DEF IInv, TypeOK, LinkTypeOK, MudTypeOK, linkVars, mudVars
  <2> QED
    BY <2>1, <2>2, MudLeavesPool DEF IInv, TypeOK
<1> QED
  BY <1>1, <1>2, <1>3, <1>4 DEF Next

\* And so it always holds.
LEMMA InvariantAlways == Spec => []IInv
  BY InvariantInitially, InvariantKept, PTL DEF Spec

\* Every variable of both processes and of the stream keeps its type.  That the
\* numbers stay below the bound follows from the partition of the pool.
THEOREM TypeCorrect == Spec => []TypeOK
<1>1. IInv => TypeOK
  BY DEF IInv
<1> QED
  BY <1>1, InvariantAlways, PTL

\* IdAllocator and ids_known_to_mud_, for any number of clients, MUDs and faults:
\* each number handed out so far is held, or is on the stack exactly once.
THEOREM NumbersPartitioned == Spec => []PoolPartition
<1>1. IInv => PoolPartition
  BY DEF IInv
<1> QED
  BY <1>1, InvariantAlways, PTL

-----------------------------------------------------------------------------
(***************************************************************************)
(* No two clients share a number.                                          *)
(***************************************************************************)

\* Closing, forgetting and marking channels does not change whose they are.
LEMMA OwnersKept ==
    ASSUME TypeOK, NEW S, NEW c \in Ids
    PROVE  /\ Closed(S)[c].conn = chan[c].conn
           /\ ChannelsDisconnected[c].conn = chan[c].conn
           /\ Closed(S)[c].connected = chan[c].connected
           /\ Closed(S)[c].open => chan[c].open
           /\ NoChannel.conn = 0
<1>1. chan \in [Ids -> Channel] /\ chan[c] \in Channel
  BY DEF TypeOK, DoormanTypeOK
<1>2. \A T : /\ Closed(T)[c] \in Channel
             /\ Closed(T)[c].conn = chan[c].conn
             /\ Closed(T)[c].connected = chan[c].connected
             /\ Closed(T)[c].open => chan[c].open
  BY <1>1 DEF Closed, Channel
<1>3. ChannelsDisconnected[c].conn = chan[c].conn
  <2>1. \A r \in Channel : [r EXCEPT !.connected = FALSE].conn = r.conn
    BY DEF Channel
  <2> QED
    BY <1>1, <1>2, <2>1 DEF ChannelsDisconnected
<1>4. NoChannel.conn = 0
  BY DEF NoChannel
<1> QED
  BY <1>2, <1>3, <1>4

\* Only accept_new_connection gives a channel to a client.
LEMMA OnlyAcceptGives ==
    ASSUME IInv, DoormanNext \/ TryConnect(MudListening), ~AcceptNew, NEW c \in Ids
    PROVE  chan'[c].conn \in {0, chan[c].conn}
<1> USE DEF IInv
<1>1. chan \in [Ids -> Channel]
  BY DEF TypeOK, DoormanTypeOK
<1>2. CASE UNCHANGED chan
  BY <1>2
<1>3. CASE Exits \/ EndPoll
  BY <1>3, OwnersKept DEF Exits, EndPoll
<1>4. CASE CloseMud \/ TryConnect(MudListening)
  BY <1>4, OwnersKept DEF CloseMud, TryConnect
<1>5. CASE ConnectEveryone /\ ~Exits
  <2>1. chan' = [d \in Ids |-> [chan[d] EXCEPT !.connected = @ \/ d \in OpenChannels]]
    BY <1>5 DEF ConnectEveryone
  <2> QED
    BY <1>1, <2>1 DEF Channel
<1>6. ASSUME NEW d \in Ids, chan' = Closed({d})
      PROVE  chan'[c].conn = chan[c].conn
  BY <1>6, OwnersKept
<1>7. CASE HandleMessage \/ \E d \in Ids : ClientGone(d)
  <2>1. ASSUME HandleMessage PROVE Head(toDoor).channel \in Ids
    BY <2>1, QueueRead DEF HandleMessage, Reads, TypeOK, LinkTypeOK
  <2> QED
    BY <1>2, <1>3, <1>6, <1>7, <2>1 DEF HandleMessage, ClientGone
<1>8. CASE HandleDisconnect
  <2>1. PICK d \in Ids : d = Head(toDoor).channel
    BY <1>8, QueueRead DEF HandleDisconnect, Reads, TypeOK, LinkTypeOK
  <2>2. CASE d \in channels
    <3>1. chan' = [Closed({d}) EXCEPT ![d].connected = FALSE]
      BY <1>8, <2>1, <2>2 DEF HandleDisconnect
    <3>2. Closed({d}) \in [Ids -> Channel]
      BY ClosedTyped
    <3>3. chan'[c].conn = Closed({d})[c].conn
      BY <3>1, <3>2 DEF Channel
    <3> QED
      BY <3>3, OwnersKept
  <2>3. CASE d \notin channels
    BY <1>2, <1>8, <2>1, <2>3 DEF HandleDisconnect
  <2> QED
    BY <2>2, <2>3
<1>9. CASE HandleAuthorized
  BY <1>1, <1>9 DEF HandleAuthorized, Channel
<1>10. CASE \E d \in Ids : ClientBreaks(d)
  BY <1>1, <1>10 DEF ClientBreaks, Channel
<1>11. CASE \E d \in Ids : ClientData(d, "message") \/ ClientData(d, "info")
  BY <1>2, <1>7, <1>11 DEF ClientData, doormanVars
<1>12. CASE HandleInit
  BY <1>3, <1>4, <1>5, <1>12 DEF HandleInit
<1>13. CASE HandleEcho \/ HandleAck \/ PollIdle \/ AcceptNone \/ AcceptFails
  BY <1>2, <1>3, <1>13 DEF HandleEcho, HandleAck, PollIdle, AcceptNone, AcceptFails
<1>14. CASE LoseMud \/ TruncatedRead
  BY <1>4, <1>14 DEF LoseMud, TruncatedRead
<1> QED
  BY <1>3, <1>4, <1>7, <1>8, <1>9, <1>10, <1>11, <1>12, <1>13, <1>14
     DEF DoormanNext, DoormanPolls, ProcessMudMessage

\* A client that is accepted gets a number that no channel has and that the MUD
\* has not got to release (accept_new_connection, "This should be impossible!").
THEOREM NoNumberShared == Spec => NumbersNotShared
<1> DEFINE Shares(c) == chan'[c].conn \notin {0, chan[c].conn} => c \notin Held
<1>1. ASSUME IInv, [Next]_vars, NEW c \in Ids PROVE Shares(c)
  <2>1. CASE AcceptNew
    <3>1. AcceptsOne /\ Reserve /\ Held' = Held \cup {ReservedId}
      BY <2>1 DEF AcceptNew, Held, SentConnect
    <3>2. chan' = [chan EXCEPT ![ReservedId] = Accepted(mudState = "Connected")]
      BY <2>1 DEF AcceptNew
    <3>3. ReservedId \in Ids /\ ReservedId \notin Held
      BY <1>1, <3>1, PoolReserves DEF AcceptsOne
    <3>4. c # ReservedId => chan'[c] = chan[c]
      BY <1>1, <3>2 DEF IInv, TypeOK, DoormanTypeOK
    <3> QED
      BY <3>3, <3>4
  <2>2. CASE (DoormanNext \/ TryConnect(MudListening)) /\ ~AcceptNew
    BY <1>1, <2>2, OnlyAcceptGives
  <2>3. CASE UNCHANGED doormanVars
    BY <2>3 DEF doormanVars
  <2> QED
    BY <1>1, <2>1, <2>2, <2>3 DEF Next, vars
<1>2. IInv /\ [Next]_vars => [\A c \in Ids : Shares(c)]_vars
  BY <1>1
<1>3. IInv /\ [Next]_vars =>
        [\A c \in Ids : chan'[c].conn \notin {0, chan[c].conn} => c \notin Held]_vars
  BY <1>2
<1> QED
  BY <1>3, InvariantAlways, PTL DEF Spec, NumbersNotShared

-----------------------------------------------------------------------------
(***************************************************************************)
(* No channel is wrong about the MUD.  ConnectedIffUp is inductive given   *)
(* the invariant above: a new client's number must be in range.            *)
(***************************************************************************)

\* What is true of every channel after a step that changes none but these.
LEMMA ConnectedKept ==
    ASSUME ConnectedIffUp, mudState' = mudState, channels' \subseteq channels,
           \A c \in channels' : /\ chan'[c].connected = chan[c].connected
                                /\ chan'[c].open => chan[c].open
    PROVE  ConnectedIffUp'
BY DEF ConnectedIffUp

LEMMA ConnectedSteps ==
    ASSUME IInv, ConnectedIffUp, DoormanNext \/ TryConnect(MudListening)
    PROVE  ConnectedIffUp'
<1> USE DEF IInv
<1>1. chan \in [Ids -> Channel] /\ channels \subseteq Ids
  BY DEF TypeOK, DoormanTypeOK
<1>2. CASE UNCHANGED <<chan, channels, mudState>>
  BY <1>2 DEF ConnectedIffUp
<1>3. CASE Exits
  BY <1>3 DEF Exits, ConnectedIffUp
<1>4. CASE CloseMud
  <2>1. channels' = channels /\ mudState' = "Disconnected" /\ chan' = ChannelsDisconnected
    BY <1>4 DEF CloseMud
  <2>2. \A c \in channels : chan'[c].connected = FALSE
    <3>1. \A c \in Ids : Closed(BrokenChannels)[c] \in Channel
      BY ClosedTyped
    <3>2. \A r \in Channel : [r EXCEPT !.connected = FALSE].connected = FALSE
      BY DEF Channel
    <3> QED
      BY <1>1, <2>1, <3>1, <3>2 DEF ChannelsDisconnected
  <2> QED
    BY <2>1, <2>2 DEF ConnectedIffUp
<1>5. CASE TryConnect(MudListening)
  <2>1. /\ channels' = channels /\ chan' = Closed(BrokenChannels)
        /\ mudState = "Disconnected" /\ mudState' = "ConnectedAwaitingInit"
    BY <1>5 DEF TryConnect
  <2>2. \A c \in channels : chan'[c].connected = chan[c].connected
    BY <1>1, <2>1, OwnersKept
  <2> QED
    BY <2>1, <2>2 DEF ConnectedIffUp
<1>6. CASE ConnectEveryone /\ ~Exits
  <2>1. /\ channels' = channels /\ mudState' = "Connected"
        /\ chan' = [d \in Ids |-> [chan[d] EXCEPT !.connected = @ \/ d \in OpenChannels]]
    BY <1>6 DEF ConnectEveryone
  <2>2. \A c \in channels : /\ chan'[c].open = chan[c].open
                            /\ chan'[c].connected = (chan[c].connected \/ c \in OpenChannels)
    BY <1>1, <2>1 DEF Channel
  <2> QED
    BY <2>1, <2>2 DEF ConnectedIffUp, OpenChannels
<1>7. ASSUME NEW d \in Ids, chan' = Closed({d}), UNCHANGED <<channels, mudState>>
      PROVE  ConnectedIffUp'
  <2>1. \A c \in channels : /\ chan'[c].connected = chan[c].connected
                            /\ chan'[c].open => chan[c].open
    BY <1>1, <1>7, OwnersKept
  <2> QED
    BY <1>7, <2>1, ConnectedKept
<1>8. CASE HandleMessage \/ \E d \in Ids : ClientGone(d)
  <2>1. ASSUME HandleMessage PROVE Head(toDoor).channel \in Ids
    BY <2>1, QueueRead DEF HandleMessage, Reads, TypeOK, LinkTypeOK
  <2> QED
    BY <1>2, <1>3, <1>7, <1>8, <2>1 DEF HandleMessage, ClientGone
<1>9. CASE HandleDisconnect
  <2>1. PICK d \in Ids : d = Head(toDoor).channel
    BY <1>9, QueueRead DEF HandleDisconnect, Reads, TypeOK, LinkTypeOK
  <2>2. CASE d \in channels
    <3>1. /\ chan' = [Closed({d}) EXCEPT ![d].connected = FALSE]
          /\ UNCHANGED <<channels, mudState>>
      BY <1>9, <2>1, <2>2 DEF HandleDisconnect
    <3>2. Closed({d}) \in [Ids -> Channel] /\ Closed({d})[d].open = FALSE
      BY <1>1, ClosedTyped DEF Closed, Channel
    <3>3. chan'[d].connected = FALSE /\ chan'[d].open = FALSE
      BY <3>1, <3>2 DEF Channel
    <3>4. \A c \in channels : c # d => /\ chan'[c].connected = chan[c].connected
                                       /\ chan'[c].open => chan[c].open
      BY <1>1, <3>1, <3>2, OwnersKept
    <3> QED
      BY <3>1, <3>3, <3>4 DEF ConnectedIffUp
  <2>3. CASE d \notin channels
    BY <1>2, <1>9, <2>1, <2>3 DEF HandleDisconnect
  <2> QED
    BY <2>2, <2>3
<1>10. CASE HandleAuthorized
  <2>1. \A c \in Ids : chan'[c].connected = chan[c].connected /\ chan'[c].open = chan[c].open
    BY <1>1, <1>10 DEF HandleAuthorized, Channel
  <2>2. UNCHANGED <<channels, mudState>>
    BY <1>10 DEF HandleAuthorized
  <2> QED
    BY <1>1, <2>1, <2>2, ConnectedKept
<1>11. CASE \E d \in Ids : ClientBreaks(d)
  <2>1. \A c \in Ids : chan'[c].connected = chan[c].connected /\ chan'[c].open = chan[c].open
    BY <1>1, <1>11 DEF ClientBreaks, Channel
  <2>2. UNCHANGED <<channels, mudState>>
    BY <1>11 DEF ClientBreaks
  <2> QED
    BY <1>1, <2>1, <2>2, ConnectedKept
<1>12. CASE \E d \in Ids : ClientData(d, "message") \/ ClientData(d, "info")
  BY <1>2, <1>8, <1>12 DEF ClientData, doormanVars
<1>13. CASE EndPoll
  <2>1. /\ channels' = channels \ channelsToRemove /\ mudState' = mudState
        /\ chan' = [c \in Ids |-> IF c \in channelsToRemove THEN NoChannel ELSE chan[c]]
    BY <1>13 DEF EndPoll
  <2>2. \A c \in channels' : chan'[c] = chan[c]
    BY <1>1, <2>1
  <2> QED
    BY <2>1, <2>2, ConnectedKept
<1>14. CASE AcceptNew
  <2>1. /\ channels' = channels \cup {ReservedId} /\ mudState' = mudState
        /\ chan' = [chan EXCEPT ![ReservedId] = Accepted(mudState = "Connected")]
    BY <1>14 DEF AcceptNew, AcceptsOne
  <2>2. Accepted(mudState = "Connected").connected = (mudState = "Connected")
    BY DEF Accepted, NoChannel
  <2>3. ReservedId \in Ids
    BY <1>14, PoolReserves DEF AcceptNew, AcceptsOne, Held, SentConnect
  <2>4. \A c \in channels' :
           \/ c \in channels /\ chan'[c] = chan[c]
           \/ chan'[c] = Accepted(mudState = "Connected")
    BY <1>1, <2>1, <2>3
  <2> QED
    BY <2>1, <2>2, <2>4 DEF ConnectedIffUp
<1>15. CASE HandleInit
  BY <1>3, <1>4, <1>6, <1>15 DEF HandleInit
<1>16. CASE HandleEcho \/ HandleAck \/ PollIdle \/ AcceptNone \/ AcceptFails
  BY <1>2, <1>3, <1>16 DEF HandleEcho, HandleAck, PollIdle, AcceptNone, AcceptFails, AcceptsOne
<1>17. CASE LoseMud \/ TruncatedRead
  BY <1>4, <1>17 DEF LoseMud, TruncatedRead
<1> QED
  BY <1>5, <1>8, <1>9, <1>10, <1>11, <1>12, <1>13, <1>14, <1>15, <1>16, <1>17
     DEF DoormanNext, DoormanPolls, ProcessMudMessage

\* Channel::connected_ and Xania::state_ agree for every client at all times:
\* nobody talks to a MUD that is gone, and nobody was left out when it came.
THEOREM ConnectedCorrect == Spec => []ConnectedIffUp
<1>1. Init => ConnectedIffUp
  BY DEF Init, DoormanInit, ConnectedIffUp
<1>2. IInv /\ ConnectedIffUp /\ [Next]_vars => ConnectedIffUp'
  <2> SUFFICES ASSUME IInv, ConnectedIffUp, [Next]_vars PROVE ConnectedIffUp'
    OBVIOUS
  <2>1. CASE DoormanNext \/ TryConnect(MudListening)
    BY <2>1, ConnectedSteps
  <2>2. CASE UNCHANGED doormanVars
    BY <2>2 DEF doormanVars, ConnectedIffUp
  <2> QED
    BY <2>1, <2>2 DEF Next, vars
<1> QED
  BY <1>1, <1>2, InvariantAlways, PTL DEF Spec

-----------------------------------------------------------------------------
(***************************************************************************)
(* Doorman never gets an INIT that it does not expect, for any number of   *)
(* clients, MUDs and faults.                                               *)
(*                                                                         *)
(* Why: there is at most one INIT unread, which came over the connection   *)
(* doorman has now, and doorman has not heard of that MUD before.  The MUD *)
(* sends it once per connection, after boot; and doorman throws away what  *)
(* is unread with the connection.  Handshake says this of every state.     *)
(***************************************************************************)

NoInit(q) == \A i \in DOMAIN q : q[i].type # "init"

OneInit(q) == \A i, j \in DOMAIN q : q[i].type = "init" /\ q[j].type = "init" => i = j

Handshake ==
    /\ doorEnd = "closed" => mudState = "Disconnected"
    /\ mudState = "Disconnected" => doorEnd = "closed"
    /\ doorEnd = "pending" => mudState = "ConnectedAwaitingInit"
    /\ doorEnd \in {"closed", "pending"} => toDoor = <<>>
    /\ doorEnd = "linked" => mudEnd = "linked"
    /\ mudEnd = "linked" => doorEnd = "linked"
    /\ mudPhase = "down" => mudEnd = "closed"
    /\ mudEnd = "linked" /\ mudPhase = "booting" =>
          mudState = "ConnectedAwaitingInit" /\ NoInit(toDoor)
    /\ mudState = "Connected" => NoInit(toDoor)
    /\ OneInit(toDoor)

-----------------------------------------------------------------------------
(***************************************************************************)
(* INITs in a queue.                                                       *)
(***************************************************************************)

\* Appending packets that are no INIT.
LEMMA AppendOthers ==
    ASSUME NEW q \in Seq(Packet), NEW ps \in Seq(Packet), NoInit(ps)
    PROVE  /\ NoInit(q) => NoInit(q \o ps)
           /\ OneInit(q) => OneInit(q \o ps)
<1> DEFINE u == q \o ps
<1>1. /\ Len(q) \in Nat /\ Len(ps) \in Nat
      /\ DOMAIN q = 1 .. Len(q) /\ DOMAIN ps = 1 .. Len(ps)
  BY LenProperties
<1>2. /\ DOMAIN u = 1 .. Len(q) + Len(ps)
      /\ \A i \in 1 .. Len(q) + Len(ps) :
            u[i] = IF i <= Len(q) THEN q[i] ELSE ps[i - Len(q)]
  <2>1. u \in Seq(Packet) /\ Len(u) = Len(q) + Len(ps)
    BY ConcatProperties
  <2>2. DOMAIN u = 1 .. Len(u)
    BY <2>1, LenProperties
  <2> QED
    BY <2>1, <2>2, ConcatProperties
<1> HIDE DEF u
<1>3. ASSUME NEW i \in DOMAIN u, u[i].type = "init"
      PROVE  i \in DOMAIN q /\ q[i].type = "init"
  <2>1. CASE i <= Len(q)
    BY <1>1, <1>2, <1>3, <2>1
  <2>2. CASE ~(i <= Len(q))
    <3>1. i - Len(q) \in DOMAIN ps /\ u[i] = ps[i - Len(q)]
      BY <1>1, <1>2, <1>3, <2>2
    <3> QED
      BY <1>3, <3>1 DEF NoInit
  <2> QED
    BY <2>1, <2>2
<1>4. NoInit(q) => NoInit(u)
  BY <1>3 DEF NoInit
<1>5. OneInit(q) => OneInit(u)
  BY <1>3 DEF OneInit
<1> QED
  BY <1>4, <1>5 DEF u

\* Reading the first packet.
LEMMA TailOfInits ==
    ASSUME NEW q \in Seq(Packet), q # <<>>
    PROVE  /\ NoInit(q) => NoInit(Tail(q))
           /\ OneInit(q) => OneInit(Tail(q))
           /\ OneInit(q) /\ Head(q).type = "init" => NoInit(Tail(q))
<1> DEFINE u == Tail(q)
<1>1. /\ Len(q) \in Nat \ {0} /\ DOMAIN q = 1 .. Len(q)
      /\ DOMAIN u = 1 .. Len(q) - 1
      /\ \A i \in 1 .. Len(q) - 1 : u[i] = q[i + 1]
      /\ Head(q) = q[1]
  <2>1. Len(q) \in Nat \ {0} /\ DOMAIN q = 1 .. Len(q)
    BY LenProperties, EmptySeq
  <2>2. u \in Seq(Packet) /\ Len(u) = Len(q) - 1
    BY HeadTailProperties
  <2>3. DOMAIN u = 1 .. Len(u)
    BY <2>2, LenProperties
  <2>4. \A i \in 1 .. Len(u) : u[i] = q[i + 1]
    BY HeadTailProperties
  <2> QED
    BY <2>1, <2>2, <2>3, <2>4
<1> HIDE DEF u
<1>2. ASSUME NEW i \in DOMAIN u
      PROVE  i + 1 \in DOMAIN q /\ i + 1 # 1 /\ u[i] = q[i + 1]
  BY <1>1, <1>2
<1>3. 1 \in DOMAIN q
  BY <1>1
<1>4. NoInit(q) => NoInit(u)
  BY <1>2 DEF NoInit
<1>5. OneInit(q) => OneInit(u)
  <2>1. ASSUME OneInit(q), NEW i \in DOMAIN u, NEW j \in DOMAIN u,
               u[i].type = "init", u[j].type = "init"
        PROVE  i = j
    <3>1. i + 1 = j + 1
      BY <1>2, <2>1 DEF OneInit
    <3> QED
      BY <1>1, <3>1
  <2> QED
    BY <2>1 DEF OneInit
<1>6. OneInit(q) /\ Head(q).type = "init" => NoInit(u)
  BY <1>1, <1>2, <1>3 DEF OneInit, NoInit
<1> QED
  BY <1>4, <1>5, <1>6 DEF u

\* The INIT itself, written to a queue without one.
LEMMA AppendInit ==
    ASSUME NEW q \in Seq(Packet), NEW p \in Packet, NoInit(q)
    PROVE  OneInit(q \o <<p>>)
<1> DEFINE u == q \o <<p>>
           n == Len(q) + 1
<1>1. /\ Len(q) \in Nat /\ DOMAIN q = 1 .. Len(q) /\ DOMAIN u = 1 .. n
      /\ \A i \in 1 .. Len(q) : u[i] = q[i]
  <2>1. <<p>> \in Seq(Packet) /\ Len(<<p>>) = 1
    OBVIOUS
  <2>2. u \in Seq(Packet) /\ Len(u) = n
    BY <2>1, ConcatProperties
  <2>3. Len(q) \in Nat /\ DOMAIN q = 1 .. Len(q) /\ DOMAIN u = 1 .. Len(u)
    BY <2>2, LenProperties
  <2>4. \A i \in 1 .. Len(q) : u[i] = q[i]
    BY <2>1, <2>3, ConcatProperties
  <2> QED
    BY <2>2, <2>3, <2>4
<1> HIDE DEF u
<1>2. \A i \in 1 .. n : u[i].type = "init" => i = n
  BY <1>1 DEF NoInit
<1> QED
  BY <1>1, <1>2 DEF OneInit, u

-----------------------------------------------------------------------------
(***************************************************************************)
(* Doorman's steps.                                                        *)
(***************************************************************************)

\* Most steps leave what the handshake is about.
LEMMA HandshakeUntouched ==
    ASSUME Handshake, UNCHANGED <<toDoor, doorEnd, mudEnd, mudState, mudPhase>>
    PROVE  Handshake'
BY DEF Handshake, NoInit, OneInit

\* Xania::close, and an exit, throw away what is unread.
LEMMA HandshakeDropped ==
    ASSUME Handshake, DoormanDropsLink, mudState' = "Disconnected", UNCHANGED mudPhase
    PROVE  Handshake'
<1>1. NoInit(<<>>) /\ OneInit(<<>>)
  BY DEF NoInit, OneInit
<1> QED
  BY <1>1 DEF Handshake, DoormanDropsLink, Orphaned

\* A packet that is no INIT, or the one that was waited for, is read.
LEMMA HandshakeRead ==
    ASSUME IInv, Handshake, toDoor # <<>>, toDoor' = Tail(toDoor),
           doorEnd \in {"linked", "orphan"},
           UNCHANGED <<doorEnd, mudEnd, mudPhase>>,
           \/ mudState' = mudState
           \/ /\ mudState = "ConnectedAwaitingInit" /\ mudState' = "Connected"
              /\ Head(toDoor).type = "init"
    PROVE  Handshake'
<1>1. toDoor \in Seq(Packet)
  BY DEF IInv, TypeOK, LinkTypeOK
<1>2. /\ NoInit(toDoor) => NoInit(toDoor')
      /\ OneInit(toDoor) => OneInit(toDoor')
      /\ OneInit(toDoor) /\ Head(toDoor).type = "init" => NoInit(toDoor')
  BY <1>1, TailOfInits
<1>3. CASE mudState' = mudState
  BY <1>2, <1>3 DEF Handshake
<1>4. CASE /\ mudState = "ConnectedAwaitingInit" /\ mudState' = "Connected"
           /\ Head(toDoor).type = "init"
  <2>1. ~NoInit(toDoor)
    <3>1. 1 \in DOMAIN toDoor /\ toDoor[1] = Head(toDoor)
      BY <1>1, LenProperties, EmptySeq, HeadTailProperties
    <3> QED
      BY <1>4, <3>1 DEF NoInit
  <2> QED
    BY <1>2, <1>4, <2>1 DEF Handshake
<1> QED
  BY <1>3, <1>4

LEMMA DoormanHandshakes ==
    ASSUME IInv, Handshake, DoormanNext \/ TryConnect(MudListening), UNCHANGED mudVars
    PROVE  Handshake'
<1>0. UNCHANGED mudPhase
  BY DEF mudVars
<1>1. CASE UNCHANGED <<toDoor, doorEnd, mudEnd, mudState>>
  BY <1>0, <1>1, HandshakeUntouched
<1>2. CASE Exits \/ CloseMud
  BY <1>0, <1>2, HandshakeDropped DEF Exits, CloseMud
<1>3. CASE TryConnect(MudListening)
  BY <1>0, <1>3 DEF TryConnect, Handshake
<1>4. CASE HandleInit
  <2>1. CASE mudState = "ConnectedAwaitingInit" /\ ConnectEveryone /\ ~Exits
    BY <1>0, <1>4, <2>1, HandshakeRead DEF HandleInit, Reads, ConnectEveryone, Consumes
  <2> QED
    BY <1>2, <1>4, <2>1 DEF HandleInit
<1>5. CASE Consumes /\ UNCHANGED mudState
           /\ toDoor # <<>> /\ doorEnd \in {"linked", "orphan"}
  BY <1>0, <1>5, HandshakeRead DEF Consumes
<1>6. CASE HandleMessage \/ HandleEcho \/ HandleAuthorized \/ HandleDisconnect \/ HandleAck
  BY <1>2, <1>5, <1>6
     DEF HandleMessage, HandleEcho, HandleAuthorized, HandleDisconnect, HandleAck, Reads
<1>7. CASE LoseMud \/ TruncatedRead
  BY <1>2, <1>7 DEF LoseMud, TruncatedRead
<1>8. CASE PollIdle \/ AcceptNone \/ AcceptNew \/ AcceptFails \/ EndPoll
  BY <1>1, <1>8 DEF PollIdle, AcceptNone, AcceptNew, AcceptFails, AcceptsOne, EndPoll, linkVars
<1>9. CASE \E c \in Ids : \/ ClientData(c, "message") \/ ClientData(c, "info")
                          \/ ClientGone(c) \/ ClientBreaks(c)
  BY <1>1, <1>2, <1>9 DEF ClientData, ClientGone, ClientBreaks, doormanVars, linkVars
<1> QED
  BY <1>3, <1>4, <1>6, <1>7, <1>8, <1>9 DEF DoormanNext, DoormanPolls, ProcessMudMessage

-----------------------------------------------------------------------------
(***************************************************************************)
(* The MUD's steps.                                                        *)
(***************************************************************************)

\* The MUD writes packets that are no INIT.
LEMMA HandshakeWrites ==
    ASSUME IInv, Handshake, NEW ps \in Seq(Packet), NoInit(ps), MudWrites(ps),
           UNCHANGED <<doorEnd, mudEnd, mudPhase, mudState>>
    PROVE  Handshake'
<1>1. toDoor \in Seq(Packet)
  BY DEF IInv, TypeOK, LinkTypeOK
<1>2. /\ NoInit(toDoor) => NoInit(toDoor \o ps)
      /\ OneInit(toDoor) => OneInit(toDoor \o ps)
  BY <1>1, AppendOthers
<1>3. /\ NoInit(toDoor) => NoInit(toDoor')
      /\ OneInit(toDoor) => OneInit(toDoor')
      /\ doorEnd \in {"closed", "pending"} => toDoor' = toDoor
  BY <1>2 DEF MudWrites, Handshake
<1> QED
  BY <1>3 DEF Handshake

\* The process ends, having written packets that are no INIT.
LEMMA HandshakeEnds ==
    ASSUME Handshake, ProcessEnds, UNCHANGED mudState,
           NoInit(toDoor) => NoInit(toDoor'), OneInit(toDoor'),
           mudEnd # "linked" => toDoor' = toDoor,
           doorEnd \in {"closed", "pending", "linked", "orphan"}
    PROVE  Handshake'
<1>1. /\ mudPhase' = "down" /\ mudEnd' = "closed"
      /\ doorEnd' = Orphaned(doorEnd)
  BY DEF ProcessEnds
<1>2. doorEnd' \in {"closed", "orphan"} /\ (doorEnd' = "closed" <=> doorEnd = "closed")
  BY <1>1 DEF Orphaned
<1>3. doorEnd = "closed" => toDoor' = <<>>
  BY DEF Handshake
<1> QED
  BY <1>1, <1>2, <1>3 DEF Handshake

\* Starting, booting and stopping.
LEMMA LifeHandshakes ==
    ASSUME IInv, Handshake, UNCHANGED doormanVars,
           MudStart \/ BootAccept \/ BootDone \/ MudStops \/ MudShutdown
    PROVE  Handshake'
<1>0. /\ UNCHANGED mudState /\ toDoor \in Seq(Packet) /\ NoInit(<<>>) /\ OneInit(<<>>)
      /\ doorEnd \in {"closed", "pending", "linked", "orphan"}
      /\ OneInit(toDoor)
  BY DEF IInv, TypeOK, LinkTypeOK, doormanVars, NoInit, OneInit, Handshake
<1>1. CASE MudStart
  BY <1>0, <1>1 DEF MudStart, linkVars, Handshake
<1>2. CASE BootAccept
  BY <1>0, <1>2 DEF BootAccept, AcceptDoorman, mudVars, Handshake
<1>3. CASE BootDone
  <2>1. Pkt("init", 0, 0, 0) \in Packet
    BY BoundsAssumption, PacketTyped DEF Ids, Conns, PacketTypes
  <2>2. /\ mudPhase = "booting" /\ mudPhase' = "packets" /\ UNCHANGED <<doorEnd, mudEnd>>
        /\ MudWrites(<<Pkt("init", 0, 0, 0)>>)
    BY <1>3 DEF BootDone
  <2>3. CASE mudEnd = "linked"
    <3>1. NoInit(toDoor) /\ mudState = "ConnectedAwaitingInit" /\ doorEnd = "linked"
      BY <2>2, <2>3 DEF Handshake
    <3>2. OneInit(toDoor')
      BY <1>0, <2>1, <2>2, <2>3, <3>1, AppendInit DEF MudWrites
    <3> QED
      BY <1>0, <2>2, <2>3, <3>1, <3>2 DEF Handshake
  <2>4. CASE mudEnd # "linked"
    BY <1>0, <2>2, <2>4 DEF MudWrites, Handshake
  <2> QED
    BY <2>3, <2>4
<1>4. CASE MudStops
  BY <1>0, <1>4, HandshakeEnds DEF MudStops
<1>5. CASE MudShutdown
  <2>1. PICK order \in Orderings(Alive) :
           MudWrites([i \in 1 .. Cardinality(Alive) |-> ToDoor("disconnect", order[i])])
    BY <1>5 DEF MudShutdown, Orderings
  <2> DEFINE ps == [i \in 1 .. Cardinality(Alive) |-> ToDoor("disconnect", order[i])]
  <2>2. /\ TypeOK /\ Alive \subseteq Ids
    BY ClosedTyped DEF IInv
  <2>3. Cardinality(Alive) \in Nat /\ order \in [1 .. Cardinality(Alive) -> Alive]
    BY <2>2, IdsFinite, OrderingProperties
  <2>4. \A i \in 1 .. Cardinality(Alive) : ToDoor("disconnect", order[i]) \in Packet
    BY <2>2, <2>3, OwnPackets DEF PacketTypes
  <2>5. ps \in Seq(Packet)
    BY <2>3, <2>4, SeqDef
  <2>6. NoInit(ps)
    BY DEF NoInit, ToDoor, Pkt
  <2> HIDE DEF ps
  <2>7. /\ NoInit(toDoor) => NoInit(toDoor \o ps)
        /\ OneInit(toDoor \o ps)
    BY <1>0, <2>5, <2>6, AppendOthers
  <2>8. MudWrites(ps)
    BY <2>1 DEF ps
  <2>9. /\ NoInit(toDoor) => NoInit(toDoor')
        /\ OneInit(toDoor')
        /\ mudEnd # "linked" => toDoor' = toDoor
    BY <1>0, <2>7, <2>8 DEF MudWrites
  <2> QED
    BY <1>0, <1>5, <2>9, HandshakeEnds DEF MudShutdown
<1> QED
  BY <1>1, <1>2, <1>3, <1>4, <1>5

\* Phase "packets" but for the packets.
LEMMA PacketPhaseHandshakes ==
    ASSUME IInv, Handshake, UNCHANGED doormanVars, AcceptAgain \/ DoormanLost \/ EndPackets
    PROVE  Handshake'
<1>0. UNCHANGED mudState /\ NoInit(<<>>)
  BY DEF doormanVars, NoInit
<1>1. CASE AcceptAgain
  <2>1. Pkt("init", 0, 0, 0) \in Packet
    BY BoundsAssumption, PacketTyped DEF Ids, Conns, PacketTypes
  <2>2. toDoor = <<>> /\ mudState = "ConnectedAwaitingInit" /\ <<>> \in Seq(Packet)
    BY <1>1 DEF AcceptAgain, AcceptDoorman, Handshake
  <2>3. OneInit(toDoor')
    BY <1>0, <1>1, <2>1, <2>2, AppendInit DEF AcceptAgain
  <2> QED
    BY <1>0, <1>1, <2>2, <2>3 DEF AcceptAgain, AcceptDoorman, Handshake
<1>2. CASE DoormanLost
  BY <1>0, <1>2 DEF DoormanLost, MudDropsLink, Handshake
<1>3. CASE EndPackets
  BY <1>0, <1>3 DEF EndPackets, linkVars, Handshake
<1> QED
  BY <1>1, <1>2, <1>3

\* handle_doorman_packet.
LEMMA ReceivePacketHandshakes ==
    ASSUME IInv, Handshake, UNCHANGED doormanVars, ReceivePacket
    PROVE  Handshake'
<1> DEFINE p == Head(toMud)
<1>0. /\ UNCHANGED mudState /\ toMud # <<>>
      /\ UNCHANGED <<doorEnd, mudEnd, mudPhase>>
  BY DEF doormanVars, ReceivePacket, ReceiveConnect, ReceiveReconnect, ReceiveDisconnect,
         ReceiveInfo, ReceiveMessage, Receives
<1>1. TypeOK /\ 0 \in Conns /\ p.channel \in Ids /\ p.conn \in Conns /\ p.who \in Conns
  BY <1>0, QueueRead, BoundsAssumption DEF IInv, TypeOK, LinkTypeOK, Conns
<1>2. CASE UNCHANGED toDoor
  BY <1>0, <1>2, HandshakeUntouched
<1>3. CASE ReceiveReconnect /\ p.channel \notin descriptors
  <2> DEFINE From(type) == Pkt(type, p.channel, p.conn,
                               IF type = "authorized" THEN p.who ELSE 0)
             echoes == <<From("echo"), From("echo")>>
             refused == <<From("message"), From("disconnect")>>
  <2>1. \E ps \in { <<>>, echoes, refused, echoes \o refused, echoes \o <<From("authorized")>> } :
           MudWrites(ps)
    BY <1>3 DEF ReceiveReconnect, ReconnectOutcomes
  <2>2. /\ From("echo") \in Packet /\ From("message") \in Packet
        /\ From("disconnect") \in Packet /\ From("authorized") \in Packet
    BY <1>1, PacketTyped DEF PacketTypes
  <2>3. /\ From("echo").type # "init" /\ From("message").type # "init"
        /\ From("disconnect").type # "init" /\ From("authorized").type # "init"
    BY DEF Pkt
  <2> HIDE DEF From
  <2>4. /\ <<>> \in Seq(Packet) /\ NoInit(<<>>)
        /\ echoes \in Seq(Packet) /\ NoInit(echoes)
        /\ refused \in Seq(Packet) /\ NoInit(refused)
        /\ <<From("authorized")>> \in Seq(Packet) /\ NoInit(<<From("authorized")>>)
    BY <2>2, <2>3 DEF NoInit
  <2> HIDE DEF echoes, refused
  <2>5. /\ echoes \o refused \in Seq(Packet) /\ NoInit(echoes \o refused)
        /\ echoes \o <<From("authorized")>> \in Seq(Packet)
        /\ NoInit(echoes \o <<From("authorized")>>)
    BY <2>4, AppendOthers, ConcatProperties
  <2>6. \E ps \in Seq(Packet) : NoInit(ps) /\ MudWrites(ps)
    BY <2>1, <2>4, <2>5
  <2> QED
    BY <1>0, <2>6, HandshakeWrites
<1>4. CASE ReceiveDisconnect /\ p.channel \in descriptors
  <2>1. MudWrites(<<ToDoor("ack", p.channel)>>)
    BY <1>4 DEF ReceiveDisconnect
  <2>2. ToDoor("ack", p.channel) \in Packet
    BY <1>1, OwnPackets DEF PacketTypes
  <2>3. ToDoor("ack", p.channel).type # "init"
    BY DEF ToDoor, Pkt
  <2>4. /\ <<ToDoor("ack", p.channel)>> \in Seq(Packet)
        /\ NoInit(<<ToDoor("ack", p.channel)>>)
    BY <2>2, <2>3 DEF NoInit
  <2> QED
    BY <1>0, <2>1, <2>4, HandshakeWrites
<1> QED
  BY <1>2, <1>3, <1>4 DEF ReceivePacket, ReceiveConnect, ReceiveReconnect,
                          ReceiveDisconnect, ReceiveInfo, ReceiveMessage

\* Phase "work".
LEMMA WorkHandshakes ==
    ASSUME IInv, Handshake, UNCHANGED doormanVars,
           \/ EndWork
           \/ \E c \in Ids : \/ Login(c) \/ TakeOverLinkDead(c)
                             \/ SetEcho(c) \/ Output(c) \/ CloseDescriptor(c)
    PROVE  Handshake'
<1>0. UNCHANGED mudState /\ TypeOK
  BY DEF doormanVars, IInv
<1>1. CASE EndWork
  BY <1>0, <1>1 DEF EndWork, linkVars, Handshake
<1>2. ASSUME NEW c \in Ids,
             \/ Login(c) \/ TakeOverLinkDead(c) \/ SetEcho(c) \/ Output(c) \/ CloseDescriptor(c)
      PROVE  Handshake'
  <2>1. UNCHANGED <<doorEnd, mudEnd, mudPhase>>
    BY <1>2 DEF Login, TakeOverLinkDead, SetEcho, Output, CloseDescriptor, Works
  <2>2. \A type \in PacketTypes \ {"init"} :
           <<ToDoor(type, c)>> \in Seq(Packet) /\ NoInit(<<ToDoor(type, c)>>)
    <3> TAKE type \in PacketTypes \ {"init"}
    <3>1. ToDoor(type, c) \in Packet
      BY <1>0, OwnPackets
    <3>2. ToDoor(type, c).type # "init"
      BY DEF ToDoor, Pkt
    <3> QED
      BY <3>1, <3>2 DEF NoInit
  <2>3. \/ UNCHANGED toDoor
        \/ \E type \in {"authorized", "echo", "message", "disconnect"} :
              MudWrites(<<ToDoor(type, c)>>)
    BY <1>2 DEF Login, TakeOverLinkDead, SetEcho, Output, CloseDescriptor
  <2>4. CASE UNCHANGED toDoor
    BY <1>0, <2>1, <2>4, HandshakeUntouched
  <2>5. ASSUME NEW type \in {"authorized", "echo", "message", "disconnect"},
               MudWrites(<<ToDoor(type, c)>>)
        PROVE  Handshake'
    <3>1. type \in PacketTypes \ {"init"}
      BY DEF PacketTypes
    <3> QED
      BY <1>0, <2>1, <2>2, <2>5, <3>1, HandshakeWrites
  <2> QED
    BY <2>3, <2>4, <2>5
<1> QED
  BY <1>1, <1>2

LEMMA MudHandshakes ==
    ASSUME IInv, Handshake, MudNext, UNCHANGED doormanVars
    PROVE  Handshake'
<1>1. CASE MudStart \/ BootAccept \/ BootDone \/ MudStops \/ MudShutdown
  BY <1>1, LifeHandshakes
<1>2. CASE AcceptAgain \/ DoormanLost \/ EndPackets
  BY <1>2, PacketPhaseHandshakes
<1>3. CASE ReceivePacket
  BY <1>3, ReceivePacketHandshakes
<1>4. CASE \/ EndWork
           \/ \E c \in Ids : \/ Login(c) \/ TakeOverLinkDead(c)
                             \/ SetEcho(c) \/ Output(c) \/ CloseDescriptor(c)
  BY <1>4, WorkHandshakes
<1> QED
  BY <1>1, <1>2, <1>3, <1>4 DEF MudNext, MudLoops

-----------------------------------------------------------------------------
(***************************************************************************)
(* The theorem.                                                            *)
(***************************************************************************)

\* The two processes agree on how far their connection has got.
LEMMA HandshakeAlways == Spec => []Handshake
<1>1. Init => Handshake
  BY DEF Init, LinkInit, DoormanInit, MudInit, Handshake, NoInit, OneInit
<1>2. IInv /\ Handshake /\ [Next]_vars => Handshake'
  <2> SUFFICES ASSUME IInv, Handshake, [Next]_vars PROVE Handshake'
    OBVIOUS
  <2>1. CASE (DoormanNext \/ TryConnect(MudListening)) /\ UNCHANGED mudVars
    BY <2>1, DoormanHandshakes
  <2>2. CASE MudNext /\ UNCHANGED doormanVars
    BY <2>2, MudHandshakes
  <2>3. CASE UNCHANGED vars
    BY <2>3, HandshakeUntouched DEF vars, linkVars, doormanVars, mudVars
  <2> QED
    BY <2>1, <2>2, <2>3 DEF Next
<1> QED
  BY <1>1, <1>2, InvariantAlways, PTL DEF Spec

\* handle_init's "Got init packet when not expecting it!" is never reached, over
\* any number of MUDs that boot, crash, shut down and lose doorman.
THEOREM InitAlwaysExpected == Spec => []InitExpected
<1>1. IInv /\ Handshake => InitExpected
  <2> SUFFICES ASSUME IInv, Handshake,
                      toDoor # <<>>, Head(toDoor).type = "init"
               PROVE  mudState = "ConnectedAwaitingInit"
    BY DEF InitExpected
  <2>1. toDoor \in Seq(Packet)
           /\ mudState \in {"Disconnected", "ConnectedAwaitingInit", "Connected"}
    BY DEF IInv, TypeOK, LinkTypeOK, DoormanTypeOK
  <2>2. 1 \in DOMAIN toDoor /\ toDoor[1] = Head(toDoor)
    BY <2>1, LenProperties, EmptySeq, HeadTailProperties
  <2>3. ~NoInit(toDoor)
    BY <2>2 DEF NoInit
  <2> QED
    BY <2>1, <2>3 DEF Handshake
<1> QED
  BY <1>1, HandshakeAlways, InvariantAlways, PTL

-----------------------------------------------------------------------------
(***************************************************************************)
(* Doorman and the MUD implement ClientRelay, for any number of clients,   *)
(* channels and faults.                                                    *)
(*                                                                         *)
(* Because connected_ agrees with Xania::state_ (ConnectedIffUp), the      *)
(* stage of a client depends on three things only: whether it was accepted *)
(* (accepted), whether it has an open channel (Served), and whether there  *)
(* is a MUD (Up).  So a step of the two processes is one of four kinds.    *)
(***************************************************************************)

\* Whoever has a channel was accepted.
OwnersAccepted == \A c \in Ids : chan[c].conn <= accepted

RInv == IInv /\ ConnectedIffUp /\ OwnersAccepted

Served == {k \in 1 .. MaxAccepts : \E c \in OpenChannels : chan[c].conn = k}

StageOf(k, n, served, up) ==
    IF k > n THEN "absent"
    ELSE IF k \notin served THEN "gone"
    ELSE IF up THEN "connected" ELSE "waiting"

-----------------------------------------------------------------------------
(***************************************************************************)
(* The stage of a client.                                                  *)
(***************************************************************************)

\* The refinement mapping in the terms above.  That no two of its cases apply
\* to one client is what OwnersAccepted and ConnectedIffUp say.
LEMMA StageMeaning ==
    ASSUME RInv, NEW k \in 1 .. MaxAccepts
    PROVE  Stage(k) = StageOf(k, accepted, Served, Up)
<1>1. OpenChannels \subseteq channels /\ OpenChannels \subseteq Ids
  BY DEF OpenChannels, RInv, IInv, TypeOK, DoormanTypeOK
<1>2. \A c \in OpenChannels : /\ chan[c].connected => Up
                              /\ Up => chan[c].connected
  BY <1>1 DEF RInv, ConnectedIffUp, OpenChannels, Up
<1>3. (\E c \in ChannelOf(k) : chan[c].connected) <=> k \in Served /\ Up
  BY <1>2 DEF ChannelOf, Served
<1>4. (\E c \in ChannelOf(k) : ~chan[c].connected) <=> k \in Served /\ ~Up
  BY <1>2 DEF ChannelOf, Served
<1>5. k > accepted => k \notin Served
  <2>1. accepted \in Nat /\ k \in Nat
    BY BoundsAssumption DEF RInv, IInv, TypeOK, LinkTypeOK
  <2> QED
    BY <1>1, <2>1 DEF RInv, OwnersAccepted, Served
<1> QED
  BY <1>3, <1>4, <1>5 DEF Stage, StageOf

\* The clients of ClientRelay, in the terms above.
LEMMA StagesMeaning ==
    RInv => Stages = [k \in 1 .. MaxAccepts |-> StageOf(k, accepted, Served, Up)]
<1> SUFFICES ASSUME RInv
             PROVE  Stages = [k \in 1 .. MaxAccepts |-> StageOf(k, accepted, Served, Up)]
  OBVIOUS
<1> QED
  BY StageMeaning DEF Stages

\* What is known of the three.
LEMMA ServedTyped ==
    RInv => /\ accepted \in Nat
            /\ Served \in SUBSET (1 .. MaxAccepts)
            /\ Up \in BOOLEAN
            /\ \A k \in Served : k <= accepted
<1> SUFFICES ASSUME RInv
             PROVE  /\ accepted \in Nat
                    /\ Served \in SUBSET (1 .. MaxAccepts)
                    /\ Up \in BOOLEAN
                    /\ \A k \in Served : k <= accepted
  OBVIOUS
<1>1. accepted \in Nat /\ OpenChannels \subseteq Ids
  BY BoundsAssumption DEF RInv, IInv, TypeOK, LinkTypeOK, DoormanTypeOK, OpenChannels
<1> QED
  BY <1>1 DEF RInv, OwnersAccepted, Served, Up

\* Those ClientRelay calls present are those served.
LEMMA PresentMeaning ==
    ASSUME RInv
    PROVE  Relay!Present = Served
<1>1. \A k \in 1 .. MaxAccepts :
         StageOf(k, accepted, Served, Up) \in {"waiting", "connected"} <=> k \in Served
  <2> TAKE k \in 1 .. MaxAccepts
  <2>1. accepted \in Nat /\ k \in Nat /\ (k \in Served => k <= accepted)
    BY BoundsAssumption, ServedTyped
  <2> QED
    BY <2>1 DEF StageOf
<1>2. \A k \in 1 .. MaxAccepts : Stages[k] = StageOf(k, accepted, Served, Up)
  BY StagesMeaning
<1>3. Relay!Present = {k \in 1 .. MaxAccepts : Stages[k] \in {"waiting", "connected"}}
  BY DEF Relay!Present, Relay!Clients
<1>4. Served \subseteq 1 .. MaxAccepts
  BY ServedTyped
<1> QED
  BY <1>1, <1>2, <1>3, <1>4

-----------------------------------------------------------------------------
(***************************************************************************)
(* The four kinds of step, and what ClientRelay calls them.                *)
(***************************************************************************)

\* Nobody arrives; some may go, and the MUD may go.
Stays ==
    /\ accepted' = accepted
    /\ Served' \subseteq Served
    /\ Up' => Up

\* The MUD comes, and nobody goes.
Rises ==
    /\ accepted' = accepted
    /\ Served' = Served
    /\ ~Up /\ Up'

\* The next client arrives.
Arrives ==
    /\ accepted < MaxAccepts
    /\ accepted' = accepted + 1
    /\ Served' = Served \cup {accepted + 1}
    /\ Up' = Up

\* The next client is not taken on.
Fails ==
    /\ accepted < MaxAccepts
    /\ accepted' = accepted + 1
    /\ Served' = Served
    /\ Up' = Up

\* Each of them is a step of ClientRelay.
LEMMA KindsImplement ==
    ASSUME RInv, RInv', Stays \/ Rises \/ Arrives \/ Fails
    PROVE  Relay!RelayNext
<1> DEFINE Cl == 1 .. MaxAccepts
           stage == [k \in Cl |-> StageOf(k, accepted, Served, Up)]
           stage2 == [k \in Cl |-> StageOf(k, accepted', Served', Up')]
<1>1. Stages = stage
  BY StagesMeaning
<1>2. Stages' = stage2
  <2>1. (RInv => Stages = [k \in 1 .. MaxAccepts |-> StageOf(k, accepted, Served, Up)])'
    BY StagesMeaning, PTL
  <2> QED
    BY <2>1
<1>3. /\ accepted \in Nat /\ MaxAccepts \in Nat
      /\ Served \in SUBSET Cl /\ Served' \in SUBSET Cl
      /\ Up \in BOOLEAN /\ Up' \in BOOLEAN
      /\ \A k \in Served : k <= accepted
  <2>1. (RInv => /\ accepted \in Nat
                 /\ Served \in SUBSET (1 .. MaxAccepts)
                 /\ Up \in BOOLEAN
                 /\ \A k \in Served : k <= accepted)'
    BY ServedTyped, PTL
  <2> QED
    BY <2>1, ServedTyped, BoundsAssumption
<1>4. Relay!Present = Served /\ Relay!Clients = Cl
  BY PresentMeaning DEF Relay!Clients
<1>5. CASE Stays /\ Up' = Up
  <2> DEFINE S == Served \ Served'
  <2>1. \A k \in Cl : StageOf(k, accepted', Served', Up')
                        = IF k \in S THEN "gone" ELSE StageOf(k, accepted, Served, Up)
    BY <1>3, <1>5 DEF StageOf, Stays
  <2>2. Relay!Leave(S)
    BY <1>1, <1>2, <1>4, <1>5, <2>1 DEF Relay!Leave
  <2> QED
    BY <1>4, <2>2 DEF Relay!RelayNext
<1>6. CASE Stays /\ Up' # Up
  <2>1. Up = TRUE /\ Up' = FALSE
    BY <1>3, <1>6 DEF Stays
  <2>2. \A k \in Cl : StageOf(k, accepted', Served', Up')
                        = IF k \in Served' THEN "waiting"
                          ELSE IF k \in Served THEN "gone"
                          ELSE StageOf(k, accepted, Served, Up)
    BY <1>3, <1>6, <2>1 DEF StageOf, Stays
  <2>3. Relay!Stay(Served', "waiting")
    BY <1>1, <1>2, <1>4, <2>2 DEF Relay!Stay
  <2>4. Relay!MudDown(Served')
    BY <2>1, <2>3 DEF Relay!MudDown
  <2> QED
    BY <1>4, <1>6, <2>4 DEF Relay!RelayNext, Stays
<1>7. CASE Rises
  <2>1. Up = FALSE /\ Up' = TRUE
    BY <1>3, <1>7 DEF Rises
  <2>2. \A k \in Cl : StageOf(k, accepted', Served', Up')
                        = IF k \in Served THEN "connected"
                          ELSE IF k \in Served THEN "gone"
                          ELSE StageOf(k, accepted, Served, Up)
    BY <1>3, <1>7, <2>1 DEF StageOf, Rises
  <2>3. Relay!Stay(Served, "connected")
    BY <1>1, <1>2, <1>4, <2>2 DEF Relay!Stay
  <2>4. Relay!MudUp
    BY <1>4, <2>1, <2>3 DEF Relay!MudUp
  <2> QED
    BY <2>4 DEF Relay!RelayNext
<1>8. ASSUME NEW to, accepted + 1 \in Cl, Up' = Up,
             \A k \in Cl : StageOf(k, accepted', Served', Up')
                             = IF k = accepted + 1 THEN to ELSE StageOf(k, accepted, Served, Up)
      PROVE  Stages[accepted + 1] = "absent" /\ Stages' = [Stages EXCEPT ![accepted + 1] = to]
  <2>1. Stages[accepted + 1] = "absent"
    BY <1>1, <1>3, <1>8 DEF StageOf
  <2> QED
    BY <1>1, <1>2, <1>8, <2>1
<1>9. CASE Arrives
  <2>1. accepted + 1 \in Cl /\ Up' = Up
    BY <1>3, <1>9 DEF Arrives
  <2>2. \A k \in Cl : StageOf(k, accepted', Served', Up')
                        = IF k = accepted + 1 THEN IF Up THEN "connected" ELSE "waiting"
                          ELSE StageOf(k, accepted, Served, Up)
    BY <1>3, <1>9 DEF StageOf, Arrives
  <2>3. Relay!Arrive(accepted + 1)
    BY <1>8, <2>1, <2>2 DEF Relay!Arrive
  <2> QED
    BY <1>4, <2>1, <2>3 DEF Relay!RelayNext
<1>10. CASE Fails
  <2>1. accepted + 1 \in Cl /\ Up' = Up
    BY <1>3, <1>10 DEF Fails
  <2>2. \A k \in Cl : StageOf(k, accepted', Served', Up')
                        = IF k = accepted + 1 THEN "gone" ELSE StageOf(k, accepted, Served, Up)
    BY <1>3, <1>10 DEF StageOf, Fails
  <2>3. Relay!Refuse(accepted + 1)
    BY <1>8, <2>1, <2>2 DEF Relay!Refuse
  <2> QED
    BY <1>4, <2>1, <2>3 DEF Relay!RelayNext
<1> QED
  BY <1>5, <1>6, <1>7, <1>9, <1>10

-----------------------------------------------------------------------------
(***************************************************************************)
(* Which kind of step each action is.                                      *)
(***************************************************************************)

\* Steps that accept nobody.
LEMMA AcceptedKept ==
    ASSUME IInv, DoormanNext \/ TryConnect(MudListening), ~AcceptNew, ~AcceptFails
    PROVE  accepted' = accepted
BY DEF DoormanNext, DoormanPolls, ProcessMudMessage, PollIdle, TryConnect, LoseMud,
       TruncatedRead, CloseMud, HandleInit, ConnectEveryone, HandleMessage, HandleEcho,
       HandleAuthorized, HandleDisconnect, HandleAck, Consumes, AcceptNone, EndPoll,
       ClientData, ClientGone, ClientBreaks, Exits, linkVars

\* Nobody becomes a client but by being accepted.
LEMMA OpenOnlyShrinks ==
    ASSUME IInv, DoormanNext \/ TryConnect(MudListening), ~AcceptNew
    PROVE  OpenChannels' \subseteq OpenChannels
<1> USE DEF IInv
<1>1. /\ chan \in [Ids -> Channel] /\ channels \subseteq Ids
      /\ OpenChannels' = {c \in channels' : chan'[c].open}
  BY DEF TypeOK, DoormanTypeOK, OpenChannels
<1>2. ASSUME channels' \subseteq channels, \A c \in channels' : chan'[c].open => chan[c].open
      PROVE  OpenChannels' \subseteq OpenChannels
  BY <1>2 DEF OpenChannels
<1>3. CASE UNCHANGED <<chan, channels>>
  BY <1>3 DEF OpenChannels
<1>4. CASE Exits
  BY <1>1, <1>4 DEF Exits
<1>5. CASE EndPoll
  <2>1. /\ channels' = channels \ channelsToRemove
        /\ chan' = [c \in Ids |-> IF c \in channelsToRemove THEN NoChannel ELSE chan[c]]
    BY <1>5 DEF EndPoll
  <2>2. \A c \in channels' : chan'[c] = chan[c]
    BY <1>1, <2>1
  <2> QED
    BY <1>2, <2>1, <2>2
<1>6. CASE CloseMud
  <2>1. channels' = channels /\ chan' = ChannelsDisconnected
    BY <1>6 DEF CloseMud
  <2>2. \A c \in Ids : Closed(BrokenChannels)[c] \in Channel
    BY ClosedTyped
  <2>3. \A r \in Channel : [r EXCEPT !.connected = FALSE].open = r.open
    BY DEF Channel
  <2>4. \A c \in channels : ChannelsDisconnected[c].open = Closed(BrokenChannels)[c].open
    BY <1>1, <2>2, <2>3 DEF ChannelsDisconnected
  <2> QED
    BY <1>1, <1>2, <2>1, <2>4, OwnersKept
<1>7. CASE TryConnect(MudListening)
  <2>1. channels' = channels /\ chan' = Closed(BrokenChannels)
    BY <1>7 DEF TryConnect
  <2> QED
    BY <1>1, <1>2, <2>1, OwnersKept
<1>8. CASE ConnectEveryone /\ ~Exits
  <2>1. /\ channels' = channels
        /\ chan' = [d \in Ids |-> [chan[d] EXCEPT !.connected = @ \/ d \in OpenChannels]]
    BY <1>8 DEF ConnectEveryone
  <2>2. \A c \in channels : chan'[c].open = chan[c].open
    BY <1>1, <2>1 DEF Channel
  <2> QED
    BY <1>2, <2>1, <2>2
<1>9. ASSUME NEW d \in Ids, chan' = Closed({d}), UNCHANGED channels
      PROVE  OpenChannels' \subseteq OpenChannels
  BY <1>1, <1>2, <1>9, OwnersKept
<1>10. CASE HandleMessage \/ \E d \in Ids : ClientGone(d)
  <2>1. ASSUME HandleMessage PROVE Head(toDoor).channel \in Ids
    BY <2>1, QueueRead DEF HandleMessage, Reads, TypeOK, LinkTypeOK
  <2> QED
    BY <1>3, <1>4, <1>9, <1>10, <2>1 DEF HandleMessage, ClientGone
<1>11. CASE HandleDisconnect
  <2>1. PICK d \in Ids : d = Head(toDoor).channel
    BY <1>11, QueueRead DEF HandleDisconnect, Reads, TypeOK, LinkTypeOK
  <2>2. CASE d \in channels
    <3>1. chan' = [Closed({d}) EXCEPT ![d].connected = FALSE] /\ UNCHANGED channels
      BY <1>11, <2>1, <2>2 DEF HandleDisconnect
    <3>2. Closed({d}) \in [Ids -> Channel]
      BY ClosedTyped
    <3>3. \A c \in channels : chan'[c].open = Closed({d})[c].open
      BY <1>1, <3>1, <3>2 DEF Channel
    <3> QED
      BY <1>1, <1>2, <3>1, <3>3, OwnersKept
  <2>3. CASE d \notin channels
    BY <1>3, <1>11, <2>1, <2>3 DEF HandleDisconnect
  <2> QED
    BY <2>2, <2>3
<1>12. CASE HandleAuthorized
  <2>1. \A c \in Ids : chan'[c].open = chan[c].open
    BY <1>1, <1>12 DEF HandleAuthorized, Channel
  <2> QED
    BY <1>1, <1>2, <1>12, <2>1 DEF HandleAuthorized
<1>13. CASE \E d \in Ids : ClientBreaks(d)
  <2>1. \A c \in Ids : chan'[c].open = chan[c].open
    BY <1>1, <1>13 DEF ClientBreaks, Channel
  <2> QED
    BY <1>1, <1>2, <1>13, <2>1 DEF ClientBreaks
<1>14. CASE \E d \in Ids : ClientData(d, "message") \/ ClientData(d, "info")
  BY <1>3, <1>10, <1>14 DEF ClientData, doormanVars
<1>15. CASE HandleInit
  BY <1>4, <1>6, <1>8, <1>15 DEF HandleInit
<1>16. CASE HandleEcho \/ HandleAck \/ PollIdle \/ AcceptNone \/ AcceptFails
  BY <1>3, <1>4, <1>16 DEF HandleEcho, HandleAck, PollIdle, AcceptNone, AcceptFails
<1>17. CASE LoseMud \/ TruncatedRead
  BY <1>6, <1>17 DEF LoseMud, TruncatedRead
<1> QED
  BY <1>5, <1>7, <1>10, <1>11, <1>12, <1>13, <1>14, <1>15, <1>16, <1>17
     DEF DoormanNext, DoormanPolls, ProcessMudMessage

\* And so those served do not become more.
LEMMA ServedOnlyShrinks ==
    ASSUME IInv, DoormanNext \/ TryConnect(MudListening), ~AcceptNew
    PROVE  Served' \subseteq Served
<1>1. OpenChannels' \subseteq OpenChannels /\ OpenChannels \subseteq Ids
  BY OpenOnlyShrinks DEF OpenChannels, IInv, TypeOK, DoormanTypeOK
<1>2. \A c \in Ids : chan'[c].conn \in {0, chan[c].conn}
  BY OnlyAcceptGives
<1> QED
  BY <1>1, <1>2, BoundsAssumption DEF Served

\* The MUD comes up in handle_init only, and then everyone is still there.
LEMMA RisesOnInit ==
    ASSUME IInv, ConnectEveryone, ~Exits, mudState = "ConnectedAwaitingInit"
    PROVE  Rises
<1>1. /\ Consumes /\ mudState' = "Connected" /\ channels' = channels
      /\ chan' = [d \in Ids |-> [chan[d] EXCEPT !.connected = @ \/ d \in OpenChannels]]
  BY DEF ConnectEveryone
<1>2. \A c \in Ids : chan'[c].open = chan[c].open /\ chan'[c].conn = chan[c].conn
  BY <1>1 DEF IInv, TypeOK, DoormanTypeOK, Channel
<1>3. OpenChannels \subseteq Ids /\ OpenChannels' = OpenChannels
  BY <1>1, <1>2 DEF IInv, TypeOK, DoormanTypeOK, OpenChannels
<1>4. Served' = Served
  BY <1>2, <1>3 DEF Served
<1> QED
  BY <1>1, <1>4 DEF Rises, Consumes, Up

\* Every other step leaves the MUD's state, or loses the MUD.
LEMMA UpOnlyFalls ==
    ASSUME DoormanNext \/ TryConnect(MudListening),
           ~(HandleInit /\ ConnectEveryone /\ mudState = "ConnectedAwaitingInit" /\ ~Exits)
    PROVE  Up' => Up
<1>1. CASE Exits \/ CloseMud
  BY <1>1 DEF Exits, CloseMud, Up
<1>2. CASE TryConnect(MudListening)
  BY <1>2 DEF TryConnect, Up
<1>3. CASE UNCHANGED mudState
  BY <1>3 DEF Up
<1>4. CASE HandleInit
  BY <1>1, <1>4 DEF HandleInit
<1>5. CASE LoseMud \/ TruncatedRead
  BY <1>1, <1>5 DEF LoseMud, TruncatedRead
<1>6. CASE \E c \in Ids : \/ ClientData(c, "message") \/ ClientData(c, "info")
                          \/ ClientGone(c) \/ ClientBreaks(c)
  BY <1>1, <1>3, <1>6 DEF ClientData, ClientGone, ClientBreaks, doormanVars
<1> QED
  BY <1>1, <1>2, <1>3, <1>4, <1>5, <1>6
     DEF DoormanNext, DoormanPolls, ProcessMudMessage, PollIdle, HandleMessage, HandleEcho,
         HandleAuthorized, HandleDisconnect, HandleAck, AcceptNone, EndPoll,
         AcceptNew, AcceptFails, AcceptsOne

\* accept_new_connection, when it succeeds.
LEMMA AcceptArrives ==
    ASSUME IInv, AcceptNew
    PROVE  /\ Arrives
           /\ \A c \in Ids : c # ReservedId => chan'[c] = chan[c]
           /\ chan'[ReservedId].conn = accepted + 1
<1> DEFINE id == ReservedId
<1>1. /\ AcceptsOne /\ Reserve /\ Held' = Held \cup {id}
      /\ channels' = channels \cup {id}
      /\ chan' = [chan EXCEPT ![id] = Accepted(Up)]
  BY DEF AcceptNew, Held, SentConnect, Up
<1>2. id \in Ids /\ id \notin Held
  BY <1>1, PoolReserves DEF AcceptsOne
<1>3. chan \in [Ids -> Channel] /\ channels \subseteq Ids /\ id \notin channels
      /\ accepted \in Nat /\ MaxAccepts \in Nat
  BY <1>2, BoundsAssumption DEF IInv, TypeOK, LinkTypeOK, DoormanTypeOK, Held
<1>4. Accepted(Up).conn = accepted + 1 /\ Accepted(Up).open = TRUE
  BY DEF Accepted, NoChannel
<1>5. /\ chan'[id] = Accepted(Up)
      /\ \A c \in Ids : c # id => chan'[c] = chan[c]
  BY <1>1, <1>2, <1>3
<1>6. OpenChannels' = OpenChannels \cup {id} /\ id \notin OpenChannels /\ OpenChannels \subseteq Ids
  <2>1. OpenChannels' = {c \in channels' : chan'[c].open}
    BY DEF OpenChannels
  <2> QED
    BY <1>1, <1>3, <1>4, <1>5, <2>1 DEF OpenChannels
<1>7. accepted + 1 \in 1 .. MaxAccepts
  BY <1>1, <1>3 DEF AcceptsOne
<1>8. Served' = Served \cup {accepted + 1}
  <2>1. Served' = {k \in 1 .. MaxAccepts : \E c \in OpenChannels' : chan'[c].conn = k}
    BY DEF Served
  <2> QED
    BY <1>4, <1>5, <1>6, <1>7, <2>1 DEF Served
<1>9. Up' = Up /\ accepted' = accepted + 1 /\ accepted < MaxAccepts
  BY <1>1 DEF AcceptsOne, Up
<1> QED
  BY <1>4, <1>5, <1>8, <1>9 DEF Arrives

\* accept_new_connection, when the constructor raises.
LEMMA AcceptFailsFails ==
    ASSUME AcceptFails
    PROVE  Fails
BY DEF AcceptFails, AcceptsOne, Fails, Up, Served, OpenChannels

\* The MUD accepts no clients.
LEMMA MudAcceptsNobody ==
    ASSUME MudNext
    PROVE  accepted' = accepted
BY DEF MudNext, MudStart, MudStops, MudShutdown, MudLoops, BootAccept, BootDone,
       AcceptAgain, DoormanLost, EndPackets, ReceivePacket, ReceiveConnect,
       ReceiveReconnect, ReceiveDisconnect, ReceiveInfo, ReceiveMessage, Receives,
       EndWork, Login, TakeOverLinkDead, SetEcho, Output, CloseDescriptor, Works,
       linkVars

\* Every step is of one of the four kinds.
LEMMA StepKinds ==
    ASSUME RInv, Next
    PROVE  Stays \/ Rises \/ Arrives \/ Fails
<1> USE DEF RInv
<1>1. CASE MudNext /\ UNCHANGED doormanVars
  <2>1. accepted' = accepted
    BY <1>1, MudAcceptsNobody
  <2> QED
    BY <1>1, <2>1 DEF doormanVars, Stays, Served, OpenChannels, Up
<1>2. CASE DoormanNext \/ TryConnect(MudListening)
  <2>1. CASE AcceptNew
    BY <2>1, AcceptArrives
  <2>2. CASE AcceptFails
    BY <2>2, AcceptFailsFails
  <2>3. CASE HandleInit /\ ConnectEveryone /\ mudState = "ConnectedAwaitingInit" /\ ~Exits
    BY <2>3, RisesOnInit
  <2>4. CASE /\ ~AcceptNew /\ ~AcceptFails
             /\ ~(HandleInit /\ ConnectEveryone /\ mudState = "ConnectedAwaitingInit" /\ ~Exits)
    BY <1>2, <2>4, AcceptedKept, ServedOnlyShrinks, UpOnlyFalls DEF Stays
  <2> QED
    BY <2>1, <2>2, <2>3, <2>4
<1> QED
  BY <1>1, <1>2 DEF Next

-----------------------------------------------------------------------------
(***************************************************************************)
(* The theorem.                                                            *)
(***************************************************************************)

\* Whoever has a channel has been accepted, in every reachable state.
LEMMA OwnersAcceptedKept ==
    ASSUME IInv, OwnersAccepted, [Next]_vars, accepted' \in Nat
    PROVE  OwnersAccepted'
<1>1. accepted \in Nat /\ chan \in [Ids -> Channel] /\ \A c \in Ids : chan[c].conn \in Nat
  BY BoundsAssumption DEF IInv, TypeOK, LinkTypeOK, DoormanTypeOK, Channel, Conns
<1>2. CASE AcceptNew
  <2>1. accepted' = accepted + 1
    BY <1>2 DEF AcceptNew, AcceptsOne
  <2> QED
    BY <1>1, <1>2, <2>1, AcceptArrives DEF OwnersAccepted
<1>3. CASE (DoormanNext \/ TryConnect(MudListening)) /\ ~AcceptNew
  <2>1. accepted' >= accepted
    <3>1. CASE AcceptFails
      BY <1>1, <3>1 DEF AcceptFails, AcceptsOne
    <3>2. CASE ~AcceptFails
      BY <1>1, <1>3, <3>2, AcceptedKept
    <3> QED
      BY <3>1, <3>2
  <2> QED
    BY <1>1, <1>3, <2>1, OnlyAcceptGives DEF OwnersAccepted
<1>4. CASE MudNext /\ UNCHANGED doormanVars
  <2>1. accepted' = accepted /\ chan' = chan
    BY <1>4, MudAcceptsNobody DEF doormanVars
  <2> QED
    BY <2>1 DEF OwnersAccepted
<1>5. CASE UNCHANGED vars
  BY <1>5 DEF vars, linkVars, doormanVars, OwnersAccepted
<1> QED
  BY <1>2, <1>3, <1>4, <1>5 DEF Next

\* The invariant of the refinement.
LEMMA RInvAlways == Spec => []RInv
<1>1. Init => OwnersAccepted
  BY DEF Init, LinkInit, DoormanInit, NoChannel, OwnersAccepted
<1>2. IInv /\ IInv' /\ OwnersAccepted /\ [Next]_vars => OwnersAccepted'
  <2>1. IInv' => accepted' \in Nat
    BY BoundsAssumption DEF IInv, TypeOK, LinkTypeOK
  <2> QED
    BY <2>1, OwnersAcceptedKept
<1>3. Spec => []OwnersAccepted
  BY <1>1, <1>2, InvariantAlways, PTL DEF Spec
<1> QED
  BY <1>3, InvariantAlways, ConnectedCorrect, PTL DEF RInv

\* Over any sequence of MUD stops, lost links, refusals and failing sockets each
\* client goes only from one stage to another that doorman promises it: nobody
\* is lost when a MUD goes or comes, and everyone is connected while there is
\* one (doorman/main.cpp:7-9).
THEOREM RelayImplemented == Spec => ImplementsRelay
<1>1. Init /\ RInv => Relay!RelayInit
  <2> SUFFICES ASSUME Init, RInv PROVE Relay!RelayInit
    OBVIOUS
  <2>1. accepted = 0 /\ Up = FALSE
    BY DEF Init, LinkInit, DoormanInit, Up
  <2>2. \A k \in 1 .. MaxAccepts : StageOf(k, accepted, Served, Up) = "absent"
    BY <2>1, BoundsAssumption DEF StageOf
  <2> QED
    BY <2>1, <2>2, StagesMeaning DEF Relay!RelayInit, Relay!Clients
<1>2. RInv /\ RInv' /\ [Next]_vars => [Relay!RelayNext]_(Relay!relayVars)
  <2> SUFFICES ASSUME RInv, RInv', [Next]_vars
               PROVE  [Relay!RelayNext]_(Relay!relayVars)
    OBVIOUS
  <2>1. CASE Next
    BY <2>1, StepKinds, KindsImplement
  <2>2. CASE UNCHANGED vars
    <3>1. UNCHANGED <<chan, channels, mudState, accepted>>
      BY <2>2 DEF vars, linkVars, doormanVars
    <3>2. UNCHANGED Served /\ UNCHANGED Up
      BY <3>1 DEF Served, OpenChannels, Up
    <3>3. Stays
      BY <3>1, <3>2 DEF Stays
    <3> QED
      BY <3>3, KindsImplement
  <2> QED
    BY <2>1, <2>2
<1> QED
  BY <1>1, <1>2, RInvAlways, PTL DEF Spec, ImplementsRelay, Relay!RelaySpec

-----------------------------------------------------------------------------
(***************************************************************************)
(* While the MUD and the sockets of the clients last, nothing reaches the  *)
(* wrong party, for any number of clients and channels: numbers are used   *)
(* again, with packets for their former owners still under way in both     *)
(* directions.                                                             *)
(*                                                                         *)
(* Life says of a number which packets for it may be under way, and in     *)
(* which order, depending on who has it: doorman's books (held), a channel *)
(* (has, ch), an open descriptor (alive, d).  A number is given away only  *)
(* when it is not held, and then nothing of what is under way can be taken *)
(* for its next owner's (Vacant).                                          *)
(***************************************************************************)
\* Of the packets towards the MUD, CONNECT is the first that counts and
\* DISCONNECT the last: what is in front of CONNECT is its former owner's, and
\* will find no descriptor.
Sent(c, q, held, has, ch, alive, d) ==
    \A i \in DOMAIN q : q[i].channel = c =>
        /\ q[i].type \in {"connect", "info", "message", "disconnect"}
        /\ c \in alive => q[i].conn = d[c].conn
        /\ q[i].type = "connect" =>
              /\ c \in held /\ c \notin alive
              /\ c \in has => ch[c].conn = q[i].conn
              /\ \A j \in DOMAIN q : q[j].channel = c =>
                    /\ j < i => q[j].type # "disconnect"
                    /\ j > i => q[j].type # "connect" /\ q[j].conn = q[i].conn
        /\ q[i].type = "disconnect" =>
              /\ c \in held /\ ~(c \in has /\ ch[c].open)
              /\ \A j \in DOMAIN q : j > i => q[j].channel # c

\* The MUD's last word is either DISCONNECT or DISCONNECT_ACK.
Answered(c, r, held, has, ch, alive, d) ==
    \A i \in DOMAIN r : r[i].channel = c =>
        /\ c \in held
        /\ c \in alive => r[i].conn = d[c].conn
        /\ c \in has /\ r[i].type # "ack" => r[i].conn = ch[c].conn
        /\ r[i].type = "authorized" => r[i].who = r[i].conn
        /\ r[i].type \in {"ack", "disconnect"} =>
              c \notin alive /\ \A j \in DOMAIN r : j > i => r[j].channel # c
        /\ r[i].type = "ack" => ~(c \in has /\ ch[c].open)

\* What cannot be under way at once.
Crossed(c, q, r) ==
    \A i \in DOMAIN q, j \in DOMAIN r : q[i].channel = c /\ r[j].channel = c =>
        /\ q[i].type # "connect"
        /\ q[i].type = "disconnect" => r[j].type # "ack"

Settled(c, held, has, ch, alive, d) ==
    /\ c \in alive => c \in held /\ d[c].who = d[c].conn /\ d[c].host \in {0, d[c].conn}
    /\ c \in alive /\ c \in has => ch[c].conn = d[c].conn
    /\ c \in has /\ ch[c].open => c \in held
    /\ c \in has => ch[c].auth \in {0, ch[c].conn}

Life(c, q, r, held, has, ch, alive, d) ==
    /\ Sent(c, q, held, has, ch, alive, d)
    /\ Answered(c, r, held, has, ch, alive, d)
    /\ Crossed(c, q, r)
    /\ Settled(c, held, has, ch, alive, d)

LifeOf(c) ==
    Life(c, toMud, toDoor, idsKnownToMud, channels, chan, Alive, desc)

\* Before the first INIT.
Quiet ==
    /\ toMud = <<>> /\ descriptors = {} /\ idsKnownToMud = {}
    /\ \A i \in DOMAIN toDoor : toDoor[i].type = "init"
    /\ \A c \in Ids : chan[c].auth = 0

\* Nothing breaks, and doorman forgets closed channels at the end of a poll.
Calm ==
    /\ doorEnd # "orphan" /\ mudEnd # "orphan"
    /\ mudState = "Connected" => doorEnd = "linked"
    /\ mudPhase \in {"packets", "work"} => mudEnd = "linked"
    /\ \A c \in Ids : ~chan[c].broken
    /\ phase = "mud" => channelsToRemove = {}
    /\ \A c \in channels : ~chan[c].open => c \in channelsToRemove

\* While packets are read, a descriptor that is closed was closed by doorman.
Reaped ==
    mudPhase = "packets" =>
        \A c \in descriptors : \A i \in DOMAIN toDoor :
            toDoor[i].channel = c => toDoor[i].type # "disconnect"

Lives == IF mudState = "Connected" THEN Reaped /\ \A c \in Ids : LifeOf(c) ELSE Quiet

OwnInv == Calm /\ Lives

-----------------------------------------------------------------------------
(***************************************************************************)
(* What becomes of one number's life, whatever the queues.                 *)
(***************************************************************************)

\* All packets for c in u are in q, n places further back.
From(c, q, u, n) ==
    \A i \in DOMAIN u : u[i].channel = c => i + n \in DOMAIN q /\ u[i] = q[i + n]

LEMMA TailFrom ==
    ASSUME NEW c, NEW q \in Seq(Packet), q # <<>>
    PROVE  /\ From(c, q, Tail(q), 1)
           /\ Tail(q) \in Seq(Packet) /\ 1 \in DOMAIN q /\ q[1] = Head(q)
           /\ \A i \in DOMAIN Tail(q) : i + 1 \in DOMAIN q /\ i + 1 > 1 /\ Tail(q)[i] = q[i + 1]
<1> DEFINE u == Tail(q)
<1>1. Len(q) \in Nat \ {0} /\ DOMAIN q = 1 .. Len(q) /\ Head(q) = q[1]
  BY LenProperties, EmptySeq
<1>2. u \in Seq(Packet) /\ Len(u) = Len(q) - 1
  BY HeadTailProperties
<1>3. DOMAIN u = 1 .. Len(u)
  BY <1>2, LenProperties
<1>4. \A i \in 1 .. Len(u) : u[i] = q[i + 1]
  BY HeadTailProperties
<1> HIDE DEF u
<1>5. \A i \in DOMAIN u : i + 1 \in DOMAIN q /\ i + 1 > 1 /\ u[i] = q[i + 1]
  BY <1>1, <1>2, <1>3, <1>4
<1> QED
  BY <1>1, <1>2, <1>5 DEF From, u

LEMMA AppendFrom ==
    ASSUME NEW q \in Seq(Packet), NEW ps \in Seq(Packet)
    PROVE  /\ q \o ps \in Seq(Packet)
           /\ \A i \in DOMAIN q : i \in DOMAIN (q \o ps) /\ (q \o ps)[i] = q[i]
           /\ \A i \in DOMAIN (q \o ps) :
                 i \in DOMAIN q \/ \E k \in DOMAIN ps : i = Len(q) + k /\ (q \o ps)[i] = ps[k]
           /\ \A c : (\A k \in DOMAIN ps : ps[k].channel # c) => From(c, q, q \o ps, 0)
<1> DEFINE u == q \o ps
<1>1. /\ Len(q) \in Nat /\ Len(ps) \in Nat
      /\ DOMAIN q = 1 .. Len(q) /\ DOMAIN ps = 1 .. Len(ps)
  BY LenProperties
<1>2. /\ u \in Seq(Packet) /\ Len(u) = Len(q) + Len(ps)
      /\ \A i \in 1 .. Len(q) + Len(ps) :
            u[i] = IF i <= Len(q) THEN q[i] ELSE ps[i - Len(q)]
  BY ConcatProperties
<1>3. DOMAIN u = 1 .. Len(q) + Len(ps)
  BY <1>2, LenProperties
<1> HIDE DEF u
<1>4. \A i \in DOMAIN q : i \in DOMAIN u /\ u[i] = q[i]
  BY <1>1, <1>2, <1>3
<1>5. ASSUME NEW i \in DOMAIN u, i \notin DOMAIN q
      PROVE  \E k \in DOMAIN ps : i = Len(q) + k /\ u[i] = ps[k]
  <2>1. i - Len(q) \in DOMAIN ps /\ i = Len(q) + (i - Len(q)) /\ u[i] = ps[i - Len(q)]
    BY <1>1, <1>2, <1>3, <1>5
  <2> QED
    BY <2>1
<1>6. ASSUME NEW c, \A k \in DOMAIN ps : ps[k].channel # c
      PROVE  From(c, q, u, 0)
  <2>1. ASSUME NEW i \in DOMAIN u, u[i].channel = c
        PROVE  i + 0 \in DOMAIN q /\ u[i] = q[i + 0]
    <3>1. i \in DOMAIN q
      BY <1>5, <1>6, <2>1
    <3>2. i + 0 = i
      BY <1>1, <3>1
    <3> QED
      BY <1>4, <3>1, <3>2
  <2> QED
    BY <2>1 DEF From
<1> QED
  BY <1>2, <1>4, <1>5, <1>6 DEF u

\* Appending one packet.
LEMMA AppendOne ==
    ASSUME NEW q \in Seq(Packet), NEW p \in Packet
    PROVE  LET u == q \o <<p>>
               n == Len(q) + 1
           IN /\ u \in Seq(Packet) /\ n \in Nat
              /\ n \in DOMAIN u /\ u[n] = p
              /\ \A i \in DOMAIN q : i \in DOMAIN u /\ u[i] = q[i]
              /\ \A i \in DOMAIN u : i = n \/ i \in DOMAIN q
              /\ \A i \in DOMAIN q : i \in Nat /\ i < n
<1>1. <<p>> \in Seq(Packet) /\ Len(<<p>>) = 1 /\ DOMAIN <<p>> = {1} /\ <<p>>[1] = p
  OBVIOUS
<1>2. DOMAIN q = 1 .. Len(q) /\ Len(q) \in Nat
  BY LenProperties
<1> DEFINE u == q \o <<p>>
           n == Len(q) + 1
<1>3. /\ u \in Seq(Packet)
      /\ \A i \in DOMAIN q : i \in DOMAIN u /\ u[i] = q[i]
      /\ \A i \in DOMAIN u : i \in DOMAIN q \/ i = n
  BY <1>1, AppendFrom
<1>4. n \in DOMAIN u /\ u[n] = p
  <2>1. Len(u) = Len(q) + 1 /\ DOMAIN u = 1 .. Len(u)
    BY <1>1, <1>3, ConcatProperties, LenProperties
  <2>2. \A i \in 1 .. Len(q) + 1 : u[i] = IF i <= Len(q) THEN q[i] ELSE <<p>>[i - Len(q)]
    BY <1>1, ConcatProperties
  <2>3. n - Len(q) = 1 /\ ~(n <= Len(q)) /\ n \in 1 .. Len(q) + 1
    BY <1>2
  <2> QED
    BY <1>1, <2>1, <2>2, <2>3
<1>5. \A i \in DOMAIN q : i \in Nat /\ i < n
  BY <1>2
<1>6. n \in Nat
  BY <1>2
<1> QED
  BY <1>3, <1>4, <1>5, <1>6

\* Packets are read, and a party may lose its part: what is left is still right.
LEMMA LifeEased ==
    ASSUME NEW c, NEW q \in Seq(Packet), NEW r \in Seq(Packet),
           NEW u \in Seq(Packet), NEW v \in Seq(Packet), NEW n \in Nat, NEW m \in Nat,
           NEW held, NEW has, NEW ch, NEW alive, NEW d,
           NEW hasNow, NEW chNow, NEW aliveNow, NEW dNow,
           Life(c, q, r, held, has, ch, alive, d), From(c, q, u, n), From(c, r, v, m),
           c \in hasNow =>
              /\ c \in has /\ chNow[c].conn = ch[c].conn
              /\ chNow[c].open => ch[c].open
              /\ chNow[c].auth \in {0, ch[c].conn},
           c \in aliveNow =>
              /\ c \in alive
              /\ dNow[c].conn = d[c].conn /\ dNow[c].who = d[c].who
              /\ dNow[c].host \in {0, d[c].conn}
    PROVE  Life(c, u, v, held, hasNow, chNow, aliveNow, dNow)
<1>0. DOMAIN u \subseteq Nat /\ DOMAIN v \subseteq Nat
  BY LenProperties
<1>1. Sent(c, u, held, hasNow, chNow, aliveNow, dNow)
  <2>1. SUFFICES ASSUME NEW i \in DOMAIN u, u[i].channel = c
                 PROVE  /\ u[i].type \in {"connect", "info", "message", "disconnect"}
                        /\ c \in aliveNow => u[i].conn = dNow[c].conn
                        /\ u[i].type = "connect" =>
                              /\ c \in held /\ c \notin aliveNow
                              /\ c \in hasNow => chNow[c].conn = u[i].conn
                              /\ \A j \in DOMAIN u : u[j].channel = c =>
                                    /\ j < i => u[j].type # "disconnect"
                                    /\ j > i => u[j].type # "connect" /\ u[j].conn = u[i].conn
                        /\ u[i].type = "disconnect" =>
                              /\ c \in held /\ ~(c \in hasNow /\ chNow[c].open)
                              /\ \A j \in DOMAIN u : j > i => u[j].channel # c
    BY DEF Sent
  <2>2. i + n \in DOMAIN q /\ u[i] = q[i + n]
    BY <2>1 DEF From
  <2>3. \A j \in DOMAIN u : u[j].channel = c => j + n \in DOMAIN q /\ u[j] = q[j + n]
    BY DEF From
  <2>4. \A j \in DOMAIN u : (j < i <=> j + n < i + n) /\ (j > i <=> j + n > i + n)
    BY <1>0
  <2>5. Sent(c, q, held, has, ch, alive, d)
    BY DEF Life
  <2>6. /\ u[i].type \in {"connect", "info", "message", "disconnect"}
        /\ c \in aliveNow => u[i].conn = dNow[c].conn
    BY <2>1, <2>2, <2>5 DEF Sent
  <2>7. u[i].type = "connect" =>
            /\ c \in held /\ c \notin aliveNow
            /\ c \in hasNow => chNow[c].conn = u[i].conn
    BY <2>1, <2>2, <2>5 DEF Sent
  <2>8. ASSUME u[i].type = "connect", NEW j \in DOMAIN u, u[j].channel = c
        PROVE  /\ j < i => u[j].type # "disconnect"
               /\ j > i => u[j].type # "connect" /\ u[j].conn = u[i].conn
    BY <2>1, <2>2, <2>3, <2>4, <2>5, <2>8 DEF Sent
  <2>9. u[i].type = "disconnect" => c \in held /\ ~(c \in hasNow /\ chNow[c].open)
    BY <2>1, <2>2, <2>5 DEF Sent
  <2>10. ASSUME u[i].type = "disconnect", NEW j \in DOMAIN u, j > i
         PROVE  u[j].channel # c
    BY <2>1, <2>2, <2>3, <2>4, <2>5, <2>10 DEF Sent
  <2> QED
    BY <2>6, <2>7, <2>8, <2>9, <2>10
<1>2. Answered(c, v, held, hasNow, chNow, aliveNow, dNow)
  <2>1. SUFFICES ASSUME NEW i \in DOMAIN v, v[i].channel = c
                 PROVE  /\ c \in held
                        /\ c \in aliveNow => v[i].conn = dNow[c].conn
                        /\ c \in hasNow /\ v[i].type # "ack" => v[i].conn = chNow[c].conn
                        /\ v[i].type = "authorized" => v[i].who = v[i].conn
                        /\ v[i].type \in {"ack", "disconnect"} =>
                              c \notin aliveNow /\ \A j \in DOMAIN v : j > i => v[j].channel # c
                        /\ v[i].type = "ack" => ~(c \in hasNow /\ chNow[c].open)
    BY DEF Answered
  <2>2. i + m \in DOMAIN r /\ v[i] = r[i + m]
    BY <2>1 DEF From
  <2>3. \A j \in DOMAIN v : v[j].channel = c => j + m \in DOMAIN r /\ v[j] = r[j + m]
    BY DEF From
  <2>4. \A j \in DOMAIN v : j > i <=> j + m > i + m
    BY <1>0
  <2>5. Answered(c, r, held, has, ch, alive, d)
    BY DEF Life
  <2>6. /\ c \in held
        /\ c \in aliveNow => v[i].conn = dNow[c].conn
        /\ c \in hasNow /\ v[i].type # "ack" => v[i].conn = chNow[c].conn
        /\ v[i].type = "authorized" => v[i].who = v[i].conn
        /\ v[i].type \in {"ack", "disconnect"} => c \notin aliveNow
        /\ v[i].type = "ack" => ~(c \in hasNow /\ chNow[c].open)
    BY <2>1, <2>2, <2>5 DEF Answered
  <2>7. ASSUME v[i].type \in {"ack", "disconnect"}, NEW j \in DOMAIN v, j > i
        PROVE  v[j].channel # c
    BY <2>1, <2>2, <2>3, <2>4, <2>5, <2>7 DEF Answered
  <2> QED
    BY <2>6, <2>7
<1>3. Crossed(c, u, v)
  BY DEF Life, Crossed, From
<1>4. Settled(c, held, hasNow, chNow, aliveNow, dNow)
  BY DEF Life, Settled
<1> QED
  BY <1>1, <1>2, <1>3, <1>4 DEF Life

\* A number that is not held can be given away: nothing under way for it begins or
\* ends anything.
LEMMA Vacant ==
    ASSUME NEW c, NEW q, NEW r, NEW held, NEW has, NEW ch, NEW alive, NEW d,
           c \notin held, Life(c, q, r, held, has, ch, alive, d)
    PROVE  /\ c \notin alive
           /\ \A i \in DOMAIN q : q[i].channel = c => q[i].type \in {"info", "message"}
           /\ \A i \in DOMAIN r : r[i].channel # c
BY DEF Life, Sent, Answered, Settled

\* The MUD's last word was read, and nothing holds the number any more.
LEMMA LetGo ==
    ASSUME NEW c, NEW q, NEW r, NEW has, NEW ch, NEW d, NEW held, NEW alive, c \notin alive,
           \A i \in DOMAIN q : q[i].channel = c => q[i].type \in {"info", "message"},
           \A i \in DOMAIN r : r[i].channel # c,
           c \in has => ~ch[c].open /\ ch[c].auth \in {0, ch[c].conn}
    PROVE  Life(c, q, r, held, has, ch, alive, d)
BY DEF Life, Sent, Answered, Crossed, Settled

\* A packet of an open channel: INFO or MESSAGE, or DISCONNECT, after which the
\* channel is not open.
LEMMA LifeSends ==
    ASSUME NEW c, NEW q \in Seq(Packet), NEW r, NEW p \in Packet,
           NEW held, NEW has, NEW ch, NEW alive, NEW d, NEW chNow,
           Life(c, q, r, held, has, ch, alive, d),
           c \in has /\ ch[c].open, p.channel = c, p.conn = ch[c].conn,
           chNow[c].conn = ch[c].conn, chNow[c].auth = ch[c].auth,
           \/ p.type \in {"info", "message"} /\ chNow[c].open = ch[c].open
           \/ p.type = "disconnect" /\ ~chNow[c].open
    PROVE  Life(c, q \o <<p>>, r, held, has, chNow, alive, d)
<1> DEFINE u == q \o <<p>>
           n == Len(q) + 1
<1>1. /\ n \in DOMAIN u /\ u[n] = p /\ n \in Nat
      /\ \A i \in DOMAIN q : u[i] = q[i]
      /\ \A i \in DOMAIN u : i = n \/ i \in DOMAIN q
      /\ \A i \in DOMAIN q : i \in Nat /\ i < n
  BY AppendOne
<1> HIDE DEF u, n
<1>2. Sent(c, q, held, has, ch, alive, d) /\ Settled(c, held, has, ch, alive, d)
  BY DEF Life
<1>3. c \in held /\ (c \in alive => p.conn = d[c].conn)
  BY <1>2 DEF Settled
<1>4. Sent(c, u, held, has, chNow, alive, d)
  <2>1. \A i \in DOMAIN u : u[i].channel = c =>
           /\ u[i].type \in {"connect", "info", "message", "disconnect"}
           /\ c \in alive => u[i].conn = d[c].conn
           /\ u[i].type = "connect" => c \in held /\ c \notin alive /\ chNow[c].conn = u[i].conn
           /\ u[i].type = "disconnect" => c \in held /\ ~chNow[c].open
    <3>1. ASSUME NEW i \in DOMAIN q, q[i].channel = c
          PROVE  /\ q[i].type \in {"connect", "info", "message"}
                 /\ c \in alive => q[i].conn = d[c].conn
                 /\ q[i].type = "connect" => c \in held /\ c \notin alive /\ ch[c].conn = q[i].conn
      BY <1>2, <3>1 DEF Sent
    <3>2. /\ p.type \in {"connect", "info", "message", "disconnect"}
          /\ c \in alive => p.conn = d[c].conn
          /\ p.type # "connect"
          /\ p.type = "disconnect" => c \in held /\ ~chNow[c].open
      BY <1>3
    <3> QED
      BY <1>1, <3>1, <3>2
  <2>2. ASSUME NEW i \in DOMAIN u, u[i].channel = c, u[i].type = "connect",
               NEW j \in DOMAIN u, u[j].channel = c
        PROVE  /\ j < i => u[j].type # "disconnect"
               /\ j > i => u[j].type # "connect" /\ u[j].conn = u[i].conn
    <3>1. i \in DOMAIN q /\ u[i] = q[i] /\ i < n /\ ch[c].conn = q[i].conn
      BY <1>1, <1>2, <2>2 DEF Sent
    <3>2. CASE j = n
      <4>1. i \in Nat /\ ~(n < i) /\ u[j] = p
        BY <1>1, <3>1, <3>2
      <4>2. p.type # "connect" /\ p.conn = u[i].conn
        BY <3>1
      <4> QED
        BY <3>2, <4>1, <4>2
    <3>3. CASE j \in DOMAIN q
      BY <1>1, <1>2, <2>2, <3>1, <3>3 DEF Sent
    <3> QED
      BY <1>1, <3>2, <3>3
  <2>3. ASSUME NEW i \in DOMAIN u, u[i].channel = c, u[i].type = "disconnect",
               NEW j \in DOMAIN u, j > i
        PROVE  u[j].channel # c
    <3>1. i = n
      BY <1>1, <1>2, <2>3 DEF Sent
    <3>2. ~(n > n) /\ \A k \in DOMAIN q : ~(k > n)
      BY <1>1
    <3> QED
      BY <1>1, <2>3, <3>1, <3>2
  <2> QED
    BY <2>1, <2>2, <2>3 DEF Sent
<1>5. Answered(c, r, held, has, chNow, alive, d)
  BY DEF Life, Answered
<1>6. Crossed(c, u, r)
  <2>1. p.type # "connect" /\ (p.type = "disconnect" => ~chNow[c].open)
    OBVIOUS
  <2>2. \A j \in DOMAIN r : r[j].channel = c => r[j].type # "ack"
    BY DEF Life, Answered
  <2> QED
    BY <1>1, <2>1, <2>2 DEF Life, Crossed
<1>7. Settled(c, held, has, chNow, alive, d)
  BY <1>2 DEF Settled
<1> QED
  BY <1>4, <1>5, <1>6, <1>7 DEF Life, u

\* A new channel: CONNECT and INFO, for a number that was not held.
LEMMA LifeBegins ==
    ASSUME NEW c, NEW q \in Seq(Packet), NEW r, NEW a \in Packet, NEW b \in Packet,
           NEW held, NEW has, NEW ch, NEW alive, NEW d,
           NEW heldNow, c \in heldNow, NEW hasNow, c \in hasNow, NEW chNow,
           c \notin held, Life(c, q, r, held, has, ch, alive, d),
           a.channel = c, a.type = "connect", a.conn = chNow[c].conn,
           b.channel = c, b.type = "info", b.conn = chNow[c].conn,
           chNow[c].auth = 0
    PROVE  Life(c, (q \o <<a>>) \o <<b>>, r, heldNow, hasNow, chNow, alive, d)
<1> DEFINE t == q \o <<a>>
           n == Len(q) + 1
           u == t \o <<b>>
           m == Len(t) + 1
<1>1. /\ t \in Seq(Packet)
      /\ n \in DOMAIN t /\ t[n] = a /\ n \in Nat
      /\ \A i \in DOMAIN q : i \in DOMAIN t /\ t[i] = q[i]
      /\ \A i \in DOMAIN t : i = n \/ i \in DOMAIN q
      /\ \A i \in DOMAIN q : i \in Nat /\ i < n
  BY AppendOne
<1> HIDE DEF t, n
<1>2. /\ m \in DOMAIN u /\ u[m] = b /\ m \in Nat
      /\ \A i \in DOMAIN t : u[i] = t[i]
      /\ \A i \in DOMAIN u : i = m \/ i \in DOMAIN t
      /\ \A i \in DOMAIN t : i \in Nat /\ i < m
  BY <1>1, AppendOne
<1> HIDE DEF u, m
<1>3. /\ c \notin alive
      /\ \A i \in DOMAIN q : q[i].channel = c => q[i].type \in {"info", "message"}
      /\ \A i \in DOMAIN r : r[i].channel # c
  BY Vacant
<1>4. /\ \A i \in DOMAIN u : i = m \/ i = n \/ i \in DOMAIN q
      /\ u[m] = b /\ u[n] = a /\ \A i \in DOMAIN q : u[i] = q[i]
  <2>1. \A i \in DOMAIN u : i = m \/ i = n \/ i \in DOMAIN q
    BY <1>1, <1>2
  <2>2. u[m] = b /\ u[n] = a
    BY <1>1, <1>2
  <2>3. ASSUME NEW i \in DOMAIN q PROVE u[i] = q[i]
    <3>1. i \in DOMAIN t /\ t[i] = q[i]
      BY <1>1
    <3> QED
      BY <1>2, <3>1
  <2> QED
    BY <2>1, <2>2, <2>3
<1>5. /\ n < m /\ n \in Nat /\ m \in Nat
      /\ \A i \in DOMAIN q : i \in Nat /\ i < n /\ i < m
  BY <1>1, <1>2
<1>6. \A i \in DOMAIN u : u[i].channel = c =>
         /\ u[i].type \in {"connect", "info", "message"}
         /\ u[i].type = "connect" => i = n
         /\ i > n => i = m
  BY <1>3, <1>4, <1>5
<1>7. Sent(c, u, heldNow, hasNow, chNow, alive, d)
  BY <1>3, <1>4, <1>5, <1>6 DEF Sent
<1>8. Answered(c, r, heldNow, hasNow, chNow, alive, d) /\ Crossed(c, u, r)
  BY <1>3 DEF Answered, Crossed
<1>9. Settled(c, heldNow, hasNow, chNow, alive, d)
  BY <1>3 DEF Settled
<1> QED
  BY <1>7, <1>8, <1>9 DEF Life, u, t

\* The MUD writes to a descriptor that is open.
LEMMA LifeTold ==
    ASSUME NEW c, NEW q, NEW r \in Seq(Packet), NEW p \in Packet,
           NEW held, NEW has, NEW ch, NEW alive, c \in alive, NEW d, NEW dNow,
           Life(c, q, r, held, has, ch, alive, d),
           p.channel = c, p.conn = d[c].conn,
           p.type \in {"message", "echo"} \/ (p.type = "authorized" /\ p.who = d[c].who),
           dNow[c].conn = d[c].conn, dNow[c].who = d[c].who, dNow[c].host = d[c].host, NEW aliveNow
    PROVE  Life(c, q, r \o <<p>>, held, has, ch, aliveNow, dNow)
<1> DEFINE u == r \o <<p>>
           n == Len(r) + 1
<1>1. /\ n \in DOMAIN u /\ u[n] = p /\ n \in Nat
      /\ \A i \in DOMAIN r : u[i] = r[i]
      /\ \A i \in DOMAIN u : i = n \/ i \in DOMAIN r
      /\ \A i \in DOMAIN r : i \in Nat /\ i < n
  BY AppendOne
<1> HIDE DEF u, n
<1>2. /\ Sent(c, q, held, has, ch, alive, d) /\ Settled(c, held, has, ch, alive, d)
      /\ Answered(c, r, held, has, ch, alive, d)
  BY DEF Life
<1>3. Sent(c, q, held, has, ch, aliveNow, dNow)
  BY <1>2 DEF Sent
<1>4. Answered(c, u, held, has, ch, aliveNow, dNow)
  <2>1. \A i \in DOMAIN u : u[i].channel = c =>
           /\ c \in held
           /\ u[i].conn = d[c].conn
           /\ c \in has => ch[c].conn = d[c].conn
           /\ u[i].type = "authorized" => u[i].who = u[i].conn
           /\ u[i].type \notin {"ack", "disconnect"}
    BY <1>1, <1>2 DEF Settled, Answered
  <2> QED
    BY <2>1 DEF Answered
<1>5. Crossed(c, q, u)
  <2>1. \A i \in DOMAIN q : q[i].channel = c => q[i].type # "connect"
    BY <1>2 DEF Sent
  <2>2. \A i \in DOMAIN u : u[i].channel = c => u[i].type # "ack"
    BY <1>1, <1>2 DEF Answered
  <2> QED
    BY <2>1, <2>2 DEF Crossed
<1>6. Settled(c, held, has, ch, aliveNow, dNow)
  BY <1>2 DEF Settled
<1> QED
  BY <1>3, <1>4, <1>5, <1>6 DEF Life, u

\* The MUD's last word: DISCONNECT for a descriptor that was open, or the answer
\* to doorman's.
LEMMA LifeEnds ==
    ASSUME NEW c, NEW q, NEW r \in Seq(Packet), NEW p \in Packet,
           NEW held, NEW has, NEW ch, NEW alive, NEW d, NEW aliveNow, c \notin aliveNow, NEW dNow,
           Life(c, q, r, held, has, ch, alive, d), c \in held, p.channel = c,
           \A i \in DOMAIN q : q[i].channel = c => q[i].type # "connect",
           \A i \in DOMAIN r : r[i].channel = c => r[i].type \notin {"ack", "disconnect"},
           \/ p.type = "disconnect" /\ (c \in has => p.conn = ch[c].conn)
           \/ /\ p.type = "ack" /\ ~(c \in has /\ ch[c].open)
              /\ \A i \in DOMAIN q : q[i].channel = c => q[i].type # "disconnect"
    PROVE  Life(c, q, r \o <<p>>, held, has, ch, aliveNow, dNow)
<1> DEFINE u == r \o <<p>>
           n == Len(r) + 1
<1>1. /\ n \in DOMAIN u /\ u[n] = p /\ n \in Nat
      /\ \A i \in DOMAIN r : u[i] = r[i]
      /\ \A i \in DOMAIN u : i = n \/ i \in DOMAIN r
      /\ \A i \in DOMAIN r : i \in Nat /\ i < n
  BY AppendOne
<1> HIDE DEF u, n
<1>2. /\ Sent(c, q, held, has, ch, alive, d) /\ Settled(c, held, has, ch, alive, d)
      /\ Answered(c, r, held, has, ch, alive, d) /\ Crossed(c, q, r)
  BY DEF Life
<1>3. Sent(c, q, held, has, ch, aliveNow, dNow)
  BY <1>2 DEF Sent
<1>4. Answered(c, u, held, has, ch, aliveNow, dNow)
  <2>1. \A i \in DOMAIN u : u[i].channel = c =>
           /\ c \in held
           /\ c \in has /\ u[i].type # "ack" => u[i].conn = ch[c].conn
           /\ u[i].type = "authorized" => u[i].who = u[i].conn
           /\ u[i].type \in {"ack", "disconnect"} => i = n
           /\ u[i].type = "ack" => ~(c \in has /\ ch[c].open)
    BY <1>1, <1>2 DEF Answered
  <2>2. \A i \in DOMAIN u : ~(i > n)
    BY <1>1
  <2> QED
    BY <2>1, <2>2 DEF Answered
<1>5. Crossed(c, q, u)
  BY <1>1, <1>2 DEF Crossed
<1>6. Settled(c, held, has, ch, aliveNow, dNow)
  BY <1>2 DEF Settled
<1> QED
  BY <1>3, <1>4, <1>5, <1>6 DEF Life, u

\* CONNECT is read, and a descriptor made.
LEMMA LifeOpens ==
    ASSUME NEW c, NEW q \in Seq(Packet), q # <<>>, NEW r,
           NEW held, NEW has, NEW ch, NEW alive, NEW d, NEW aliveNow, c \in aliveNow, NEW dNow,
           Life(c, q, r, held, has, ch, alive, d),
           Head(q).channel = c, Head(q).type = "connect",
           dNow[c].conn = Head(q).conn, dNow[c].who = Head(q).conn, dNow[c].host = 0
    PROVE  Life(c, Tail(q), r, held, has, ch, aliveNow, dNow)
<1> DEFINE u == Tail(q)
<1>1. /\ 1 \in DOMAIN q /\ q[1] = Head(q)
      /\ \A i \in DOMAIN u : i + 1 \in DOMAIN q /\ i + 1 > 1 /\ u[i] = q[i + 1]
      /\ \A i, j \in DOMAIN u : j > i => j + 1 > i + 1
  <2>1. u \in Seq(Packet)
    BY TailFrom
  <2>2. DOMAIN u \subseteq Nat
    BY <2>1, LenProperties
  <2> QED
    BY <2>2, TailFrom
<1> HIDE DEF u
<1>2. /\ Sent(c, q, held, has, ch, alive, d) /\ Settled(c, held, has, ch, alive, d)
      /\ Answered(c, r, held, has, ch, alive, d) /\ Crossed(c, q, r)
  BY DEF Life
<1>3. /\ c \in held /\ (c \in has => ch[c].conn = dNow[c].conn)
      /\ \A j \in DOMAIN q : q[j].channel = c /\ j > 1 =>
            q[j].type # "connect" /\ q[j].conn = dNow[c].conn
  BY <1>1, <1>2 DEF Sent
<1>4. \A j \in DOMAIN r : r[j].channel # c
  BY <1>1, <1>2 DEF Crossed
<1>5. Sent(c, u, held, has, ch, aliveNow, dNow)
  <2>1. \A i \in DOMAIN u : u[i].channel = c =>
           /\ u[i].type \in {"info", "message", "disconnect"}
           /\ u[i].conn = dNow[c].conn
           /\ u[i].type = "disconnect" => c \in held /\ ~(c \in has /\ ch[c].open)
    BY <1>1, <1>2, <1>3 DEF Sent
  <2>2. ASSUME NEW i \in DOMAIN u, u[i].channel = c, u[i].type = "disconnect",
               NEW j \in DOMAIN u, j > i
        PROVE  u[j].channel # c
    BY <1>1, <1>2, <2>2 DEF Sent
  <2> QED
    BY <2>1, <2>2 DEF Sent
<1>6. Answered(c, r, held, has, ch, aliveNow, dNow) /\ Crossed(c, u, r)
  BY <1>4 DEF Answered, Crossed
<1>7. Settled(c, held, has, ch, aliveNow, dNow)
  BY <1>2, <1>3 DEF Settled
<1> QED
  BY <1>5, <1>6, <1>7 DEF Life, u

-----------------------------------------------------------------------------
(***************************************************************************)
(* What doorman does.                                                      *)
(***************************************************************************)
LEMMA Types ==
    ASSUME TypeOK
    PROVE  /\ toMud \in Seq(Packet) /\ toDoor \in Seq(Packet)
           /\ chan \in [Ids -> Channel] /\ desc \in [Ids -> Descriptor]
           /\ channels \subseteq Ids /\ channelsToRemove \subseteq Ids
           /\ idsKnownToMud \subseteq Ids /\ descriptors \subseteq Ids
           /\ Alive \subseteq descriptors
           /\ 0 \in Nat
           /\ \A c : From(c, toMud, toMud, 0) /\ From(c, toDoor, toDoor, 0)
<1>1. DOMAIN toMud \subseteq Nat /\ DOMAIN toDoor \subseteq Nat
  BY LenProperties DEF TypeOK, LinkTypeOK
<1>2. \A c : From(c, toMud, toMud, 0) /\ From(c, toDoor, toDoor, 0)
  BY <1>1 DEF From
<1> QED
  BY <1>2 DEF TypeOK, LinkTypeOK, DoormanTypeOK, MudTypeOK, Alive

\* The books on other numbers may change.
LEMMA HeldElsewhere ==
    ASSUME NEW c, NEW q, NEW r, NEW held, NEW has, NEW ch, NEW alive, NEW d, NEW heldNow,
           c \in heldNow <=> c \in held, Life(c, q, r, held, has, ch, alive, d)
    PROVE  Life(c, q, r, heldNow, has, ch, alive, d)
BY DEF Life, Sent, Answered, Settled

\* A number whose packets are only read, and whose parties only leave.
LEMMA LifeGoesOn ==
    ASSUME NEW c, TypeOK, TypeOK', LifeOf(c), NEW n \in Nat, NEW m \in Nat,
           From(c, toMud, toMud', n), From(c, toDoor, toDoor', m),
           c \in idsKnownToMud' <=> c \in idsKnownToMud,
           c \in channels' =>
              /\ c \in channels /\ chan'[c].conn = chan[c].conn
              /\ chan'[c].open => chan[c].open
              /\ chan'[c].auth \in {0, chan[c].conn},
           c \in Alive' =>
              /\ c \in Alive
              /\ desc'[c].conn = desc[c].conn /\ desc'[c].who = desc[c].who
              /\ desc'[c].host \in {0, desc[c].conn}
    PROVE  LifeOf(c)'
<1>1. toMud \in Seq(Packet) /\ toDoor \in Seq(Packet)
      /\ toMud' \in Seq(Packet) /\ toDoor' \in Seq(Packet)
  BY DEF TypeOK, LinkTypeOK
<1>2. Life(c, toMud, toDoor, idsKnownToMud, channels, chan, Alive, desc)
  BY DEF LifeOf
<1>3. Life(c, toMud', toDoor', idsKnownToMud, channels', chan', Alive', desc')
  BY <1>1, <1>2, LifeEased
<1>4. Life(c, toMud', toDoor', idsKnownToMud', channels', chan', Alive', desc')
  BY <1>3, HeldElsewhere
<1> QED
  BY <1>4 DEF LifeOf

\* Nothing that either process looks at changes.
LEMMA LivesUntouched ==
    ASSUME Lives, UNCHANGED <<toMud, toDoor, idsKnownToMud, channels, chan,
                              descriptors, desc, mudState, mudPhase>>
    PROVE  Lives'
<1>1. Alive' = Alive
  BY DEF Alive
<1> QED
  BY <1>1 DEF Lives, Reaped, Quiet, LifeOf

\* No write of doorman's fails.
LEMMA Unbroken ==
    ASSUME Calm, TypeOK
    PROVE  /\ BrokenChannels = {} /\ ~SendRaises
           /\ Closed({}) = chan
           /\ doorEnd \in {"linked", "orphan"} => doorEnd = "linked"
           /\ phase = "mud" => channelsToRemove = {} /\ OpenChannels = channels
<1>1. chan \in [Ids -> Channel] /\ channels \subseteq Ids
  BY DEF TypeOK, DoormanTypeOK
<1>2. chan = [c \in Ids |-> chan[c]] /\ Closed({}) = [c \in Ids |-> chan[c]]
  BY <1>1 DEF Closed
<1>3. BrokenChannels = {} /\ ~SendRaises
  BY <1>1 DEF Calm, BrokenChannels, OpenChannels, SendRaises
<1>4. phase = "mud" => channelsToRemove = {} /\ OpenChannels = channels
  BY DEF Calm, OpenChannels
<1> QED
  BY <1>2, <1>3, <1>4 DEF Calm

\* What is left to show, once the steps that cannot be are left out.
LEMMA IdleOwns ==
    ASSUME TypeOK, OwnInv, ~ClientFaults, faults' = faults, UNCHANGED mudVars,
           \/ PollIdle \/ AcceptNone \/ AcceptFails \/ LoseMud \/ TruncatedRead
           \/ \E c \in Ids : ClientBreaks(c)
    PROVE  OwnInv'
<1>1. Calm /\ Lives
  BY DEF OwnInv
<1>2. CASE PollIdle \/ AcceptNone
  <2>1. UNCHANGED <<toMud, toDoor, idsKnownToMud, channels, chan, channelsToRemove,
                    descriptors, desc, mudState, mudPhase, doorEnd, mudEnd>>
        /\ phase' # "mud"
    BY <1>2 DEF PollIdle, AcceptNone, linkVars, mudVars
  <2>2. Calm'
    BY <1>1, <2>1 DEF Calm
  <2> QED
    BY <1>1, <2>1, <2>2, LivesUntouched DEF OwnInv
<1>3. CASE AcceptFails
  BY <1>1, <1>3, Unbroken DEF AcceptFails
<1>4. CASE LoseMud
  BY <1>1, <1>4 DEF LoseMud, Calm
<1>5. CASE TruncatedRead
  <2>1. faults' = faults + 1 /\ faults \in Nat
    BY <1>5, BoundsAssumption DEF TruncatedRead, TypeOK, LinkTypeOK
  <2> QED
    BY <2>1
<1>6. CASE \E c \in Ids : ClientBreaks(c)
  BY <1>6 DEF ClientBreaks
<1> QED
  BY <1>2, <1>3, <1>4, <1>5, <1>6

\* try_connect.
LEMMA TryConnectOwns ==
    ASSUME TypeOK, OwnInv, TryConnect(MudListening), UNCHANGED mudVars
    PROVE  OwnInv'
<1>1. Calm /\ Quiet /\ mudState = "Disconnected"
  BY DEF OwnInv, Lives, TryConnect
<1>2. BrokenChannels = {} /\ Closed({}) = chan
  BY <1>1, Unbroken
<1>3. /\ chan' = chan /\ channelsToRemove' = channelsToRemove
      /\ UNCHANGED <<toMud, toDoor, mudEnd, phase, channels, idsKnownToMud,
                     descriptors, mudPhase>>
      /\ doorEnd' = "pending" /\ mudState' = "ConnectedAwaitingInit"
  BY <1>2 DEF TryConnect, mudVars
<1>4. Calm'
  BY <1>1, <1>3 DEF Calm
<1>5. Lives'
  BY <1>1, <1>3 DEF Lives, Quiet
<1> QED
  BY <1>4, <1>5 DEF OwnInv

\* Doorman has clients only who are in its books, or hears of no MUD yet: whatever
\* becomes of the number c, the others live on.
LEMMA OthersGoOn ==
    ASSUME NEW c \in Ids, TypeOK, TypeOK', mudState = "Connected", OwnInv, UNCHANGED mudVars,
           UNCHANGED mudState,
           \A i \in DOMAIN toDoor' :
              toDoor'[i].type = "disconnect" =>
                 \E j \in DOMAIN toDoor : toDoor[j] = toDoor'[i],
           \A b \in Ids \ {c} :
              /\ \E n \in Nat : From(b, toMud, toMud', n)
              /\ \E n \in Nat : From(b, toDoor, toDoor', n)
              /\ b \in idsKnownToMud' <=> b \in idsKnownToMud
              /\ b \in channels' <=> b \in channels
              /\ chan'[b] = chan[b],
           LifeOf(c)'
    PROVE  Lives'
<1>1. Alive' = Alive /\ UNCHANGED <<descriptors, desc, mudPhase>>
  BY DEF mudVars, Alive
<1>2. Reaped'
  BY <1>1 DEF OwnInv, Lives, Reaped
<1>3. ASSUME NEW b \in Ids, b # c PROVE LifeOf(b)'
  <2>1. LifeOf(b)
    BY DEF OwnInv, Lives
  <2>2. PICK n \in Nat : From(b, toMud, toMud', n)
    BY <1>3
  <2>3. PICK m \in Nat : From(b, toDoor, toDoor', m)
    BY <1>3
  <2>4. b \in channels => chan[b].auth \in {0, chan[b].conn}
    BY <2>1 DEF LifeOf, Life, Settled
  <2>5. b \in Alive => desc[b].host \in {0, desc[b].conn}
    BY <2>1 DEF LifeOf, Life, Settled
  <2> QED
    BY <1>1, <1>3, <2>1, <2>2, <2>3, <2>4, <2>5, LifeGoesOn
<1> QED
  BY <1>2, <1>3 DEF Lives

\* accept_new_connection.
LEMMA AcceptOwns ==
    ASSUME IInv, IInv', OwnInv, AcceptNew, UNCHANGED mudVars
    PROVE  OwnInv'
<1>1. TypeOK /\ TypeOK' /\ Calm /\ Lives
  BY DEF IInv, OwnInv
<1>0. /\ ReservedId \in Ids /\ ReservedId \notin Held
      /\ accepted + 1 \in Conns /\ 0 \in Conns
  <2>1. Reserve /\ Held' = Held \cup {ReservedId} /\ accepted' = accepted + 1
        /\ accepted < MaxAccepts
    BY DEF AcceptNew, AcceptsOne, Held, SentConnect
  <2>2. ReservedId \in Ids /\ ReservedId \notin Held
    BY <2>1, PoolReserves
  <2>3. accepted + 1 \in Conns /\ 0 \in Conns
    BY <1>1, <2>1, BoundsAssumption DEF TypeOK, LinkTypeOK, Conns
  <2> QED
    BY <2>2, <2>3
<1>2. PICK id \in Ids : id = ReservedId /\ id \notin Held
  BY <1>0
<1> DEFINE a == Pkt("connect", id, accepted + 1, 0)
           b == Pkt("info", id, accepted + 1, 0)
<1>3. /\ channels' = channels \cup {id}
      /\ chan' = [chan EXCEPT ![id] = Accepted(mudState = "Connected")]
      /\ UNCHANGED <<toDoor, doorEnd, mudEnd, channelsToRemove, mudState, mudPhase,
                     descriptors, desc>>
      /\ phase' = "channels"
  BY <1>2 DEF AcceptNew, AcceptsOne, mudVars
<1>4. /\ chan'[id].conn = accepted + 1 /\ chan'[id].auth = 0
      /\ chan'[id].open /\ ~chan'[id].broken
      /\ \A c \in Ids \ {id} : chan'[c] = chan[c]
  <2>1. Accepted(mudState = "Connected").conn = accepted + 1
        /\ Accepted(mudState = "Connected").auth = 0
        /\ Accepted(mudState = "Connected").open
        /\ ~Accepted(mudState = "Connected").broken
    BY DEF Accepted, NoChannel
  <2>2. chan'[id] = Accepted(mudState = "Connected")
        /\ \A c \in Ids \ {id} : chan'[c] = chan[c]
    BY <1>1, <1>2, <1>3, Types
  <2> QED
    BY <2>1, <2>2
<1>5. Calm'
  <2>1. channels \subseteq Ids
    BY <1>1, Types
  <2> QED
    BY <1>1, <1>3, <1>4, <2>1 DEF Calm
<1>6. CASE mudState # "Connected"
  <2>1. toMud' = toMud /\ idsKnownToMud' = idsKnownToMud
    BY <1>6 DEF AcceptNew, Sends
  <2> QED
    BY <1>1, <1>3, <1>4, <1>5, <1>6, <2>1 DEF OwnInv, Lives, Quiet
<1>7. CASE mudState = "Connected"
  <2>1. toMud' = toMud \o <<a, b>> /\ idsKnownToMud' = idsKnownToMud \cup {id}
    BY <1>2, <1>7 DEF AcceptNew, Sends, SentConnect
  <2>2. a \in Packet /\ b \in Packet /\ a.channel = id /\ b.channel = id
        /\ a.type = "connect" /\ b.type = "info"
        /\ a.conn = accepted + 1 /\ b.conn = accepted + 1
    <3>1. a \in Packet /\ b \in Packet
      BY <1>0, PacketTyped DEF PacketTypes
    <3> QED
      BY <3>1 DEF Pkt
  <2> HIDE DEF a, b
  <2>3. toMud \in Seq(Packet) /\ <<a>> \in Seq(Packet) /\ <<b>> \in Seq(Packet)
        /\ <<a, b>> \in Seq(Packet)
    BY <1>1, <2>2 DEF TypeOK, LinkTypeOK
  <2>4. toMud' = (toMud \o <<a>>) \o <<b>>
    <3>1. <<a, b>> = <<a>> \o <<b>>
      <4>1. Len(<<a>> \o <<b>>) = 2 /\ <<a>> \o <<b>> \in Seq(Packet)
            /\ (<<a>> \o <<b>>)[1] = a /\ (<<a>> \o <<b>>)[2] = b
        BY <2>3, ConcatProperties
      <4>2. Len(<<a, b>>) = 2 /\ <<a, b>>[1] = a /\ <<a, b>>[2] = b
        OBVIOUS
      <4>3. \A i \in 1 .. Len(<<a, b>>) : <<a, b>>[i] = (<<a>> \o <<b>>)[i]
        BY <4>1, <4>2
      <4> QED
        BY <2>3, <4>1, <4>2, <4>3, SeqEqual
    <3> QED
      BY <2>1, <2>3, <3>1, ConcatAssociative
  <2>5. Life(id, toMud, toDoor, idsKnownToMud, channels, chan, Alive, desc)
        /\ id \notin idsKnownToMud
    BY <1>1, <1>2, <1>7 DEF Lives, LifeOf, Held
  <2>6. Life(id, (toMud \o <<a>>) \o <<b>>, toDoor, idsKnownToMud', channels', chan', Alive, desc)
    <3>1. id \in idsKnownToMud' /\ id \in channels'
      BY <1>3, <2>1
    <3> QED
      BY <1>4, <2>2, <2>3, <2>5, <3>1, LifeBegins
  <2>7. LifeOf(id)'
    <3>1. Alive' = Alive
      BY <1>3 DEF Alive
    <3> QED
      BY <1>3, <2>4, <2>6, <3>1 DEF LifeOf
  <2>8. ASSUME NEW c \in Ids \ {id}
        PROVE  /\ From(c, toMud, toMud', 0) /\ From(c, toDoor, toDoor', 0)
               /\ c \in idsKnownToMud' <=> c \in idsKnownToMud
               /\ c \in channels' <=> c \in channels
               /\ chan'[c] = chan[c]
    <3>1. \A k \in DOMAIN <<a, b>> : <<a, b>>[k].channel # c
      BY <2>2
    <3>2. From(c, toMud, toMud', 0)
      BY <2>1, <2>3, <3>1, AppendFrom
    <3> QED
      BY <1>1, <1>3, <1>4, <2>1, <3>2, Types
  <2>9. Lives'
    BY <1>1, <1>2, <1>3, <1>7, <2>7, <2>8, OthersGoOn DEF OwnInv
  <2> QED
    BY <1>5, <2>9 DEF OwnInv
<1> QED
  BY <1>6, <1>7

\* Channel::close, for a client that has gone; a client that sends something.
LEMMA ClientOwns ==
    ASSUME TypeOK, TypeOK', OwnInv, UNCHANGED mudVars, NEW c \in Ids,
           ClientData(c, "message") \/ ClientData(c, "info") \/ ClientGone(c)
    PROVE  OwnInv'
<1>1. Calm /\ Lives /\ ~SendRaises
  BY Unbroken DEF OwnInv
<1>2. c \in channels /\ chan[c].open /\ phase = "channels" /\ chan \in [Ids -> Channel]
      /\ toMud \in Seq(Packet) /\ channels \subseteq Ids
  BY Types DEF ClientData, ClientGone, Serves, OpenChannels
<1>3. UNCHANGED <<toDoor, doorEnd, mudEnd, phase, channels, mudState, idsKnownToMud,
                  mudPhase, descriptors, desc>>
  BY <1>1 DEF ClientData, ClientGone, doormanVars, mudVars
<1>4. \/ /\ chan' = chan /\ channelsToRemove' = channelsToRemove
         /\ \E type \in {"message", "info"} : Sends(<<ToMud(type, c)>>)
         /\ mudState = "Connected"
      \/ /\ chan' = Closed({c}) /\ channelsToRemove' = channelsToRemove \cup {c}
         /\ Sends(IF chan[c].connected THEN <<ToMud("disconnect", c)>> ELSE <<>>)
  BY <1>1 DEF ClientData, ClientGone, doormanVars
<1>5. /\ \A b \in Ids : /\ chan'[b].conn = chan[b].conn /\ chan'[b].auth = chan[b].auth
                        /\ chan'[b].broken = chan[b].broken
      /\ \A b \in Ids \ {c} : chan'[b] = chan[b]
      /\ chan'[c].open => chan' = chan
      /\ c \in channelsToRemove' \/ chan'[c].open
      /\ channelsToRemove \subseteq channelsToRemove'
  <2>1. CASE chan' = chan /\ channelsToRemove' = channelsToRemove
    BY <1>2, <2>1
  <2>2. CASE chan' = Closed({c}) /\ channelsToRemove' = channelsToRemove \cup {c}
    BY <1>2, <2>2 DEF Closed, Channel
  <2> QED
    BY <1>4, <2>1, <2>2
<1>6. Calm'
  BY <1>1, <1>2, <1>3, <1>5 DEF Calm
<1>7. CASE mudState # "Connected"
  <2>1. toMud' = toMud
    BY <1>4, <1>7 DEF Sends
  <2> QED
    BY <1>1, <1>3, <1>5, <1>6, <1>7, <2>1 DEF OwnInv, Lives, Quiet
<1>8. CASE mudState = "Connected"
  <2>1. Life(c, toMud, toDoor, idsKnownToMud, channels, chan, Alive, desc)
    BY <1>1, <1>8 DEF Lives, LifeOf
  <2>2. ASSUME NEW p \in Packet, p.channel = c, p.conn = chan[c].conn, toMud' = toMud \o <<p>>,
               \/ p.type \in {"info", "message"} /\ chan' = chan
               \/ p.type = "disconnect" /\ ~chan'[c].open
        PROVE  Lives'
    <3>1. Life(c, toMud', toDoor, idsKnownToMud, channels, chan', Alive, desc)
      BY <1>2, <1>5, <2>1, <2>2, LifeSends
    <3>2. Alive' = Alive
      BY <1>3 DEF Alive
    <3>3. LifeOf(c)'
      BY <1>3, <3>1, <3>2 DEF LifeOf
    <3>4. ASSUME NEW b \in Ids \ {c}
          PROVE  From(b, toMud, toMud', 0) /\ From(b, toDoor, toDoor', 0)
      <4>1. <<p>> \in Seq(Packet) /\ \A k \in DOMAIN <<p>> : <<p>>[k].channel # b
        BY <2>2
      <4>2. From(b, toMud, toMud', 0)
        BY <1>2, <2>2, <4>1, AppendFrom
      <4> QED
        BY <1>3, <4>2, Types
    <3> QED
      BY <1>3, <1>5, <1>8, <3>3, <3>4, OthersGoOn
  <2>3. \A type \in {"message", "info", "disconnect"} :
           ToMud(type, c) \in Packet /\ ToMud(type, c).channel = c
           /\ ToMud(type, c).conn = chan[c].conn /\ ToMud(type, c).type = type
    <3>1. \A type \in {"message", "info", "disconnect"} : ToMud(type, c) \in Packet
      BY OwnPackets DEF PacketTypes
    <3> QED
      BY <3>1 DEF ToMud, Pkt
  <2>4. CASE /\ chan' = chan
             /\ \E type \in {"message", "info"} : Sends(<<ToMud(type, c)>>)
    BY <1>6, <1>8, <2>2, <2>3, <2>4 DEF Sends, OwnInv
  <2>5. CASE /\ chan' = Closed({c}) /\ chan[c].connected
             /\ Sends(<<ToMud("disconnect", c)>>)
    <3>1. ~chan'[c].open
      BY <1>2, <2>5 DEF Closed, Channel
    <3> QED
      BY <1>6, <1>8, <2>2, <2>3, <2>5, <3>1 DEF Sends, OwnInv
  <2>6. CASE chan' = Closed({c}) /\ Sends(<<>>)
    <3>1. toMud' = toMud
      BY <1>2, <1>8, <2>6, ConcatEmptySeq DEF Sends
    <3>2. Alive' = Alive /\ LifeOf(c)
      BY <1>1, <1>3, <1>8 DEF Alive, Lives
    <3>3. From(c, toMud, toMud', 0) /\ From(c, toDoor, toDoor', 0) /\ 0 \in Nat
      BY <1>3, <3>1, Types
    <3>4. /\ c \in channels => chan[c].auth \in {0, chan[c].conn}
          /\ c \in Alive => desc[c].host \in {0, desc[c].conn}
      BY <3>2 DEF LifeOf, Life, Settled
    <3>5. chan'[c].open => chan[c].open
      BY <1>2
    <3>6. LifeOf(c)'
      BY <1>2, <1>3, <1>5, <3>2, <3>3, <3>4, <3>5, LifeGoesOn
    <3>7. \A b \in Ids \ {c} : From(b, toMud, toMud', 0) /\ From(b, toDoor, toDoor', 0)
      BY <1>3, <3>1, Types
    <3>8. Lives'
      BY <1>3, <1>5, <1>8, <3>6, <3>7, OthersGoOn
    <3> QED
      BY <1>6, <3>8 DEF OwnInv
  <2> QED
    BY <1>4, <2>4, <2>5, <2>6
<1> QED
  BY <1>7, <1>8

\* remove_dead_channels.
LEMMA EndPollOwns ==
    ASSUME TypeOK, TypeOK', OwnInv, EndPoll, UNCHANGED mudVars
    PROVE  OwnInv'
<1>1. Calm /\ Lives /\ chan \in [Ids -> Channel] /\ channels \subseteq Ids
  BY Types DEF OwnInv
<1>2. /\ channels' = channels \ channelsToRemove /\ channelsToRemove' = {} /\ phase' = "mud"
      /\ chan' = [c \in Ids |-> IF c \in channelsToRemove THEN NoChannel ELSE chan[c]]
      /\ UNCHANGED <<toMud, toDoor, doorEnd, mudEnd, mudState, idsKnownToMud, mudPhase,
                     descriptors, desc>>
  BY DEF EndPoll, linkVars, mudVars
<1>3. NoChannel.auth = 0 /\ ~NoChannel.broken
  BY DEF NoChannel
<1>4. \A c \in channels' : chan'[c] = chan[c] /\ c \in channels
  BY <1>1, <1>2
<1>5. Calm'
  BY <1>1, <1>2, <1>3, <1>4 DEF Calm
<1>6. CASE mudState # "Connected"
  BY <1>1, <1>2, <1>3, <1>5, <1>6 DEF OwnInv, Lives, Quiet
<1>7. CASE mudState = "Connected"
  <2>1. ASSUME NEW c \in Ids PROVE LifeOf(c)'
    <3>1. LifeOf(c) /\ Alive' = Alive
      BY <1>1, <1>2, <1>7 DEF Lives, Alive
    <3>2. /\ c \in channels => chan[c].auth \in {0, chan[c].conn}
          /\ c \in Alive => desc[c].host \in {0, desc[c].conn}
      BY <3>1 DEF LifeOf, Life, Settled
    <3>3. From(c, toMud, toMud', 0) /\ From(c, toDoor, toDoor', 0) /\ 0 \in Nat
      BY <1>2, Types
    <3> QED
      BY <1>2, <1>4, <3>1, <3>2, <3>3, LifeGoesOn
  <2>2. Reaped'
    BY <1>1, <1>2, <1>7 DEF Lives, Reaped
  <2> QED
    BY <1>2, <1>5, <1>7, <2>1, <2>2 DEF OwnInv, Lives
<1> QED
  BY <1>6, <1>7

LEMMA FieldsKept ==
    ASSUME NEW r \in Channel
    PROVE  /\ ~[r EXCEPT !.open = FALSE].open
           /\ [r EXCEPT !.open = FALSE].auth = r.auth
           /\ [r EXCEPT !.open = FALSE].conn = r.conn
           /\ [r EXCEPT !.open = FALSE].broken = r.broken
           /\ [r EXCEPT !.connected = FALSE].open = r.open
           /\ [r EXCEPT !.connected = FALSE].auth = r.auth
           /\ [r EXCEPT !.connected = FALSE].conn = r.conn
           /\ [r EXCEPT !.connected = FALSE].broken = r.broken
BY DEF Channel

\* handle_channel_message, and the packets that say something.
LEMMA HandleOwns ==
    ASSUME TypeOK, TypeOK', OwnInv, UNCHANGED mudVars,
           HandleMessage \/ HandleEcho \/ HandleAuthorized \/ HandleDisconnect \/ HandleAck
    PROVE  OwnInv'
<1>1. /\ Calm /\ Lives /\ chan \in [Ids -> Channel] /\ channels \subseteq Ids
      /\ BrokenChannels = {} /\ toDoor \in Seq(Packet)
  BY Types, Unbroken DEF OwnInv
<1>2. /\ toDoor # <<>> /\ phase = "mud" /\ Head(toDoor).type # "init"
      /\ Consumes /\ UNCHANGED <<toMud, mudState, channels>>
  BY <1>1 DEF HandleMessage, HandleEcho, HandleAuthorized, HandleDisconnect, HandleAck, Reads
<1>3. /\ toDoor' = Tail(toDoor) /\ phase' = "accept"
      /\ UNCHANGED <<toMud, doorEnd, mudEnd, mudPhase, descriptors, desc, mudState, channels>>
      /\ Alive' = Alive
  BY <1>2 DEF Consumes, mudVars, Alive
<1>4. /\ 1 \in DOMAIN toDoor /\ toDoor[1] = Head(toDoor) /\ toDoor' \in Seq(Packet)
      /\ \A i \in DOMAIN toDoor' :
            i + 1 \in DOMAIN toDoor /\ i + 1 > 1 /\ toDoor'[i] = toDoor[i + 1]
      /\ \A b : From(b, toDoor, toDoor', 1) /\ From(b, toMud, toMud', 0)
  BY <1>1, <1>2, <1>3, TailFrom, Types
<1>5. mudState = "Connected"
  BY <1>1, <1>2, <1>4 DEF Lives, Quiet
<1>6. channelsToRemove = {} /\ \A b \in channels : chan[b].open
  BY <1>1, <1>2 DEF Calm
<1> DEFINE p == Head(toDoor)
<1>7. PICK c \in Ids : c = p.channel
  BY <1>1, <1>2, QueueRead
<1>8. LifeOf(c) /\ Answered(c, toDoor, idsKnownToMud, channels, chan, Alive, desc)
  BY <1>1, <1>5 DEF Lives, LifeOf, Life
<1>9. /\ c \in idsKnownToMud
      /\ c \in channels /\ p.type # "ack" => p.conn = chan[c].conn
      /\ p.type = "authorized" => p.who = p.conn
      /\ p.type \in {"ack", "disconnect"} =>
            c \notin Alive /\ \A i \in DOMAIN toDoor : i > 1 => toDoor[i].channel # c
      /\ p.type = "ack" => c \notin channels
  BY <1>4, <1>6, <1>7, <1>8 DEF Answered
<1>10. /\ c \in channels => chan[c].auth \in {0, chan[c].conn}
       /\ c \in Alive => desc[c].host \in {0, desc[c].conn}
  BY <1>8 DEF LifeOf, Life, Settled
<1> HIDE DEF p
<1>11. ASSUME \A b \in Ids : chan'[b].broken = chan[b].broken,
              \A b \in Ids \ {c} : chan'[b] = chan[b],
              channelsToRemove \subseteq channelsToRemove',
              c \in channelsToRemove' \/ chan'[c].open = chan[c].open,
              \A b \in Ids \ {c} : b \in idsKnownToMud' <=> b \in idsKnownToMud,
              LifeOf(c)'
       PROVE  OwnInv'
  <2>1. Calm'
    BY <1>1, <1>3, <1>11 DEF Calm
  <2>2. Lives'
    <3>1. \A b \in Ids \ {c} :
             (\E n \in Nat : From(b, toMud, toMud', n)) /\ (\E n \in Nat : From(b, toDoor, toDoor', n))
      BY <1>4
    <3>2. \A i \in DOMAIN toDoor' : \E j \in DOMAIN toDoor : toDoor[j] = toDoor'[i]
      BY <1>4
    <3> QED
      BY <1>3, <1>5, <1>11, <3>1, <3>2, OthersGoOn
  <2> QED
    BY <2>1, <2>2 DEF OwnInv
<1>12. CASE HandleMessage \/ HandleEcho
  <2>1. UNCHANGED <<chan, channelsToRemove, idsKnownToMud>>
    BY <1>1, <1>12 DEF HandleMessage, HandleEcho
  <2>2. LifeOf(c)'
    BY <1>3, <1>4, <1>8, <1>10, <2>1, LifeGoesOn
  <2> QED
    BY <1>11, <2>1, <2>2
<1>13. CASE HandleAuthorized
  <2>1. /\ p.type = "authorized" /\ UNCHANGED <<channelsToRemove, idsKnownToMud>>
        /\ chan' = IF c \in channels THEN [chan EXCEPT ![c].auth = p.who] ELSE chan
    BY <1>7, <1>13 DEF HandleAuthorized, Reads, p
  <2>2. /\ \A b \in Ids : chan'[b].broken = chan[b].broken /\ chan'[b].open = chan[b].open
        /\ \A b \in Ids \ {c} : chan'[b] = chan[b]
        /\ c \in channels => chan'[c].conn = chan[c].conn /\ chan'[c].auth = p.who
    BY <1>1, <2>1 DEF Channel
  <2>3. LifeOf(c)'
    BY <1>3, <1>4, <1>8, <1>9, <1>10, <2>1, <2>2, LifeGoesOn
  <2> QED
    BY <1>11, <2>1, <2>2, <2>3
<1>14. ASSUME c \notin Alive, \A i \in DOMAIN toDoor : i > 1 => toDoor[i].channel # c,
              \A i \in DOMAIN toMud : toMud[i].channel = c => toMud[i].type # "disconnect",
              c \in channels => ~chan'[c].open /\ chan'[c].auth \in {0, chan'[c].conn}
       PROVE  LifeOf(c)'
  <2>1. \A i \in DOMAIN toDoor' : toDoor'[i].channel # c
    BY <1>4, <1>14
  <2>2. \A i \in DOMAIN toMud' : toMud'[i].channel = c => toMud'[i].type \in {"info", "message"}
    <3>1. \A i \in DOMAIN toMud : toMud[i].channel = c => toMud[i].type # "connect"
      BY <1>4, <1>7, <1>8 DEF p, LifeOf, Life, Crossed
    <3>2. \A i \in DOMAIN toMud : toMud[i].channel = c =>
             toMud[i].type \in {"connect", "info", "message", "disconnect"}
      BY <1>8 DEF LifeOf, Life, Sent
    <3> QED
      BY <1>3, <1>14, <3>1, <3>2
  <2>3. Life(c, toMud', toDoor', idsKnownToMud', channels', chan', Alive', desc')
    BY <1>3, <1>14, <2>1, <2>2, LetGo
  <2> QED
    BY <2>3 DEF LifeOf
<1>15. CASE HandleDisconnect /\ c \in channels
  <2>1. /\ p.type = "disconnect"
        /\ chan' = [Closed({c}) EXCEPT ![c].connected = FALSE]
        /\ channelsToRemove' = channelsToRemove \cup {c}
        /\ idsKnownToMud' = idsKnownToMud \ {c}
    BY <1>7, <1>15 DEF HandleDisconnect, Reads, p
  <2>2. /\ Closed({c}) \in [Ids -> Channel] /\ ~Closed({c})[c].open
        /\ \A b \in Ids \ {c} : Closed({c})[b] = chan[b]
        /\ Closed({c})[c].auth = chan[c].auth /\ Closed({c})[c].conn = chan[c].conn
        /\ Closed({c})[c].broken = chan[c].broken
    <3>1. Closed({c}) = [b \in Ids |-> IF b \in {c} THEN [chan[b] EXCEPT !.open = FALSE]
                                                   ELSE chan[b]]
      BY DEF Closed
    <3>2. \A b \in Ids : Closed({c})[b] = IF b = c THEN [chan[b] EXCEPT !.open = FALSE]
                                                   ELSE chan[b]
      BY <3>1
    <3>3. chan[c] \in Channel
      BY <1>1
    <3>4. /\ ~[chan[c] EXCEPT !.open = FALSE].open
          /\ [chan[c] EXCEPT !.open = FALSE].auth = chan[c].auth
          /\ [chan[c] EXCEPT !.open = FALSE].conn = chan[c].conn
          /\ [chan[c] EXCEPT !.open = FALSE].broken = chan[c].broken
      BY <3>3, FieldsKept
    <3>5. Closed({c}) \in [Ids -> Channel]
      BY <1>1, ClosedTyped
    <3>6. Closed({c})[c] = [chan[c] EXCEPT !.open = FALSE]
          /\ \A b \in Ids \ {c} : Closed({c})[b] = chan[b]
      BY <3>2
    <3> QED
      BY <3>4, <3>5, <3>6
  <2>3. /\ \A b \in Ids \ {c} : chan'[b] = chan[b]
        /\ chan'[c].broken = chan[c].broken /\ ~chan'[c].open
        /\ chan'[c].auth = chan[c].auth /\ chan'[c].conn = chan[c].conn
    <3>1. chan'[c] = [Closed({c})[c] EXCEPT !.connected = FALSE]
          /\ \A b \in Ids \ {c} : chan'[b] = Closed({c})[b]
      BY <2>1, <2>2
    <3>2. PICK r \in Channel : r = Closed({c})[c]
      BY <2>2
    <3>4. /\ [r EXCEPT !.connected = FALSE].open = r.open
          /\ [r EXCEPT !.connected = FALSE].auth = r.auth
          /\ [r EXCEPT !.connected = FALSE].conn = r.conn
          /\ [r EXCEPT !.connected = FALSE].broken = r.broken
      BY FieldsKept
    <3>5. ~r.open /\ r.auth = chan[c].auth /\ r.conn = chan[c].conn /\ r.broken = chan[c].broken
      BY <2>2, <3>2
    <3>7. chan'[c] = [r EXCEPT !.connected = FALSE]
      BY <3>1, <3>2
    <3>6. \A b \in Ids \ {c} : chan'[b] = chan[b]
      BY <2>2, <3>1
    <3> QED
      BY <3>4, <3>5, <3>6, <3>7
  <2>4. \A i \in DOMAIN toMud : toMud[i].channel = c => toMud[i].type # "disconnect"
    BY <1>6, <1>8, <1>15 DEF LifeOf, Life, Sent
  <2>5. LifeOf(c)'
    BY <1>9, <1>10, <1>14, <2>1, <2>3, <2>4
  <2> QED
    BY <1>11, <2>1, <2>3, <2>5
<1>16. CASE HandleDisconnect /\ c \notin channels
  <2>1. UNCHANGED <<chan, channelsToRemove, idsKnownToMud>>
    BY <1>7, <1>16 DEF HandleDisconnect, p
  <2>2. LifeOf(c)'
    BY <1>3, <1>4, <1>8, <1>10, <2>1, LifeGoesOn
  <2> QED
    BY <1>11, <2>1, <2>2
<1>17. CASE HandleAck
  <2>1. /\ p.type = "ack" /\ UNCHANGED <<chan, channelsToRemove>>
        /\ idsKnownToMud' = idsKnownToMud \ {c}
    BY <1>7, <1>17 DEF HandleAck, Reads, p
  <2>2. \A i \in DOMAIN toMud : toMud[i].channel = c => toMud[i].type # "disconnect"
    BY <1>4, <1>7, <1>8, <2>1 DEF p, LifeOf, Life, Crossed
  <2>3. LifeOf(c)'
    BY <1>9, <1>14, <2>1, <2>2
  <2> QED
    BY <1>11, <2>1, <2>3
<1> QED
  BY <1>12, <1>13, <1>15, <1>16, <1>17

\* What ConnectEveryone writes, before anybody has logged in: a CONNECT and an
\* INFO for each channel, in any order.
LEMMA Introductions ==
    ASSUME TypeOK, NEW S \in SUBSET Ids, NEW order \in Orderings(S),
           \A c \in S : chan[c].auth = 0
    PROVE  LET ps == [i \in 1 .. 2 * Cardinality(S) |->
                        ConnectPackets(order[(i + 1) \div 2])[2 - (i % 2)]]
           IN /\ ps \in Seq(Packet)
              /\ \A i \in DOMAIN ps :
                    /\ ps[i].channel \in S /\ ps[i].conn = chan[ps[i].channel].conn
                    /\ ps[i].type \in {"connect", "info"}
              /\ \A i, j \in DOMAIN ps :
                    ps[i].type = "connect" /\ ps[j].type = "connect"
                    /\ ps[i].channel = ps[j].channel => i = j
<1> DEFINE n == Cardinality(S)
           ps == [i \in 1 .. 2 * n |-> ConnectPackets(order[(i + 1) \div 2])[2 - (i % 2)]]
<1>1. /\ n \in Nat /\ order \in [1 .. n -> S]
      /\ \A k, l \in 1 .. n : order[k] = order[l] => k = l
  BY IdsFinite, OrderingProperties
<1> HIDE DEF n
<1>2. ASSUME NEW i \in 1 .. 2 * n
      PROVE  /\ (i + 1) \div 2 \in 1 .. n
             /\ i % 2 = 1 \/ i % 2 = 0
             /\ i % 2 = 1 => 2 - (i % 2) = 1
             /\ i % 2 = 0 => 2 - (i % 2) = 2
  BY <1>1
<1>3. ASSUME NEW c \in S
      PROVE  /\ ConnectPackets(c)[1] \in Packet /\ ConnectPackets(c)[2] \in Packet
             /\ ConnectPackets(c)[1].channel = c /\ ConnectPackets(c)[2].channel = c
             /\ ConnectPackets(c)[1].conn = chan[c].conn /\ ConnectPackets(c)[2].conn = chan[c].conn
             /\ ConnectPackets(c)[1].type = "connect" /\ ConnectPackets(c)[2].type = "info"
  <2>1. ConnectPackets(c)[1] \in Packet /\ ConnectPackets(c)[2] \in Packet
    BY OwnPackets DEF PacketTypes
  <2>2. ConnectPackets(c)[1] = ToMud("connect", c) /\ ConnectPackets(c)[2] = ToMud("info", c)
    BY DEF ConnectPackets
  <2> QED
    BY <2>1, <2>2 DEF ToMud, Pkt
<1>4. ASSUME NEW i \in 1 .. 2 * n
      PROVE  /\ ps[i] \in Packet /\ ps[i].channel = order[(i + 1) \div 2]
             /\ ps[i].channel \in S /\ ps[i].conn = chan[ps[i].channel].conn
             /\ ps[i].type \in {"connect", "info"}
             /\ ps[i].type = "connect" => i % 2 = 1
  <2>1. PICK c \in S : c = order[(i + 1) \div 2]
    BY <1>1, <1>2
  <2>2. ps[i] = ConnectPackets(c)[2 - (i % 2)]
    BY <2>1
  <2>3. CASE i % 2 = 1
    <3>1. ps[i] = ConnectPackets(c)[1]
      BY <1>2, <2>2, <2>3
    <3> HIDE DEF ps
    <3> QED
      BY <1>3, <2>1, <2>3, <3>1
  <2>4. CASE i % 2 = 0
    <3>1. ps[i] = ConnectPackets(c)[2]
      BY <1>2, <2>2, <2>4
    <3> HIDE DEF ps
    <3> QED
      BY <1>3, <2>1, <2>4, <3>1
  <2> QED
    BY <1>2, <2>3, <2>4
<1>5. ps \in Seq(Packet) /\ DOMAIN ps = 1 .. 2 * n
  <2>1. 2 * n \in Nat
    BY <1>1
  <2> QED
    BY <1>4, <2>1, SeqDef
<1> HIDE DEF ps
<1>6. ASSUME NEW i \in DOMAIN ps, NEW j \in DOMAIN ps,
             ps[i].type = "connect", ps[j].type = "connect", ps[i].channel = ps[j].channel
      PROVE  i = j
  <2>1. i % 2 = 1 /\ j % 2 = 1 /\ order[(i + 1) \div 2] = order[(j + 1) \div 2]
    BY <1>4, <1>5, <1>6
  <2>2. (i + 1) \div 2 = (j + 1) \div 2
    BY <1>1, <1>2, <1>5, <2>1
  <2>3. i \in Nat /\ j \in Nat
    BY <1>5
  <2> QED
    BY <2>1, <2>2, <2>3
<1>7. \A i \in DOMAIN ps : /\ ps[i].channel \in S /\ ps[i].conn = chan[ps[i].channel].conn
                           /\ ps[i].type \in {"connect", "info"}
  BY <1>4, <1>5
<1> QED
  BY <1>5, <1>6, <1>7 DEF ps, n

\* handle_init: the MUD is told of everyone who has been waiting.
LEMMA HandleInitOwns ==
    ASSUME TypeOK, TypeOK', Handshake, Handshake', OwnInv, HandleInit, UNCHANGED mudVars
    PROVE  OwnInv'
<1>1. /\ Calm /\ chan \in [Ids -> Channel] /\ channels \subseteq Ids
      /\ toDoor \in Seq(Packet) /\ toDoor' \in Seq(Packet)
  BY Types DEF OwnInv, TypeOK, LinkTypeOK
<1>2. /\ toDoor # <<>> /\ Head(toDoor).type = "init" /\ phase = "mud"
      /\ doorEnd = "linked" /\ OpenChannels = channels /\ channelsToRemove = {}
  BY <1>1, Unbroken DEF HandleInit, Reads
<1>3. 1 \in DOMAIN toDoor /\ toDoor[1] = Head(toDoor)
  BY <1>1, <1>2, TailFrom
<1>4. mudState = "ConnectedAwaitingInit"
  BY <1>2, <1>3 DEF Handshake, NoInit, TypeOK, DoormanTypeOK
<1>5. Quiet /\ Alive = {}
  BY <1>4 DEF OwnInv, Lives, Quiet, Alive
<1>6. /\ Consumes /\ mudState' = "Connected"
      /\ chan' = [c \in Ids |-> [chan[c] EXCEPT !.connected = @ \/ c \in OpenChannels]]
      /\ idsKnownToMud' = SentConnect({c \in OpenChannels : chan[c].auth = 0})
      /\ UNCHANGED <<channels, channelsToRemove, releasedIds>>
  BY <1>2, <1>4 DEF HandleInit, ConnectEveryone
<1>7. PICK order \in Orderings(OpenChannels) :
         toMud' = toMud \o [i \in 1 .. 2 * Cardinality(OpenChannels) |->
                              ConnectPackets(order[(i + 1) \div 2])[2 - (i % 2)]]
  BY <1>2, <1>4 DEF HandleInit, ConnectEveryone
<1> DEFINE ps == [i \in 1 .. 2 * Cardinality(OpenChannels) |->
                    ConnectPackets(order[(i + 1) \div 2])[2 - (i % 2)]]
<1>8. \A c \in OpenChannels : chan[c].auth = 0
  BY <1>1, <1>2, <1>5 DEF Quiet
<1>9. OpenChannels \in SUBSET Ids
  BY <1>1, <1>2
<1>10. /\ ps \in Seq(Packet)
       /\ \A i \in DOMAIN ps :
             /\ ps[i].channel \in channels /\ ps[i].conn = chan[ps[i].channel].conn
             /\ ps[i].type \in {"connect", "info"}
       /\ \A i, j \in DOMAIN ps :
             ps[i].type = "connect" /\ ps[j].type = "connect"
             /\ ps[i].channel = ps[j].channel => i = j
  <2>1. /\ ps \in Seq(Packet)
        /\ \A i \in DOMAIN ps :
              /\ ps[i].channel \in OpenChannels /\ ps[i].conn = chan[ps[i].channel].conn
              /\ ps[i].type \in {"connect", "info"}
        /\ \A i, j \in DOMAIN ps :
              ps[i].type = "connect" /\ ps[j].type = "connect"
              /\ ps[i].channel = ps[j].channel => i = j
    BY <1>1, <1>8, <1>9, Introductions
  <2> HIDE DEF ps
  <2> QED
    BY <1>2, <2>1
<1> HIDE DEF ps
<1>11. toMud' = ps
  BY <1>5, <1>7, <1>10, ConcatEmptySeq DEF Quiet, ps
<1>12. \A c \in Ids : /\ chan'[c].conn = chan[c].conn /\ chan'[c].open = chan[c].open
                      /\ chan'[c].auth = 0 /\ chan'[c].broken = chan[c].broken
  <2>1. \A c \in Ids : chan'[c] = [chan[c] EXCEPT !.connected = @ \/ c \in OpenChannels]
    BY <1>6
  <2>2. ASSUME NEW c \in Ids
        PROVE  /\ chan'[c].conn = chan[c].conn /\ chan'[c].open = chan[c].open
               /\ chan'[c].auth = chan[c].auth /\ chan'[c].broken = chan[c].broken
    <3>1. chan[c] \in Channel
      BY <1>1
    <3> QED
      BY <2>1, <3>1 DEF Channel
  <2> QED
    BY <1>5, <2>2 DEF Quiet
<1>13. idsKnownToMud' = channels
  BY <1>2, <1>5, <1>6, <1>8 DEF SentConnect, Quiet
<1>14. \A i \in DOMAIN toDoor' : FALSE
  <2>1. NoInit(toDoor')
    BY <1>6 DEF Handshake
  <2>2. \A i \in DOMAIN toDoor' : toDoor'[i].type = "init"
    <3>1. toDoor' = Tail(toDoor)
      BY <1>6 DEF Consumes
    <3>2. \A i \in DOMAIN Tail(toDoor) : i + 1 \in DOMAIN toDoor /\ Tail(toDoor)[i] = toDoor[i + 1]
      BY <1>1, <1>2, TailFrom
    <3> QED
      BY <1>5, <3>1, <3>2 DEF Quiet
  <2> QED
    BY <2>1, <2>2 DEF NoInit
<1>15. /\ phase' = "accept" /\ UNCHANGED <<doorEnd, mudEnd, mudPhase, descriptors, desc>>
       /\ Alive' = {}
  BY <1>5, <1>6 DEF Consumes, mudVars, Alive
<1>16. Calm'
  BY <1>1, <1>2, <1>6, <1>12, <1>15 DEF Calm
<1>17. Reaped'
  BY <1>14 DEF Reaped
<1>18. ASSUME NEW c \in Ids PROVE LifeOf(c)'
  <2>1. Sent(c, ps, channels, channels, chan', {}, desc)
    BY <1>1, <1>10, <1>12 DEF Sent
  <2>2. Answered(c, toDoor', channels, channels, chan', {}, desc) /\ Crossed(c, ps, toDoor')
    BY <1>14 DEF Answered, Crossed
  <2>3. Settled(c, channels, channels, chan', {}, desc)
    BY <1>12 DEF Settled
  <2> QED
    BY <1>6, <1>11, <1>13, <1>15, <2>1, <2>2, <2>3 DEF LifeOf, Life
<1> QED
  BY <1>6, <1>16, <1>17, <1>18 DEF OwnInv, Lives

\* Every step of doorman that is not a fault.
LEMMA DoormanOwns ==
    ASSUME IInv, IInv', Handshake, Handshake', OwnInv, ~ClientFaults, faults' = faults,
           DoormanNext \/ TryConnect(MudListening), UNCHANGED mudVars
    PROVE  OwnInv'
<1>0. TypeOK /\ TypeOK'
  BY DEF IInv
<1>1. CASE \/ PollIdle \/ AcceptNone \/ AcceptFails \/ LoseMud \/ TruncatedRead
           \/ \E c \in Ids : ClientBreaks(c)
  BY <1>0, <1>1, IdleOwns
<1>2. CASE TryConnect(MudListening)
  BY <1>0, <1>2, TryConnectOwns
<1>3. CASE AcceptNew
  BY <1>3, AcceptOwns
<1>4. CASE \E c \in Ids : ClientData(c, "message") \/ ClientData(c, "info") \/ ClientGone(c)
  BY <1>0, <1>4, ClientOwns
<1>5. CASE EndPoll
  BY <1>0, <1>5, EndPollOwns
<1>6. CASE HandleInit
  BY <1>0, <1>6, HandleInitOwns
<1>7. CASE HandleMessage \/ HandleEcho \/ HandleAuthorized \/ HandleDisconnect \/ HandleAck
  BY <1>0, <1>7, HandleOwns
<1> QED
  BY <1>1, <1>2, <1>3, <1>4, <1>5, <1>6, <1>7 DEF DoormanNext, DoormanPolls, ProcessMudMessage

-----------------------------------------------------------------------------
(***************************************************************************)
(* What the MUD does.                                                      *)
(***************************************************************************)

\* The MUD has descriptors only when doorman has heard of it.
LEMMA Heard ==
    ASSUME OwnInv, TypeOK, toMud # <<>> \/ descriptors # {}
    PROVE  mudState = "Connected" /\ Calm /\ Reaped /\ \A c \in Ids : LifeOf(c)
BY DEF OwnInv, Lives, Quiet

\* Whatever becomes of the number c, the others live on.
LEMMA DescriptorsGoOn ==
    ASSUME NEW c \in Ids, TypeOK, TypeOK', mudState = "Connected", OwnInv,
           UNCHANGED <<doormanVars, doorEnd, mudEnd, mudPhase>>,
           \A b \in Ids \ {c} :
              /\ \E n \in Nat : From(b, toMud, toMud', n)
              /\ From(b, toDoor, toDoor', 0)
              /\ b \in descriptors' <=> b \in descriptors
              /\ desc'[b] = desc[b],
           LifeOf(c)', Reaped'
    PROVE  OwnInv'
<1>1. UNCHANGED <<phase, channels, chan, channelsToRemove, mudState, idsKnownToMud>>
  BY DEF doormanVars
<1>2. Calm'
  BY <1>1 DEF OwnInv, Calm
<1>3. ASSUME NEW b \in Ids, b # c PROVE LifeOf(b)'
  <2>1. LifeOf(b)
    BY DEF OwnInv, Lives
  <2>2. PICK n \in Nat : From(b, toMud, toMud', n)
    BY <1>3
  <2>3. From(b, toDoor, toDoor', 0) /\ 0 \in Nat
    BY <1>3
  <2>4. b \in channels => chan[b].auth \in {0, chan[b].conn}
    BY <2>1 DEF LifeOf, Life, Settled
  <2>5. b \in Alive => desc[b].host \in {0, desc[b].conn}
    BY <2>1 DEF LifeOf, Life, Settled
  <2>6. desc'[b] = desc[b] /\ (b \in Alive' => b \in Alive)
    BY <1>3 DEF Alive
  <2> QED
    BY <1>1, <2>1, <2>2, <2>3, <2>4, <2>5, <2>6, LifeGoesOn
<1> QED
  BY <1>1, <1>2, <1>3 DEF OwnInv, Lives

\* The life of the process, and the end of the packets.
LEMMA BootOwns ==
    ASSUME TypeOK, TypeOK', Handshake, OwnInv, faults' = faults, UNCHANGED doormanVars,
           \/ MudStart \/ BootAccept \/ BootDone \/ MudStops \/ MudShutdown
           \/ AcceptAgain \/ DoormanLost \/ EndPackets
    PROVE  OwnInv'
<1>1. /\ Calm /\ Lives /\ toDoor \in Seq(Packet) /\ faults \in Nat
      /\ UNCHANGED <<phase, channels, chan, channelsToRemove, mudState, idsKnownToMud>>
  BY BoundsAssumption DEF OwnInv, TypeOK, LinkTypeOK, doormanVars
<1>2. CASE MudStart
  <2>1. /\ mudPhase = "down" /\ mudPhase' = "booting"
        /\ UNCHANGED <<toMud, toDoor, doorEnd, mudEnd, descriptors, desc>>
    BY <1>2 DEF MudStart, linkVars
  <2>2. mudState # "Connected"
    BY <1>1, <2>1 DEF Calm, Handshake
  <2> QED
    BY <1>1, <2>1, <2>2 DEF OwnInv, Calm, Lives, Quiet
<1>3. CASE BootAccept
  <2>1. /\ doorEnd = "pending" /\ mudPhase = "booting" /\ doorEnd' = "linked" /\ mudEnd' = "linked"
        /\ UNCHANGED <<toMud, toDoor, mudPhase, descriptors, desc>>
    BY <1>3 DEF BootAccept, AcceptDoorman, mudVars
  <2>2. mudState # "Connected"
    BY <1>1, <2>1 DEF Calm
  <2> QED
    BY <1>1, <2>1, <2>2 DEF OwnInv, Calm, Lives, Quiet
<1>4. CASE BootDone
  <2> DEFINE p == Pkt("init", 0, 0, 0)
  <2>1. /\ mudPhase = "booting" /\ mudPhase' = "packets" /\ mudEnd = "linked"
        /\ UNCHANGED <<toMud, doorEnd, mudEnd, descriptors, desc>>
        /\ toDoor' = toDoor \o <<p>>
    BY <1>1, <1>4 DEF BootDone, MudWrites, Calm, TypeOK, LinkTypeOK
  <2>2. mudState # "Connected"
    BY <2>1 DEF Handshake
  <2>3. p \in Packet /\ p.type = "init"
    <3>1. 0 \in Ids /\ 0 \in Conns
      BY BoundsAssumption DEF Ids, Conns
    <3>2. p \in Packet
      BY <3>1, PacketTyped DEF PacketTypes
    <3> QED
      BY <3>2 DEF Pkt
  <2> HIDE DEF p
  <2>4. \A i \in DOMAIN toDoor' : toDoor'[i].type = "init"
    <3>1. \A i \in DOMAIN (toDoor \o <<p>>) : i = Len(toDoor) + 1 \/ i \in DOMAIN toDoor
      BY <1>1, <2>3, AppendOne
    <3>2. (toDoor \o <<p>>)[Len(toDoor) + 1] = p
          /\ \A i \in DOMAIN toDoor : (toDoor \o <<p>>)[i] = toDoor[i]
      BY <1>1, <2>3, AppendOne
    <3>3. \A i \in DOMAIN toDoor : toDoor[i].type = "init"
      BY <1>1, <2>2 DEF Lives, Quiet
    <3> QED
      BY <2>1, <2>3, <3>1, <3>2, <3>3
  <2> QED
    BY <1>1, <2>1, <2>2, <2>4 DEF OwnInv, Calm, Lives, Quiet
<1>5. CASE MudStops \/ MudShutdown
  BY <1>1, <1>5 DEF MudStops, MudShutdown
<1>6. CASE AcceptAgain \/ DoormanLost
  BY <1>1, <1>6 DEF AcceptAgain, AcceptDoorman, DoormanLost, Calm
<1>7. CASE EndPackets
  <2>1. /\ mudPhase = "packets" /\ mudPhase' = "work"
        /\ UNCHANGED <<toMud, toDoor, doorEnd, mudEnd, descriptors, desc>>
    BY <1>7 DEF EndPackets, linkVars
  <2>2. Calm'
    BY <1>1, <2>1 DEF Calm
  <2>3. Alive' = Alive
    BY <2>1 DEF Alive
  <2>4. Lives'
    BY <1>1, <2>1, <2>3 DEF Lives, Reaped, Quiet, LifeOf
  <2> QED
    BY <2>2, <2>4 DEF OwnInv
<1> QED
  BY <1>2, <1>3, <1>4, <1>5, <1>6, <1>7

\* CreateDescriptor, CloseDescriptors and ReceiveInfo change one descriptor only.
LEMMA DescriptorFields ==
    ASSUME TypeOK, NEW c \in Ids, NEW k \in Conns
    PROVE  /\ \A b \in Ids \ {c} : CloseDescriptors({c})[b] = desc[b]
           /\ CloseDescriptors({c})[c].state = "closed"
           /\ \A b \in Ids \ {c} : [desc EXCEPT ![c].host = k][b] = desc[b]
           /\ [desc EXCEPT ![c].host = k][c].conn = desc[c].conn
           /\ [desc EXCEPT ![c].host = k][c].who = desc[c].who
           /\ [desc EXCEPT ![c].host = k][c].host = k
           /\ [desc EXCEPT ![c].host = k][c].state = desc[c].state
           /\ \A b \in Ids \ {c} : [desc EXCEPT ![c].state = "playing"][b] = desc[b]
           /\ [desc EXCEPT ![c].state = "playing"][c].conn = desc[c].conn
           /\ [desc EXCEPT ![c].state = "playing"][c].who = desc[c].who
           /\ [desc EXCEPT ![c].state = "playing"][c].host = desc[c].host
           /\ [desc EXCEPT ![c].state = "playing"][c].state = "playing"
<1>1. desc \in [Ids -> Descriptor] /\ desc[c] \in Descriptor
  BY DEF TypeOK, MudTypeOK
<1>2. [desc[c] EXCEPT !.state = "closed"].state = "closed"
  BY <1>1 DEF Descriptor
<1>3. /\ \A b \in Ids \ {c} : CloseDescriptors({c})[b] = desc[b]
      /\ CloseDescriptors({c})[c] = [desc[c] EXCEPT !.state = "closed"]
  BY DEF CloseDescriptors
<1>4. /\ \A b \in Ids \ {c} : [desc EXCEPT ![c].host = k][b] = desc[b]
      /\ [desc EXCEPT ![c].host = k][c].conn = desc[c].conn
      /\ [desc EXCEPT ![c].host = k][c].who = desc[c].who
      /\ [desc EXCEPT ![c].host = k][c].host = k
      /\ [desc EXCEPT ![c].host = k][c].state = desc[c].state
  BY <1>1 DEF Descriptor
<1>5. /\ \A b \in Ids \ {c} : [desc EXCEPT ![c].state = "playing"][b] = desc[b]
      /\ [desc EXCEPT ![c].state = "playing"][c].conn = desc[c].conn
      /\ [desc EXCEPT ![c].state = "playing"][c].who = desc[c].who
      /\ [desc EXCEPT ![c].state = "playing"][c].host = desc[c].host
      /\ [desc EXCEPT ![c].state = "playing"][c].state = "playing"
  BY <1>1 DEF Descriptor
<1> QED
  BY <1>2, <1>3, <1>4, <1>5

\* handle_doorman_packet.
LEMMA ReceiveOwns ==
    ASSUME TypeOK, TypeOK', OwnInv, UNCHANGED doormanVars, ReceivePacket
    PROVE  OwnInv'
<1>1. /\ toMud # <<>> /\ mudPhase = "packets" /\ toMud' = Tail(toMud)
      /\ UNCHANGED <<doorEnd, mudEnd, mudPhase>>
  BY DEF ReceivePacket, ReceiveConnect, ReceiveReconnect, ReceiveDisconnect,
         ReceiveInfo, ReceiveMessage, Receives
<1>2. /\ mudState = "Connected" /\ Calm /\ Reaped /\ \A b \in Ids : LifeOf(b)
      /\ mudEnd = "linked"
      /\ toMud \in Seq(Packet) /\ toDoor \in Seq(Packet)
      /\ UNCHANGED <<phase, channels, chan, channelsToRemove, mudState, idsKnownToMud>>
  BY <1>1, Heard DEF Calm, TypeOK, LinkTypeOK, doormanVars
<1>3. /\ 1 \in DOMAIN toMud /\ toMud[1] = Head(toMud) /\ toMud' \in Seq(Packet)
      /\ \A i \in DOMAIN toMud' :
            i + 1 \in DOMAIN toMud /\ i + 1 > 1 /\ toMud'[i] = toMud[i + 1]
      /\ \A b : From(b, toMud, toMud', 1) /\ From(b, toDoor, toDoor, 0)
      /\ 0 \in Nat /\ 1 \in Nat
  BY <1>1, <1>2, TailFrom, Types
<1> DEFINE p == Head(toMud)
<1>4. PICK c \in Ids : c = p.channel
  BY <1>1, <1>2, QueueRead
<1>5. p.conn \in Conns
  BY <1>1, <1>2, QueueRead
<1>6. /\ LifeOf(c)
      /\ Sent(c, toMud, idsKnownToMud, channels, chan, Alive, desc)
      /\ Crossed(c, toMud, toDoor)
      /\ Settled(c, idsKnownToMud, channels, chan, Alive, desc)
  BY <1>2 DEF LifeOf, Life
<1>7. /\ p.type \in {"connect", "info", "message", "disconnect"}
      /\ c \in Alive => p.conn = desc[c].conn
      /\ p.type = "connect" => \A i \in DOMAIN toDoor : toDoor[i].channel # c
      /\ p.type = "disconnect" =>
            /\ c \in idsKnownToMud /\ ~(c \in channels /\ chan[c].open)
            /\ \A i \in DOMAIN toMud : i > 1 => toMud[i].channel # c
            /\ \A i \in DOMAIN toDoor : toDoor[i].channel = c => toDoor[i].type # "ack"
  BY <1>3, <1>4, <1>6 DEF Sent, Crossed
<1>8. /\ c \in channels => chan[c].auth \in {0, chan[c].conn}
      /\ c \in Alive => desc[c].host \in {0, desc[c].conn}
  BY <1>6 DEF Settled
<1> HIDE DEF p
<1>9. ASSUME \A b \in Ids \ {c} :
                /\ From(b, toDoor, toDoor', 0)
                /\ b \in descriptors' <=> b \in descriptors
                /\ desc'[b] = desc[b],
             LifeOf(c)', Reaped'
      PROVE  OwnInv'
  BY <1>1, <1>2, <1>3, <1>9, DescriptorsGoOn
<1>10. ASSUME toDoor' = toDoor, descriptors' = descriptors,
              \A b \in Ids \ {c} : desc'[b] = desc[b],
              /\ desc'[c].conn = desc[c].conn /\ desc'[c].who = desc[c].who
              /\ desc'[c].state = desc[c].state,
              desc'[c].host = desc[c].host \/ desc'[c].host = p.conn
       PROVE  OwnInv'
  <2>1. c \in Alive' => c \in Alive
    BY <1>10 DEF Alive
  <2>2. LifeOf(c)'
    BY <1>2, <1>3, <1>6, <1>7, <1>8, <1>10, <2>1, LifeGoesOn
  <2>3. Reaped'
    BY <1>1, <1>2, <1>10 DEF Reaped
  <2> QED
    BY <1>3, <1>9, <1>10, <2>2, <2>3
<1>11. CASE \/ ReceiveMessage
            \/ ReceiveConnect /\ c \in descriptors
            \/ ReceiveDisconnect /\ c \notin descriptors
            \/ ReceiveInfo /\ c \notin descriptors
  <2>1. UNCHANGED <<toDoor, descriptors, desc>>
    BY <1>4, <1>11 DEF ReceiveMessage, ReceiveConnect, ReceiveDisconnect, ReceiveInfo, p
  <2> QED
    BY <1>10, <2>1
<1>12. CASE ReceiveInfo /\ c \in descriptors
  <2>1. toDoor' = toDoor /\ descriptors' = descriptors /\ desc' = [desc EXCEPT ![c].host = p.conn]
    BY <1>4, <1>12 DEF ReceiveInfo, p
  <2> QED
    BY <1>5, <1>10, <2>1, DescriptorFields
<1>13. CASE ReceiveReconnect
  BY <1>7, <1>13 DEF ReceiveReconnect, Receives, p
<1>14. CASE ReceiveConnect /\ c \notin descriptors
  <2> DEFINE r == [conn |-> p.conn, state |-> "lobby", host |-> 0, who |-> p.conn]
  <2>1. /\ p.type = "connect" /\ toDoor' = toDoor /\ descriptors' = descriptors \cup {c}
        /\ desc' = [desc EXCEPT ![c] = r]
    BY <1>4, <1>14 DEF ReceiveConnect, CreateDescriptor, Receives, p
  <2>2. desc \in [Ids -> Descriptor]
    BY DEF TypeOK, MudTypeOK
  <2>3. desc'[c] = r /\ \A b \in Ids \ {c} : desc'[b] = desc[b]
    BY <2>1, <2>2
  <2>4. /\ desc'[c].conn = p.conn /\ desc'[c].who = p.conn /\ desc'[c].host = 0
        /\ c \in Alive'
    BY <2>1, <2>3 DEF Alive
  <2> HIDE DEF r
  <2>5. Life(c, toMud, toDoor, idsKnownToMud, channels, chan, Alive, desc)
    BY <1>6 DEF LifeOf
  <2>6. Life(c, Tail(toMud), toDoor, idsKnownToMud, channels, chan, Alive', desc')
    BY <1>1, <1>2, <1>4, <2>1, <2>4, <2>5, LifeOpens DEF p
  <2>7. LifeOf(c)'
    BY <1>1, <1>2, <2>1, <2>6 DEF LifeOf
  <2>8. Reaped'
    BY <1>1, <1>2, <1>7, <2>1 DEF Reaped
  <2> QED
    BY <1>3, <1>9, <2>1, <2>3, <2>7, <2>8
<1>15. CASE ReceiveDisconnect /\ c \in descriptors
  <2> DEFINE a == ToDoor("ack", c)
  <2>1. /\ p.type = "disconnect" /\ descriptors' = descriptors
        /\ desc' = CloseDescriptors({c}) /\ toDoor' = toDoor \o <<a>>
    BY <1>2, <1>4, <1>15 DEF ReceiveDisconnect, MudWrites, Receives, p
  <2>2. a \in Packet /\ a.type = "ack" /\ a.channel = c
    <3>1. a \in Packet
      BY OwnPackets DEF PacketTypes
    <3> QED
      BY <3>1 DEF ToDoor, Pkt
  <2> HIDE DEF a
  <2>3. /\ \A b \in Ids \ {c} : desc'[b] = desc[b]
        /\ c \notin Alive'
    <3>1. /\ \A b \in Ids \ {c} : CloseDescriptors({c})[b] = desc[b]
          /\ CloseDescriptors({c})[c].state = "closed"
      BY <1>5, DescriptorFields
    <3> QED
      BY <2>1, <3>1 DEF Alive
  <2>4. Life(c, toMud', toDoor, idsKnownToMud, channels, chan, Alive, desc)
    <3>1. Life(c, toMud, toDoor, idsKnownToMud, channels, chan, Alive, desc)
      BY <1>6 DEF LifeOf
    <3> QED
      BY <1>2, <1>3, <1>8, <3>1, LifeEased
  <2>5. \A i \in DOMAIN toMud' : toMud'[i].channel # c
    BY <1>3, <1>7, <2>1
  <2>6. \A i \in DOMAIN toDoor : toDoor[i].channel = c => toDoor[i].type \notin {"ack", "disconnect"}
    BY <1>1, <1>2, <1>7, <1>15, <2>1 DEF Reaped
  <2>7. Life(c, toMud', toDoor \o <<a>>, idsKnownToMud, channels, chan, Alive', desc')
    BY <1>2, <1>7, <2>1, <2>2, <2>3, <2>4, <2>5, <2>6, LifeEnds
  <2>8. LifeOf(c)'
    BY <1>2, <2>1, <2>7 DEF LifeOf
  <2>9. ASSUME NEW b \in Ids \ {c} PROVE From(b, toDoor, toDoor', 0)
    <3>1. <<a>> \in Seq(Packet) /\ \A k \in DOMAIN <<a>> : <<a>>[k].channel # b
      BY <2>2, <2>9
    <3> QED
      BY <1>2, <2>1, <3>1, AppendFrom
  <2>10. Reaped'
    <3>1. \A i \in DOMAIN (toDoor \o <<a>>) : i = Len(toDoor) + 1 \/ i \in DOMAIN toDoor
      BY <1>2, <2>2, AppendOne
    <3>2. (toDoor \o <<a>>)[Len(toDoor) + 1] = a
          /\ \A i \in DOMAIN toDoor : (toDoor \o <<a>>)[i] = toDoor[i]
      BY <1>2, <2>2, AppendOne
    <3> QED
      BY <1>1, <1>2, <2>1, <2>2, <3>1, <3>2 DEF Reaped
  <2> QED
    BY <1>9, <2>1, <2>3, <2>8, <2>9, <2>10
<1> QED
  BY <1>11, <1>12, <1>13, <1>14, <1>15 DEF ReceivePacket

\* The players' commands, updates and output.
LEMMA WorkOwns ==
    ASSUME TypeOK, TypeOK', OwnInv, UNCHANGED doormanVars, NEW c \in Ids,
           Login(c) \/ TakeOverLinkDead(c) \/ SetEcho(c) \/ Output(c) \/ CloseDescriptor(c)
    PROVE  OwnInv'
<1>1. /\ c \in Alive /\ c \in descriptors /\ mudPhase = "work"
      /\ UNCHANGED <<toMud, doorEnd, mudEnd, mudPhase, descriptors>>
  BY DEF Login, TakeOverLinkDead, SetEcho, Output, CloseDescriptor, Works, Alive
<1>2. /\ mudState = "Connected" /\ Calm /\ \A b \in Ids : LifeOf(b)
      /\ mudEnd = "linked"
      /\ toMud \in Seq(Packet) /\ toDoor \in Seq(Packet)
      /\ UNCHANGED <<phase, channels, chan, channelsToRemove, mudState, idsKnownToMud>>
  BY <1>1, Heard DEF Calm, TypeOK, LinkTypeOK, doormanVars
<1>3. /\ LifeOf(c)
      /\ Life(c, toMud, toDoor, idsKnownToMud, channels, chan, Alive, desc)
      /\ Sent(c, toMud, idsKnownToMud, channels, chan, Alive, desc)
      /\ Answered(c, toDoor, idsKnownToMud, channels, chan, Alive, desc)
      /\ Settled(c, idsKnownToMud, channels, chan, Alive, desc)
  BY <1>2 DEF LifeOf, Life
<1>4. \A b : From(b, toMud, toMud', 0) /\ From(b, toDoor, toDoor, 0) /\ 0 \in Nat
  BY <1>1, Types
<1>5. Reaped'
  BY <1>1 DEF Reaped
<1>6. /\ \A type \in {"authorized", "echo", "message", "disconnect"} :
            /\ ToDoor(type, c) \in Packet /\ ToDoor(type, c).channel = c
            /\ ToDoor(type, c).type = type /\ ToDoor(type, c).conn = desc[c].conn
      /\ ToDoor("authorized", c).who = desc[c].who
  <2>1. \A type \in {"authorized", "echo", "message", "disconnect"} : ToDoor(type, c) \in Packet
    BY OwnPackets DEF PacketTypes
  <2> QED
    BY <2>1 DEF ToDoor, Pkt
<1>7. /\ c \in channels => chan[c].auth \in {0, chan[c].conn}
      /\ desc[c].host \in {0, desc[c].conn}
  BY <1>1, <1>3 DEF Settled
<1>8. ASSUME \A b \in Ids \ {c} : From(b, toDoor, toDoor', 0) /\ desc'[b] = desc[b],
             LifeOf(c)'
      PROVE  OwnInv'
  BY <1>1, <1>2, <1>4, <1>5, <1>8, DescriptorsGoOn
<1>9. ASSUME NEW p \in Packet, p.channel = c, toDoor' = toDoor \o <<p>>
      PROVE  \A b \in Ids \ {c} : From(b, toDoor, toDoor', 0)
  <2>1. <<p>> \in Seq(Packet) /\ \A b \in Ids \ {c} : \A k \in DOMAIN <<p>> : <<p>>[k].channel # b
    BY <1>9
  <2> QED
    BY <1>2, <1>9, <2>1, AppendFrom
<1>10. ASSUME NEW type \in {"authorized", "echo", "message"},
              toDoor' = toDoor \o <<ToDoor(type, c)>>,
              \A b \in Ids \ {c} : desc'[b] = desc[b],
              desc'[c].conn = desc[c].conn, desc'[c].who = desc[c].who, desc'[c].host = desc[c].host
       PROVE  OwnInv'
  <2>1. PICK p \in Packet : p = ToDoor(type, c)
    BY <1>6
  <2>2. /\ p.channel = c /\ p.conn = desc[c].conn /\ toDoor' = toDoor \o <<p>>
        /\ p.type \in {"message", "echo"} \/ (p.type = "authorized" /\ p.who = desc[c].who)
    <3>1. p.channel = c /\ p.conn = desc[c].conn /\ p.type = type
      BY <1>6, <2>1
    <3>2. type = "authorized" => p.who = desc[c].who
      BY <1>6, <2>1
    <3>3. toDoor' = toDoor \o <<p>>
      BY <1>10, <2>1
    <3>4. p.type \in {"message", "echo"} \/ (p.type = "authorized" /\ p.who = desc[c].who)
      BY <3>1, <3>2
    <3> QED
      BY <3>1, <3>3, <3>4
  <2>3. Life(c, toMud, toDoor \o <<p>>, idsKnownToMud, channels, chan, Alive', desc')
    BY <1>1, <1>2, <1>3, <1>10, <2>2, LifeTold
  <2>4. LifeOf(c)'
    BY <1>1, <1>2, <2>2, <2>3 DEF LifeOf
  <2> QED
    BY <1>8, <1>9, <1>10, <2>2, <2>4
<1>11. CASE Login(c)
  <2>1. /\ desc' = [desc EXCEPT ![c].state = "playing"]
        /\ toDoor' = toDoor \o <<ToDoor("authorized", c)>>
    BY <1>2, <1>11 DEF Login, MudWrites
  <2>2. 0 \in Conns
    BY BoundsAssumption DEF Conns
  <2> QED
    BY <1>10, <2>1, <2>2, DescriptorFields
<1>12. CASE TakeOverLinkDead(c)
  <2>1. desc' = [desc EXCEPT ![c].state = "playing"] /\ toDoor' = toDoor
    BY <1>12 DEF TakeOverLinkDead
  <2>2. 0 \in Conns
    BY BoundsAssumption DEF Conns
  <2>3. /\ \A b \in Ids \ {c} : desc'[b] = desc[b]
        /\ desc'[c].conn = desc[c].conn /\ desc'[c].who = desc[c].who
        /\ desc'[c].host = desc[c].host
    BY <2>1, <2>2, DescriptorFields
  <2>4. LifeOf(c)'
    BY <1>1, <1>2, <1>3, <1>4, <1>7, <2>1, <2>3, LifeGoesOn
  <2> QED
    BY <1>4, <1>8, <2>1, <2>3, <2>4
<1>13. CASE SetEcho(c)
  <2>1. desc' = desc /\ toDoor' = toDoor \o <<ToDoor("echo", c)>>
    BY <1>2, <1>13 DEF SetEcho, MudWrites
  <2> QED
    BY <1>10, <2>1
<1>14. CASE Output(c)
  <2>1. desc' = desc /\ toDoor' = toDoor \o <<ToDoor("message", c)>>
    BY <1>2, <1>14 DEF Output, MudWrites
  <2> QED
    BY <1>10, <2>1
<1>15. CASE CloseDescriptor(c)
  <2> DEFINE p == ToDoor("disconnect", c)
  <2>1. /\ desc' = CloseDescriptors({c}) /\ toDoor' = toDoor \o <<p>>
    BY <1>2, <1>15 DEF CloseDescriptor, MudWrites
  <2>2. p \in Packet /\ p.channel = c /\ p.type = "disconnect" /\ p.conn = desc[c].conn
    BY <1>6
  <2> HIDE DEF p
  <2>3. 0 \in Conns
    BY BoundsAssumption DEF Conns
  <2>4. (\A b \in Ids \ {c} : desc'[b] = desc[b]) /\ c \notin Alive'
    <3>1. /\ \A b \in Ids \ {c} : CloseDescriptors({c})[b] = desc[b]
          /\ CloseDescriptors({c})[c].state = "closed"
      BY <2>3, DescriptorFields
    <3> QED
      BY <2>1, <3>1 DEF Alive
  <2>5. /\ c \in idsKnownToMud /\ (c \in channels => p.conn = chan[c].conn)
        /\ \A i \in DOMAIN toMud : toMud[i].channel = c => toMud[i].type # "connect"
        /\ \A i \in DOMAIN toDoor :
              toDoor[i].channel = c => toDoor[i].type \notin {"ack", "disconnect"}
    BY <1>1, <1>3, <2>2 DEF Sent, Answered, Settled
  <2>6. Life(c, toMud, toDoor \o <<p>>, idsKnownToMud, channels, chan, Alive', desc')
    BY <1>2, <1>3, <2>2, <2>4, <2>5, LifeEnds
  <2>7. LifeOf(c)'
    BY <1>1, <1>2, <2>1, <2>6 DEF LifeOf
  <2> QED
    BY <1>8, <1>9, <2>1, <2>2, <2>4, <2>7
<1> QED
  BY <1>11, <1>12, <1>13, <1>14, <1>15

\* DescriptorList::reap_closed: a descriptor that is left when packets are read
\* again is open, so the MUD has not said its last word.
LEMMA EndWorkOwns ==
    ASSUME TypeOK, TypeOK', OwnInv, UNCHANGED doormanVars, EndWork
    PROVE  OwnInv'
<1>1. /\ Calm /\ Lives
      /\ UNCHANGED <<phase, channels, chan, channelsToRemove, mudState, idsKnownToMud>>
      /\ mudPhase = "work" /\ mudPhase' = "packets" /\ descriptors' = Alive
      /\ UNCHANGED <<toMud, toDoor, doorEnd, mudEnd>>
  BY DEF OwnInv, doormanVars, EndWork, linkVars
<1>2. \A c \in Alive : desc'[c] = desc[c] /\ c \in Ids
  BY Types DEF EndWork
<1>3. Alive' = Alive
  BY <1>1, <1>2 DEF Alive
<1>4. Calm'
  BY <1>1 DEF Calm
<1>5. CASE mudState # "Connected"
  <2>1. Alive = {}
    BY <1>1, <1>5 DEF Lives, Quiet, Alive
  <2> QED
    BY <1>1, <1>4, <1>5, <2>1 DEF OwnInv, Lives, Quiet
<1>6. CASE mudState = "Connected"
  <2>1. ASSUME NEW c \in Ids PROVE LifeOf(c)'
    <3>1. LifeOf(c)
      BY <1>1, <1>6 DEF Lives
    <3>2. /\ c \in channels => chan[c].auth \in {0, chan[c].conn}
          /\ c \in Alive => desc[c].host \in {0, desc[c].conn}
      BY <3>1 DEF LifeOf, Life, Settled
    <3>3. From(c, toMud, toMud', 0) /\ From(c, toDoor, toDoor', 0) /\ 0 \in Nat
      BY <1>1, Types
    <3> QED
      BY <1>1, <1>2, <1>3, <3>1, <3>2, <3>3, LifeGoesOn
  <2>2. Reaped'
    <3>1. \A c \in Alive : Answered(c, toDoor, idsKnownToMud, channels, chan, Alive, desc)
      BY <1>1, <1>2, <1>6 DEF Lives, LifeOf, Life
    <3>2. \A c \in Alive : \A i \in DOMAIN toDoor :
             toDoor[i].channel = c => toDoor[i].type # "disconnect"
      BY <3>1 DEF Answered
    <3> QED
      BY <1>1, <3>2 DEF Reaped
  <2> QED
    BY <1>1, <1>4, <1>6, <2>1, <2>2 DEF OwnInv, Lives
<1> QED
  BY <1>5, <1>6

\* Every step of the MUD that is not a fault.
LEMMA MudOwns ==
    ASSUME TypeOK, TypeOK', Handshake, OwnInv, faults' = faults, MudNext, UNCHANGED doormanVars
    PROVE  OwnInv'
<1>1. CASE \/ MudStart \/ BootAccept \/ BootDone \/ MudStops \/ MudShutdown
           \/ AcceptAgain \/ DoormanLost \/ EndPackets
  BY <1>1, BootOwns
<1>2. CASE ReceivePacket
  BY <1>2, ReceiveOwns
<1>3. CASE EndWork
  BY <1>3, EndWorkOwns
<1>4. CASE \E c \in Ids : \/ Login(c) \/ TakeOverLinkDead(c)
                          \/ SetEcho(c) \/ Output(c) \/ CloseDescriptor(c)
  BY <1>4, WorkOwns
<1> QED
  BY <1>1, <1>2, <1>3, <1>4 DEF MudNext, MudLoops

-----------------------------------------------------------------------------
(***************************************************************************)
(* The theorems.                                                           *)
(***************************************************************************)

\* Faults are counted, and never taken back.
LEMMA FaultsCounted ==
    ASSUME [Next]_vars
    PROVE  faults' \in {faults, faults + 1}
<1>1. CASE \/ PollIdle \/ TryConnect(MudListening) \/ LoseMud \/ TruncatedRead
           \/ AcceptNone \/ AcceptNew \/ AcceptFails \/ EndPoll
           \/ \E c \in Ids : ClientBreaks(c)
  BY <1>1 DEF PollIdle, TryConnect, LoseMud, TruncatedRead, AcceptNone, AcceptNew,
              AcceptFails, AcceptsOne, EndPoll, ClientBreaks, linkVars
<1>2. CASE ProcessMudMessage
  BY <1>2 DEF ProcessMudMessage, HandleInit, ConnectEveryone, HandleMessage, HandleEcho,
              HandleAuthorized, HandleDisconnect, HandleAck, Consumes, Exits
<1>3. CASE \E c \in Ids : ClientData(c, "message") \/ ClientData(c, "info") \/ ClientGone(c)
  BY <1>3 DEF ClientData, ClientGone, Exits
<1>4. CASE \/ MudStart \/ BootAccept \/ BootDone \/ MudStops \/ MudShutdown
           \/ AcceptAgain \/ DoormanLost \/ EndPackets
  BY <1>4 DEF MudStart, BootAccept, BootDone, MudStops, MudShutdown, AcceptAgain,
              DoormanLost, EndPackets, linkVars
<1>5. CASE ReceivePacket
  BY <1>5 DEF ReceivePacket, ReceiveConnect, ReceiveReconnect, ReceiveDisconnect,
              ReceiveInfo, ReceiveMessage, Receives
<1>6. CASE \/ EndWork
           \/ \E c \in Ids : \/ Login(c) \/ TakeOverLinkDead(c)
                             \/ SetEcho(c) \/ Output(c) \/ CloseDescriptor(c)
  BY <1>6 DEF EndWork, Login, TakeOverLinkDead, SetEcho, Output, CloseDescriptor, Works, linkVars
<1>7. CASE UNCHANGED vars
  BY <1>7 DEF vars, linkVars
<1> QED
  BY <1>1, <1>2, <1>3, <1>4, <1>5, <1>6, <1>7
     DEF Next, DoormanNext, DoormanPolls, MudNext, MudLoops

\* The lives of the numbers, until the first fault.
LEMMA OwnersAlways ==
    ASSUME ~ClientFaults
    PROVE  Spec => [](IInv /\ (faults = 0 => OwnInv))
<1> DEFINE Calmly == faults = 0 => OwnInv
<1>1. Init => Calmly
  <2>1. \A c \in Ids : NoChannel.auth = 0 /\ ~NoChannel.broken
    BY DEF NoChannel
  <2> QED
    BY <2>1 DEF Init, LinkInit, DoormanInit, MudInit, OwnInv, Calm, Lives, Quiet
<1>2. /\ IInv /\ IInv' /\ Handshake /\ Handshake'
      /\ Calmly
      /\ [Next]_vars
      => Calmly'
  <2> SUFFICES ASSUME IInv, IInv', Handshake, Handshake', faults = 0 => OwnInv,
                      [Next]_vars, faults' = 0
               PROVE  OwnInv'
    BY DEF Calmly
  <2>1. faults \in Nat
    BY BoundsAssumption DEF IInv, TypeOK, LinkTypeOK
  <2>2. faults' = faults /\ faults = 0
    BY <2>1, FaultsCounted
  <2>3. OwnInv /\ TypeOK /\ TypeOK'
    BY <2>2 DEF IInv
  <2>4. CASE (DoormanNext \/ TryConnect(MudListening)) /\ UNCHANGED mudVars
    BY <2>2, <2>3, <2>4, DoormanOwns
  <2>5. CASE MudNext /\ UNCHANGED doormanVars
    BY <2>2, <2>3, <2>5, MudOwns
  <2>6. CASE UNCHANGED vars
    <3>1. UNCHANGED <<toMud, toDoor, doorEnd, mudEnd, mudPhase, descriptors, desc, phase,
                      channels, chan, channelsToRemove, mudState, idsKnownToMud>>
      BY <2>6 DEF vars, linkVars, doormanVars, mudVars
    <3>2. Calm'
      BY <2>3, <3>1 DEF OwnInv, Calm
    <3> QED
      BY <2>3, <3>1, <3>2, LivesUntouched DEF OwnInv
  <2> QED
    BY <2>4, <2>5, <2>6 DEF Next
<1> HIDE DEF Calmly
<1>3. Spec => [](IInv /\ Calmly)
  BY <1>1, <1>2, InvariantAlways, HandshakeAlways, PTL DEF Spec
<1> QED
  BY <1>3 DEF Calmly

\* As long as the MUD stays, and no client's socket fails, a packet for a client
\* reaches the connection that it was written for, or nobody, however often its
\* number has been handed out again.
THEOREM PacketsReachOwners ==
    ASSUME ~ClientFaults
    PROVE  Spec => [](faults = 0 => DeliveredToOwner)
<1>1. IInv /\ OwnInv => DeliveredToOwner
  <2> SUFFICES ASSUME IInv, OwnInv, toDoor # <<>>,
                      Head(toDoor).type \notin {"ack", "init"}, Head(toDoor).channel \in channels
               PROVE  chan[Head(toDoor).channel].conn = Head(toDoor).conn
    BY DEF DeliveredToOwner
  <2>1. toDoor \in Seq(Packet) /\ channels \subseteq Ids
    BY DEF IInv, TypeOK, LinkTypeOK, DoormanTypeOK
  <2>2. 1 \in DOMAIN toDoor /\ toDoor[1] = Head(toDoor)
    BY <2>1, TailFrom
  <2>3. mudState = "Connected"
    BY <2>2 DEF OwnInv, Lives, Quiet
  <2> DEFINE c == Head(toDoor).channel
  <2>4. Answered(c, toDoor, idsKnownToMud, channels, chan, Alive, desc)
    BY <2>1, <2>3 DEF OwnInv, Lives, LifeOf, Life
  <2> QED
    BY <2>2, <2>4 DEF Answered
<1> QED
  BY <1>1, OwnersAlways, PTL

\* Nor does the MUD take a line, a host name or the end of one client's for that
\* of another.
THEOREM InputReachesOwners ==
    ASSUME ~ClientFaults
    PROVE  Spec => [](faults = 0 => InputFromOwner)
<1>1. IInv /\ OwnInv => InputFromOwner
  <2> SUFFICES ASSUME IInv, OwnInv, toMud # <<>>, Head(toMud).channel \in Alive
               PROVE  desc[Head(toMud).channel].conn = Head(toMud).conn
    BY DEF InputFromOwner
  <2>1. toMud \in Seq(Packet) /\ Alive \subseteq Ids
    BY DEF IInv, TypeOK, LinkTypeOK, MudTypeOK, Alive
  <2>2. 1 \in DOMAIN toMud /\ toMud[1] = Head(toMud)
    BY <2>1, TailFrom
  <2>3. mudState = "Connected"
    BY DEF OwnInv, Lives, Quiet
  <2> DEFINE c == Head(toMud).channel
  <2>4. Sent(c, toMud, idsKnownToMud, channels, chan, Alive, desc)
    BY <2>1, <2>3 DEF OwnInv, Lives, LifeOf, Life
  <2> QED
    BY <2>2, <2>4 DEF Sent
<1> QED
  BY <1>1, OwnersAlways, PTL

\* The character a client would be logged in as, and the host name by which it
\* would be banned, are its own.
THEOREM IdentitiesStayOwn ==
    ASSUME ~ClientFaults
    PROVE  Spec => [](faults = 0 => IdentityIsOwn)
<1>1. IInv /\ OwnInv => IdentityIsOwn
  <2> SUFFICES ASSUME IInv, OwnInv PROVE IdentityIsOwn
    OBVIOUS
  <2>1. channels \subseteq Ids /\ Alive \subseteq Ids
    BY DEF IInv, TypeOK, DoormanTypeOK, MudTypeOK, Alive
  <2>2. CASE mudState = "Connected"
    <3>1. \A c \in Ids : Settled(c, idsKnownToMud, channels, chan, Alive, desc)
      BY <2>2 DEF OwnInv, Lives, LifeOf, Life
    <3> QED
      BY <2>1, <3>1 DEF Settled, IdentityIsOwn
  <2>3. CASE mudState # "Connected"
    BY <2>1, <2>3 DEF OwnInv, Lives, Quiet, IdentityIsOwn, Alive
  <2> QED
    BY <2>2, <2>3
<1> QED
  BY <1>1, OwnersAlways, PTL

\* What ids_known_to_mud_ is for: the number of an open descriptor is not handed
\* out.
THEOREM OpenNumbersHeld ==
    ASSUME ~ClientFaults
    PROVE  Spec => [](faults = 0 => MudNumbersHeld)
<1>1. IInv /\ OwnInv => MudNumbersHeld
  <2> SUFFICES ASSUME IInv, OwnInv PROVE Alive \subseteq Held
    BY DEF MudNumbersHeld
  <2>1. Alive \subseteq Ids
    BY DEF IInv, TypeOK, MudTypeOK, Alive
  <2>2. CASE mudState = "Connected"
    <3>1. \A c \in Ids : Settled(c, idsKnownToMud, channels, chan, Alive, desc)
      BY <2>2 DEF OwnInv, Lives, LifeOf, Life
    <3> QED
      BY <2>1, <3>1 DEF Settled, Held
  <2>3. CASE mudState # "Connected"
    BY <2>3 DEF OwnInv, Lives, Quiet, Alive
  <2> QED
    BY <2>2, <2>3
<1> QED
  BY <1>1, OwnersAlways, PTL
=============================================================================
