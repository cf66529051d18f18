-------------------------------- MODULE Wire --------------------------------
(***************************************************************************)
(* One packet on its way from repeater to repeater: what arrives, is read  *)
(* by ProtocolProcessor::processWrite, stored, and written again by        *)
(* SendPacketToConnection.  The store is seen from the packet: it is each  *)
(* time a repeater that does not know it yet.                              *)
(***************************************************************************)
EXTENDS PacketCodec

CONSTANTS
  Wires,     \* byte sequences that peers may write, of any length
  Me,        \* our address as a sender id
  Times,     \* timestamps of our own packets
  Name,      \* "Repeater:" and two bytes of our address
  Contents,  \* contents of pin messages
  PeerIds,   \* what a read through a null Peer may give
  MaxHops    \* bound: how often the packet is relayed

ASSUME IdsAssumption == Me \in Seq(Byte) /\ Len(Me) = Wide
\* The id of a pin message, five bytes and an address, has a length of one
\* byte, which also holds the largest time to live.
ASSUME WidthAssumption == Wide >= 2 /\ Wide + 5 < Radix /\ 7 < Radix
ASSUME FieldsAssumption ==
  /\ Wires \subseteq Seq(Byte) /\ PeerIds \subseteq Seq(Byte)
  /\ \A t \in Times : t \in Seq(Byte) /\ Len(t) = Wide
  /\ Name \in Seq(Byte) /\ Len(Name) < Radix
  /\ \A c \in Contents : c \in Seq(Byte) /\ Len(c) < Radix * Radix
ASSUME BoundAssumption == MaxHops \in Nat

VARIABLES
  wire,   \* the bytes on their way
  hops,   \* relayed so often
  meant   \* history: the packet as its first reader should see it

vars == <<wire, hops, meant>>

\* version and type that processWrite goes on with
Accepted(bytes) ==
  LET version == read_uint(Cursor(bytes), 1)
      type == read_uint(version, 1)
  IN /\ version.val[1] \in 1 .. 2
     /\ type.val[1] \in {type_announce, type_message}

\* The packet that processWrite reads.
Received(bytes) ==
  LET body == SubSeq(bytes, 3, Len(bytes))
  IN IF bytes[2] = type_announce THEN ReadAnnounce(body) ELSE ReadMessage(body)

\* setupAnnounceIfNeeded and announceToConnections
ownAnnounce(timestamp) ==
  [type |-> type_announce, ttl |-> 3, timestamp |-> timestamp, flags |-> 0,
   sender |-> Me, recipient |-> Zeros(Wide), name |-> Name, whole |-> TRUE]

\* handlePinActivity; of the time the id holds the last two bytes, see
\* write_uint32.
pinMessage(timestamp, content) ==
  [type |-> type_message, ttl |-> 7, timestamp |-> timestamp, flags |-> 0,
   sender |-> Me, recipient |-> Zeros(Wide), message_flags |-> 0,
   message_timestamp |-> timestamp,
   message_id |-> <<0, 0>> \o SubSeq(timestamp, Wide - 1, Wide) \o <<5>> \o Me,
   sender_nickname |-> Name, content |-> content, whole |-> TRUE]

Init ==
  /\ hops = 0
  /\ \/ /\ wire \in {w \in Wires : Accepted(w)}
        /\ meant = Received(wire)
     \/ /\ meant \in {ownAnnounce(t) : t \in Times}
        /\ wire = WriteAnnounce(meant)
     \/ /\ meant \in {pinMessage(t, c) : t \in Times, c \in Contents}
        /\ wire = WriteMessage(meant, Zeros(Wide))

-----------------------------------------------------------------------------
\* processWrite of the packet, enqueueBroadcastPacket unless its time to live
\* is 0, and SendPacketToConnection of what was stored.
relay ==
  /\ hops < MaxHops
  /\ Accepted(wire)
  /\ LET p == Received(wire)
     IN /\ p.ttl > 0
        /\ \/ p.type = type_announce /\ wire' = WritePassAlong(p)
           \/ p.type = type_message /\ \E id \in PeerIds : wire' = WriteMessage(p, id)
  /\ hops' = hops + 1
  /\ UNCHANGED meant

\* A phone passes the packet on and counts its time to live down.
phoneRelays ==
  /\ hops < MaxHops /\ Len(wire) > 2 /\ wire[3] > 0
  /\ wire' = [wire EXCEPT ![3] = @ - 1]
  /\ hops' = hops + 1
  /\ UNCHANGED meant

Next == relay \/ phoneRelays

Spec == Init /\ [][Next]_vars

-----------------------------------------------------------------------------
(***************************************************************************)
(* Properties.                                                             *)
(***************************************************************************)

\* What every repeater on the way should read alike: all of a message, and of
\* an announcement all but the name.
Lasting(p) ==
  IF p.type = type_message
  THEN <<p.timestamp, p.flags, p.sender, p.recipient, p.message_flags,
         p.message_timestamp, p.message_id, p.sender_nickname, p.content>>
  ELSE <<p.timestamp, p.flags, p.sender, p.recipient>>

\* Every repeater reads the packet that its author wrote, or that the first
\* one made of a packet that was cut off: what BinaryReader supplied for the
\* missing fields is written out, and no later reader takes it for others.
SamePacket ==
  /\ Lasting(Received(wire)) = Lasting(meant)
  /\ hops = 0 => Received(wire) = meant

\* However the packet has travelled, a repeater that has it finds it in its
\* store: the key is the one it had at its author.
KnownAgain == Identity(Received(wire)) = Identity(meant)

\* What came over a link fits the next one of the same MTU, whose size
\* SendPacketToConnection asserts: relaying makes a packet longer only if it
\* was cut off, or if it is a message that says it has a peer id, which was
\* not read.
RelayFits ==
  [][Len(wire') > Len(wire) =>
       LET p == Received(wire)
       IN ~p.whole \/ (p.type = type_message /\ hasSenderPeerID(p.message_flags))]_vars
=============================================================================
