----------------------------- MODULE MeshProofs -----------------------------
(***************************************************************************)
(* Proofs about Mesh, for any nodes, links, packets and bounds.            *)
(***************************************************************************)
EXTENDS Mesh, TLAPS

-----------------------------------------------------------------------------
(***************************************************************************)
(* The directory of peers.  DirectoryLive is inductive once the maps are   *)
(* known to have an entry for every repeater.                              *)
(***************************************************************************)

MapsType == DOMAIN peers = Repeaters /\ DOMAIN handle_peer_map = Repeaters

LEMMA DirectoryInit == Init => MapsType /\ DirectoryLive
  BY DEF Init, MapsType, DirectoryLive

\* The peer is stored before its handle is mapped, over a link that is up.
LEMMA DirectoryWrite ==
  ASSUME MapsType, DirectoryLive, NEW r \in Repeaters, NEW a \in Nodes, processWrite(r, a)
  PROVE  MapsType' /\ DirectoryLive'
  <1> DEFINE p == Head(net[a][r])
  <1>1. a \in Linked(r) /\ \A n : Linked(n)' = Linked(n)
    BY DEF processWrite, Linked
  <1>2. CASE updateOrStorePeerNameFromAnnouncement(r, a, p)
    <2>1. /\ MapsType'
          /\ \A x \in Repeaters : x # r =>
               peers'[x] = peers[x] /\ handle_peer_map'[x] = handle_peer_map[x]
          /\ DOMAIN peers'[r] = DOMAIN peers[r] \cup {p.sender}
      BY <1>2 DEF updateOrStorePeerNameFromAnnouncement, MapsType, With
    <2>2. \/ handle_peer_map'[r] = handle_peer_map[r]
          \/ /\ DOMAIN handle_peer_map'[r] = DOMAIN handle_peer_map[r] \cup {a}
             /\ handle_peer_map'[r][a] = p.sender
             /\ \A b \in DOMAIN handle_peer_map[r] :
                  b # a => handle_peer_map'[r][b] = handle_peer_map[r][b]
      BY <1>2 DEF updateOrStorePeerNameFromAnnouncement, MapsType, With
    <2> QED
      BY <1>1, <2>1, <2>2 DEF DirectoryLive
  <1>3. CASE checkSenderInPeers(r, p.sender) \/ UNCHANGED directory
    <2>1. /\ MapsType'
          /\ handle_peer_map' = handle_peer_map
          /\ \A x \in Repeaters : DOMAIN peers[x] \subseteq DOMAIN peers'[x]
      BY <1>3 DEF checkSenderInPeers, directory, MapsType, With
    <2> QED
      BY <1>1, <2>1 DEF DirectoryLive
  <1> QED
    BY <1>2, <1>3 DEF processWrite

\* Both ends forget the peer of a handle as its link is lost.
LEMMA DirectoryLost ==
  ASSUME MapsType, DirectoryLive, NEW l \in Links, linkLost(l)
  PROVE  MapsType' /\ DirectoryLive'
  <1>1. /\ peers' = peers
        /\ handle_peer_map' = [r \in Repeaters |->
                                 IF r = l[1] THEN Without(handle_peer_map[r], l[2])
                                 ELSE IF r = l[2] THEN Without(handle_peer_map[r], l[1])
                                 ELSE handle_peer_map[r]]
        /\ up' = up \ {l}
    BY DEF linkLost, reportDisconnection
  <1>2. MapsType'
    BY <1>1 DEF MapsType
  <1>3. PICK c \in Nodes, d \in Nodes : l = <<c, d>>
    BY NodesAssumption
  <1>4. ASSUME NEW r \in Repeaters, NEW b \in DOMAIN handle_peer_map'[r]
        PROVE  b \in Linked(r)' /\ handle_peer_map'[r][b] \in DOMAIN peers'[r]
    <2>1. /\ b \in DOMAIN handle_peer_map[r]
          /\ handle_peer_map'[r][b] = handle_peer_map[r][b]
          /\ <<r, b>> # l /\ <<b, r>> # l
      BY <1>1, <1>3, <1>4 DEF Without
    <2>2. b \in Linked(r) /\ handle_peer_map[r][b] \in DOMAIN peers[r]
      BY <2>1 DEF DirectoryLive
    <2> QED
      BY <1>1, <2>1, <2>2 DEF Linked
  <1> QED
    BY <1>2, <1>4 DEF DirectoryLive

LEMMA DirectoryStep == MapsType /\ DirectoryLive /\ [Next]_vars => MapsType' /\ DirectoryLive'
  <1> SUFFICES ASSUME MapsType, DirectoryLive, [Next]_vars PROVE MapsType' /\ DirectoryLive'
    OBVIOUS
  <1>1. ASSUME NEW r \in Repeaters, NEW q \in queue[r], sendPackets(r, q[1], q[2])
        PROVE  MapsType' /\ DirectoryLive'
    BY <1>1 DEF sendPackets, MapsType, DirectoryLive, Linked, directory
  <1>2. ASSUME NEW r \in Repeaters, NEW b \in Nodes, announceToConnections(r, b)
        PROVE  MapsType' /\ DirectoryLive'
    BY <1>2 DEF announceToConnections, MapsType, DirectoryLive, Linked, directory
  <1>3. ASSUME NEW r \in Repeaters, NEW p \in PhonePackets, phoneWrites(p, r)
        PROVE  MapsType' /\ DirectoryLive'
    BY <1>3 DEF phoneWrites, MapsType, DirectoryLive, Linked, directory
  <1>4. ASSUME NEW l \in Links, linkBack(l)
        PROVE  MapsType' /\ DirectoryLive'
    BY <1>4 DEF linkBack, MapsType, DirectoryLive, Linked, directory
  <1>5. CASE UNCHANGED vars
    BY <1>5 DEF vars, MapsType, DirectoryLive, Linked
  <1>6. ASSUME NEW r \in Repeaters, NEW later \in Later, cleanupStaleItems(r, later)
        PROVE  MapsType' /\ DirectoryLive'
    BY <1>6 DEF cleanupStaleItems, MapsType, DirectoryLive, Linked, directory
  <1> QED
    BY <1>1, <1>2, <1>3, <1>4, <1>5, <1>6, DirectoryWrite, DirectoryLost DEF Next, Relaying

\* handle_peer_map of every repeater names links that are up and peers that
\* are known, in a mesh of any size and shape.
THEOREM DirectoryStaysLive == Spec => []DirectoryLive
  BY DirectoryInit, DirectoryStep, PTL DEF Spec

-----------------------------------------------------------------------------
(***************************************************************************)
(* Relaying.                                                               *)
(***************************************************************************)

Packet == [type : {"announce", "message"}, sender : Nodes, timestamp : Nat,
           ttl : Nat, name : BOOLEAN]

Traffic == [Nodes -> [Nodes -> Seq(Packet)]]

\* What waits to be sent has its name for its key.
NetType ==
  /\ net \in Traffic
  /\ clock \in [Repeaters -> Nat]
  /\ DOMAIN queue = Repeaters
  /\ \A r \in Repeaters : \A q \in queue[r] : q[2] \in Packet /\ q[1] = Name(q[2])

LEMMA SuffixType ==
  ASSUME NEW S, NEW s \in Seq(S), NEW i \in Nat \ {0}
  PROVE  SubSeq(s, i, Len(s)) \in Seq(S)
  OBVIOUS

LEMMA TrafficUpdate ==
  ASSUME NEW f \in Traffic, NEW x \in Nodes, NEW y \in Nodes, NEW s \in Seq(Packet)
  PROVE  [f EXCEPT ![x][y] = s] \in Traffic
  BY DEF Traffic

\* storePacketAndReturnIfNew changes the name, which is no part of the key.
LEMMA StoredKey ==
  ASSUME NEW p \in Packet
  PROVE  Stored(p) \in Packet /\ Name(Stored(p)) = Key(p)
  BY DEF Packet, Stored, Name, Key

LEMMA PutType ==
  ASSUME NetType, NEW r \in Nodes, NEW p \in Packet, NEW S
  PROVE  Put(r, p, S) \in Traffic
  <1>1. ASSUME NEW b \in Nodes PROVE net[r][b] \in Seq(Packet) /\ Append(net[r][b], p) \in Seq(Packet)
    BY DEF NetType, Traffic
  <1>2. [b \in Nodes |-> IF b \in S \cap Repeaters THEN Append(net[r][b], p) ELSE net[r][b]]
          \in [Nodes -> Seq(Packet)]
    BY <1>1
  <1> QED
    BY <1>2 DEF NetType, Traffic, Put

LEMMA NetInit == Init => NetType
  BY DEF Init, NetType, Traffic

LEMMA NetWrite ==
  ASSUME NetType, NEW r \in Repeaters, NEW a \in Nodes, processWrite(r, a)
  PROVE  NetType'
  <1> DEFINE p == Head(net[a][r])
  <1>1. r \in Nodes /\ net[a][r] \in Seq(Packet) /\ net[a][r] # << >>
    BY DEF processWrite, Nodes, NetType, Traffic
  <1>2. p \in Packet /\ Tail(net[a][r]) \in Seq(Packet)
    BY <1>1
  <1>3. net' \in Traffic
    BY <1>1, <1>2, TrafficUpdate DEF processWrite, NetType
  <1>4. clock' \in [Repeaters -> Nat]
    <2>1. p.timestamp \in Nat
      BY <1>2 DEF Packet
    <2>2. p.timestamp \div Scale \in Nat
      BY <2>1, NumbersAssumption
    <2> QED
      BY <2>2 DEF processWrite, possiblyUpdateTimeOffset, NetType
  <1>5. /\ DOMAIN queue' = Repeaters
        /\ \A x \in Repeaters : \A q \in queue'[x] : q \in queue[x] \/ q = <<Key(p), Stored(p)>>
    BY DEF processWrite, NetType
  <1>6. \A x \in Repeaters : \A q \in queue'[x] : q[2] \in Packet /\ q[1] = Name(q[2])
    BY <1>2, <1>5, StoredKey DEF NetType
  <1> QED
    BY <1>3, <1>4, <1>5, <1>6 DEF NetType

LEMMA NetLost == ASSUME NetType, NEW l \in Links, linkLost(l) PROVE NetType'
  <1>1. PICK i \in 1 .. Len(net[l[1]][l[2]]) + 1, j \in 1 .. Len(net[l[2]][l[1]]) + 1 :
          net' = [x \in Nodes |-> [y \in Nodes |->
                    IF <<x, y>> = l THEN SubSeq(net[x][y], i, Len(net[x][y]))
                    ELSE IF <<y, x>> = l THEN SubSeq(net[x][y], j, Len(net[x][y]))
                    ELSE net[x][y]]]
    BY Zenon DEF linkLost
  <1>2. ASSUME NEW x \in Nodes, NEW y \in Nodes
        PROVE  /\ net[x][y] \in Seq(Packet)
               /\ SubSeq(net[x][y], i, Len(net[x][y])) \in Seq(Packet)
               /\ SubSeq(net[x][y], j, Len(net[x][y])) \in Seq(Packet)
    <2>1. net[x][y] \in Seq(Packet)
      BY DEF NetType, Traffic
    <2>2. i \in Nat \ {0} /\ j \in Nat \ {0}
      OBVIOUS
    <2> QED
      BY <2>1, <2>2, SuffixType, Zenon
  <1>3. net' \in Traffic
    BY <1>1, <1>2 DEF Traffic
  <1> QED
    BY <1>3 DEF linkLost, NetType

LEMMA NetStep == NetType /\ [Next]_vars => NetType'
  <1> SUFFICES ASSUME NetType, [Next]_vars PROVE NetType'
    OBVIOUS
  <1>1. ASSUME NEW r \in Repeaters, NEW q \in queue[r], sendPackets(r, q[1], q[2]) PROVE NetType'
    <2>1. PICK S : net' = Put(r, q[2], S)
      BY <1>1 DEF sendPackets
    <2>2. net' \in Traffic
      BY <2>1, <1>1, PutType DEF NetType, Nodes
    <2> QED
      BY <1>1, <2>2 DEF sendPackets, NetType
  <1>2. ASSUME NEW r \in Repeaters, NEW b \in Nodes, announceToConnections(r, b) PROVE NetType'
    <2> DEFINE p == [type |-> "announce", sender |-> r, timestamp |-> clock[r],
                     ttl |-> 3, name |-> TRUE]
    <2>1. r \in Nodes /\ p \in Packet
      BY DEF NetType, Nodes, Packet
    <2>2. net' \in Traffic
      BY <2>1, <1>2, PutType DEF announceToConnections
    <2> QED
      BY <1>2, <2>2 DEF announceToConnections, NetType
  <1>3. ASSUME NEW r \in Repeaters, NEW p \in PhonePackets, phoneWrites(p, r) PROVE NetType'
    <2>1. r \in Nodes /\ p.sender \in Nodes /\ p \in Packet
      BY PacketsAssumption DEF Nodes, Packet
    <2>2. Append(net[p.sender][r], p) \in Seq(Packet)
      BY <2>1 DEF NetType, Traffic
    <2>3. net' \in Traffic
      BY <1>3, <2>1, <2>2, TrafficUpdate DEF phoneWrites, NetType
    <2> QED
      BY <1>3, <2>3 DEF phoneWrites, NetType
  <1>4. ASSUME NEW l \in Links, linkBack(l) PROVE NetType'
    BY <1>4 DEF linkBack, NetType
  <1>5. CASE UNCHANGED vars
    BY <1>5 DEF vars, NetType
  <1>6. ASSUME NEW r \in Repeaters, NEW later \in Later, cleanupStaleItems(r, later) PROVE NetType'
    <2>1. net' = net /\ clock' = clock
      BY <1>6 DEF cleanupStaleItems
    <2>2. DOMAIN queue' = Repeaters /\ \A x \in Repeaters : queue'[x] \subseteq queue[x]
      BY <1>6 DEF cleanupStaleItems, NetType
    <2> QED
      BY <2>1, <2>2 DEF NetType
  <1> QED
    BY <1>1, <1>2, <1>3, <1>4, <1>5, <1>6, NetWrite, NetLost DEF Next, Relaying

\* The store knows what waits and what was relayed.  A packet waits at most
\* once, and not any more when it has been relayed: it can wait again only
\* after the store has forgotten it.
RelayInv ==
  /\ DOMAIN packets = Repeaters
  /\ \A r \in Repeaters : \A k \in packets[r] : k = <<k[1], k[2], k[3]>>
  /\ \A r \in Repeaters : \A q \in queue[r] :
       q[1] \in packets[r] /\ \A x \in queue[r] : x[1] = q[1] => x = q
  /\ \A r, b, n : <<r, b, n>> \in crossed =>
       r \in Repeaters /\ n \in packets[r] /\ \A q \in queue[r] : q[1] # n
  /\ CrossesOnce

LEMMA RelaySend ==
  ASSUME NetType, RelayInv, NEW r \in Repeaters, NEW q \in queue[r], sendPackets(r, q[1], q[2])
  PROVE  RelayInv'
  <1> DEFINE n == Name(q[2])
  <1>1. q[1] = n /\ q = <<q[1], q[2]>>
    <2>1. q[1] = n
      BY DEF NetType
    <2>2. <<q[1], q[2]>> \in queue[r]
      BY DEF sendPackets
    <2>3. \A x \in queue[r] : x[1] = q[1] => x = q
      BY DEF RelayInv
    <2>4. <<q[1], q[2]>>[1] = q[1]
      OBVIOUS
    <2> QED
      BY <2>1, <2>2, <2>3, <2>4
  <1>2. PICK S \in SUBSET Linked(r) :
          /\ crossed' = crossed \cup ({r} \X S \X {n})
          /\ again' = (again \/ \E b \in S : <<r, b, n>> \in crossed)
    BY <1>1 DEF sendPackets
  <1> HIDE DEF n
  <1>3. packets' = packets /\ queue' = [queue EXCEPT ![r] = @ \ {q}]
    BY <1>1 DEF sendPackets
  <1>4. n \in packets[r] /\ DOMAIN queue = Repeaters
    BY <1>1 DEF RelayInv, NetType
  <1>5. ~again'
    <2>1. \A b : <<r, b, n>> \notin crossed
      BY <1>1 DEF RelayInv
    <2> QED
      BY <2>1, <1>2, Zenon DEF RelayInv, CrossesOnce
  <1>6. /\ \A x \in Repeaters : queue'[x] \subseteq queue[x]
        /\ \A x \in queue'[r] : x[1] # n
    BY <1>1, <1>3, <1>4 DEF RelayInv
  <1>7. ASSUME NEW x, NEW b, NEW m, <<x, b, m>> \in crossed'
        PROVE  x \in Repeaters /\ m \in packets'[x] /\ \A y \in queue'[x] : y[1] # m
    <2>1. CASE <<x, b, m>> \in crossed
      BY <2>1, <1>3, <1>6 DEF RelayInv
    <2>2. CASE <<x, b, m>> \in {r} \X S \X {n}
      BY <2>2, <1>3, <1>4, <1>6
    <2> QED
      BY <2>1, <2>2, <1>7, <1>2
  <1>8. \A x \in Repeaters : \A y \in queue'[x] :
          y[1] \in packets'[x] /\ \A z \in queue'[x] : z[1] = y[1] => z = y
    BY <1>3, <1>6 DEF RelayInv
  <1> QED
    BY <1>3, <1>5, <1>7, <1>8 DEF RelayInv, CrossesOnce

LEMMA RelayWrite ==
  ASSUME NetType, RelayInv, NEW r \in Repeaters, NEW a \in Nodes, processWrite(r, a)
  PROVE  RelayInv'
  <1> DEFINE p == Head(net[a][r])
             k == Key(p)
  <1>1. UNCHANGED <<crossed, again>> /\ DOMAIN queue = Repeaters
    BY DEF processWrite, history, NetType
  <1>2. k = <<k[1], k[2], k[3]>>
    BY DEF Key
  <1>3. CASE UNCHANGED <<packets, queue>>
    BY <1>1, <1>3 DEF RelayInv, CrossesOnce
  <1>4. CASE /\ k \notin packets[r]
             /\ packets' = [packets EXCEPT ![r] = @ \cup {k}]
             /\ queue' = [queue EXCEPT ![r] = IF p.ttl > 0 THEN @ \cup {<<k, Stored(p)>>} ELSE @]
    <2> HIDE DEF p, k
    <2>1. /\ DOMAIN packets' = Repeaters
          /\ packets'[r] = packets[r] \cup {k}
          /\ \A x \in Repeaters : x # r => packets'[x] = packets[x] /\ queue'[x] = queue[x]
      BY <1>1, <1>4 DEF RelayInv
    <2>2. \A q \in queue'[r] : q \in queue[r] \/ q = <<k, Stored(p)>>
      BY <1>1, <1>4
    <2>3. \A q \in queue[r] : q[1] # k
      BY <1>4 DEF RelayInv
    <2>4. \A x \in Repeaters : \A q \in queue'[x] :
            q[1] \in packets'[x] /\ \A y \in queue'[x] : y[1] = q[1] => y = q
      <3>1. ASSUME NEW q \in queue'[r]
            PROVE  q[1] \in packets'[r] /\ \A y \in queue'[r] : y[1] = q[1] => y = q
        BY <2>1, <2>2, <2>3 DEF RelayInv
      <3> QED
        BY <3>1, <2>1 DEF RelayInv
    <2>5. \A x, b, n : <<x, b, n>> \in crossed =>
            x \in Repeaters /\ n \in packets'[x] /\ \A q \in queue'[x] : q[1] # n
      BY <1>4, <2>1, <2>2 DEF RelayInv
    <2>6. \A x \in Repeaters : \A n \in packets'[x] : n = <<n[1], n[2], n[3]>>
      BY <2>1, <1>2 DEF RelayInv
    <2> QED
      BY <1>1, <2>1, <2>4, <2>5, <2>6 DEF RelayInv, CrossesOnce
  <1> QED
    BY <1>3, <1>4 DEF processWrite

\* A clean-up takes a packet from the store, the queue and the history alike.
LEMMA RelayCleanup ==
  ASSUME NetType, RelayInv, NEW r \in Repeaters, NEW later \in Later, cleanupStaleItems(r, later)
  PROVE  RelayInv'
  <1> DEFINE freed == {k \in packets[r] : (k[3] \div Scale) + StaleAfter < clock[r] + later}
  <1>1. /\ packets' = [packets EXCEPT ![r] = @ \ freed]
        /\ queue' = [queue EXCEPT ![r] = {q \in @ : q[1] \notin freed}]
        /\ crossed' = {x \in crossed : x[1] # r \/ x[3] \notin {<<k[1], k[2], k[3]>> : k \in freed}}
        /\ again' = again
    BY DEF cleanupStaleItems
  <1>2. freed \subseteq packets[r]
    OBVIOUS
  <1> HIDE DEF freed
  <1>3. DOMAIN packets = Repeaters /\ DOMAIN queue = Repeaters
    BY DEF RelayInv, NetType
  <1>4. /\ DOMAIN packets' = Repeaters
        /\ packets'[r] = packets[r] \ freed
        /\ \A x \in Repeaters : x # r => packets'[x] = packets[x]
        /\ \A x \in Repeaters : queue'[x] \subseteq queue[x]
        /\ \A q \in queue'[r] : q[1] \notin freed
    BY <1>1, <1>3
  <1>5. ASSUME NEW x, NEW b, NEW n, <<x, b, n>> \in crossed'
        PROVE  x \in Repeaters /\ n \in packets'[x] /\ \A q \in queue'[x] : q[1] # n
    <2>1. <<x, b, n>> \in crossed /\ (x # r \/ n \notin {<<k[1], k[2], k[3]>> : k \in freed})
      BY <1>1, <1>5
    <2>2. x \in Repeaters /\ n \in packets[x] /\ \A q \in queue[x] : q[1] # n
      BY <2>1 DEF RelayInv
    <2>3. x = r => n \notin freed
      <3>1. \A k \in freed : k = <<k[1], k[2], k[3]>>
        BY <1>2 DEF RelayInv
      <3> QED
        BY <2>1, <3>1
    <2> QED
      BY <1>4, <2>2, <2>3
  <1>6. \A x \in Repeaters : \A q \in queue'[x] :
          q[1] \in packets'[x] /\ \A y \in queue'[x] : y[1] = q[1] => y = q
    BY <1>4 DEF RelayInv
  <1>7. \A x \in Repeaters : \A n \in packets'[x] : n = <<n[1], n[2], n[3]>>
    BY <1>4 DEF RelayInv
  <1> QED
    BY <1>1, <1>4, <1>5, <1>6, <1>7 DEF RelayInv, CrossesOnce

LEMMA RelayStep == NetType /\ RelayInv /\ [Next]_vars => RelayInv'
  <1> SUFFICES ASSUME NetType, RelayInv, [Next]_vars PROVE RelayInv'
    OBVIOUS
  <1>1. CASE UNCHANGED <<packets, queue, crossed, again>>
    BY <1>1 DEF RelayInv, CrossesOnce
  <1>2. ASSUME NEW r \in Repeaters, NEW b \in Nodes, announceToConnections(r, b) PROVE RelayInv'
    BY <1>1, <1>2 DEF announceToConnections, history
  <1>3. ASSUME NEW r \in Repeaters, NEW p \in PhonePackets, phoneWrites(p, r) PROVE RelayInv'
    BY <1>1, <1>3 DEF phoneWrites, history
  <1>4. ASSUME NEW l \in Links, linkLost(l) \/ linkBack(l) PROVE RelayInv'
    BY <1>1, <1>4 DEF linkLost, linkBack, history
  <1>5. CASE UNCHANGED vars
    BY <1>1, <1>5 DEF vars
  <1> QED
    BY <1>2, <1>3, <1>4, <1>5, RelayWrite, RelaySend, RelayCleanup DEF Next, Relaying

\* In a mesh of any size and shape, with any packets, no repeater relays a
\* packet twice over the same link unless it has freed the packet in between.
THEOREM RelaysOnce == Spec => []CrossesOnce
  <1>1. Init => NetType /\ RelayInv
    BY NetInit DEF Init, RelayInv, CrossesOnce
  <1>2. NetType /\ RelayInv /\ [Next]_vars => NetType' /\ RelayInv'
    BY NetStep, RelayStep
  <1>3. RelayInv => CrossesOnce
    BY DEF RelayInv
  <1> QED
    BY <1>1, <1>2, <1>3, PTL DEF Spec
=============================================================================
