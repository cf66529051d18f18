-------------------------------- MODULE Mesh --------------------------------
(***************************************************************************)
(* Several repeaters and the phones around them: what BleConnectionTracker *)
(* and ProtocolProcessor do with packets that come back over loops, with   *)
(* relayed announcements, with the clock they carry and with the directory *)
(* of peers.                                                               *)
(*                                                                         *)
(* Coarser than BleConnectionTracker: sending one packet on all its links  *)
(* is one step, and so is a clean-up; a link is usable when it is up, and  *)
(* a handle is named by the node at the other end.  Time passes before     *)
(* clean-ups only.  What one repeater writes the next one reads as         *)
(* PacketCodec says: a message as it was, an announcement without its name *)
(* once it has been stored.                                                *)
(***************************************************************************)
EXTENDS Integers, Sequences, FiniteSets

CONSTANTS
  Repeaters, Phones,
  Links,         \* pairs <<central, peripheral>> of nodes
  PhonePackets,  \* packets the phones may write
  Scale,         \* 1000: from a packet's timestamp to the clock
  build_time_ms,
  MESSAGE_TIMEOUT,
  StaleAfter,    \* ten_minutes_in_ms
  Later,         \* what may pass from the last change of the clock to a clean-up
  Dead,          \* what is recorded for a packet that came as a notification
  Own,           \* &announce
  Stray,         \* the address of a packet that was freed
  MaxWrites,     \* bound: how many of them in one behaviour
  Announcers,    \* bound: repeaters whose own announcements are followed
  MaxFlight,     \* bound: packets on a link when its end announces itself
  MaxTroubles    \* bound: links lost and clean-ups, taken together

Nodes == Repeaters \cup Phones

ASSUME NodesAssumption ==
  /\ Repeaters \cap Phones = {} /\ {Dead, Own, Stray} \cap Nodes = {}
  /\ Links \subseteq Nodes \X Nodes /\ Announcers \subseteq Repeaters
ASSUME NumbersAssumption ==
  /\ Scale \in Nat \ {0}
  /\ {build_time_ms, MESSAGE_TIMEOUT, StaleAfter} \cup Later \subseteq Nat
  /\ {MaxWrites, MaxFlight, MaxTroubles} \subseteq Nat
ASSUME PacketsAssumption ==
  PhonePackets \subseteq [type : {"announce", "message"}, sender : Phones,
                          timestamp : Nat, ttl : Nat, name : BOOLEAN]

VARIABLES
  up,            \* links that are up
  net,           \* net[a][b]: packets on their way from a to b
  toWrite,       \* phone packets not yet written
  packets,       \* keys of messages and packets, by repeater
  queue,         \* broadcast_packets_to_send_list: <<key, packet>>
  sent,          \* packets_connections_sent_list: <<key, handle>>
  clock,         \* getTimeMs
  announced,     \* the timestamp of &announce
  peers,         \* sender -> [name, ttl]
  handle_peer_map,
  drops, cleanups,
  crossed,       \* history: <<from, to, name>> of every packet relayed by a
                 \* repeater that has not forgotten it since
  again          \* history: one was relayed over a link a second time

directory == <<peers, handle_peer_map>>
history == <<drops, cleanups, crossed, again>>
vars == <<up, net, toWrite, packets, queue, sent, clock, announced,
          peers, handle_peer_map, drops, cleanups, crossed, again>>

Init ==
  /\ up = Links
  /\ net = [a \in Nodes |-> [b \in Nodes |-> << >>]]
  /\ toWrite \in {W \in SUBSET PhonePackets : Cardinality(W) = MaxWrites}
  /\ packets = [r \in Repeaters |-> {}] /\ queue = [r \in Repeaters |-> {}]
  /\ sent = [r \in Repeaters |-> {}]
  /\ clock = [r \in Repeaters |-> 0] /\ announced = [r \in Repeaters |-> 0]
  /\ peers = [r \in Repeaters |-> << >>]
  /\ handle_peer_map = [r \in Repeaters |-> << >>]
  /\ drops = 0 /\ cleanups = 0 /\ crossed = {} /\ again = FALSE

Distance(a, b) == IF a < b THEN b - a ELSE a - b

\* Other ends of the links of n that are up.
Linked(n) == {m \in Nodes : <<n, m>> \in up \/ <<m, n>> \in up}

\* Who made a packet and when, whatever the store takes for its key.
Name(p) == <<p.type, p.sender, p.timestamp>>

\* Slip: the name takes part in the hash.
Key_WithName(p) == <<p.type, p.sender, p.timestamp, p.name>>

\* The message id, or getPacketHash: neither looks at time to live or name.
Key(p) == <<p.type, p.sender, p.timestamp>>

\* What storePacketAndReturnIfNew keeps of an announcement.
Stored(p) == [p EXCEPT !.name = FALSE]

\* f with x mapped to y.
With(f, x, y) == [z \in DOMAIN f \cup {x} |-> IF z = x THEN y ELSE f[z]]

-----------------------------------------------------------------------------
\* A phone writes a packet to a repeater it is linked to.
phoneWrites(p, r) ==
  /\ p \in toWrite /\ r \in Linked(p.sender)
  /\ toWrite' = toWrite \ {p}
  /\ net' = [net EXCEPT ![p.sender][r] = Append(@, p)]
  /\ UNCHANGED <<up, packets, queue, sent, clock, announced, directory,
                 history>>

updateOrStorePeerNameFromAnnouncement(r, a, p) ==
  LET known == p.sender \in DOMAIN peers[r]
      max_ttl == IF known THEN peers[r][p.sender].ttl ELSE 0
      best == p.ttl >= max_ttl
  IN /\ peers' = [peers EXCEPT ![r] = With(@, p.sender,
                    [name |-> p.name, ttl |-> IF best THEN p.ttl ELSE max_ttl])]
     /\ handle_peer_map' = IF best
                           THEN [handle_peer_map EXCEPT ![r] = With(@, a, p.sender)]
                           ELSE handle_peer_map

possiblyUpdateTimeOffset(r, timestamp_ms) ==
  clock' = IF Distance(timestamp_ms, clock[r]) > MESSAGE_TIMEOUT
              \/ timestamp_ms > clock[r]
           THEN [clock EXCEPT ![r] = timestamp_ms] ELSE clock

\* checkSenderInPeers for the sender of a message
checkSenderInPeers(r, sender) ==
  /\ peers' = IF sender \in DOMAIN peers[r] THEN peers
              ELSE [peers EXCEPT ![r] = With(@, sender, [name |-> FALSE, ttl |-> 0])]
  /\ UNCHANGED handle_peer_map

\* processWrite at r of the next packet from a
processWrite(r, a) ==
  /\ a \in Linked(r) /\ net[a][r] # << >>
  /\ LET p == Head(net[a][r])
         new == Key(p) \notin packets[r]
         from == IF <<r, a>> \in Links THEN Dead ELSE a
     IN /\ IF p.type = "announce"
           THEN /\ updateOrStorePeerNameFromAnnouncement(r, a, p)
                /\ possiblyUpdateTimeOffset(r, p.timestamp \div Scale)
           ELSE /\ IF new THEN checkSenderInPeers(r, p.sender) ELSE UNCHANGED directory
                /\ UNCHANGED clock
        /\ IF new
           THEN /\ packets' = [packets EXCEPT ![r] = @ \cup {Key(p)}]
                /\ sent' = [sent EXCEPT ![r] = @ \cup {<<Key(p), from>>}]
                /\ queue' = [queue EXCEPT ![r] = IF p.ttl > 0 THEN @ \cup {<<Key(p), Stored(p)>>} ELSE @]
           ELSE UNCHANGED <<packets, sent, queue>>
  /\ net' = [net EXCEPT ![a][r] = Tail(@)]
  /\ UNCHANGED <<up, toWrite, announced, history>>

\* net after r has put p on its links to the nodes of S; what goes to a phone
\* needs no following.
Put(r, p, S) ==
  [net EXCEPT ![r] = [b \in Nodes |-> IF b \in S \cap Repeaters
                                      THEN Append(net[r][b], p) ELSE net[r][b]]]

\* Links that the search of sendPackets may pass over: entries of packets at
\* higher addresses count, and an entry of a dead record reads as anything.
MaybeSent(r, key, b) ==
  \E e \in sent[r] : e[1] # Own /\ (e[2] = Dead \/ (e[1] # key /\ e[2] = b))

\* sendPackets for one packet of the broadcast list
sendPackets(r, key, p) ==
  LET free == {b \in Linked(r) : <<key, b>> \notin sent[r]}
      sure == {b \in free : ~MaybeSent(r, key, b)}
  IN /\ <<key, p>> \in queue[r]
     /\ \E S \in SUBSET free :
          /\ sure \subseteq S /\ S # {}
          /\ net' = Put(r, p, S)
          /\ sent' = [sent EXCEPT ![r] = @ \cup ({key} \X S)]
          /\ crossed' = crossed \cup ({r} \X S \X {Name(p)})
          /\ again' = (again \/ \E b \in S : <<r, b, Name(p)>> \in crossed)
     /\ queue' = [queue EXCEPT ![r] = @ \ {<<key, p>>}]
     /\ UNCHANGED <<up, toWrite, packets, clock, announced, directory, drops,
                    cleanups>>

\* Slip: links that were announced to are not left out.
not_announced_to_All(r, b) == TRUE

not_announced_to(r, b) == <<Own, b>> \notin sent[r]

\* announceToConnections for one link, and its sending; the timestamp is the
\* clock's, in milliseconds.
announceToConnections(r, b) ==
  /\ r \in Announcers /\ Len(net[r][b]) < MaxFlight
  /\ clock[r] >= build_time_ms
  /\ b \in Linked(r) /\ not_announced_to(r, b)
  /\ net' = Put(r, [type |-> "announce", sender |-> r, timestamp |-> clock[r],
                    ttl |-> 3, name |-> TRUE], {b})
  /\ sent' = [sent EXCEPT ![r] = @ \cup {<<Own, b>>}]
  /\ announced' = [announced EXCEPT ![r] = clock[r]]
  /\ UNCHANGED <<up, toWrite, packets, queue, clock, directory, history>>

\* cleanupStaleItems at r.  The store goes by getPacketTimestampMs, the sent
\* list by getPacketTimestamp, so it may keep entries of packets that are freed.
\* Entries of those, of lost links and of dead records may go or stay.
cleanupStaleItems(r, later) ==
  /\ drops + cleanups < MaxTroubles
  /\ LET now == clock[r] + later
         freed == {k \in packets[r] : (k[3] \div Scale) + StaleAfter < now}
         old == {k \in packets[r] : k[3] + StaleAfter < now}
                  \cup IF announced[r] + StaleAfter < now THEN {Own} ELSE {}
         unsure == {e \in sent[r] : e[1] = Stray \/ e[2] \notin Linked(r)}
     IN /\ packets' = [packets EXCEPT ![r] = @ \ freed]
        /\ queue' = [queue EXCEPT ![r] = {q \in @ : q[1] \notin freed}]
        /\ \E dropped \in SUBSET unsure :
             sent' = [sent EXCEPT ![r] =
                        {<<IF e[1] \in freed THEN Stray ELSE e[1], e[2]>> :
                           e \in {x \in @ \ dropped : x[1] \notin old}}]
        /\ crossed' = {x \in crossed : x[1] # r \/ x[3] \notin {<<k[1], k[2], k[3]>> : k \in freed}}
  /\ cleanups' = cleanups + 1
  /\ UNCHANGED <<up, net, toWrite, clock, announced, directory, drops, again>>

-----------------------------------------------------------------------------
\* f without x.
Without(f, x) == [z \in DOMAIN f \ {x} |-> f[z]]

\* Slip: the peer of the handle is left in the map.
reportDisconnection_KeepsPeer(r, b) == handle_peer_map[r]

\* What reportDisconnection leaves of the map.
reportDisconnection(r, b) == Without(handle_peer_map[r], b)

\* The link l is lost at both ends; of the packets on their way some are
\* lost, the others wait in the raw queues for the handle.
linkLost(l) ==
  /\ l \in up /\ drops + cleanups < MaxTroubles
  /\ up' = up \ {l} /\ drops' = drops + 1
  /\ \E i \in 1 .. Len(net[l[1]][l[2]]) + 1, j \in 1 .. Len(net[l[2]][l[1]]) + 1 :
       net' = [x \in Nodes |-> [y \in Nodes |->
                 IF <<x, y>> = l THEN SubSeq(net[x][y], i, Len(net[x][y]))
                 ELSE IF <<y, x>> = l THEN SubSeq(net[x][y], j, Len(net[x][y]))
                 ELSE net[x][y]]]
  /\ handle_peer_map' = [r \in Repeaters |->
                           IF r = l[1] THEN reportDisconnection(r, l[2])
                           ELSE IF r = l[2] THEN reportDisconnection(r, l[1])
                           ELSE handle_peer_map[r]]
  /\ UNCHANGED <<toWrite, packets, queue, sent, clock, announced, peers, cleanups,
                 crossed, again>>

linkBack(l) ==
  /\ l \in Links \ up
  /\ up' = up \cup {l}
  /\ UNCHANGED <<net, toWrite, packets, queue, sent, clock, announced, directory,
                 history>>

Relaying ==
  \E r \in Repeaters :
    \/ \E a \in Nodes : processWrite(r, a)
    \/ \E q \in queue[r] : sendPackets(r, q[1], q[2])
    \/ \E b \in Nodes : announceToConnections(r, b)

Next ==
  \/ Relaying
  \/ \E r \in Repeaters : \E p \in PhonePackets : phoneWrites(p, r)
  \/ \E r \in Repeaters, later \in Later : cleanupStaleItems(r, later)
  \/ \E l \in Links : linkLost(l) \/ linkBack(l)

Spec == Init /\ [][Next]_vars

\* The main loop and BTstack go on at every repeater; phones and links owe
\* nothing.
FairSpec ==
  /\ Spec
  /\ \A r \in Repeaters :
       /\ \A a \in Nodes : WF_vars(processWrite(r, a))
       /\ WF_vars(\E q \in queue[r] : sendPackets(r, q[1], q[2]))
       /\ \A b \in Nodes : WF_vars(announceToConnections(r, b))

-----------------------------------------------------------------------------
(***************************************************************************)
(* Properties.                                                             *)
(***************************************************************************)

\* A repeater relays a packet at most once over each link, as long as it has
\* not forgotten it, although time to live is never counted down, loops bring
\* the packet back, a repeater hears its own announcement, and a relayed
\* announcement has lost its name.  Once cleanupStaleItems has freed the packet
\* (that of a repeater's announcement at once: its timestamp is divided by 1000
\* too often), a copy is new and crosses the links again.
CrossesOnce == ~again

\* handle_peer_map names only links that are up and peers that are known,
\* while links are lost and return with packets still waiting on them.
DirectoryLive ==
  \A r \in Repeaters :
    /\ DOMAIN handle_peer_map[r] \subseteq Linked(r)
    /\ \A b \in DOMAIN handle_peer_map[r] : handle_peer_map[r][b] \in DOMAIN peers[r]

\* Nothing is on its way over a link that is up.
Quiet == \A r \in Repeaters : \A a \in Linked(r) : net[a][r] = << >>

\* If the repeaters clean up no more, the loops of the mesh come to rest, once
\* the phones have written what they have to write: announcements answered by
\* announcements, and packets that come back, do not keep each other going.
\* (With every clean-up they may start again.)
FloodsEnd == <>[][UNCHANGED cleanups]_vars => <>[]Quiet
=============================================================================
