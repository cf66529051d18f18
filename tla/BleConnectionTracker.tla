------------------------ MODULE BleConnectionTracker ------------------------
(***************************************************************************)
(* The relay core: BLE/BleConnectionTracker.cpp with the calls made into   *)
(* it by Packet/ProtocolProcessor.cpp and main.cpp.                        *)
(*                                                                         *)
(* Two actors share the tracker without a lock.  The main loop walks       *)
(* handlePinActivity, announceToConnections, sendPackets and               *)
(* cleanupStaleItems; pc is its place in that walk.  The BTstack callbacks *)
(* and the gpio callback run in interrupt context, whenever the main loop  *)
(* is between two of its calls, between two passes of the clean-up or      *)
(* asleep in SendPacketToConnection.                                       *)
(*                                                                         *)
(* A packet is named by the heap address (slot) of its map node, because   *)
(* that is what the queues and the sent lists hold.  A connection is named *)
(* by its HCI handle, the key and the handle field of its record; a        *)
(* pointer to a record that is gone is Dead, and reads as anything.        *)
(***************************************************************************)
EXTENDS Integers, FiniteSets

CONSTANTS
  Handles,         \* HCI connection handles the controller hands out
  Slots,           \* heap addresses a stored packet can live at
  Contents,        \* the packets peers send
  RolesOf,         \* handle -> the roles its links may have
  PinTimes,        \* bound: the times at which a pin may be pulled down
  Dead,            \* a BleConnection* to an erased record or a stack frame left
  NoHandle,        \* the end iterator of a walk over connections
  Unset,           \* begin() of a filter_view that nobody has called yet
  Scale,           \* divisor of getPacketTimestampMs (1000)
  StaleAfter,      \* ten_minutes_in_ms
  MessageTimeout,  \* MESSAGE_TIMEOUT
  BuildTime,       \* build_time_ms
  IdWrap,          \* 2^16: write_uint32 takes a uint16_t
  Wrap,            \* 2^64: width of timestamp_offset_ms
  MaxUptime        \* bound on the milliseconds since boot

\* &announce, a member of a global object: below every heap address.
Announce == 0

Packet == [kind : {"announce", "message"}, key : Nat, ttl : Nat, ts : Nat]

ASSUME HandlesAssumption == Handles \subseteq Nat
ASSUME SlotsAssumption == Slots \subseteq Nat \ {Announce}
ASSUME ContentsAssumption == Contents \subseteq Packet
ASSUME RolesAssumption == RolesOf \in [Handles -> SUBSET {"master", "slave"}]
ASSUME MarkersAssumption ==
  /\ Dead \notin Handles
  /\ NoHandle \notin Handles /\ Unset \notin Handles /\ NoHandle # Unset
ASSUME WidthsAssumption ==
  /\ {Scale, IdWrap, Wrap} \subseteq Nat \ {0}
  /\ {StaleAfter, MessageTimeout, BuildTime, MaxUptime} \subseteq Nat
\* No clock comes within ten minutes of the end of a uint64_t.
ASSUME ClockAssumption ==
  /\ MaxUptime + StaleAfter < Wrap
  /\ \A c \in Contents : c.ts + MaxUptime + StaleAfter < Wrap

VARIABLES
  connections,   \* handle -> record, active and disconnected
  stored,        \* slot -> packet: the nodes of messages and of packets
  broadcast,     \* broadcast_packets_to_send_list
  targeted,      \* targeted_packets_to_send_list, whose key is &announce
  sent,          \* packets_connections_sent_list
  peers_sent,    \* packets_peers_sent_list
  announce_ts,   \* timestamp of announce
  offset,        \* timestamp_offset_ms
  uptime,        \* time_us_64() / 1000
  pin_seen,      \* smoke_seen || life_check
  pc,            \* where the main loop is
  todo,          \* what the range-for over the broadcast list has left
  cur,           \* the packet of the inner loop
  at,            \* the connection of the inner loop
  first,         \* begin() cached by available_connections
  done,          \* broadcast_packets_to_remove
  now,           \* the clock as cleanupStaleItems read it, 0 outside of it
  got,           \* history: <<slot, handle>> written by or handed to a peer
  copied,        \* history: those of got that came over an opened link
  due,           \* history: links an announceToConnections saw, still up
  told,          \* history: links that were handed an announcement
  inherits,      \* history: links that came up with one recorded already
  torn           \* history: an old link was lost between two passes

data == <<connections, stored, broadcast, targeted, sent, peers_sent,
          announce_ts, offset, uptime, pin_seen>>
history == <<got, copied, due, told, inherits, torn>>
control == <<pc, todo, cur, at, first, done, now>>
vars == <<connections, stored, broadcast, targeted, sent, peers_sent,
          announce_ts, offset, uptime, pin_seen, got, copied, due, told,
          inherits, torn, pc, todo, cur, at, first, done, now>>

Connection == [connected : BOOLEAN, value_handle : BOOLEAN,
               role : {"master", "slave"}, timestamp : Nat]

Place == {"pins", "announce", "targeted", "told", "broadcast", "connection",
          "recorded", "cleanup", "clean sent", "clean peers sent",
          "clean broadcast", "clean targeted", "clean connections",
          "clean messages", "clean packets"}

-----------------------------------------------------------------------------
(***************************************************************************)
(* Reading the tracker.                                                    *)
(***************************************************************************)

\* 64-bit sum of the offset and the time since boot.
getTimeMs == (offset + uptime) % Wrap

\* isConnected() and a known characteristic value handle.
Available == {h \in DOMAIN connections : connections[h].connected
                                      /\ connections[h].value_handle}

\* n is where a walk over the filtered connections stops next, after h.
NextAvailable(h, n) ==
  IF \A x \in Available : x <= h
  THEN n = NoHandle
  ELSE n \in {x \in Available : x > h} /\ \A x \in Available : x > h => n <= x

\* n is where that walk starts.
FirstAvailable(n) ==
  IF Available = {} THEN n = NoHandle
  ELSE n \in Available /\ \A x \in Available : n <= x

\* equal_range(p): the connections recorded for exactly this packet.
SentTo(p) == {e[2] : e \in {x \in sent : x[1] = p}}

\* Slip: the walk starts at upper_bound(p), after the packet's own entries.
ReadAsSentTo_UpperBound(p) == {e[2] : e \in {x \in sent : x[1] > p}}

\* find(p) up to end(): once p has an entry, the entries of every packet at a
\* higher address are read as well.
ReadAsSentTo(p) ==
  IF SentTo(p) = {} THEN {} ELSE {e[2] : e \in {x \in sent : x[1] >= p}}

Known(c) == \E s \in DOMAIN stored : /\ stored[s].kind = c.kind
                                     /\ stored[s].key = c.key

\* getTimestampMs() + ten_minutes_in_ms < now
Old(h) == connections[h].timestamp + StaleAfter < now

\* Addresses the allocator can return for a new map node.
Free == Slots \ DOMAIN stored

\* The map m with key k set to v.
Put(m, k, v) == [x \in DOMAIN m \cup {k} |-> IF x = k THEN v ELSE m[x]]

\* The map m without the keys in S.
Drop(m, S) == [x \in DOMAIN m \ S |-> m[x]]

-----------------------------------------------------------------------------
Init ==
  /\ connections = [h \in {} |-> 0]
  /\ stored = [s \in {} |-> 0]
  /\ broadcast = {} /\ targeted = {} /\ sent = {} /\ peers_sent = {}
  /\ announce_ts = 0 /\ offset = 0 /\ uptime = 0
  /\ pin_seen = FALSE
  /\ pc = "pins" /\ todo = {} /\ cur = Announce /\ at = NoHandle
  /\ first = Unset /\ done = {} /\ now = 0
  /\ got = {} /\ copied = {}
  /\ due = {} /\ told = {} /\ inherits = {} /\ torn = FALSE

(***************************************************************************)
(* Interrupt context.                                                      *)
(***************************************************************************)

Tick ==
  /\ uptime < MaxUptime
  /\ uptime' = uptime + 1
  /\ UNCHANGED <<connections, stored, broadcast, targeted, sent, peers_sent,
                 announce_ts, offset, pin_seen, history, control>>

gpio_callback ==
  /\ ~pin_seen /\ uptime \in PinTimes
  /\ pin_seen' = TRUE
  /\ UNCHANGED <<connections, stored, broadcast, targeted, sent, peers_sent,
                 announce_ts, offset, uptime, history, control>>

\* The record is overwritten only if the address is an available neighbour
\* (known) or the handle is new: otherwise it keeps its value handle.
reportConnection(h, role, known) ==
  /\ h \in DOMAIN connections => ~connections[h].connected
  /\ LET kept == ~known /\ h \in DOMAIN connections
                 /\ connections[h].value_handle
     IN connections' = Put(connections, h,
                           [connected |-> TRUE, value_handle |-> kept,
                            role |-> role, timestamp |-> uptime])
  /\ told' = told \ {h}
  /\ inherits' = IF \/ h \in SentTo(Announce) \cup targeted
                    \/ pc = "told" /\ at = h
                 THEN inherits \cup {h} ELSE inherits \ {h}
  /\ UNCHANGED <<stored, broadcast, targeted, sent, peers_sent, announce_ts,
                 offset, uptime, pin_seen, got, copied, due, torn, control>>

\* The peer subscribes (slave), or its characteristic is discovered (master).
learnValueHandle(h) ==
  /\ h \in DOMAIN connections
  /\ connections[h].connected /\ ~connections[h].value_handle
  /\ connections' = [connections EXCEPT ![h].value_handle = TRUE]
  /\ UNCHANGED <<stored, broadcast, targeted, sent, peers_sent, announce_ts,
                 offset, uptime, pin_seen, history, control>>

\* The erase_if over the sent list compares against the address of the copy
\* its lambda captured, so it never removes anything.  An old link that is
\* lost after the pass over the sent list and before the one over connections
\* leaves pointers to its record behind.
reportDisconnection(h) ==
  /\ h \in DOMAIN connections /\ connections[h].connected
  /\ connections' = [connections EXCEPT ![h].connected = FALSE]
  /\ torn' = (torn \/ /\ pc \in {"clean peers sent", "clean broadcast",
                                "clean targeted", "clean connections"}
                      /\ Old(h))
  /\ due' = due \ {h}
  /\ UNCHANGED <<stored, broadcast, targeted, sent, peers_sent, announce_ts,
                 offset, uptime, pin_seen, got, copied, told, inherits,
                 control>>

\* Slip: signed arithmetic on the offset, without the uint64_t wrap.
OffsetAfter_Signed(t) ==
  LET diff == t - getTimeMs
  IN IF diff > MessageTimeout \/ 0 - diff > MessageTimeout \/ diff > 0
     THEN offset + diff ELSE offset

\* The offset after a peer's clock was seen at t.
OffsetAfter(t) ==
  LET diff == t - getTimeMs
      diff_abs == IF diff < 0 THEN 0 - diff ELSE diff
  IN IF diff_abs > MessageTimeout \/ diff > 0
     THEN (offset + diff) % Wrap
     ELSE offset

\* A new packet c enters the store at slot s and the sender is recorded; a
\* packet without time to live is stored but never queued.
storeAndEnqueue(c, s, from) ==
  /\ stored' = Put(stored, s, c)
  /\ sent' = sent \cup {<<s, from>>}
  /\ peers_sent' = peers_sent \cup {s}
  /\ broadcast' = IF c.ttl > 0 THEN broadcast \cup {s} ELSE broadcast

\* processWrite is handed a reference to the record by att_write_callback,
\* but a stack copy by the GATT_EVENT_NOTIFICATION handler.
processWrite(h, c) ==
  /\ h \in DOMAIN connections /\ connections[h].connected
  /\ connections[h].role = "master" => connections[h].value_handle
  /\ offset' = IF c.kind = "announce" THEN OffsetAfter(c.ts \div Scale)
                                      ELSE offset
  /\ \/ /\ Known(c)
        /\ UNCHANGED <<stored, sent, peers_sent, broadcast, got, copied>>
     \/ /\ ~Known(c)
        /\ \E s \in Free :
             /\ got' = got \cup {<<s, h>>}
             /\ \/ /\ connections[h].role = "slave"
                   /\ storeAndEnqueue(c, s, h) /\ copied' = copied
                \/ /\ connections[h].role = "master"
                   /\ storeAndEnqueue(c, s, Dead)
                   /\ copied' = copied \cup {<<s, h>>}
  /\ UNCHANGED <<connections, targeted, announce_ts, uptime, pin_seen, due,
                 told, inherits, torn, control>>

Interrupt ==
  \/ Tick
  \/ gpio_callback
  \/ \E h \in Handles :
       \/ \E role \in RolesOf[h], known \in BOOLEAN :
            reportConnection(h, role, known)
       \/ learnValueHandle(h)
       \/ reportDisconnection(h)
       \/ \E c \in Contents : processWrite(h, c)

-----------------------------------------------------------------------------
(***************************************************************************)
(* The main loop.                                                          *)
(***************************************************************************)

\* The id is the timestamp cut to sixteen bits; flags are cleared even when
\* the id is taken and the message dropped.
handlePinActivity ==
  /\ pc = "pins" /\ pin_seen
  /\ LET m == [kind |-> "message", key |-> getTimeMs % IdWrap,
               ttl |-> 7, ts |-> getTimeMs]
     IN \/ /\ Known(m)
           /\ UNCHANGED <<stored, broadcast>>
        \/ /\ ~Known(m)
           /\ \E s \in Free : /\ stored' = Put(stored, s, m)
                              /\ broadcast' = broadcast \cup {s}
  /\ pin_seen' = FALSE
  /\ pc' = "announce"
  /\ UNCHANGED <<connections, targeted, sent, peers_sent, announce_ts,
                 offset, uptime, history, todo, cur, at, first, done, now>>

\* Also taken when the bounded heap of the model is full.
pinsQuiet ==
  /\ pc = "pins" /\ (pin_seen => Free = {})
  /\ pc' = "announce"
  /\ UNCHANGED <<data, history, todo, cur, at, first, done, now>>

\* Slip: the filter on what was announced already is left out.
not_announced_to_Unfiltered == {h \in Available : offset >= BuildTime}

\* Slip: the entries of other packets count as announcements, too.
not_announced_to_AnyPacket ==
  {h \in Available : offset >= BuildTime /\ h \notin ReadAsSentTo(Announce)}

\* Available connections with no entry under &announce, once the offset has
\* reached the build time.
not_announced_to ==
  {h \in Available : offset >= BuildTime /\ h \notin SentTo(Announce)}

\* enqueueTargetedPacket for each of them, stamped with the current time.  A
\* dangling entry may read as any handle and so hide its connection.
announceToConnections ==
  /\ pc = "announce"
  /\ \E hidden \in SUBSET not_announced_to :
       /\ Dead \notin SentTo(Announce) => hidden = {}
       /\ targeted' = targeted \cup (not_announced_to \ hidden)
       /\ announce_ts' = IF not_announced_to = hidden THEN announce_ts
                         ELSE getTimeMs
  /\ due' = IF offset >= BuildTime THEN Available ELSE {}
  /\ pc' = "targeted"
  /\ UNCHANGED <<connections, stored, broadcast, sent, peers_sent, offset,
                 uptime, pin_seen, got, copied, told, inherits, torn, todo,
                 cur, at, first, done, now>>

announceNotDue ==
  /\ pc = "announce"
  /\ pc' = "targeted"
  /\ UNCHANGED <<data, history, todo, cur, at, first, done, now>>

\* not packet_needed(<<&announce, h>>), for certain or by a dangling entry
Unneeded(h) == {h, Dead} \cap SentTo(Announce) # {}

\* SendPacketToConnection for the next needed entry; it sleeps, so the
\* entry in the sent list is a step of its own (recordTargeted).
sendTargeted(h) ==
  /\ pc = "targeted"
  /\ h \in targeted \ SentTo(Announce)
  /\ \A x \in targeted \ {Dead} : x < h => Unneeded(x)
  /\ pc' = "told" /\ cur' = Announce /\ at' = h
  /\ told' = IF h \in Available THEN told \cup {h} ELSE told
  /\ UNCHANGED <<data, got, copied, due, inherits, torn, todo, first, done,
                 now>>

recordTargeted ==
  /\ pc = "told"
  /\ sent' = sent \cup {<<Announce, at>>}
  /\ done' = done \cup {Announce}
  /\ pc' = "targeted" /\ at' = NoHandle
  /\ UNCHANGED <<connections, stored, broadcast, targeted, peers_sent,
                 announce_ts, offset, uptime, pin_seen, history, todo, cur,
                 first, now>>

\* The entries of a packet that was sent are erased, and the walk over the
\* broadcast list starts with what the list holds now.  An entry for a record
\* that is gone may have been sent through on the way (astray).
endTargeted ==
  /\ pc = "targeted"
  /\ \A h \in targeted \ {Dead} : Unneeded(h)
  /\ \E astray \in BOOLEAN :
       /\ astray => Dead \in targeted
       /\ sent' = IF astray THEN sent \cup {<<Announce, Dead>>} ELSE sent
       /\ targeted' = IF astray \/ Announce \in done THEN {} ELSE targeted
  /\ pc' = "broadcast" /\ todo' = broadcast /\ done' = {} /\ due' = {}
  /\ UNCHANGED <<connections, stored, broadcast, peers_sent, announce_ts,
                 offset, uptime, pin_seen, got, copied, told, inherits, torn,
                 cur, at, first, now>>

\* Next packet.  The filter_view caches begin() at its first use, so later
\* packets start at the same connection whatever has happened to it.
nextPacket(s) ==
  /\ pc = "broadcast" /\ s \in todo
  /\ \E n \in Handles \cup {NoHandle} :
       /\ IF first = Unset THEN FirstAvailable(n) ELSE n = first
       /\ first' = n /\ at' = n
  /\ cur' = s /\ todo' = todo \ {s}
  /\ pc' = "connection"
  /\ UNCHANGED <<data, history, done, now>>

\* The connection looks served already.  An entry that points into a dead
\* stack frame may read as any handle.
passOver ==
  /\ pc = "connection" /\ at # NoHandle
  /\ {at, Dead} \cap ReadAsSentTo(cur) # {}
  /\ \E n \in Handles \cup {NoHandle} : NextAvailable(at, n) /\ at' = n
  /\ UNCHANGED <<data, history, pc, todo, cur, first, done, now>>

\* SendPacketToConnection, then its sleep.  A queued address whose packet was
\* freed sends whatever is there.
sendBroadcast ==
  /\ pc = "connection" /\ at # NoHandle
  /\ at \notin ReadAsSentTo(cur)
  /\ got' = IF cur \in DOMAIN stored THEN got \cup {<<cur, at>>} ELSE got
  /\ copied' = copied \ {<<cur, at>>}
  /\ pc' = "recorded"
  /\ UNCHANGED <<data, due, told, inherits, torn, todo, cur, at, first, done,
                 now>>

recordBroadcast ==
  /\ pc = "recorded"
  /\ sent' = sent \cup {<<cur, at>>}
  /\ done' = done \cup {cur}
  /\ \E n \in Handles \cup {NoHandle} : NextAvailable(at, n) /\ at' = n
  /\ pc' = "connection"
  /\ UNCHANGED <<connections, stored, broadcast, targeted, peers_sent,
                 announce_ts, offset, uptime, pin_seen, history, todo, cur,
                 first, now>>

endPacket ==
  /\ pc = "connection" /\ at = NoHandle
  /\ pc' = "broadcast" /\ cur' = Announce
  /\ UNCHANGED <<data, history, todo, at, first, done, now>>

\* remove_if over the list as it is now, interrupts' additions included.
endBroadcast ==
  /\ pc = "broadcast" /\ todo = {}
  /\ broadcast' = broadcast \ done
  /\ pc' = "cleanup" /\ first' = Unset /\ done' = {}
  /\ UNCHANGED <<connections, stored, targeted, sent, peers_sent, announce_ts,
                 offset, uptime, pin_seen, history, todo, cur, at, now>>

-----------------------------------------------------------------------------
(***************************************************************************)
(* cleanupStaleItems, one step per pass.                                   *)
(***************************************************************************)

\* getPacketTimestamp() + ten_minutes_in_ms < now
RawStale(ts) == (ts + StaleAfter) % Wrap < now

\* getPacketTimestampMs() + ten_minutes_in_ms < now
MsStale(ts) == ((ts \div Scale) + StaleAfter) % Wrap < now

connection_stale(h) == ~connections[h].connected /\ Old(h)

\* packet_connection_stale where both pointers can be followed.
packet_connection_stale(e) ==
  \/ e[1] = Announce /\ RawStale(announce_ts)
  \/ e[1] \in DOMAIN stored /\ RawStale(stored[e[1]].ts)
  \/ e[2] \in DOMAIN connections /\ connection_stale(e[2])

\* One of the pointers dangles: the predicate reads whatever is there.
Unreadable(e) == e[2] = Dead \/ e[1] \notin DOMAIN stored \cup {Announce}

\* What packet_peer_stale and packet_stale may leave of a list of packets.
FreshOf(list) ==
  {S \in SUBSET list : \A s \in list \cap DOMAIN stored :
                         s \in S <=> ~MsStale(stored[s].ts)}

\* now is read once, for all the passes.
cleanupStaleItems ==
  /\ pc = "cleanup"
  /\ now' = getTimeMs
  /\ pc' = "clean sent"
  /\ UNCHANGED <<data, history, todo, cur, at, first, done>>

cleanSent ==
  /\ pc = "clean sent"
  /\ \E misread \in SUBSET {e \in sent : Unreadable(e)} :
       sent' = {e \in sent : ~packet_connection_stale(e)} \ misread
  /\ told' = {h \in told : <<Announce, h>> \in sent'}
  /\ inherits' = {h \in inherits : <<Announce, h>> \in sent'}
  /\ got' = {e \in got : ~connection_stale(e[2])}
  /\ copied' = copied \cap got'
  /\ pc' = "clean peers sent"
  /\ UNCHANGED <<connections, stored, broadcast, targeted, peers_sent,
                 announce_ts, offset, uptime, pin_seen, due, torn, todo, cur,
                 at, first, done, now>>

cleanPeersSent ==
  /\ pc = "clean peers sent"
  /\ peers_sent' \in FreshOf(peers_sent)
  /\ pc' = "clean broadcast"
  /\ UNCHANGED <<connections, stored, broadcast, targeted, sent, announce_ts,
                 offset, uptime, pin_seen, history, todo, cur, at, first,
                 done, now>>

cleanBroadcast ==
  /\ pc = "clean broadcast"
  /\ broadcast' \in FreshOf(broadcast)
  /\ pc' = "clean targeted"
  /\ UNCHANGED <<connections, stored, targeted, sent, peers_sent, announce_ts,
                 offset, uptime, pin_seen, history, todo, cur, at, first,
                 done, now>>

cleanTargeted ==
  /\ pc = "clean targeted"
  /\ \E misread \in SUBSET (targeted \cap {Dead}) :
       targeted' = {h \in targeted : ~packet_connection_stale(<<Announce, h>>)}
                   \ misread
  /\ pc' = "clean connections"
  /\ UNCHANGED <<connections, stored, broadcast, sent, peers_sent,
                 announce_ts, offset, uptime, pin_seen, history, todo, cur,
                 at, first, done, now>>

\* Pointers to an erased record dangle from here on.
cleanConnections ==
  /\ pc = "clean connections"
  /\ LET lost == {h \in DOMAIN connections : connection_stale(h)}
         Left(h) == IF h \in lost THEN Dead ELSE h
     IN /\ connections' = Drop(connections, lost)
        /\ sent' = {<<e[1], Left(e[2])>> : e \in sent}
        /\ targeted' = {Left(h) : h \in targeted}
        /\ got' = {e \in got : e[2] \notin lost}
        /\ copied' = {e \in copied : e[2] \notin lost}
        /\ told' = told \ lost /\ inherits' = inherits \ lost
  /\ pc' = "clean messages"
  /\ UNCHANGED <<stored, broadcast, peers_sent, announce_ts, offset, uptime,
                 pin_seen, due, torn, todo, cur, at, first, done, now>>

\* The pass over the map that holds the packets of this kind.
cleanStored(kind) ==
  /\ LET gone == {s \in DOMAIN stored : stored[s].kind = kind
                                     /\ MsStale(stored[s].ts)}
     IN /\ stored' = Drop(stored, gone)
        /\ got' = {e \in got : e[1] \notin gone}
        /\ copied' = {e \in copied : e[1] \notin gone}
  /\ UNCHANGED <<connections, broadcast, targeted, sent, peers_sent,
                 announce_ts, offset, uptime, pin_seen, due, told, inherits,
                 torn, todo, cur, at, first, done>>

cleanMessages ==
  /\ pc = "clean messages" /\ cleanStored("message")
  /\ pc' = "clean packets" /\ now' = now

cleanPackets ==
  /\ pc = "clean packets" /\ cleanStored("announce")
  /\ pc' = "pins" /\ now' = 0

cleanupNotDue ==
  /\ pc = "cleanup"
  /\ pc' = "pins"
  /\ UNCHANGED <<data, history, todo, cur, at, first, done, now>>

sendPackets ==
  \/ \E h \in Handles : sendTargeted(h)
  \/ recordTargeted
  \/ endTargeted
  \/ \E s \in Slots : nextPacket(s)
  \/ passOver
  \/ sendBroadcast
  \/ recordBroadcast
  \/ endPacket
  \/ endBroadcast

MainLoop ==
  \/ handlePinActivity \/ pinsQuiet
  \/ announceToConnections \/ announceNotDue
  \/ sendPackets
  \/ cleanupStaleItems \/ cleanupNotDue
  \/ cleanSent \/ cleanPeersSent \/ cleanBroadcast \/ cleanTargeted
  \/ cleanConnections \/ cleanMessages \/ cleanPackets

Next == Interrupt \/ MainLoop

Spec == Init /\ [][Next]_vars

-----------------------------------------------------------------------------
(***************************************************************************)
(* Properties.                                                             *)
(***************************************************************************)

\* Every variable of the tracker and of the main loop's walk keeps its type;
\* the 64-bit offset stays in its width when possiblyUpdateTimeOffset moves
\* the clock backwards.
TypeOK ==
  /\ DOMAIN connections \subseteq Handles
  /\ \A h \in DOMAIN connections : connections[h] \in Connection
  /\ DOMAIN stored \subseteq Slots
  /\ \A s \in DOMAIN stored : stored[s] \in Packet
  /\ broadcast \subseteq Slots /\ peers_sent \subseteq Slots
  /\ targeted \subseteq Handles \cup {Dead}
  /\ sent \subseteq (Slots \cup {Announce}) \X (Handles \cup {Dead})
  /\ announce_ts \in Nat /\ offset \in 0 .. Wrap - 1
  /\ uptime \in 0 .. MaxUptime /\ pin_seen \in BOOLEAN
  /\ pc \in Place /\ todo \subseteq Slots /\ cur \in Slots \cup {Announce}
  /\ at \in Handles \cup {NoHandle} /\ first \in Handles \cup {NoHandle, Unset}
  /\ done \subseteq Slots \cup {Announce}
  /\ now \in Nat /\ got \subseteq Slots \X Handles /\ copied \subseteq got
  /\ due \cup told \cup inherits \subseteq Handles /\ torn \in BOOLEAN

\* While a packet and a link live, sendPackets hands the packet to the link at
\* most once, and never after the link wrote it to us - however interrupts,
\* lost links and the passes of the clean-up fall between a send, its record
\* and the next send.  One case is left open: what came over a link that we
\* opened is recorded under a stack copy (GATT_EVENT_NOTIFICATION), so it may
\* be handed back to its writer, once.
NoRedundantSend ==
  [][pc = "connection" /\ pc' = "recorded" => <<cur, at>> \notin got \ copied]_vars

\* The announcements queued by announceToConnections all leave in the
\* sendPackets of the same iteration: its filter and packet_needed agree, as
\* long as no clean-up has lost an old link between two of its passes.
TargetedDrained == ~torn /\ pc \notin {"targeted", "told"} => targeted = {}

\* Every link that announceToConnections finds available, with the clock past
\* the build time, and that stays up has been handed an announcement by the
\* end of the sends that follow, and another one after each clean-up that
\* forgets the last.  Left open: a link that came up while its handle's
\* earlier link had an announcement queued or recorded (inherits), which
\* reportDisconnection means to erase and does not; and dangling entries.
AnnouncedInTime ==
  [][pc = "targeted" /\ pc' = "broadcast" =>
       torn \/ due \subseteq told \cup inherits]_vars

\* readme.md: repeaters "join everyone together".  A connection is passed over
\* only if it has the packet.
JoinsEveryone ==
  [][pc = "connection" /\ pc' = pc /\ at' # at => <<cur, at>> \in got]_vars
=============================================================================
