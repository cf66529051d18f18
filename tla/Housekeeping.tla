---------------------------- MODULE Housekeeping ----------------------------
(***************************************************************************)
(* cleanupStaleItems pass by pass, with the handlers of BTstack between    *)
(* its passes, and the RSSI walk, whose iterator lives from one iteration  *)
(* of the main loop to the next.  BleConnectionTracker has the same passes *)
(* with the clock itself; here only what outlives what is left of it.      *)
(*                                                                         *)
(* Times are reduced to what the passes ask.  `now` is read once, so what  *)
(* is stale is settled for the whole of a clean-up, and of what comes      *)
(* while it runs, as it comes.  The clock may be moved by announcements,   *)
(* so from one clean-up to the next it is open; between them nothing asks. *)
(* The targeted list is empty here (TargetedDrained) and available         *)
(* neighbours are not referred to: their passes are left out.              *)
(***************************************************************************)
EXTENDS Integers, FiniteSets

CONSTANTS
  Packets,   \* addresses of nodes of messages and packets
  Handles,   \* in the order of the map
  Frame,     \* a BleConnection* into a stack frame that has returned
  End,       \* connections.end()
  Dangling   \* an iterator to an erased node

ASSUME HandlesAssumption == Handles \subseteq Nat /\ End \notin Handles
ASSUME DanglingAssumption == Dangling \notin Handles \cup {End}
ASSUME FrameAssumption == Frame \notin Handles

\* "fresh", stale by getPacketTimestampMs alone, or by getPacketTimestamp also;
\* of two equal bounds the divided timestamp is the first to pass.
Ages == {"fresh", "ms", "raw"}

\* What a clean-up that runs, or none, may find stale of what comes now.
AgesNow(running) == IF running THEN Ages ELSE {"fresh"}
OldNow(running) == IF running THEN BOOLEAN ELSE {FALSE}

VARIABLES
  stored,       \* address -> age
  broadcast,    \* broadcast_packets_to_send_list
  peers_sent,   \* packets_peers_sent_list
  sent,         \* packets_connections_sent_list
  connections,  \* handle -> [connected, old]
  pass,         \* what cleanupStaleItems does next, or "none"
  iterator,     \* of requestNextRssi
  rssi_update_in_progress,
  owed,         \* history: links up since the walk began, not asked yet
  slipped,      \* history: the walk lost its node
  late,         \* history: a stale packet was written between two passes
  outlived,     \* history: packets freed by a clean-up that kept their entries
  torn          \* history: an old link was lost between two passes

lists == <<stored, broadcast, peers_sent, sent>>
walk == <<iterator, rssi_update_in_progress, owed, slipped>>
windows == <<late, outlived, torn>>
vars == <<stored, broadcast, peers_sent, sent, connections, pass, iterator,
          rssi_update_in_progress, owed, slipped, late, outlived, torn>>

Init ==
  /\ stored = << >> /\ broadcast = {} /\ peers_sent = {} /\ sent = {}
  /\ connections = << >>
  /\ pass = "none"
  /\ iterator = End /\ rssi_update_in_progress = FALSE
  /\ owed = {} /\ slipped = FALSE
  /\ late = FALSE /\ outlived = {} /\ torn = FALSE

\* f with x mapped to y, and f without the elements of S.
With(f, x, y) == [z \in DOMAIN f \cup {x} |-> IF z = x THEN y ELSE f[z]]
Without(f, S) == [z \in DOMAIN f \ S |-> f[z]]

Connected == {h \in DOMAIN connections : connections[h].connected}

-----------------------------------------------------------------------------
(***************************************************************************)
(* Handlers, at any time.                                                  *)
(***************************************************************************)

reportConnection(h) ==
  /\ h \notin Connected
  /\ \E old \in OldNow(pass # "none") :
       connections' = With(connections, h, [connected |-> TRUE, old |-> old])
  /\ UNCHANGED <<lists, pass, walk, windows>>

\* A link that is lost between the pass over the sent list and the one over
\* connections, old enough to be erased, leaves its entries behind.
reportDisconnection(h) ==
  /\ h \in Connected
  /\ connections' = [connections EXCEPT ![h].connected = FALSE]
  /\ owed' = owed \ {h}
  /\ torn' = (torn \/ (connections[h].old /\ pass \in {"peers", "broadcast", "connections"}))
  /\ UNCHANGED <<lists, pass, iterator, rssi_update_in_progress, slipped, late, outlived>>

\* Packets whose entry in the sent list survives the pass that frees them: the
\* sent list is cleaned by the undivided timestamp, or its pass is over.
Outliving(age) == pass # "none" /\ (age = "ms" \/ (age = "raw" /\ pass # "sent"))

\* processWrite of a packet that is new.  The writer is recorded as its node of
\* connections on a link we accepted, as a stack copy of it on one we opened;
\* which of them h is, nothing else here asks.
\* A packet that is stale as it comes, in a list whose pass is over, is freed
\* by the last pass.
processWrite(p, h) ==
  /\ p \notin DOMAIN stored /\ h \in Connected
  /\ \E age \in AgesNow(pass # "none") :
       /\ stored' = With(stored, p, age)
       /\ late' = (late \/ (age # "fresh" /\ pass \in {"broadcast", "connections", "stored"}))
       /\ outlived' = IF Outliving(age) THEN outlived \cup {p} ELSE outlived \ {p}
  /\ \E writer \in {h, Frame} : sent' = sent \cup {<<p, writer>>}
  /\ peers_sent' = peers_sent \cup {p}
  /\ broadcast' \in {broadcast, broadcast \cup {p}}
  /\ UNCHANGED <<connections, pass, walk, torn>>

-----------------------------------------------------------------------------
(***************************************************************************)
(* The main loop.                                                          *)
(***************************************************************************)

\* sendPackets for p, to some of the links that have no entry for it
sendPackets(p) ==
  /\ pass = "none" /\ p \in broadcast
  /\ \E S \in SUBSET {h \in Connected : <<p, h>> \notin sent} \ {{}} :
       sent' = sent \cup ({p} \X S)
  /\ broadcast' = broadcast \ {p}
  /\ UNCHANGED <<stored, peers_sent, connections, pass, walk, windows>>

\* The first connection at h or above.
From(h) ==
  LET rest == {x \in DOMAIN connections : x >= h}
  IN IF rest = {} THEN End ELSE CHOOSE x \in rest : \A y \in rest : x <= y

\* Slip: the iterator moves on before it is read.
Moved_First(i) == IF From(i + 1) = End THEN <<i, End>> ELSE <<From(i + 1), From(From(i + 1) + 1)>>

\* Whom a walk at i asks, and where it is then.
Moved(i) == <<i, From(i + 1)>>

\* requestNextRssi.  A node that was erased under the iterator reads as any
\* handle and leads anywhere.  (With no connection at all: MainLoop.)
requestNextRssi(restart) ==
  /\ pass = "none" /\ DOMAIN connections # {}
  /\ restart \/ rssi_update_in_progress
  /\ \E m \in IF restart \/ iterator = End THEN {Moved(From(0))}
              ELSE IF iterator = Dangling THEN Handles \X (DOMAIN connections \cup {End})
              ELSE {Moved(iterator)} :
       /\ owed' = (IF restart THEN Connected ELSE owed) \ {m[1]}
       /\ iterator' = m[2]
       /\ rssi_update_in_progress' = (m[2] # End)
  /\ slipped' = (~restart /\ (slipped \/ iterator = Dangling))
  /\ UNCHANGED <<lists, connections, pass, windows>>

\* cleanupStaleItems reads the clock: anything may be stale now.
cleanupStaleItems ==
  /\ pass = "none"
  /\ stored' \in [DOMAIN stored -> Ages]
  /\ outlived' = (outlived \ DOMAIN stored) \cup {p \in DOMAIN stored : stored'[p] = "ms"}
  /\ \E old \in [DOMAIN connections -> BOOLEAN] :
       connections' = [h \in DOMAIN connections |-> [connections[h] EXCEPT !.old = old[h]]]
  /\ pass' = "sent"
  /\ UNCHANGED <<broadcast, peers_sent, sent, walk, late, torn>>

MsStale(p) == stored[p] # "fresh"
connection_stale(h) == ~connections[h].connected /\ connections[h].old

\* What a pass may leave of a list of packets: one that was freed before reads
\* as anything.
FreshOf(list) ==
  {S \in SUBSET list : \A p \in list \cap DOMAIN stored : p \in S <=> ~MsStale(p)}

packet_connection_stale(e) ==
  \/ e[1] \in DOMAIN stored /\ stored[e[1]] = "raw"
  \/ e[2] \in DOMAIN connections /\ connection_stale(e[2])

cleanSent ==
  /\ pass = "sent"
  /\ \E misread \in SUBSET {e \in sent : e[1] \notin DOMAIN stored \/ e[2] \notin DOMAIN connections} :
       sent' = {e \in sent : ~packet_connection_stale(e)} \ misread
  /\ pass' = "peers"
  /\ UNCHANGED <<stored, broadcast, peers_sent, connections, walk, windows>>

cleanPeersSent ==
  /\ pass = "peers"
  /\ peers_sent' \in FreshOf(peers_sent)
  /\ pass' = "broadcast"
  /\ UNCHANGED <<stored, broadcast, sent, connections, walk, windows>>

cleanBroadcast ==
  /\ pass = "broadcast"
  /\ broadcast' \in FreshOf(broadcast)
  /\ pass' = "connections"
  /\ UNCHANGED <<stored, peers_sent, sent, connections, walk, windows>>

\* Slip: a link that is still up is erased when it is old.
Erasable_Connected(h) == connections[h].old

\* What the pass over connections erases.
Erasable(h) == connection_stale(h)

\* No later pass asks what is old; the next clean-up reads the clock again.
cleanConnections ==
  /\ pass = "connections"
  /\ LET gone == {h \in DOMAIN connections : Erasable(h)}
     IN /\ connections' = [h \in DOMAIN connections \ gone |-> [connections[h] EXCEPT !.old = FALSE]]
        /\ iterator' = IF iterator \in gone THEN Dangling ELSE iterator
  /\ pass' = "stored"
  /\ UNCHANGED <<lists, rssi_update_in_progress, owed, slipped, windows>>

cleanStored ==
  /\ pass = "stored"
  /\ stored' = Without(stored, {p \in DOMAIN stored : MsStale(p)})
  /\ pass' = "none"
  /\ UNCHANGED <<broadcast, peers_sent, sent, connections, walk, windows>>

Next ==
  \/ \E h \in Handles : reportConnection(h) \/ reportDisconnection(h)
  \/ \E p \in Packets, h \in Handles : processWrite(p, h)
  \/ \E p \in Packets : sendPackets(p)
  \/ \E restart \in BOOLEAN : requestNextRssi(restart)
  \/ cleanupStaleItems \/ cleanSent \/ cleanPeersSent \/ cleanBroadcast
  \/ cleanConnections \/ cleanStored

Spec == Init /\ [][Next]_vars

-----------------------------------------------------------------------------
(***************************************************************************)
(* Properties.                                                             *)
(***************************************************************************)

\* When cleanupStaleItems returns, what its lists name has not been freed, but
\* for these cases and no other.  A queue or packets_peers_sent_list names a
\* freed packet only if one was written, stale as it came, once the pass over
\* packets_peers_sent_list was over.  The sent list names it also if the
\* packet was stale by getPacketTimestampMs and not by getPacketTimestamp.
\* The sent list names no erased record of a connection unless an old link
\* was lost between its pass and that over connections; what it has from
\* links that we opened never was a record.
RefsLive ==
  pass = "none" =>
    /\ ~late => broadcast \cup peers_sent \subseteq DOMAIN stored
    /\ {e[1] : e \in sent} \subseteq DOMAIN stored \cup outlived
    /\ ~torn => {e[2] : e \in sent} \subseteq DOMAIN connections \cup {Frame}

\* A finished RSSI walk has asked every link that was up all the time, with
\* links coming, going and being erased between its steps, unless a clean-up
\* erased the very node that the static iterator was at.
WalkAsksAll == ~rssi_update_in_progress /\ ~slipped => owed = {}
=============================================================================
