------------------------- MODULE HousekeepingProofs -------------------------
(***************************************************************************)
(* Proofs about Housekeeping, for any packets and any handles.             *)
(***************************************************************************)
EXTENDS Housekeeping, WellFoundedInduction, TLAPS

-----------------------------------------------------------------------------
(***************************************************************************)
(* The map of connections.                                                 *)
(***************************************************************************)

ConnectionsType ==
  /\ DOMAIN connections \subseteq Handles
  /\ connections \in [DOMAIN connections -> [connected : BOOLEAN, old : BOOLEAN]]

LEMMA ConnectionsTypeInit == Init => ConnectionsType
  BY DEF Init, ConnectionsType

LEMMA ConnectionsTypeStep == ConnectionsType /\ [Next]_vars => ConnectionsType'
  <1> SUFFICES ASSUME ConnectionsType, [Next]_vars PROVE ConnectionsType'
    OBVIOUS
  <1> USE DEF ConnectionsType
  <1>1. ASSUME NEW h \in Handles, reportConnection(h) PROVE ConnectionsType'
    <2>1. PICK old \in BOOLEAN : connections' = With(connections, h, [connected |-> TRUE, old |-> old])
      BY <1>1 DEF reportConnection, OldNow
    <2> QED
      BY <2>1 DEF With
  <1>2. ASSUME NEW h \in Handles, reportDisconnection(h) PROVE ConnectionsType'
    BY <1>2 DEF reportDisconnection, Connected
  <1>3. ASSUME NEW p \in Packets, NEW h \in Handles, processWrite(p, h) PROVE ConnectionsType'
    BY <1>3 DEF processWrite
  <1>4. ASSUME NEW p \in Packets, sendPackets(p) PROVE ConnectionsType'
    BY <1>4 DEF sendPackets
  <1>5. ASSUME NEW restart \in BOOLEAN, requestNextRssi(restart) PROVE ConnectionsType'
    BY <1>5 DEF requestNextRssi
  <1>6. CASE cleanupStaleItems
    BY <1>6 DEF cleanupStaleItems
  <1>7. CASE cleanSent
    BY <1>7 DEF cleanSent
  <1>8. CASE cleanPeersSent
    BY <1>8 DEF cleanPeersSent
  <1>9. CASE cleanBroadcast
    BY <1>9 DEF cleanBroadcast
  <1>10. CASE cleanConnections
    BY <1>10 DEF cleanConnections
  <1>11. CASE cleanStored
    BY <1>11 DEF cleanStored
  <1>12. CASE UNCHANGED vars
    BY <1>12 DEF vars
  <1> QED
    BY <1>1, <1>2, <1>3, <1>4, <1>5, <1>6, <1>7, <1>8, <1>9, <1>10, <1>11, <1>12 DEF Next

\* What reportDisconnection leaves of the map: the links, one of them down.
LEMMA LinkDown ==
  ASSUME ConnectionsType, NEW h \in Handles, reportDisconnection(h)
  PROVE  /\ h \in DOMAIN connections
         /\ DOMAIN connections' = DOMAIN connections
         /\ \A x \in DOMAIN connections : x # h => connections'[x] = connections[x]
         /\ ~connections'[h].connected
         /\ connections'[h].old = connections[h].old
  <1>1. h \in DOMAIN connections
    BY DEF reportDisconnection, Connected
  <1>2. connections' = [connections EXCEPT ![h] = [connections[h] EXCEPT !.connected = FALSE]]
    BY DEF reportDisconnection
  <1>3. connections[h] \in [connected : BOOLEAN, old : BOOLEAN]
    BY <1>1 DEF ConnectionsType
  <1> QED
    BY <1>1, <1>2, <1>3 DEF ConnectionsType

-----------------------------------------------------------------------------
(***************************************************************************)
(* The clean-up.  RefsLive speaks of the moments when no clean-up runs, so *)
(* it is not inductive: each pass must hand on to the next what it has     *)
(* cleaned, and the handlers between them must keep it so.                 *)
(***************************************************************************)

\* Packets.  Unless one came late, a queue or the list of peers names nothing
\* that is freed, and once a pass has been over it, nothing that will be.  The
\* sent list's packets are stored, or known to have outlived their entry; those
\* that the last pass will free are known so once the list's pass is over.
PacketsInv ==
  /\ \A p \in DOMAIN stored : stored[p] \in Ages
  /\ \A e \in sent : e[1] \in DOMAIN stored \cup outlived
  /\ broadcast \subseteq DOMAIN stored \cup outlived
  /\ pass # "none" => \A p \in DOMAIN stored : stored[p] = "ms" => p \in outlived
  /\ pass \notin {"none", "sent"} =>
       \A e \in sent : e[1] \in DOMAIN stored /\ MsStale(e[1]) => e[1] \in outlived
  /\ pass \in {"connections", "stored"} =>
       \A p \in broadcast \cap DOMAIN stored : MsStale(p) => p \in outlived
  /\ ~late =>
       /\ broadcast \cup peers_sent \subseteq DOMAIN stored
       /\ pass \in {"broadcast", "connections", "stored"} =>
            \A p \in peers_sent : ~MsStale(p)
       /\ pass \in {"connections", "stored"} => \A p \in broadcast : ~MsStale(p)

\* Connections.  Unless an old link was lost between the two passes, the sent
\* list names records, and after its pass none that will be erased.
LinksInv ==
  ~torn =>
    /\ \A e \in sent : e[2] \in DOMAIN connections \cup {Frame}
    /\ pass \in {"peers", "broadcast", "connections"} =>
         \A e \in sent : e[2] \in DOMAIN connections => ~connection_stale(e[2])

LEMMA PassesInit == Init => PacketsInv /\ LinksInv
  BY DEF Init, PacketsInv, LinksInv

LEMMA LinksHandler ==
    ConnectionsType /\ LinksInv
    /\ (\/ \E h \in Handles : reportConnection(h) \/ reportDisconnection(h)
        \/ \E p \in Packets, h \in Handles : processWrite(p, h))
      => LinksInv'
  <1> SUFFICES ASSUME ConnectionsType, LinksInv,
                      \/ \E h \in Handles : reportConnection(h) \/ reportDisconnection(h)
                      \/ \E p \in Packets, h \in Handles : processWrite(p, h)
               PROVE  LinksInv'
    OBVIOUS
  <1> USE DEF LinksInv, connection_stale, Connected, lists, windows
  <1>1. ASSUME NEW h \in Handles, reportConnection(h) PROVE LinksInv'
    BY <1>1 DEF reportConnection, With
  <1>2. ASSUME NEW h \in Handles, reportDisconnection(h) PROVE LinksInv'
    BY <1>2, LinkDown DEF reportDisconnection
  <1>3. ASSUME NEW p \in Packets, NEW h \in Handles, processWrite(p, h) PROVE LinksInv'
    <2>1. \A e \in sent' : e \in sent \/ e[2] \in {h, Frame}
      BY <1>3 DEF processWrite
    <2>2. UNCHANGED <<connections, pass, torn>> /\ h \in DOMAIN connections /\ connections[h].connected
      BY <1>3 DEF processWrite
    <2> QED
      BY <2>1, <2>2, FrameAssumption DEF ConnectionsType
  <1> QED
    BY <1>1, <1>2, <1>3

LEMMA LinksLoop ==
    ConnectionsType /\ LinksInv
    /\ (\/ \E p \in Packets : sendPackets(p)
        \/ \E restart \in BOOLEAN : requestNextRssi(restart)
        \/ cleanupStaleItems \/ cleanSent \/ cleanPeersSent \/ cleanBroadcast
        \/ cleanConnections \/ cleanStored)
      => LinksInv'
  <1> SUFFICES ASSUME ConnectionsType, LinksInv,
                      \/ \E p \in Packets : sendPackets(p)
                      \/ \E restart \in BOOLEAN : requestNextRssi(restart)
                      \/ cleanupStaleItems \/ cleanSent \/ cleanPeersSent \/ cleanBroadcast
                      \/ cleanConnections \/ cleanStored
               PROVE  LinksInv'
    OBVIOUS
  <1> USE DEF LinksInv, connection_stale, lists, windows
  <1>1. ASSUME NEW p \in Packets, sendPackets(p) PROVE LinksInv'
    BY <1>1 DEF sendPackets, Connected
  <1>2. ASSUME NEW restart \in BOOLEAN, requestNextRssi(restart) PROVE LinksInv'
    BY <1>2 DEF requestNextRssi
  <1>3. CASE cleanupStaleItems
    BY <1>3 DEF cleanupStaleItems
  <1>4. CASE cleanSent
    BY <1>4 DEF cleanSent, packet_connection_stale
  <1>5. CASE cleanPeersSent
    BY <1>5 DEF cleanPeersSent
  <1>6. CASE cleanBroadcast
    BY <1>6 DEF cleanBroadcast
  <1>7. CASE cleanConnections
    BY <1>7 DEF cleanConnections, Erasable
  <1>8. CASE cleanStored
    BY <1>8 DEF cleanStored
  <1> QED
    BY <1>1, <1>2, <1>3, <1>4, <1>5, <1>6, <1>7, <1>8

LEMMA PacketsHandler ==
    PacketsInv
    /\ (\/ \E h \in Handles : reportConnection(h) \/ reportDisconnection(h)
        \/ \E p \in Packets, h \in Handles : processWrite(p, h))
      => PacketsInv'
  <1> SUFFICES ASSUME PacketsInv,
                      \/ \E h \in Handles : reportConnection(h) \/ reportDisconnection(h)
                      \/ \E p \in Packets, h \in Handles : processWrite(p, h)
               PROVE  PacketsInv'
    OBVIOUS
  <1> USE DEF PacketsInv, MsStale, lists, windows
  <1>1. ASSUME NEW h \in Handles, reportConnection(h) PROVE PacketsInv'
    BY <1>1 DEF reportConnection
  <1>2. ASSUME NEW h \in Handles, reportDisconnection(h) PROVE PacketsInv'
    BY <1>2 DEF reportDisconnection
  <1>3. ASSUME NEW p \in Packets, NEW h \in Handles, processWrite(p, h) PROVE PacketsInv'
    <2>1. PICK age \in Ages :
            /\ stored' = With(stored, p, age)
            /\ late' = (late \/ (age # "fresh" /\ pass \in {"broadcast", "connections", "stored"}))
            /\ outlived' = IF Outliving(age) THEN outlived \cup {p} ELSE outlived \ {p}
            /\ age \in AgesNow(pass # "none")
      BY <1>3 DEF processWrite, AgesNow, Ages
    <2>2. p \notin DOMAIN stored /\ pass' = pass
      BY <1>3 DEF processWrite
    <2>3. /\ DOMAIN stored' = DOMAIN stored \cup {p}
          /\ \A x \in DOMAIN stored : stored'[x] = stored[x]
          /\ stored'[p] = age
      BY <2>2, <2>1 DEF With
    <2>4. \A e \in sent' : e \in sent \/ e[1] = p
      BY <1>3 DEF processWrite
    <2>5. peers_sent' = peers_sent \cup {p} /\ broadcast' \subseteq broadcast \cup {p}
      BY <1>3 DEF processWrite
    <2>6. /\ \A x \in outlived : x = p \/ x \in outlived'
          /\ pass # "none" /\ age = "ms" => p \in outlived'
          /\ pass \notin {"none", "sent"} /\ age # "fresh" => p \in outlived'
      BY <2>1 DEF Outliving, Ages
    <2>7. (\A e \in sent : e[1] \in DOMAIN stored \cup outlived)'
      BY <2>3, <2>4, <2>6
    <2>8. (broadcast \subseteq DOMAIN stored \cup outlived)'
      BY <2>3, <2>5, <2>6
    <2>9. (pass # "none" => \A x \in DOMAIN stored : stored[x] = "ms" => x \in outlived)'
      BY <2>2, <2>3, <2>6
    <2>10. (pass \notin {"none", "sent"} =>
              \A e \in sent : e[1] \in DOMAIN stored /\ MsStale(e[1]) => e[1] \in outlived)'
      BY <2>2, <2>3, <2>4, <2>6
    <2>11. (pass \in {"connections", "stored"} =>
              \A x \in broadcast \cap DOMAIN stored : MsStale(x) => x \in outlived)'
      BY <2>2, <2>3, <2>5, <2>6
    <2>12. ASSUME ~late'
           PROVE  /\ (broadcast \cup peers_sent \subseteq DOMAIN stored)'
                  /\ (pass \in {"broadcast", "connections", "stored"} => \A x \in peers_sent : ~MsStale(x))'
                  /\ (pass \in {"connections", "stored"} => \A x \in broadcast : ~MsStale(x))'
      BY <2>1, <2>2, <2>3, <2>5, <2>12
    <2> QED
      BY <2>1, <2>3, <2>7, <2>8, <2>9, <2>10, <2>11, <2>12
  <1> QED
    BY <1>1, <1>2, <1>3

LEMMA PacketsLoop ==
    PacketsInv
    /\ (\/ \E p \in Packets : sendPackets(p)
        \/ \E restart \in BOOLEAN : requestNextRssi(restart)
        \/ cleanupStaleItems \/ cleanSent \/ cleanPeersSent \/ cleanBroadcast
        \/ cleanConnections \/ cleanStored)
      => PacketsInv'
  <1> SUFFICES ASSUME PacketsInv,
                      \/ \E p \in Packets : sendPackets(p)
                      \/ \E restart \in BOOLEAN : requestNextRssi(restart)
                      \/ cleanupStaleItems \/ cleanSent \/ cleanPeersSent \/ cleanBroadcast
                      \/ cleanConnections \/ cleanStored
               PROVE  PacketsInv'
    OBVIOUS
  <1> USE DEF PacketsInv, MsStale, lists, windows
  <1>1. ASSUME NEW p \in Packets, sendPackets(p) PROVE PacketsInv'
    <2>1. \A e \in sent' : e \in sent \/ e[1] = p
      BY <1>1 DEF sendPackets
    <2>2. broadcast' = broadcast \ {p} /\ UNCHANGED <<stored, peers_sent, pass, windows>>
          /\ p \in broadcast /\ pass = "none"
      BY <1>1 DEF sendPackets
    <2> QED
      BY <2>1, <2>2
  <1>2. ASSUME NEW restart \in BOOLEAN, requestNextRssi(restart) PROVE PacketsInv'
    BY <1>2 DEF requestNextRssi
  <1>3. CASE cleanupStaleItems
    <2>1. DOMAIN stored' = DOMAIN stored
          /\ (\A p \in DOMAIN stored : stored[p] \in Ages)'
          /\ outlived' = (outlived \ DOMAIN stored) \cup {p \in DOMAIN stored : stored'[p] = "ms"}
          /\ pass' = "sent" /\ UNCHANGED <<broadcast, peers_sent, sent, late>>
      BY <1>3 DEF cleanupStaleItems
    <2> QED
      BY <2>1
  <1>4. CASE cleanSent
    <2>1. \A e \in sent' : e \in sent /\ ~(e[1] \in DOMAIN stored /\ stored[e[1]] = "raw")
      BY <1>4 DEF cleanSent, packet_connection_stale
    <2>2. pass = "sent" /\ pass' = "peers" /\ UNCHANGED <<stored, broadcast, peers_sent, windows>>
      BY <1>4 DEF cleanSent
    <2> QED
      BY <2>1, <2>2 DEF Ages
  <1>5. CASE cleanPeersSent
    <2>1. peers_sent' \subseteq peers_sent
          /\ \A p \in peers_sent' \cap DOMAIN stored : ~MsStale(p)
      BY <1>5 DEF cleanPeersSent, FreshOf
    <2> QED
      BY <2>1, <1>5 DEF cleanPeersSent
  <1>6. CASE cleanBroadcast
    <2>1. broadcast' \subseteq broadcast
          /\ \A p \in broadcast' \cap DOMAIN stored : ~MsStale(p)
      BY <1>6 DEF cleanBroadcast, FreshOf
    <2> QED
      BY <2>1, <1>6 DEF cleanBroadcast
  <1>7. CASE cleanConnections
    BY <1>7 DEF cleanConnections
  <1>8. CASE cleanStored
    <2>1. /\ DOMAIN stored' = {p \in DOMAIN stored : ~MsStale(p)}
          /\ \A p \in DOMAIN stored' : stored'[p] = stored[p]
          /\ pass = "stored" /\ pass' = "none"
          /\ UNCHANGED <<broadcast, peers_sent, sent, windows>>
      BY <1>8 DEF cleanStored, Without
    <2> QED
      BY <2>1
  <1> QED
    BY <1>1, <1>2, <1>3, <1>4, <1>5, <1>6, <1>7, <1>8

\* What the order of the passes of cleanupStaleItems and the handlers between
\* them can leave dangling, for any number of packets and links, is what
\* RefsLive names and nothing else: freed packets in a queue or among the
\* peers' only by a packet that came late and stale; in the sent list also by
\* the two units of a timestamp; erased links only if one was lost between the
\* two passes.
THEOREM RefsStayLive == Spec => []RefsLive
  <1>1. Init => ConnectionsType /\ PacketsInv /\ LinksInv
    BY ConnectionsTypeInit, PassesInit
  <1>2. ConnectionsType /\ PacketsInv /\ LinksInv /\ [Next]_vars
          => ConnectionsType' /\ PacketsInv' /\ LinksInv'
    <2>1. PacketsInv /\ LinksInv /\ UNCHANGED vars => PacketsInv' /\ LinksInv'
      BY DEF PacketsInv, LinksInv, connection_stale, MsStale, vars
    <2> QED
      BY <2>1, ConnectionsTypeStep, PacketsHandler, PacketsLoop, LinksHandler, LinksLoop DEF Next
  <1>3. PacketsInv /\ LinksInv => RefsLive
    BY DEF PacketsInv, LinksInv, RefsLive
  <1> QED
    BY <1>1, <1>2, <1>3, PTL DEF Spec

-----------------------------------------------------------------------------
(***************************************************************************)
(* The walk.                                                               *)
(***************************************************************************)

LEMMA SmallestHandle ==
  ASSUME NEW S \in SUBSET Nat, S # {}
  PROVE  \E m \in S : \A n \in S : m <= n
  <1>1. PICK m \in S : \A k \in S : <<k, m>> \notin OpToRel(<, Nat)
    BY WFMin, NatLessThanWellFounded, Zenon
  <1>2. m \in Nat /\ \A k \in S : ~(k < m)
    BY <1>1, Zenon DEF OpToRel
  <1> QED
    BY <1>2

\* From is what the walk needs of std::map: the next node, and end() only
\* when there is none.
LEMMA FromIsNext ==
  ASSUME DOMAIN connections \subseteq Handles, NEW h \in Nat
  PROVE  \/ From(h) = End /\ \A x \in DOMAIN connections : ~(x >= h)
         \/ /\ From(h) \in DOMAIN connections
            /\ From(h) >= h
            /\ \A x \in DOMAIN connections : x >= h => From(h) <= x
  <1> DEFINE rest == {x \in DOMAIN connections : x >= h}
  <1>1. CASE rest = {}
    BY <1>1 DEF From
  <1>2. CASE rest # {}
    <2>1. \E m \in rest : \A n \in rest : m <= n
      <3>1. rest \in SUBSET Nat
        BY HandlesAssumption
      <3> QED
        BY <3>1, <1>2, SmallestHandle
    <2>2. From(h) \in rest /\ \A n \in rest : From(h) <= n
      BY <2>1, <1>2 DEF From
    <2> QED
      BY <2>2
  <1> QED
    BY <1>1, <1>2

\* What the walk owes an answer to is at its iterator or ahead of it.
WalkInv ==
  /\ iterator \in DOMAIN connections \cup {End, Dangling}
  /\ rssi_update_in_progress = (iterator # End)
  /\ owed \subseteq Connected
  /\ ~slipped /\ iterator # Dangling =>
       \A h \in owed : iterator # End /\ h >= iterator

LEMMA WalkInit == Init => WalkInv
  BY DanglingAssumption DEF Init, WalkInv

LEMMA WalkRequest ==
  ASSUME ConnectionsType, WalkInv, NEW restart \in BOOLEAN, requestNextRssi(restart)
  PROVE  WalkInv'
  <1> USE DEF requestNextRssi, ConnectionsType
  <1>1. /\ connections' = connections
        /\ Connected' = Connected
        /\ owed' \subseteq IF restart THEN Connected ELSE owed
    BY DEF Connected
  <1>2. Connected \subseteq DOMAIN connections /\ DOMAIN connections \subseteq Nat
        /\ End \notin DOMAIN connections /\ Dangling \notin DOMAIN connections \cup {End}
    BY HandlesAssumption, DanglingAssumption DEF Connected
  <1>3. owed' \subseteq Connected'
    BY <1>1 DEF WalkInv
  <1> DEFINE Start == IF restart \/ iterator = End THEN From(0) ELSE iterator
  <1>4. CASE restart \/ iterator # Dangling
    <2>1. /\ owed' = (IF restart THEN Connected ELSE owed) \ {Start}
          /\ iterator' = From(Start + 1)
          /\ rssi_update_in_progress' = (iterator' # End)
      BY <1>4, <1>2 DEF Moved
    <2>2. From(0) \in DOMAIN connections /\ \A x \in DOMAIN connections : From(0) <= x
      BY FromIsNext, <1>2
    <2>3. Start \in DOMAIN connections
      BY <2>2, <1>4 DEF WalkInv
    <2>4. \/ From(Start + 1) = End /\ \A x \in DOMAIN connections : ~(x >= Start + 1)
          \/ /\ From(Start + 1) \in DOMAIN connections
             /\ \A x \in DOMAIN connections : x >= Start + 1 => From(Start + 1) <= x
      BY <2>3, <1>2, FromIsNext
    <2>5. ASSUME NEW h \in owed', ~slipped'
          PROVE  iterator' # End /\ h >= iterator'
      <3>1. h \in DOMAIN connections
        BY <1>3, <1>1, <1>2
      <3>2. h >= Start
        <4>1. CASE restart \/ iterator = End
          BY <4>1, <2>2, <3>1
        <4>2. CASE ~restart /\ iterator # End
          BY <4>2, <1>4, <2>1, <2>5 DEF WalkInv
        <4> QED
          BY <4>1, <4>2
      <3>3. h # Start
        BY <2>1, <2>5
      <3> QED
        BY <3>2, <3>3, <3>1, <2>3, <2>4, <2>1, <1>2
    <2> QED
      BY <2>1, <2>4, <2>5, <1>1, <1>3, <1>2 DEF WalkInv
  <1>5. CASE ~restart /\ iterator = Dangling
    <2>1. iterator' \in DOMAIN connections \cup {End} /\ rssi_update_in_progress' = (iterator' # End)
      BY <1>5, <1>2
    <2>2. slipped'
      BY <1>5
    <2> QED
      BY <2>1, <2>2, <1>1, <1>3 DEF WalkInv
  <1> QED
    BY <1>4, <1>5

LEMMA WalkOther ==
  ASSUME ConnectionsType, WalkInv, [Next]_vars, \A restart \in BOOLEAN : ~requestNextRssi(restart)
  PROVE  WalkInv'
  <1> USE DEF WalkInv, Connected, walk, ConnectionsType
  <1>1. ASSUME NEW h \in Handles, reportConnection(h) PROVE WalkInv'
    BY <1>1 DEF reportConnection, With
  <1>2. ASSUME NEW h \in Handles, reportDisconnection(h) PROVE WalkInv'
    <2>1. Connected' = Connected \ {h}
      BY <1>2, LinkDown
    <2> QED
      BY <1>2, <2>1, LinkDown DEF reportDisconnection
  <1>3. ASSUME NEW p \in Packets, NEW h \in Handles, processWrite(p, h) PROVE WalkInv'
    BY <1>3 DEF processWrite
  <1>4. ASSUME NEW p \in Packets, sendPackets(p) PROVE WalkInv'
    BY <1>4 DEF sendPackets
  <1>5. CASE cleanupStaleItems
    BY <1>5 DEF cleanupStaleItems
  <1>6. CASE cleanSent \/ cleanPeersSent \/ cleanBroadcast
    BY <1>6 DEF cleanSent, cleanPeersSent, cleanBroadcast
  <1>7. CASE cleanConnections
    <2> DEFINE gone == {h \in DOMAIN connections : Erasable(h)}
    <2>1. /\ connections' = [h \in DOMAIN connections \ gone |-> [connections[h] EXCEPT !.old = FALSE]]
          /\ iterator' = IF iterator \in gone THEN Dangling ELSE iterator
          /\ UNCHANGED <<rssi_update_in_progress, owed, slipped>>
      BY <1>7 DEF cleanConnections
    <2>2. DOMAIN connections' = DOMAIN connections \ gone
          /\ \A x \in DOMAIN connections' : connections'[x].connected = connections[x].connected
      BY <2>1
    <2>3. Connected' = Connected
      BY <2>2 DEF Erasable, connection_stale
    <2>4. iterator' # End <=> iterator # End
      BY <2>1, HandlesAssumption, DanglingAssumption
    <2> QED
      BY <2>1, <2>2, <2>3, <2>4
  <1>8. CASE cleanStored
    BY <1>8 DEF cleanStored
  <1>9. CASE UNCHANGED vars
    BY <1>9 DEF vars
  <1> QED
    BY <1>1, <1>2, <1>3, <1>4, <1>5, <1>6, <1>7, <1>8, <1>9 DEF Next

\* requestNextRssi, one link per call with an iterator that outlives the call,
\* asks every link that stays up, for any handles, unless its node is erased.
THEOREM WalkIsComplete == Spec => []WalkAsksAll
  <1>1. Init => ConnectionsType /\ WalkInv
    BY ConnectionsTypeInit, WalkInit
  <1>2. ConnectionsType /\ WalkInv /\ [Next]_vars => ConnectionsType' /\ WalkInv'
    BY ConnectionsTypeStep, WalkRequest, WalkOther
  <1>3. WalkInv => WalkAsksAll
    BY DanglingAssumption DEF WalkInv, WalkAsksAll
  <1> QED
    BY <1>1, <1>2, <1>3, PTL DEF Spec
=============================================================================
