--------------------- MODULE BleConnectionTrackerProofs ---------------------
(***************************************************************************)
(* Proofs about BleConnectionTracker, for every set of handles, heap and   *)
(* set of packets.                                                         *)
(***************************************************************************)
EXTENDS BleConnectionTracker, TLAPS

-----------------------------------------------------------------------------
(***************************************************************************)
(* Arithmetic of the clock.                                                *)
(***************************************************************************)

\* A remainder lies below the modulus.
LEMMA ModRange == ASSUME NEW x \in Int, NEW n \in Nat \ {0}
                  PROVE  x % n \in 0 .. n - 1
  OBVIOUS

\* Numbers below the modulus are their own remainder.
LEMMA ModSmall == ASSUME NEW n \in Nat \ {0}, NEW x \in 0 .. n - 1
                  PROVE  x % n = x
  OBVIOUS

\* One modulus too large, or too small.
LEMMA ModOnce == ASSUME NEW n \in Nat \ {0}, NEW x \in n .. (n + n - 1)
                 PROVE  x % n = x - n
  OBVIOUS

LEMMA ModNegative == ASSUME NEW n \in Nat \ {0}, NEW x \in -n .. -1
                     PROVE  x % n = x + n
  OBVIOUS

\* getPacketTimestampMs() never exceeds getPacketTimestamp().
LEMMA DivBelow == ASSUME NEW x \in Nat, NEW n \in Nat \ {0}
                  PROVE  x \div n \in Nat /\ x \div n <= x
  OBVIOUS

-----------------------------------------------------------------------------
(***************************************************************************)
(* Types.  Where the walk of sendPackets is decides what cur and at are.   *)
(***************************************************************************)

Walking == {"broadcast", "connection", "recorded"}

WalkOK ==
  /\ pc = "told" => at \in Handles
  /\ pc \in {"connection", "recorded"} => cur \in Slots
  /\ pc = "recorded" => at \in Handles
  /\ pc \notin Walking => todo = {} /\ first = Unset

Inv1 == TypeOK /\ WalkOK

\* The time of day is a natural number below the width of the clock.
LEMMA TimeType == ASSUME TypeOK PROVE getTimeMs \in 0 .. Wrap - 1
  <1>1. offset + uptime \in Int
    BY WidthsAssumption DEF TypeOK
  <1> QED
    BY <1>1, ModRange, WidthsAssumption DEF getTimeMs

LEMMA OffsetType == ASSUME TypeOK, NEW t \in Nat
                    PROVE  OffsetAfter(t) \in 0 .. Wrap - 1
  <1>1. offset + (t - getTimeMs) \in Int
    BY TimeType, WidthsAssumption DEF TypeOK
  <1>2. (offset + (t - getTimeMs)) % Wrap \in 0 .. Wrap - 1
    BY <1>1, ModRange, WidthsAssumption
  <1> QED
    BY <1>2 DEF OffsetAfter, TypeOK

LEMMA Inv1Init == Init => Inv1
  <1> SUFFICES ASSUME Init PROVE Inv1
    OBVIOUS
  <1>1. WalkOK
    BY DEF Init, WalkOK, Walking
  <1>2. 0 \in 0 .. Wrap - 1 /\ 0 \in 0 .. MaxUptime
    BY WidthsAssumption
  <1>3. DOMAIN connections = {} /\ DOMAIN stored = {}
    BY DEF Init
  <1>4. pc \in Place /\ pin_seen \in BOOLEAN
    BY DEF Init, Place
  <1> QED
    BY <1>1, <1>2, <1>3, <1>4 DEF Init, Inv1, TypeOK

\* What an interrupt leaves alone: the main loop's own variables.
LEMMA WalkKept == ASSUME Inv1, UNCHANGED control
                  PROVE  WalkOK'
  BY DEF Inv1, WalkOK, control, Walking

LEMMA Inv1Interrupt == Inv1 /\ Interrupt => Inv1'
  <1> SUFFICES ASSUME Inv1, Interrupt PROVE TypeOK' /\ WalkOK'
    BY DEF Inv1
  <1> USE DEF Inv1
  <1>1. CASE Tick
    BY <1>1, WalkKept, WidthsAssumption DEF Tick, TypeOK, control, history
  <1>2. CASE gpio_callback
    BY <1>2, WalkKept DEF gpio_callback, TypeOK, control, history
  <1>3. ASSUME NEW h \in Handles, NEW role \in RolesOf[h], NEW known \in BOOLEAN,
               reportConnection(h, role, known)
        PROVE  TypeOK' /\ WalkOK'
    <2>1. role \in {"master", "slave"}
      BY <1>3, RolesAssumption
    <2>2. uptime \in Nat
      BY WidthsAssumption DEF TypeOK
    <2>3. DOMAIN connections' \subseteq Handles
          /\ \A x \in DOMAIN connections' : connections'[x] \in Connection
      BY <1>3, <2>1, <2>2 DEF reportConnection, TypeOK, Connection, Put
    <2>4. told' \cup inherits' \subseteq Handles
      BY <1>3 DEF reportConnection, TypeOK
    <2> QED
      BY <1>3, <2>3, <2>4, WalkKept DEF reportConnection, TypeOK, control
  <1>4. ASSUME NEW h \in Handles, learnValueHandle(h)
        PROVE  TypeOK' /\ WalkOK'
    <2>1. DOMAIN connections' \subseteq Handles
          /\ \A x \in DOMAIN connections' : connections'[x] \in Connection
      BY <1>4 DEF learnValueHandle, TypeOK, Connection
    <2> QED
      BY <1>4, <2>1, WalkKept DEF learnValueHandle, TypeOK, control, history
  <1>5. ASSUME NEW h \in Handles, reportDisconnection(h)
        PROVE  TypeOK' /\ WalkOK'
    <2>1. DOMAIN connections' \subseteq Handles
          /\ \A x \in DOMAIN connections' : connections'[x] \in Connection
      BY <1>5 DEF reportDisconnection, TypeOK, Connection
    <2> QED
      BY <1>5, <2>1, WalkKept DEF reportDisconnection, TypeOK, control
  <1>6. ASSUME NEW h \in Handles, NEW c \in Contents, processWrite(h, c)
        PROVE  TypeOK' /\ WalkOK'
    <2>1. c \in Packet /\ c.ts \in Nat
      BY ContentsAssumption DEF Packet
    <2>2. offset' \in 0 .. Wrap - 1
      <3>1. c.ts \div Scale \in Nat
        BY <2>1, DivBelow, WidthsAssumption
      <3> QED
        BY <1>6, <3>1, OffsetType DEF processWrite, TypeOK
    <2>3. CASE Known(c) /\ UNCHANGED <<stored, sent, peers_sent, broadcast, got, copied>>
      BY <1>6, <2>2, <2>3, WalkKept DEF processWrite, TypeOK, control
    <2>4. ASSUME NEW s \in Free, NEW f \in {h, Dead}, storeAndEnqueue(c, s, f),
                 got' = got \cup {<<s, h>>},
                 copied' \subseteq copied \cup {<<s, h>>}
          PROVE  TypeOK' /\ WalkOK'
      <3>1. s \in Slots
        BY DEF Free
      <3>2. DOMAIN stored' \subseteq Slots
            /\ \A x \in DOMAIN stored' : stored'[x] \in Packet
        BY <2>1, <2>4, <3>1 DEF storeAndEnqueue, TypeOK, Put
      <3>3. sent' \subseteq (Slots \cup {Announce}) \X (Handles \cup {Dead})
            /\ got' \subseteq Slots \X Handles /\ copied' \subseteq got'
        BY <2>4, <3>1 DEF storeAndEnqueue, TypeOK
      <3>4. broadcast' \subseteq Slots /\ peers_sent' \subseteq Slots
        BY <2>4, <3>1 DEF storeAndEnqueue, TypeOK
      <3> QED
        BY <1>6, <2>2, <3>2, <3>3, <3>4, WalkKept DEF processWrite, TypeOK, control
    <2> QED
      BY <1>6, <2>3, <2>4 DEF processWrite
  <1> QED
    BY <1>1, <1>2, <1>3, <1>4, <1>5, <1>6 DEF Interrupt

LEMMA Inv1MainLoop == Inv1 /\ MainLoop => Inv1'
  <1> SUFFICES ASSUME Inv1, MainLoop PROVE TypeOK' /\ WalkOK'
    BY DEF Inv1
  <1> USE DEF Inv1, Walking
  <1>1. CASE handlePinActivity
    <2>1. getTimeMs \in Nat
      BY TimeType, WidthsAssumption
    <2>2. getTimeMs % IdWrap \in Nat
      BY <2>1, WidthsAssumption
    <2> DEFINE m == [kind |-> "message", key |-> getTimeMs % IdWrap,
                     ttl |-> 7, ts |-> getTimeMs]
    <2>3. m \in Packet
      BY <2>1, <2>2 DEF Packet
    <2>4. \/ UNCHANGED <<stored, broadcast>>
          \/ \E s \in Free : /\ stored' = Put(stored, s, m)
                             /\ broadcast' = broadcast \cup {s}
      BY <1>1 DEF handlePinActivity
    <2> HIDE DEF m
    <2>5. DOMAIN stored' \subseteq Slots
          /\ \A x \in DOMAIN stored' : stored'[x] \in Packet
      BY <2>3, <2>4 DEF TypeOK, Put, Free
    <2>6. broadcast' \subseteq Slots
      BY <2>4 DEF TypeOK, Free
    <2> QED
      BY <1>1, <2>5, <2>6 DEF handlePinActivity, history, TypeOK, WalkOK, Place
  <1>2. CASE pinsQuiet
    BY <1>2 DEF pinsQuiet, data, history, TypeOK, WalkOK, Place
  <1>3. CASE announceToConnections
    <2>1. targeted' \subseteq Handles \cup {Dead} /\ due' \subseteq Handles
      BY <1>3 DEF announceToConnections, not_announced_to, Available, TypeOK
    <2>2. announce_ts' \in Nat
      BY <1>3, TimeType DEF announceToConnections, TypeOK
    <2> QED
      BY <1>3, <2>1, <2>2 DEF announceToConnections, TypeOK, WalkOK, Place
  <1>4. CASE announceNotDue
    BY <1>4 DEF announceNotDue, data, history, TypeOK, WalkOK, Place
  <1>5. ASSUME NEW h \in Handles, sendTargeted(h)
        PROVE  TypeOK' /\ WalkOK'
    <2>1. told' \subseteq Handles
      BY <1>5 DEF sendTargeted, TypeOK
    <2> QED
      BY <1>5, <2>1 DEF sendTargeted, data, TypeOK, WalkOK, Place
  <1>6. CASE recordTargeted
    <2>1. sent' \subseteq (Slots \cup {Announce}) \X (Handles \cup {Dead})
      BY <1>6 DEF recordTargeted, TypeOK, WalkOK
    <2> QED
      BY <1>6, <2>1 DEF recordTargeted, history, TypeOK, WalkOK, Place
  <1>7. CASE endTargeted
    <2>1. sent' \subseteq (Slots \cup {Announce}) \X (Handles \cup {Dead})
          /\ targeted' \subseteq Handles \cup {Dead}
      BY <1>7 DEF endTargeted, TypeOK
    <2> QED
      BY <1>7, <2>1 DEF endTargeted, TypeOK, WalkOK, Place
  <1>8. ASSUME NEW s \in Slots, nextPacket(s)
        PROVE  TypeOK' /\ WalkOK'
    BY <1>8 DEF nextPacket, data, history, TypeOK, WalkOK, Place
  <1>9. CASE passOver
    BY <1>9 DEF passOver, data, history, TypeOK, WalkOK, Place
  <1>10. CASE sendBroadcast
    <2>1. cur \in Slots /\ at \in Handles
      BY <1>10 DEF sendBroadcast, TypeOK, WalkOK
    <2>2. got' \subseteq Slots \X Handles /\ copied' \subseteq got'
      BY <1>10, <2>1 DEF sendBroadcast, TypeOK
    <2> QED
      BY <1>10, <2>1, <2>2 DEF sendBroadcast, data, TypeOK, WalkOK, Place
  <1>11. CASE recordBroadcast
    <2>1. cur \in Slots /\ at \in Handles
      BY <1>11 DEF recordBroadcast, WalkOK
    <2>2. sent' \subseteq (Slots \cup {Announce}) \X (Handles \cup {Dead})
      BY <1>11, <2>1 DEF recordBroadcast, TypeOK
    <2> QED
      BY <1>11, <2>1, <2>2 DEF recordBroadcast, history, TypeOK, WalkOK, Place
  <1>12. CASE endPacket
    BY <1>12 DEF endPacket, data, history, TypeOK, WalkOK, Place
  <1>13. CASE endBroadcast
    BY <1>13 DEF endBroadcast, history, TypeOK, WalkOK, Place
  <1>14. CASE cleanupStaleItems
    <2>1. now' \in Nat
      <3>1. getTimeMs \in Nat
        BY TimeType, WidthsAssumption
      <3> QED
        BY <1>14, <3>1, Zenon DEF cleanupStaleItems
    <2> QED
      BY <1>14, <2>1 DEF cleanupStaleItems, data, history, TypeOK, WalkOK, Place
  <1>15. CASE cleanupNotDue
    BY <1>15 DEF cleanupNotDue, data, history, TypeOK, WalkOK, Place
  <1>16. CASE cleanSent
    <2>1. /\ sent' \subseteq sent /\ got' \subseteq got /\ copied' \subseteq got'
          /\ told' \subseteq told /\ inherits' \subseteq inherits
      BY <1>16 DEF cleanSent
    <2> QED
      BY <1>16, <2>1 DEF cleanSent, TypeOK, WalkOK, Place
  <1>17. CASE cleanPeersSent
    <2>1. peers_sent' \subseteq peers_sent
      BY <1>17 DEF cleanPeersSent, FreshOf
    <2> QED
      BY <1>17, <2>1 DEF cleanPeersSent, history, TypeOK, WalkOK, Place
  <1>18. CASE cleanBroadcast
    <2>1. broadcast' \subseteq broadcast
      BY <1>18 DEF cleanBroadcast, FreshOf
    <2> QED
      BY <1>18, <2>1 DEF cleanBroadcast, history, TypeOK, WalkOK, Place
  <1>19. CASE cleanTargeted
    <2>1. targeted' \subseteq targeted
      BY <1>19 DEF cleanTargeted
    <2> QED
      BY <1>19, <2>1 DEF cleanTargeted, history, TypeOK, WalkOK, Place
  <1>20. CASE cleanConnections
    <2>1. /\ DOMAIN connections' \subseteq Handles
          /\ \A x \in DOMAIN connections' : connections'[x] \in Connection
      BY <1>20 DEF cleanConnections, TypeOK, Drop
    <2>2. /\ got' \subseteq got /\ copied' \subseteq got'
          /\ told' \subseteq told /\ inherits' \subseteq inherits
      BY <1>20 DEF cleanConnections, TypeOK
    <2>3. sent' \subseteq (Slots \cup {Announce}) \X (Handles \cup {Dead})
          /\ targeted' \subseteq Handles \cup {Dead}
      <3> DEFINE lost == {h \in DOMAIN connections : connection_stale(h)}
                 Left(h) == IF h \in lost THEN Dead ELSE h
      <3>1. /\ sent' = {<<e[1], Left(e[2])>> : e \in sent}
            /\ targeted' = {Left(h) : h \in targeted}
        BY <1>20 DEF cleanConnections
      <3>2. \A h \in Handles \cup {Dead} : Left(h) \in Handles \cup {Dead}
        OBVIOUS
      <3> HIDE DEF Left
      <3>3. ASSUME NEW e \in sent
            PROVE  <<e[1], Left(e[2])>>
                     \in (Slots \cup {Announce}) \X (Handles \cup {Dead})
        BY <3>2 DEF TypeOK
      <3> QED
        BY <3>1, <3>2, <3>3 DEF TypeOK
    <2>4. /\ pc = "clean connections" /\ pc' = "clean messages"
          /\ UNCHANGED <<stored, broadcast, peers_sent, announce_ts, offset,
                         uptime, pin_seen, due, torn, todo, cur, at, first,
                         done, now>>
      BY <1>20 DEF cleanConnections
    <2> QED
      BY <2>1, <2>2, <2>3, <2>4 DEF TypeOK, WalkOK, Place
  <1>21. ASSUME NEW k, cleanStored(k), pc' \in Place \ Walking, pc \notin Walking,
                pc' # "told", now' \in Nat
         PROVE  TypeOK' /\ WalkOK'
    <2>1. /\ DOMAIN stored' \subseteq Slots
          /\ \A x \in DOMAIN stored' : stored'[x] \in Packet
      BY <1>21 DEF cleanStored, TypeOK, Drop
    <2>2. got' \subseteq got /\ copied' \subseteq got'
      BY <1>21 DEF cleanStored, TypeOK
    <2>3. TypeOK'
      BY <1>21, <2>1, <2>2 DEF cleanStored, TypeOK
    <2>4. WalkOK'
      BY <1>21 DEF cleanStored, WalkOK
    <2> QED
      BY <2>3, <2>4
  <1>22. CASE cleanMessages
    BY <1>21, <1>22 DEF cleanMessages, Place, TypeOK
  <1>23. CASE cleanPackets
    BY <1>21, <1>23 DEF cleanPackets, Place
  <1> QED
    BY <1>1, <1>2, <1>3, <1>4, <1>5, <1>6, <1>7, <1>8, <1>9, <1>10, <1>11,
       <1>12, <1>13, <1>14, <1>15, <1>16, <1>17, <1>18, <1>19, <1>20,
       <1>22, <1>23 DEF MainLoop, sendPackets

LEMMA Inv1Next == Inv1 /\ [Next]_vars => Inv1'
  <1>1. Inv1 /\ UNCHANGED vars => Inv1'
    BY DEF Inv1, TypeOK, WalkOK, vars
  <1> QED
    BY <1>1, Inv1Interrupt, Inv1MainLoop DEF Next

\* Every reachable state of the tracker and of the main loop's walk is well
\* typed; the 64-bit offset stays in its width.
THEOREM TypeCorrect == Spec => []TypeOK
  <1>1. Inv1 => TypeOK
    BY DEF Inv1
  <1> QED
    BY <1>1, Inv1Init, Inv1Next, PTL DEF Spec

-----------------------------------------------------------------------------
(***************************************************************************)
(* The records that the walk of sendPackets stands on are there: the pass  *)
(* over connections runs only while no walk is in progress.                *)
(***************************************************************************)

WalkLive ==
  /\ pc \in {"connection", "recorded"} => at \in DOMAIN connections \cup {NoHandle}
  /\ first \in DOMAIN connections \cup {NoHandle, Unset}

Inv2 == Inv1 /\ WalkLive

LEMMA WalkLiveKept ==
  ASSUME WalkLive, DOMAIN connections \subseteq DOMAIN connections',
         pc' \in {"connection", "recorded"} =>
           pc \in {"connection", "recorded"} /\ at' = at,
         first' \in {first, Unset}
  PROVE  WalkLive'
  BY DEF WalkLive

LEMMA WalkLiveNext == Inv2 /\ [Next]_vars => WalkLive'
  <1> SUFFICES ASSUME Inv2, [Next]_vars PROVE WalkLive'
    OBVIOUS
  <1>0. WalkLive
    BY DEF Inv2
  <1>1. CASE Interrupt
    <2>1. UNCHANGED control
      BY <1>1 DEF Interrupt, Tick, gpio_callback, reportConnection,
                  learnValueHandle, reportDisconnection, processWrite
    <2>2. DOMAIN connections \subseteq DOMAIN connections'
      <3>1. ASSUME NEW h \in Handles, NEW role \in RolesOf[h], NEW known \in BOOLEAN,
                   reportConnection(h, role, known)
            PROVE  DOMAIN connections \subseteq DOMAIN connections'
        BY <3>1 DEF reportConnection, Put
      <3>2. ASSUME NEW h \in Handles, learnValueHandle(h) \/ reportDisconnection(h)
            PROVE  DOMAIN connections \subseteq DOMAIN connections'
        BY <3>2 DEF learnValueHandle, reportDisconnection
      <3>3. ASSUME NEW h \in Handles, NEW c \in Contents, processWrite(h, c)
            PROVE  connections' = connections
        BY <3>3 DEF processWrite
      <3> QED
        BY <1>1, <3>1, <3>2, <3>3 DEF Interrupt, Tick, gpio_callback
    <2> QED
      BY <1>0, <2>1, <2>2, WalkLiveKept DEF control
  <1>2. ASSUME NEW s \in Slots, nextPacket(s) PROVE WalkLive'
    <2>1. at' \in DOMAIN connections \cup {NoHandle} /\ first' = at'
      BY <1>0, <1>2 DEF nextPacket, FirstAvailable, Available, WalkLive
    <2> QED
      BY <1>2, <2>1 DEF nextPacket, data, WalkLive
  <1>3. CASE passOver \/ recordBroadcast
    <2>1. at' \in DOMAIN connections \cup {NoHandle}
      BY <1>3 DEF passOver, recordBroadcast, NextAvailable, Available
    <2> QED
      BY <1>0, <1>3, <2>1 DEF passOver, recordBroadcast, data, WalkLive
  <1>4. CASE sendBroadcast \/ endPacket \/ endBroadcast
    BY <1>0, <1>4, WalkLiveKept DEF sendBroadcast, endPacket, endBroadcast, data
  <1>5. CASE handlePinActivity \/ pinsQuiet \/ announceToConnections \/ announceNotDue
    BY <1>0, <1>5, WalkLiveKept
       DEF handlePinActivity, pinsQuiet, announceToConnections, announceNotDue, data
  <1>6. CASE recordTargeted \/ endTargeted \/ \E h \in Handles : sendTargeted(h)
    BY <1>0, <1>6, WalkLiveKept DEF recordTargeted, endTargeted, sendTargeted, data
  <1>7. CASE cleanupStaleItems \/ cleanupNotDue \/ cleanSent \/ cleanPeersSent
    BY <1>0, <1>7, WalkLiveKept
       DEF cleanupStaleItems, cleanupNotDue, cleanSent, cleanPeersSent, data
  <1>8. CASE cleanBroadcast \/ cleanTargeted \/ cleanMessages \/ cleanPackets
    BY <1>0, <1>8, WalkLiveKept
       DEF cleanBroadcast, cleanTargeted, cleanMessages, cleanPackets, cleanStored
  <1>9. CASE cleanConnections
    <2>1. pc' = "clean messages" /\ first' = Unset
      BY <1>9 DEF cleanConnections, Inv2, Inv1, WalkOK, Walking
    <2> QED
      BY <2>1 DEF WalkLive
  <1>10. CASE UNCHANGED vars
    BY <1>0, <1>10 DEF WalkLive, vars
  <1> QED
    BY <1>1, <1>2, <1>3, <1>4, <1>5, <1>6, <1>7, <1>8, <1>9, <1>10
       DEF Next, MainLoop, sendPackets

-----------------------------------------------------------------------------
(***************************************************************************)
(* The clock stays away from the end of its width, so that a packet which  *)
(* is stale by its raw timestamp is stale in milliseconds, too: the sent   *)
(* list does not forget a packet that the store goes on knowing.           *)
(***************************************************************************)

ClockOK == getTimeMs + (MaxUptime - uptime) + StaleAfter < Wrap

StampsOK == \A s \in DOMAIN stored : stored[s].ts + StaleAfter < Wrap

Clock == ClockOK /\ StampsOK

LEMMA ClockInit == Init => Clock
  <1> SUFFICES ASSUME Init PROVE Clock
    OBVIOUS
  <1>1. getTimeMs = 0
    BY ModSmall, WidthsAssumption DEF Init, getTimeMs
  <1> QED
    BY <1>1, ClockAssumption, WidthsAssumption DEF Init, Clock, ClockOK, StampsOK

\* After possiblyUpdateTimeOffset the clock shows the peer's time, or is as it
\* was.
LEMMA ClockAdopted ==
  ASSUME TypeOK, NEW t \in Nat, t < Wrap, MaxUptime < Wrap
  PROVE  \/ OffsetAfter(t) = offset
         \/ (OffsetAfter(t) + uptime) % Wrap = t
  <1> DEFINE g == getTimeMs
             o == (offset + (t - g)) % Wrap
  <1>1. offset \in 0 .. Wrap - 1 /\ uptime \in 0 .. Wrap - 1 /\ Wrap \in Nat \ {0}
    BY WidthsAssumption DEF TypeOK
  <1>2. g = offset + uptime \/ g = offset + uptime - Wrap
    <2>1. CASE offset + uptime < Wrap
      BY <1>1, <2>1, ModSmall DEF getTimeMs
    <2>2. CASE offset + uptime >= Wrap
      BY <1>1, <2>2, ModOnce DEF getTimeMs
    <2> QED
      BY <1>1, <2>1, <2>2
  <1>3. offset + (t - g) = t - uptime \/ offset + (t - g) = t - uptime + Wrap
    BY <1>1, <1>2
  <1> HIDE DEF g
  <1>4. o = IF t >= uptime THEN t - uptime ELSE t - uptime + Wrap
    <2> DEFINE d == offset + (t - g)
    <2>1. d = t - uptime \/ d = t - uptime + Wrap
      BY <1>3
    <2> HIDE DEF d
    <2>2. CASE t >= uptime
      <3>1. t - uptime \in 0 .. Wrap - 1 /\ t - uptime + Wrap \in Wrap .. Wrap + Wrap - 1
        BY <1>1, <2>2
      <3>2. (t - uptime) % Wrap = t - uptime
        BY <1>1, <3>1, ModSmall
      <3>3. (t - uptime + Wrap) % Wrap = t - uptime + Wrap - Wrap
        BY <1>1, <3>1, ModOnce
      <3>4. d % Wrap = t - uptime
        BY <1>1, <2>1, <3>2, <3>3
      <3> QED
        BY <2>2, <3>4 DEF d
    <2>3. CASE t < uptime
      <3>1. t - uptime \in -Wrap .. -1 /\ t - uptime + Wrap \in 0 .. Wrap - 1
        BY <1>1, <2>3
      <3>2. (t - uptime) % Wrap = t - uptime + Wrap
        BY <1>1, <3>1, ModNegative
      <3>3. (t - uptime + Wrap) % Wrap = t - uptime + Wrap
        BY <1>1, <3>1, ModSmall
      <3>4. d % Wrap = t - uptime + Wrap
        BY <1>1, <2>1, <3>2, <3>3
      <3> QED
        BY <1>1, <2>3, <3>4 DEF d
    <2> QED
      BY <1>1, <2>2, <2>3
  <1>5. (o + uptime) % Wrap = t
    <2>1. o + uptime = t \/ o + uptime = t + Wrap
      BY <1>1, <1>4
    <2>2. t % Wrap = t /\ (t + Wrap) % Wrap = t + Wrap - Wrap
      BY <1>1, ModSmall, ModOnce
    <2> HIDE DEF o
    <2> QED
      BY <1>1, <2>1, <2>2
  <1>6. OffsetAfter(t) = offset \/ OffsetAfter(t) = o
    BY DEF OffsetAfter, g
  <1> QED
    BY <1>5, <1>6

\* Neither the clock nor the store changes.
LEMMA ClockKept == ASSUME Clock, UNCHANGED <<offset, uptime, stored>>
                   PROVE  Clock'
  BY DEF Clock, ClockOK, StampsOK, getTimeMs

LEMMA ClockInterrupt == Inv1 /\ Clock /\ Interrupt => Clock'
  <1> SUFFICES ASSUME Inv1, Clock, Interrupt PROVE Clock'
    OBVIOUS
  <1>0. TypeOK
    BY DEF Inv1
  <1>1. CASE Tick
    <2>1. getTimeMs \in 0 .. Wrap - 1 /\ uptime' = uptime + 1 /\ uptime < MaxUptime
      BY <1>0, <1>1, TimeType DEF Tick
    <2>2. offset \in Int /\ uptime \in Int /\ Wrap \in Nat \ {0}
          /\ MaxUptime \in Nat /\ StaleAfter \in Nat
      BY <1>0, WidthsAssumption DEF TypeOK
    <2>3. getTimeMs + 1 < Wrap
      BY <2>1, <2>2 DEF Clock, ClockOK
    <2>4. (offset + uptime + 1) % Wrap = getTimeMs + 1
      <3>1. offset \in 0 .. Wrap - 1 /\ uptime \in 0 .. Wrap - 1
        BY <1>0, <2>2, ClockAssumption DEF TypeOK
      <3>2. CASE offset + uptime < Wrap
        <4>1. getTimeMs = offset + uptime
          BY <2>2, <3>1, <3>2, ModSmall DEF getTimeMs
        <4> QED
          BY <2>2, <2>3, <3>1, <4>1, ModSmall
      <3>3. CASE offset + uptime >= Wrap
        <4>1. getTimeMs = offset + uptime - Wrap
          <5> DEFINE y == offset + uptime
          <5>1. y \in Wrap .. (Wrap + Wrap - 1) /\ getTimeMs = y % Wrap
            BY <2>2, <3>1, <3>3 DEF getTimeMs
          <5> HIDE DEF y
          <5>2. y % Wrap = y - Wrap
            BY <2>2, <5>1, ModOnce
          <5>3. getTimeMs = y - Wrap
            BY <5>1, <5>2, Zenon
          <5> QED
            BY <2>2, <5>3 DEF y
        <4> DEFINE x == offset + uptime + 1
        <4>2. x \in Wrap .. (Wrap + Wrap - 1) /\ x - Wrap = getTimeMs + 1
          BY <2>2, <2>3, <3>1, <3>3, <4>1
        <4> HIDE DEF x
        <4>3. x % Wrap = x - Wrap
          BY <2>2, <4>2, ModOnce
        <4> QED
          BY <4>2, <4>3 DEF x
      <3> QED
        BY <2>2, <3>2, <3>3
    <2>5. getTimeMs' = getTimeMs + 1
      BY <1>1, <2>2, <2>4 DEF Tick, getTimeMs
    <2>6. getTimeMs' + (MaxUptime - uptime') + StaleAfter
            = getTimeMs + (MaxUptime - uptime) + StaleAfter
      BY <2>1, <2>2, <2>5
    <2> QED
      BY <1>1, <2>6 DEF Tick, Clock, ClockOK, StampsOK
  <1>2. ASSUME NEW h \in Handles, NEW c \in Contents, processWrite(h, c)
        PROVE  Clock'
    <2>1. c.ts \in Nat /\ c.ts + MaxUptime + StaleAfter < Wrap
      BY ContentsAssumption, ClockAssumption DEF Packet
    <2>2. MaxUptime \in Nat /\ StaleAfter \in Nat /\ Wrap \in Nat
          /\ uptime \in 0 .. MaxUptime /\ uptime' = uptime
      BY <1>0, <1>2, WidthsAssumption DEF TypeOK, processWrite
    <2>3. ClockOK'
      <3> DEFINE t == c.ts \div Scale
      <3>1. t \in Nat /\ t <= c.ts
        BY <2>1, DivBelow, WidthsAssumption
      <3> HIDE DEF t
      <3>2. offset' = offset \/ offset' = OffsetAfter(t)
        BY <1>2 DEF processWrite, t
      <3>3. t < Wrap /\ MaxUptime < Wrap
        BY <2>1, <2>2, <3>1
      <3>4. offset' = offset \/ (offset' + uptime) % Wrap = t
        BY <1>0, <3>1, <3>2, <3>3, ClockAdopted
      <3>5. getTimeMs' = getTimeMs \/ getTimeMs' = t
        BY <2>2, <3>4 DEF getTimeMs
      <3>6. CASE getTimeMs' = getTimeMs
        BY <2>2, <3>6 DEF Clock, ClockOK
      <3>7. CASE getTimeMs' = t
        BY <2>1, <2>2, <3>1, <3>7 DEF ClockOK
      <3> QED
        BY <3>5, <3>6, <3>7
    <2>4. StampsOK'
      <3>1. c.ts + StaleAfter < Wrap
        BY <2>1, <2>2
      <3>2. stored' = stored \/ \E s \in Free : stored' = Put(stored, s, c)
        BY <1>2 DEF processWrite, storeAndEnqueue
      <3> QED
        BY <3>1, <3>2 DEF Clock, StampsOK, Put
    <2> QED
      BY <2>3, <2>4 DEF Clock
  <1>3. CASE UNCHANGED <<offset, uptime, stored>>
    BY <1>3, ClockKept
  <1> QED
    BY <1>1, <1>2, <1>3 DEF Interrupt, gpio_callback, reportConnection,
                            learnValueHandle, reportDisconnection

LEMMA ClockMainLoop == Inv1 /\ Clock /\ MainLoop => Clock'
  <1> SUFFICES ASSUME Inv1, Clock, MainLoop PROVE Clock'
    OBVIOUS
  <1>1. CASE handlePinActivity
    <2> DEFINE m == [kind |-> "message", key |-> getTimeMs % IdWrap,
                     ttl |-> 7, ts |-> getTimeMs]
    <2>1. stored' = stored \/ \E s \in Free : stored' = Put(stored, s, m)
      BY <1>1 DEF handlePinActivity
    <2>2. m.ts + StaleAfter < Wrap
      <3>1. getTimeMs \in 0 .. Wrap - 1 /\ uptime \in 0 .. MaxUptime
        BY TimeType DEF Inv1, TypeOK
      <3> QED
        BY <3>1, WidthsAssumption DEF Clock, ClockOK
    <2> HIDE DEF m
    <2>3. StampsOK'
      BY <2>1, <2>2 DEF Clock, StampsOK, Put
    <2>4. ClockOK'
      BY <1>1 DEF handlePinActivity, Clock, ClockOK, getTimeMs
    <2> QED
      BY <2>3, <2>4 DEF Clock
  <1>2. CASE cleanMessages \/ cleanPackets
    BY <1>2 DEF cleanMessages, cleanPackets, cleanStored, Clock, ClockOK,
                StampsOK, getTimeMs, Drop
  <1>3. CASE UNCHANGED <<offset, uptime, stored>>
    BY <1>3, ClockKept
  <1> QED
    BY <1>1, <1>2, <1>3
       DEF MainLoop, sendPackets, pinsQuiet, announceToConnections,
           announceNotDue, sendTargeted, recordTargeted, endTargeted,
           nextPacket, passOver, sendBroadcast, recordBroadcast, endPacket,
           endBroadcast, cleanupStaleItems, cleanupNotDue, cleanSent,
           cleanPeersSent, cleanBroadcast, cleanTargeted, cleanConnections,
           data

\* Cleaning the sent list by raw timestamps removes no entry of a packet that
\* the pass over the maps keeps.
LEMMA RawStaleFrees ==
  ASSUME Inv1, Clock, NEW s \in DOMAIN stored, RawStale(stored[s].ts)
  PROVE  MsStale(stored[s].ts)
  <1> DEFINE ts == stored[s].ts
  <1>1. ts \in Nat
    BY DEF Inv1, TypeOK, Packet
  <1>2. ts + StaleAfter < Wrap
    BY DEF Clock, StampsOK
  <1>3. RawStale(ts)
    OBVIOUS
  <1> HIDE DEF ts
  <1>4. ts \div Scale \in Nat /\ ts \div Scale <= ts
    BY <1>1, DivBelow, WidthsAssumption
  <1>5. (ts + StaleAfter) % Wrap = ts + StaleAfter
    BY <1>1, <1>2, ModSmall, WidthsAssumption
  <1>6. ((ts \div Scale) + StaleAfter) % Wrap = (ts \div Scale) + StaleAfter
    <2> DEFINE q == ts \div Scale
    <2>1. q \in Nat /\ q <= ts
      BY <1>4
    <2> HIDE DEF q
    <2>2. q + StaleAfter \in 0 .. Wrap - 1
      BY <1>1, <1>2, <2>1, WidthsAssumption
    <2>3. (q + StaleAfter) % Wrap = q + StaleAfter
      BY <2>2, ModSmall, WidthsAssumption
    <2> QED
      BY <2>3 DEF q
  <1>7. now \in Nat
    BY DEF Inv1, TypeOK
  <1>8. MsStale(ts)
    <2> DEFINE q == ts \div Scale
    <2>1. q \in Nat /\ q <= ts /\ (q + StaleAfter) % Wrap = q + StaleAfter
      BY <1>4, <1>6
    <2>2. ts + StaleAfter < now
      BY <1>3, <1>5 DEF RawStale
    <2> HIDE DEF q
    <2>3. (q + StaleAfter) % Wrap < now
      BY <1>1, <1>7, <2>1, <2>2, WidthsAssumption
    <2> QED
      BY <2>3 DEF MsStale, q
  <1> QED
    BY <1>8 DEF ts

-----------------------------------------------------------------------------
(***************************************************************************)
(* What has been delivered is recorded, except while SendPacketToConnection*)
(* of that very packet and connection has not returned, and while a pass   *)
(* has removed the record of a packet that the last passes will free.      *)
(***************************************************************************)

\* Places after the pass over the sent list.
Swept == {"clean peers sent", "clean broadcast", "clean targeted",
          "clean connections", "clean messages", "clean packets"}

GotLive == \A e \in got : e[1] \in DOMAIN stored /\ e[2] \in DOMAIN connections

\* The pass that is to come frees the packet at s.
Doomed(s) == /\ pc \in Swept /\ RawStale(stored[s].ts)
             /\ pc = "clean packets" => stored[s].kind = "announce"

GotRecorded ==
  \A e \in got \ copied : \/ e \in sent
                          \/ pc = "recorded" /\ e = <<cur, at>>
                          \/ Doomed(e[1])

Delivered == GotLive /\ GotRecorded

Inv4 == Inv2 /\ Clock /\ Delivered

LEMMA DeliveredKept ==
  ASSUME Delivered, DOMAIN connections \subseteq DOMAIN connections',
         DOMAIN stored \subseteq DOMAIN stored',
         \A s \in DOMAIN stored : stored'[s] = stored[s],
         sent \subseteq sent', got' = got, copied' = copied,
         pc' = "recorded" \/ pc # "recorded",
         pc = "recorded" => cur' = cur /\ at' = at,
         pc \in Swept => /\ pc' \in Swept /\ now' = now
                         /\ pc' = "clean packets" => pc = "clean packets"
  PROVE  Delivered'
  <1>1. GotLive'
    BY DEF Delivered, GotLive
  <1>2. ASSUME NEW e \in got, Doomed(e[1]) PROVE Doomed(e[1])'
    BY <1>2 DEF Doomed, RawStale, Delivered, GotLive
  <1> QED
    BY <1>1, <1>2 DEF Delivered, GotRecorded

LEMMA DeliveredInterrupt == Inv4 /\ Interrupt => Delivered'
  <1> SUFFICES ASSUME Inv4, Interrupt PROVE Delivered'
    OBVIOUS
  <1> USE DEF Inv4
  <1>1. CASE Tick
    BY <1>1, DeliveredKept DEF Tick, control, history
  <1>2. CASE gpio_callback
    BY <1>2, DeliveredKept DEF gpio_callback, control, history
  <1>3. ASSUME NEW h \in Handles, NEW role \in RolesOf[h], NEW known \in BOOLEAN,
               reportConnection(h, role, known)
        PROVE  Delivered'
    BY <1>3, DeliveredKept DEF reportConnection, Put, control
  <1>4. ASSUME NEW h \in Handles, learnValueHandle(h)
        PROVE  Delivered'
    BY <1>4, DeliveredKept DEF learnValueHandle, control, history
  <1>5. ASSUME NEW h \in Handles, reportDisconnection(h)
        PROVE  Delivered'
    BY <1>5, DeliveredKept DEF reportDisconnection, control
  <1>6. ASSUME NEW h \in Handles, NEW c \in Contents, processWrite(h, c)
        PROVE  Delivered'
    <2>1. UNCHANGED <<connections, pc, cur, at, now>> /\ h \in DOMAIN connections
      BY <1>6 DEF processWrite, control
    <2>2. CASE UNCHANGED <<stored, sent, peers_sent, broadcast, got, copied>>
      BY <2>1, <2>2, DeliveredKept
    <2>3. ASSUME NEW s \in Free, NEW f \in {h, Dead}, storeAndEnqueue(c, s, f),
                 got' = got \cup {<<s, h>>}, copied \subseteq copied',
                 f = h \/ <<s, h>> \in copied'
          PROVE  Delivered'
      <3>1. /\ DOMAIN stored' = DOMAIN stored \cup {s}
            /\ \A x \in DOMAIN stored : stored'[x] = stored[x]
            /\ sent' = sent \cup {<<s, f>>}
        BY <2>3 DEF storeAndEnqueue, Put, Free
      <3>2. GotLive'
        BY <2>1, <2>3, <3>1 DEF Delivered, GotLive
      <3>3. ASSUME NEW e \in got, Doomed(e[1]) PROVE Doomed(e[1])'
        BY <2>1, <3>1, <3>3 DEF Doomed, RawStale, Delivered, GotLive
      <3> QED
        BY <2>1, <2>3, <3>1, <3>2, <3>3 DEF Delivered, GotRecorded
    <2> QED
      BY <1>6, <2>2, <2>3 DEF processWrite
  <1> QED
    BY <1>1, <1>2, <1>3, <1>4, <1>5, <1>6 DEF Interrupt

LEMMA DeliveredMainLoop == Inv4 /\ MainLoop => Delivered'
  <1> SUFFICES ASSUME Inv4, MainLoop PROVE Delivered'
    OBVIOUS
  <1> USE DEF Inv4
  <1>1. CASE handlePinActivity
    BY <1>1, DeliveredKept DEF handlePinActivity, Put, Free, history, Swept
  <1>2. CASE pinsQuiet \/ announceNotDue \/ cleanupNotDue \/ cleanupStaleItems
    BY <1>2, DeliveredKept
       DEF pinsQuiet, announceNotDue, cleanupNotDue, cleanupStaleItems, data,
           history, Swept
  <1>3. CASE announceToConnections
    BY <1>3, DeliveredKept DEF announceToConnections, Swept
  <1>4. ASSUME NEW h \in Handles, sendTargeted(h)
        PROVE  Delivered'
    BY <1>4, DeliveredKept DEF sendTargeted, data, Swept
  <1>5. CASE recordTargeted
    BY <1>5, DeliveredKept DEF recordTargeted, history, Swept
  <1>6. CASE endTargeted \/ endBroadcast
    BY <1>6, DeliveredKept DEF endTargeted, endBroadcast, history, Swept
  <1>7. ASSUME NEW s \in Slots, nextPacket(s)
        PROVE  Delivered'
    BY <1>7, DeliveredKept DEF nextPacket, data, history, Swept
  <1>8. CASE passOver \/ endPacket
    BY <1>8, DeliveredKept DEF passOver, endPacket, data, history, Swept
  <1>9. CASE sendBroadcast
    <2>1. at \in DOMAIN connections
      BY <1>9 DEF sendBroadcast, Inv2, WalkLive
    <2>2. GotLive'
      BY <1>9, <2>1 DEF sendBroadcast, data, Delivered, GotLive
    <2>3. \A e \in got \ copied : e \in sent
      BY <1>9 DEF sendBroadcast, Delivered, GotRecorded, Doomed, Swept
    <2>4. GotRecorded'
      BY <1>9, <2>3 DEF sendBroadcast, data, GotRecorded
    <2> QED
      BY <2>2, <2>4 DEF Delivered
  <1>10. CASE recordBroadcast
    <2>1. \A e \in got \ copied : e \in sent'
      BY <1>10 DEF recordBroadcast, Delivered, GotRecorded, Doomed, Swept
    <2> QED
      BY <1>10, <2>1 DEF recordBroadcast, history, Delivered, GotLive, GotRecorded
  <1>11. CASE cleanSent
    <2>1. GotLive'
      BY <1>11 DEF cleanSent, Delivered, GotLive
    <2>2. ASSUME NEW e \in got' \ copied' PROVE e \in sent' \/ Doomed(e[1])'
      <3>1. /\ e \in got \ copied /\ ~connection_stale(e[2])
            /\ e \in sent /\ e[1] \in DOMAIN stored /\ e[2] \in DOMAIN connections
        BY <1>11, <2>2 DEF cleanSent, Delivered, GotLive, GotRecorded, Doomed, Swept
      <3>2. e[1] # Announce /\ e[2] # Dead
        BY <3>1, SlotsAssumption, MarkersAssumption DEF Inv2, Inv1, TypeOK
      <3>3. CASE RawStale(stored[e[1]].ts)
        BY <1>11, <3>3 DEF cleanSent, Doomed, RawStale, Swept
      <3>4. CASE ~RawStale(stored[e[1]].ts)
        <4>1. ~packet_connection_stale(e) /\ ~Unreadable(e)
          BY <3>1, <3>2, <3>4 DEF packet_connection_stale, Unreadable
        <4> QED
          BY <1>11, <3>1, <4>1 DEF cleanSent
      <3> QED
        BY <3>3, <3>4
    <2> QED
      BY <2>1, <2>2 DEF Delivered, GotRecorded
  <1>12. CASE cleanPeersSent \/ cleanBroadcast \/ cleanTargeted
    BY <1>12, DeliveredKept DEF cleanPeersSent, cleanBroadcast, cleanTargeted,
                                history, Swept
  <1>13. CASE cleanConnections
    <2> DEFINE lost == {h \in DOMAIN connections : connection_stale(h)}
               Left(h) == IF h \in lost THEN Dead ELSE h
    <2>1. /\ connections' = Drop(connections, lost)
          /\ sent' = {<<e[1], Left(e[2])>> : e \in sent}
          /\ got' = {e \in got : e[2] \notin lost}
          /\ copied' = {e \in copied : e[2] \notin lost}
          /\ pc = "clean connections" /\ pc' = "clean messages"
          /\ stored' = stored /\ now' = now
      BY <1>13 DEF cleanConnections
    <2> HIDE DEF lost
    <2>2. GotLive'
      BY <2>1 DEF Delivered, GotLive, Drop
    <2>3. ASSUME NEW e \in got' \ copied' PROVE e \in sent' \/ Doomed(e[1])'
      <3>1. e \in got \ copied /\ e[2] \notin lost
        BY <2>1, <2>3
      <3>2. CASE e \in sent
        <4>1. e = <<e[1], e[2]>>
          BY <3>2 DEF Inv2, Inv1, TypeOK
        <4>2. Left(e[2]) = e[2]
          BY <3>1
        <4> QED
          BY <2>1, <3>2, <4>1, <4>2
      <3>3. CASE Doomed(e[1])
        BY <2>1, <3>3 DEF Doomed, RawStale, Swept
      <3> QED
        BY <2>1, <3>1, <3>2, <3>3 DEF Delivered, GotRecorded
    <2> QED
      BY <2>2, <2>3 DEF Delivered, GotRecorded
  <1>14. ASSUME NEW k, cleanStored(k), pc # "recorded"
         PROVE  /\ GotLive'
                /\ \A e \in got' \ copied' :
                     \/ e \in sent'
                     \/ /\ Doomed(e[1]) /\ stored'[e[1]] = stored[e[1]]
                        /\ e[1] \in DOMAIN stored /\ stored[e[1]].kind # k
    <2> DEFINE gone == {s \in DOMAIN stored : stored[s].kind = k
                                           /\ MsStale(stored[s].ts)}
    <2>1. /\ stored' = Drop(stored, gone)
          /\ got' = {e \in got : e[1] \notin gone}
          /\ copied' = {e \in copied : e[1] \notin gone}
          /\ UNCHANGED <<connections, sent>>
      BY <1>14 DEF cleanStored
    <2>2. GotLive'
      <3> HIDE DEF gone
      <3> QED
        BY <2>1 DEF Delivered, GotLive, Drop
    <2>3. ASSUME NEW e \in got' \ copied', e \notin sent'
          PROVE  /\ Doomed(e[1]) /\ stored'[e[1]] = stored[e[1]]
                 /\ e[1] \in DOMAIN stored /\ stored[e[1]].kind # k
      <3>1. e \in got \ copied /\ e[1] \notin gone /\ e[1] \in DOMAIN stored
        BY <2>1, <2>3 DEF Delivered, GotLive
      <3>2. Doomed(e[1])
        BY <1>14, <2>1, <2>3, <3>1 DEF Delivered, GotRecorded
      <3>3. MsStale(stored[e[1]].ts)
        BY <3>1, <3>2, RawStaleFrees DEF Inv2, Doomed
      <3>4. stored[e[1]].kind # k
        BY <3>1, <3>3
      <3>5. stored'[e[1]] = stored[e[1]]
        <4> HIDE DEF gone
        <4> QED
          BY <2>1, <3>1 DEF Drop
      <3> QED
        BY <3>1, <3>2, <3>4, <3>5
    <2> QED
      BY <2>2, <2>3
  <1>15. CASE cleanMessages
    <2>1. /\ pc = "clean messages" /\ cleanStored("message")
          /\ pc' = "clean packets" /\ now' = now
      BY <1>15 DEF cleanMessages
    <2>2. ASSUME NEW e \in got' \ copied' PROVE e \in sent' \/ Doomed(e[1])'
      <3>1. CASE e \in sent'
        BY <3>1
      <3>2. CASE /\ Doomed(e[1]) /\ stored'[e[1]] = stored[e[1]]
                 /\ e[1] \in DOMAIN stored /\ stored[e[1]].kind # "message"
        <4>1. stored[e[1]].kind = "announce"
          BY <3>2 DEF Inv2, Inv1, TypeOK, Packet
        <4> QED
          BY <2>1, <3>2, <4>1 DEF Doomed, RawStale, Swept
      <3> QED
        BY <1>14, <2>1, <3>1, <3>2
    <2> QED
      BY <1>14, <2>1, <2>2 DEF Delivered, GotRecorded
  <1>16. CASE cleanPackets
    <2>1. pc = "clean packets" /\ cleanStored("announce")
      BY <1>16 DEF cleanPackets
    <2>2. \A e \in got' \ copied' : e \in sent'
      BY <1>14, <2>1 DEF Doomed
    <2> QED
      BY <1>14, <2>1, <2>2 DEF Delivered, GotRecorded
  <1> QED
    BY <1>1, <1>2, <1>3, <1>4, <1>5, <1>6, <1>7, <1>8, <1>9, <1>10, <1>11,
       <1>12, <1>13, <1>15, <1>16 DEF MainLoop, sendPackets

LEMMA Inv4Init == Init => Inv4
  BY Inv1Init, ClockInit
     DEF Inv4, Inv2, Init, WalkLive, Delivered, GotLive, GotRecorded

LEMMA Inv4Next == Inv4 /\ [Next]_vars => Inv4'
  <1>1. Inv4 /\ UNCHANGED vars => Clock' /\ Delivered'
    <2> SUFFICES ASSUME Inv4, UNCHANGED vars PROVE Clock' /\ Delivered'
      OBVIOUS
    <2>1. Clock'
      BY ClockKept DEF Inv4, vars
    <2>2. Delivered'
      BY DeliveredKept DEF Inv4, vars
    <2> QED
      BY <2>1, <2>2
  <1> QED
    BY <1>1, Inv1Next, WalkLiveNext, ClockInterrupt, ClockMainLoop,
       DeliveredInterrupt, DeliveredMainLoop DEF Inv4, Inv2, Next

\* The only step that hands over a packet of the broadcast list, and what its
\* guard says about what was delivered before.
LEMMA SendIsNew ==
  ASSUME Inv4, [Next]_vars, pc = "connection", pc' = "recorded"
  PROVE  <<cur, at>> \notin got \ copied
  <1>1. sendBroadcast
    BY DEF Next, Interrupt, MainLoop, sendPackets, Tick, gpio_callback,
           reportConnection, learnValueHandle, reportDisconnection,
           processWrite, handlePinActivity, pinsQuiet, announceToConnections,
           announceNotDue, sendTargeted, recordTargeted, endTargeted,
           nextPacket, passOver, recordBroadcast, endPacket, endBroadcast,
           cleanupStaleItems, cleanupNotDue, cleanSent, cleanPeersSent,
           cleanBroadcast, cleanTargeted, cleanConnections, cleanMessages,
           cleanPackets, control, vars
  <1>2. cur \in Nat
    BY SlotsAssumption DEF Inv4, Inv2, Inv1, WalkOK
  <1>3. <<cur, at>> \notin sent
    <2> SUFFICES ASSUME <<cur, at>> \in sent PROVE FALSE
      OBVIOUS
    <2>1. at \in SentTo(cur)
      BY DEF SentTo
    <2>2. at \in ReadAsSentTo(cur)
      BY <1>2, <2>1 DEF ReadAsSentTo
    <2> QED
      BY <1>1, <2>2 DEF sendBroadcast
  <1> QED
    BY <1>3 DEF Inv4, Delivered, GotRecorded, Doomed, Swept

\* As long as packet and link live, a packet is handed to a link at most once
\* and not after the link wrote it (what came over an opened link: at most
\* once after that), whatever interrupts fall between a send and its record or
\* between the passes that clean store and sent list by timestamps in
\* different units.
THEOREM NeverSentTwice == Spec => NoRedundantSend
  <1>1. Inv4 /\ [Next]_vars =>
          [pc = "connection" /\ pc' = "recorded" => <<cur, at>> \notin got \ copied]_vars
    BY SendIsNew
  <1> QED
    BY <1>1, Inv4Init, Inv4Next, PTL DEF Spec, NoRedundantSend
-----------------------------------------------------------------------------
(***************************************************************************)
(* Announcements, as long as no clean-up was torn by a lost link.  Until   *)
(* the first of this iteration is recorded, nothing queued has been        *)
(* announced to; after it, all entries will be erased.  A link that is up  *)
(* and has an entry was handed an announcement, or found the entry.        *)
(***************************************************************************)

Up(h) == h \in DOMAIN connections /\ connections[h].connected

\* Places between the passes over the sent list and over connections.
Window == {"clean peers sent", "clean broadcast", "clean targeted",
           "clean connections"}

NoneDangling == Dead \notin targeted /\ <<Announce, Dead>> \notin sent

SweptOfStale ==
  pc \in Window => \A h \in DOMAIN connections :
                     connection_stale(h) => <<Announce, h>> \notin sent

Unannounced ==
  pc \in {"targeted", "told"} /\ Announce \notin done =>
    \A h \in targeted : <<Announce, h>> \notin sent

Drained == pc \notin {"targeted", "told"} => targeted = {}

QueuedUp == \A h \in targeted : Up(h) => h \in Available \cup inherits

SentUp == \A h \in Handles : <<Announce, h>> \in sent /\ Up(h) => h \in told \cup inherits

AtUp == pc = "told" /\ Up(at) => at \in told \cup inherits

DueUp ==
  /\ pc \notin {"targeted", "told"} => due = {}
  /\ \A h \in due : Up(h) /\ h \in targeted \cup told \cup inherits

AnnounceInv ==
  ~torn => /\ NoneDangling /\ SweptOfStale /\ Unannounced /\ Drained
           /\ QueuedUp /\ SentUp /\ AtUp /\ DueUp

Inv3 == Inv1 /\ AnnounceInv

LEMMA Inv3Init == Init => Inv3
  BY Inv1Init, MarkersAssumption
     DEF Inv3, Init, AnnounceInv, NoneDangling, SweptOfStale, Unannounced,
         Drained, QueuedUp, SentUp, AtUp, DueUp, Window

\* The entries under a packet, and those of the sent list that name it.
LEMMA SentToDef == ASSUME Inv1, NEW p, NEW h
                   PROVE  h \in SentTo(p) <=> <<p, h>> \in sent
  <1>1. \A e \in sent : e = <<e[1], e[2]>>
    BY DEF Inv1, TypeOK
  <1> QED
    BY <1>1 DEF SentTo

\* A write is recorded under a heap address, never under &announce.
LEMMA WriteSent ==
  ASSUME Inv1, NEW h \in Handles, NEW c \in Contents, processWrite(h, c), NEW x
  PROVE  <<Announce, x>> \in sent' <=> <<Announce, x>> \in sent
  <1>1. UNCHANGED sent \/ \E s \in Free, f \in {h, Dead} : sent' = sent \cup {<<s, f>>}
    BY DEF processWrite, storeAndEnqueue
  <1>2. \A s \in Free : s # Announce
    BY SlotsAssumption DEF Free
  <1> QED
    BY <1>1, <1>2

\* A step that leaves links and announcements alone.
LEMMA AnnounceKept ==
  ASSUME AnnounceInv,
         UNCHANGED <<connections, targeted, due, told, inherits, torn>>,
         \A x : <<Announce, x>> \in sent' <=> <<Announce, x>> \in sent,
         \/ UNCHANGED <<pc, at, done, now>>
         \/ /\ {pc, pc'} \cap {"targeted", "told"} = {}
            /\ pc' \in Window => pc \in Window /\ now' = now
  PROVE  AnnounceInv'
  <1> SUFFICES ASSUME ~torn
               PROVE  /\ NoneDangling' /\ SweptOfStale' /\ Unannounced' /\ Drained'
                      /\ QueuedUp' /\ SentUp' /\ AtUp' /\ DueUp'
    BY DEF AnnounceInv
  <1>1. NoneDangling /\ SweptOfStale /\ Unannounced /\ Drained
        /\ QueuedUp /\ SentUp /\ AtUp /\ DueUp
    BY DEF AnnounceInv
  <1>2. \A h : Up(h)' <=> Up(h)
    BY DEF Up
  <1>3. NoneDangling' /\ Unannounced' /\ Drained'
    BY <1>1 DEF NoneDangling, Unannounced, Drained
  <1>4. SweptOfStale'
    BY <1>1 DEF SweptOfStale, connection_stale, Old
  <1>5. QueuedUp'
    BY <1>1, <1>2 DEF QueuedUp, Available
  <1>6. SentUp'
    BY <1>1, <1>2 DEF SentUp
  <1>7. AtUp' /\ DueUp'
    BY <1>1, <1>2 DEF AtUp, DueUp
  <1> QED
    BY <1>3, <1>4, <1>5, <1>6, <1>7

LEMMA AnnounceInterrupt == Inv3 /\ Interrupt => AnnounceInv'
  <1> SUFFICES ASSUME Inv3, Interrupt PROVE AnnounceInv'
    OBVIOUS
  <1>0. Inv1 /\ AnnounceInv /\ TypeOK
    BY DEF Inv3, Inv1
  <1>1. CASE Tick
    BY <1>0, <1>1, AnnounceKept DEF Tick, control, history
  <1>2. CASE gpio_callback
    BY <1>0, <1>2, AnnounceKept DEF gpio_callback, control, history
  <1>3. ASSUME NEW h \in Handles, NEW c \in Contents, processWrite(h, c)
        PROVE  AnnounceInv'
    <2>1. UNCHANGED <<connections, targeted, due, told, inherits, torn, pc, at, done, now>>
      BY <1>3 DEF processWrite, control
    <2>2. \A x : <<Announce, x>> \in sent' <=> <<Announce, x>> \in sent
      BY <1>0, <1>3, WriteSent
    <2> QED
      BY <1>0, <2>1, <2>2, AnnounceKept
  <1> DEFINE Goal == /\ NoneDangling' /\ SweptOfStale' /\ Unannounced' /\ Drained'
                     /\ QueuedUp' /\ SentUp' /\ AtUp' /\ DueUp'
  <1>4. ASSUME NEW h \in Handles, NEW role \in RolesOf[h], NEW known \in BOOLEAN,
               reportConnection(h, role, known), ~torn
        PROVE  Goal
    <2>1. NoneDangling /\ SweptOfStale /\ Unannounced /\ Drained
          /\ QueuedUp /\ SentUp /\ AtUp /\ DueUp
      BY <1>0, <1>4 DEF AnnounceInv
    <2>2. UNCHANGED <<targeted, sent, due, torn, pc, at, done, now>>
      BY <1>4 DEF reportConnection, control
    <2>3. /\ DOMAIN connections' = DOMAIN connections \cup {h}
          /\ \A x \in DOMAIN connections \ {h} : connections'[x] = connections[x]
          /\ connections'[h].connected
      BY <1>4 DEF reportConnection, Put
    <2>4. told' = told \ {h} /\ inherits \ {h} \subseteq inherits'
      BY <1>4 DEF reportConnection
    <2>13. /\ h \in SentTo(Announce) => h \in inherits'
           /\ h \in targeted => h \in inherits'
           /\ pc = "told" /\ at = h => h \in inherits'
      BY <1>4 DEF reportConnection
    <2>5. \A x : x # h => (Up(x)' <=> Up(x)) /\ (x \in Available' <=> x \in Available)
      BY <2>3 DEF Up, Available
    <2>6. ~Up(h)
      BY <1>4 DEF reportConnection, Up
    <2>7. NoneDangling' /\ Unannounced' /\ Drained'
      BY <2>1, <2>2 DEF NoneDangling, Unannounced, Drained
    <2>8. SweptOfStale'
      BY <2>1, <2>2, <2>3 DEF SweptOfStale, connection_stale, Old
    <2>9. QueuedUp'
      BY <2>1, <2>2, <2>4, <2>13, <2>5 DEF QueuedUp
    <2>10. SentUp'
      <3>1. <<Announce, h>> \in sent => h \in inherits'
        BY <1>0, <2>13, SentToDef
      <3> QED
        BY <2>1, <2>2, <2>4, <2>5, <3>1 DEF SentUp
    <2>11. AtUp'
      BY <2>1, <2>2, <2>4, <2>13, <2>5 DEF AtUp
    <2>12. DueUp'
      BY <2>1, <2>2, <2>4, <2>5, <2>6 DEF DueUp
    <2> QED
      BY <2>7, <2>8, <2>9, <2>10, <2>11, <2>12
  <1>5. ASSUME NEW h \in Handles, learnValueHandle(h), ~torn
        PROVE  Goal
    <2>1. NoneDangling /\ SweptOfStale /\ Unannounced /\ Drained
          /\ QueuedUp /\ SentUp /\ AtUp /\ DueUp
      BY <1>0, <1>5 DEF AnnounceInv
    <2>2. UNCHANGED <<targeted, sent, due, told, inherits, torn, pc, at, done, now>>
      BY <1>5 DEF learnValueHandle, control, history
    <2>3. /\ DOMAIN connections' = DOMAIN connections
          /\ \A x \in DOMAIN connections :
               /\ connections'[x].connected <=> connections[x].connected
               /\ connections'[x].timestamp = connections[x].timestamp
               /\ connections[x].value_handle => connections'[x].value_handle
      BY <1>0, <1>5 DEF learnValueHandle, TypeOK, Connection
    <2>4. \A x : (Up(x)' <=> Up(x)) /\ (x \in Available => x \in Available')
      BY <2>3 DEF Up, Available
    <2>5. NoneDangling' /\ Unannounced' /\ Drained'
      BY <2>1, <2>2 DEF NoneDangling, Unannounced, Drained
    <2>6. SweptOfStale'
      BY <2>1, <2>2, <2>3 DEF SweptOfStale, connection_stale, Old
    <2>7. QueuedUp' /\ SentUp' /\ AtUp' /\ DueUp'
      BY <2>1, <2>2, <2>4 DEF QueuedUp, SentUp, AtUp, DueUp
    <2> QED
      BY <2>5, <2>6, <2>7
  <1>6. ASSUME NEW h \in Handles, reportDisconnection(h), ~torn'
        PROVE  Goal
    <2>1. ~torn /\ ~(pc \in Window /\ Old(h))
      BY <1>6 DEF reportDisconnection, Window
    <2>2. NoneDangling /\ SweptOfStale /\ Unannounced /\ Drained
          /\ QueuedUp /\ SentUp /\ AtUp /\ DueUp
      BY <1>0, <2>1 DEF AnnounceInv
    <2>3. /\ UNCHANGED <<targeted, sent, told, inherits, pc, at, done, now>>
          /\ due' = due \ {h}
      BY <1>6 DEF reportDisconnection, control
    <2>4. /\ DOMAIN connections' = DOMAIN connections
          /\ \A x \in DOMAIN connections \ {h} : connections'[x] = connections[x]
          /\ ~connections'[h].connected
          /\ connections'[h].timestamp = connections[h].timestamp
      BY <1>0, <1>6 DEF reportDisconnection, TypeOK, Connection
    <2>5. /\ \A x : x # h => (Up(x)' <=> Up(x)) /\ (x \in Available' <=> x \in Available)
          /\ ~Up(h)'
      BY <2>4 DEF Up, Available
    <2>6. NoneDangling' /\ Unannounced' /\ Drained'
      BY <2>2, <2>3 DEF NoneDangling, Unannounced, Drained
    <2>7. SweptOfStale'
      BY <2>1, <2>2, <2>3, <2>4 DEF SweptOfStale, connection_stale, Old
    <2>8. QueuedUp' /\ SentUp'
      BY <2>2, <2>3, <2>5 DEF QueuedUp, SentUp
    <2>9. AtUp' /\ DueUp'
      BY <2>2, <2>3, <2>5 DEF AtUp, DueUp
    <2> QED
      BY <2>6, <2>7, <2>8, <2>9
  <1>7. CASE \E h \in Handles : \/ \E role \in RolesOf[h], known \in BOOLEAN :
                                     reportConnection(h, role, known)
                                \/ learnValueHandle(h)
                                \/ reportDisconnection(h)
    <2>1. torn => torn'
      BY <1>7 DEF reportConnection, learnValueHandle, reportDisconnection, history
    <2>2. ~torn' => Goal
      BY <1>4, <1>5, <1>6, <1>7, <2>1
    <2> QED
      BY <2>2 DEF AnnounceInv
  <1> QED
    BY <1>1, <1>2, <1>3, <1>7 DEF Interrupt

LEMMA AnnounceMainLoop == Inv3 /\ MainLoop => AnnounceInv'
  <1> SUFFICES ASSUME Inv3, MainLoop PROVE AnnounceInv'
    OBVIOUS
  <1>0. Inv1 /\ AnnounceInv /\ TypeOK
    BY DEF Inv3, Inv1
  <1>1. CASE handlePinActivity \/ pinsQuiet \/ cleanupNotDue \/ cleanupStaleItems
    BY <1>0, <1>1, AnnounceKept
       DEF handlePinActivity, pinsQuiet, cleanupNotDue, cleanupStaleItems, data,
           history, Window
  <1>2. CASE passOver \/ sendBroadcast \/ endPacket \/ endBroadcast
    BY <1>0, <1>2, AnnounceKept
       DEF passOver, sendBroadcast, endPacket, endBroadcast, data, history, Window
  <1>3. ASSUME NEW s \in Slots, nextPacket(s) PROVE AnnounceInv'
    BY <1>0, <1>3, AnnounceKept DEF nextPacket, data, history, Window
  <1>4. CASE recordBroadcast
    <2>1. cur # Announce
      BY <1>0, <1>4, SlotsAssumption DEF recordBroadcast, Inv1, WalkOK
    <2>2. \A x : <<Announce, x>> \in sent' <=> <<Announce, x>> \in sent
      BY <1>4, <2>1 DEF recordBroadcast
    <2> QED
      BY <1>0, <1>4, <2>2, AnnounceKept DEF recordBroadcast, history, Window
  <1>5. CASE cleanPeersSent \/ cleanBroadcast
    BY <1>0, <1>5, AnnounceKept DEF cleanPeersSent, cleanBroadcast, history, Window
  <1>6. CASE cleanMessages \/ cleanPackets
    BY <1>0, <1>6, AnnounceKept DEF cleanMessages, cleanPackets, cleanStored, Window
  <1> DEFINE Goal == /\ NoneDangling' /\ SweptOfStale' /\ Unannounced' /\ Drained'
                     /\ QueuedUp' /\ SentUp' /\ AtUp' /\ DueUp'
             Now == /\ NoneDangling /\ SweptOfStale /\ Unannounced /\ Drained
                    /\ QueuedUp /\ SentUp /\ AtUp /\ DueUp
  <1>7. ~torn => Now
    BY <1>0 DEF AnnounceInv
  <1>8. ASSUME announceToConnections \/ announceNotDue, ~torn PROVE Goal
    <2>1. Now
      BY <1>7, <1>8
    <2>2. /\ pc = "announce" /\ pc' = "targeted"
          /\ UNCHANGED <<connections, sent, told, inherits>>
      BY <1>8 DEF announceToConnections, announceNotDue, data, history
    <2>3. targeted = {}
      BY <2>1, <2>2 DEF Drained
    <2>4. \A h \in targeted' : h \in Available /\ h # Dead /\ <<Announce, h>> \notin sent
      <3>1. \A h \in not_announced_to :
               h \in Available /\ h # Dead /\ <<Announce, h>> \notin sent
        BY <1>0, SentToDef, MarkersAssumption DEF not_announced_to, Available, TypeOK
      <3> QED
        BY <1>8, <2>3, <3>1 DEF announceToConnections, announceNotDue, data
    <2>5. \A h \in due' : h \in Available /\ h \in targeted' \cup told \cup inherits
      <3>1. CASE announceNotDue
        BY <2>1, <2>2, <3>1 DEF announceNotDue, history, DueUp
      <3>2. CASE announceToConnections
        <4>1. Dead \notin SentTo(Announce)
          BY <1>0, <2>1, SentToDef DEF NoneDangling
        <4>2. targeted' = not_announced_to
          BY <2>3, <3>2, <4>1 DEF announceToConnections
        <4>3. ASSUME NEW h \in due', h \notin targeted'
              PROVE  h \in Available /\ h \in told \cup inherits
          <5>1. h \in Available /\ offset >= BuildTime
            BY <3>2, <4>3 DEF announceToConnections
          <5>2. <<Announce, h>> \in sent
            BY <1>0, <4>2, <4>3, <5>1, SentToDef DEF not_announced_to
          <5>3. Up(h) /\ h \in Handles
            BY <1>0, <5>1 DEF Available, Up, TypeOK
          <5> QED
            BY <2>1, <5>1, <5>2, <5>3 DEF SentUp
        <4> QED
          BY <2>4, <4>3
      <3> QED
        BY <1>8, <3>1, <3>2
    <2>6. \A h : (Up(h)' <=> Up(h)) /\ (h \in Available' <=> h \in Available)
                 /\ (h \in Available => Up(h))
      BY <2>2 DEF Up, Available
    <2>7. NoneDangling' /\ SweptOfStale' /\ Unannounced' /\ Drained'
      BY <2>1, <2>2, <2>4
         DEF NoneDangling, SweptOfStale, Unannounced, Drained, Window
    <2>8. QueuedUp' /\ SentUp' /\ AtUp'
      BY <2>1, <2>2, <2>4, <2>6 DEF QueuedUp, SentUp, AtUp
    <2>9. DueUp'
      BY <2>2, <2>5, <2>6 DEF DueUp
    <2> QED
      BY <2>7, <2>8, <2>9
  <1>9. ASSUME NEW h \in Handles, sendTargeted(h), ~torn PROVE Goal
    <2>1. Now
      BY <1>7, <1>9
    <2>2. /\ pc = "targeted" /\ pc' = "told" /\ at' = h /\ h \in targeted
          /\ UNCHANGED <<connections, sent, targeted, due, inherits, done>>
          /\ told' = IF h \in Available THEN told \cup {h} ELSE told
      BY <1>9 DEF sendTargeted, data
    <2>3. \A x : (Up(x)' <=> Up(x)) /\ (x \in Available' <=> x \in Available)
      BY <2>2 DEF Up, Available
    <2>4. NoneDangling' /\ SweptOfStale' /\ Unannounced' /\ Drained'
      BY <2>1, <2>2 DEF NoneDangling, SweptOfStale, Unannounced, Drained, Window
    <2>5. QueuedUp' /\ SentUp' /\ DueUp'
      BY <2>1, <2>2, <2>3 DEF QueuedUp, SentUp, DueUp
    <2>6. AtUp'
      BY <2>1, <2>2, <2>3 DEF AtUp, QueuedUp
    <2> QED
      BY <2>4, <2>5, <2>6
  <1>10. ASSUME recordTargeted, ~torn PROVE Goal
    <2>1. Now
      BY <1>7, <1>10
    <2>2. /\ pc = "told" /\ pc' = "targeted" /\ sent' = sent \cup {<<Announce, at>>}
          /\ UNCHANGED <<connections, targeted, due, told, inherits>>
          /\ Announce \in done'
      BY <1>10 DEF recordTargeted, history
    <2>3. at # Dead
      BY <1>0, <2>2, MarkersAssumption DEF Inv1, WalkOK
    <2>4. \A x : (Up(x)' <=> Up(x)) /\ (x \in Available' <=> x \in Available)
      BY <2>2 DEF Up, Available
    <2>5. NoneDangling' /\ SweptOfStale' /\ Unannounced' /\ Drained'
      BY <2>1, <2>2, <2>3 DEF NoneDangling, SweptOfStale, Unannounced, Drained, Window
    <2>6. QueuedUp' /\ DueUp' /\ AtUp'
      BY <2>1, <2>2, <2>4 DEF QueuedUp, DueUp, AtUp
    <2>7. SentUp'
      BY <2>1, <2>2, <2>4 DEF SentUp, AtUp
    <2> QED
      BY <2>5, <2>6, <2>7
  <1>11. ASSUME endTargeted, ~torn PROVE Goal
    <2>1. Now
      BY <1>7, <1>11
    <2>2. /\ pc = "targeted" /\ pc' = "broadcast" /\ due' = {}
          /\ UNCHANGED <<connections, told, inherits>>
          /\ \A h \in targeted \ {Dead} : Unneeded(h)
      BY <1>11 DEF endTargeted
    <2>3. Dead \notin targeted /\ Dead \notin SentTo(Announce)
      BY <1>0, <2>1, SentToDef DEF NoneDangling
    <2>4. \A h \in targeted : <<Announce, h>> \in sent
      BY <1>0, <2>2, <2>3, SentToDef DEF Unneeded
    <2>5. targeted' = {} /\ sent' = sent
      <3>1. sent' = sent /\ targeted' = IF Announce \in done THEN {} ELSE targeted
        BY <1>11, <2>3 DEF endTargeted
      <3>2. Announce \notin done => targeted = {}
        BY <2>1, <2>2, <2>4 DEF Unannounced
      <3> QED
        BY <3>1, <3>2
    <2>6. \A x : Up(x)' <=> Up(x)
      BY <2>2 DEF Up
    <2>7. NoneDangling' /\ SweptOfStale' /\ Unannounced' /\ Drained'
      BY <2>1, <2>2, <2>5 DEF NoneDangling, SweptOfStale, Unannounced, Drained, Window
    <2>8. QueuedUp' /\ SentUp' /\ AtUp' /\ DueUp'
      BY <2>1, <2>2, <2>5, <2>6 DEF QueuedUp, SentUp, AtUp, DueUp
    <2> QED
      BY <2>7, <2>8
  <1>12. ASSUME cleanSent, ~torn PROVE Goal
    <2>1. Now
      BY <1>7, <1>12
    <2>2. /\ pc = "clean sent" /\ pc' = "clean peers sent" /\ sent' \subseteq sent
          /\ UNCHANGED <<connections, targeted, due, now>>
          /\ told' = {h \in told : <<Announce, h>> \in sent'}
          /\ inherits' = {h \in inherits : <<Announce, h>> \in sent'}
      BY <1>12 DEF cleanSent
    <2>3. targeted = {} /\ due = {}
      BY <2>1, <2>2 DEF Drained, DueUp
    <2>4. \A x : Up(x)' <=> Up(x)
      BY <2>2 DEF Up
    <2>5. NoneDangling' /\ Unannounced' /\ Drained' /\ QueuedUp' /\ AtUp' /\ DueUp'
      BY <2>1, <2>2, <2>3
         DEF NoneDangling, Unannounced, Drained, QueuedUp, AtUp, DueUp
    <2>6. SentUp'
      BY <2>1, <2>2, <2>4 DEF SentUp
    <2>7. SweptOfStale'
      <3> SUFFICES ASSUME NEW h \in DOMAIN connections, connection_stale(h)
                   PROVE  <<Announce, h>> \notin sent'
        BY <2>2 DEF SweptOfStale, connection_stale, Old
      <3>1. packet_connection_stale(<<Announce, h>>)
        BY DEF packet_connection_stale
      <3> QED
        BY <1>12, <3>1 DEF cleanSent
    <2> QED
      BY <2>5, <2>6, <2>7
  <1>13. ASSUME cleanTargeted, ~torn PROVE Goal
    <2>1. Now
      BY <1>7, <1>13
    <2>2. /\ pc = "clean targeted" /\ pc' = "clean connections"
          /\ targeted' \subseteq targeted
          /\ UNCHANGED <<connections, sent, due, told, inherits, now>>
      BY <1>13 DEF cleanTargeted, history
    <2>3. targeted = {} /\ due = {}
      BY <2>1, <2>2 DEF Drained, DueUp
    <2>4. \A x : Up(x)' <=> Up(x)
      BY <2>2 DEF Up
    <2>5. NoneDangling' /\ Unannounced' /\ Drained' /\ QueuedUp' /\ AtUp' /\ DueUp'
      BY <2>1, <2>2, <2>3
         DEF NoneDangling, Unannounced, Drained, QueuedUp, AtUp, DueUp
    <2>6. SentUp'
      BY <2>1, <2>2, <2>4 DEF SentUp
    <2>7. SweptOfStale'
      BY <2>1, <2>2 DEF SweptOfStale, Window, connection_stale, Old
    <2> QED
      BY <2>5, <2>6, <2>7
  <1>14. ASSUME cleanConnections, ~torn PROVE Goal
    <2> DEFINE lost == {h \in DOMAIN connections : connection_stale(h)}
               Left(h) == IF h \in lost THEN Dead ELSE h
    <2>1. Now
      BY <1>7, <1>14
    <2>2. /\ pc = "clean connections" /\ pc' = "clean messages"
          /\ connections' = Drop(connections, lost)
          /\ sent' = {<<e[1], Left(e[2])>> : e \in sent}
          /\ targeted' = {Left(h) : h \in targeted}
          /\ told' = told \ lost /\ inherits' = inherits \ lost
          /\ due' = due
      BY <1>14 DEF cleanConnections
    <2>3. targeted' = {} /\ due' = {}
      BY <2>1, <2>2 DEF Drained, DueUp
    <2>4. \A h \in lost : <<Announce, h>> \notin sent
      BY <2>1, <2>2 DEF SweptOfStale, Window
    <2> HIDE DEF lost
    <2>5. \A x : <<Announce, x>> \in sent' => <<Announce, x>> \in sent
      <3> SUFFICES ASSUME NEW x, NEW e \in sent, <<Announce, x>> = <<e[1], Left(e[2])>>
                   PROVE  <<Announce, x>> \in sent
        BY <2>2
      <3>1. e = <<e[1], e[2]>> /\ e[1] = Announce /\ x = Left(e[2])
        BY <1>0 DEF TypeOK
      <3>2. e[2] \notin lost
        BY <2>4, <3>1
      <3> QED
        BY <3>1, <3>2
    <2>6. \A x : Up(x)' => Up(x) /\ x \notin lost
      BY <2>2 DEF Up, Drop
    <2>7. NoneDangling' /\ SweptOfStale' /\ Unannounced' /\ Drained'
          /\ QueuedUp' /\ AtUp' /\ DueUp'
      BY <2>1, <2>2, <2>3, <2>5
         DEF NoneDangling, SweptOfStale, Unannounced, Drained, QueuedUp, AtUp,
             DueUp, Window
    <2>8. SentUp'
      BY <2>1, <2>2, <2>5, <2>6 DEF SentUp
    <2> QED
      BY <2>7, <2>8
  <1>15. CASE \/ announceToConnections \/ announceNotDue
              \/ \E h \in Handles : sendTargeted(h)
              \/ recordTargeted \/ endTargeted \/ cleanSent \/ cleanTargeted
              \/ cleanConnections
    <2>1. torn' = torn
      BY <1>15 DEF announceToConnections, announceNotDue, sendTargeted,
                   recordTargeted, endTargeted, cleanSent, cleanTargeted,
                   cleanConnections, history
    <2>2. ~torn => Goal
      BY <1>8, <1>9, <1>10, <1>11, <1>12, <1>13, <1>14, <1>15
    <2> QED
      BY <2>1, <2>2 DEF AnnounceInv
  <1> QED
    BY <1>1, <1>2, <1>3, <1>4, <1>5, <1>6, <1>15 DEF MainLoop, sendPackets

LEMMA Inv3Next == Inv3 /\ [Next]_vars => Inv3'
  <1>1. Inv3 /\ UNCHANGED vars => AnnounceInv'
    BY AnnounceKept DEF Inv3, vars
  <1> QED
    BY <1>1, Inv1Next, AnnounceInterrupt, AnnounceMainLoop DEF Inv3, Next

\* The announcements queued in one iteration of the main loop all leave in the
\* sendPackets of that iteration, as long as no clean-up has lost an old link
\* between its passes over the sent list and over connections.
THEOREM AnnouncementsDrain == Spec => []TargetedDrained
  <1>1. Inv3 => TargetedDrained
    BY DEF Inv3, AnnounceInv, Drained, TargetedDrained
  <1> QED
    BY <1>1, Inv3Init, Inv3Next, PTL DEF Spec

\* The step that ends the targeted sends, and what every link it owes an
\* announcement has had.
LEMMA EndsTold ==
  ASSUME Inv3, [Next]_vars, pc = "targeted", pc' = "broadcast", ~torn
  PROVE  due \subseteq told \cup inherits
  <1>1. endTargeted
    BY DEF Next, Interrupt, MainLoop, sendPackets, Tick, gpio_callback,
           reportConnection, learnValueHandle, reportDisconnection,
           processWrite, handlePinActivity, pinsQuiet, announceToConnections,
           announceNotDue, sendTargeted, recordTargeted, sendBroadcast,
           nextPacket, passOver, recordBroadcast, endPacket, endBroadcast,
           cleanupStaleItems, cleanupNotDue, cleanSent, cleanPeersSent,
           cleanBroadcast, cleanTargeted, cleanConnections, cleanMessages,
           cleanPackets, control, vars
  <1>2. Inv1 /\ NoneDangling /\ SentUp /\ DueUp
    BY DEF Inv3, AnnounceInv
  <1>3. ASSUME NEW h \in due, h \in targeted PROVE <<Announce, h>> \in sent
    <2>1. Unneeded(h) /\ Dead \notin SentTo(Announce)
      BY <1>1, <1>2, <1>3, SentToDef DEF endTargeted, NoneDangling
    <2> QED
      BY <1>2, <2>1, SentToDef DEF Unneeded
  <1>4. \A h \in due : Up(h) /\ h \in Handles
    BY <1>2 DEF DueUp, Inv1, TypeOK
  <1> QED
    BY <1>2, <1>3, <1>4 DEF DueUp, SentUp

\* Every link that announceToConnections finds available and that stays up is
\* handed an announcement before the main loop goes on, again after each
\* clean-up that forgets it, unless it found the announcement of its handle's
\* earlier link (or a clean-up was torn).
THEOREM LinksAnnouncedTo == Spec => AnnouncedInTime
  <1>1. Inv3 /\ [Next]_vars =>
          [pc = "targeted" /\ pc' = "broadcast" =>
             torn \/ due \subseteq told \cup inherits]_vars
    BY EndsTold
  <1> QED
    BY <1>1, Inv3Init, Inv3Next, PTL DEF Spec, AnnouncedInTime
=============================================================================
