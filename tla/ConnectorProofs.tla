-------------------------- MODULE ConnectorProofs --------------------------
(***************************************************************************)
(* Proofs about Connector, for any peers, handles and environment.         *)
(***************************************************************************)
EXTENDS Connector, TLAPS

-----------------------------------------------------------------------------
(***************************************************************************)
(* The scan.  ScanWillStop is inductive as it stands: the flag is raised   *)
(* only on the way to armTimer, and only stop_scan_handler takes the timer *)
(* out of the run loop.                                                    *)
(***************************************************************************)

LEMMA ScanHandler == ScanWillStop /\ Handler => ScanWillStop'
  <1> SUFFICES ASSUME ScanWillStop, Handler PROVE ScanWillStop'
    OBVIOUS
  <1> USE DEF ScanWillStop, flags, loop
  <1>1. CASE clockChanges
    BY <1>1 DEF clockChanges
  <1>2. ASSUME NEW a \in Addresses, advertisingReport(a) PROVE ScanWillStop'
    BY <1>2 DEF advertisingReport
  <1>3. ASSUME NEW h \in Handles, NEW a \in Addresses, connectionComplete(h, a)
        PROVE  ScanWillStop'
    BY <1>3 DEF connectionComplete, connectionEvent
  <1>4. ASSUME NEW h \in Handles, serviceResult(h) PROVE ScanWillStop'
    BY <1>4 DEF serviceResult
  <1>5. ASSUME NEW h \in Handles, characteristicResult(h) PROVE ScanWillStop'
    BY <1>5 DEF characteristicResult
  <1>6. ASSUME NEW h \in Handles, subscribed(h) PROVE ScanWillStop'
    BY <1>6 DEF subscribed
  <1>7. ASSUME NEW h \in Handles, queryComplete(h) PROVE ScanWillStop'
    BY <1>7 DEF queryComplete
  <1>8. ASSUME NEW h \in Handles, reportDisconnection(h) PROVE ScanWillStop'
    BY <1>8 DEF reportDisconnection
  <1>9. CASE connectionFailed
    BY <1>9 DEF connectionFailed, connectionEvent
  <1>10. CASE stop_scan_handler
    BY <1>10 DEF stop_scan_handler
  <1> QED
    BY <1>1, <1>2, <1>3, <1>4, <1>5, <1>6, <1>7, <1>8, <1>9, <1>10 DEF Handler

LEMMA ScanLoop ==
    ScanWillStop /\ (Connecting \/ start_scanning \/ armTimer \/ cleanupStaleItems)
      => ScanWillStop'
  <1> SUFFICES ASSUME ScanWillStop,
                      Connecting \/ start_scanning \/ armTimer \/ cleanupStaleItems
               PROVE  ScanWillStop'
    OBVIOUS
  <1> USE DEF ScanWillStop, flags, loop
  <1>1. CASE chooseNeighbour
    BY <1>1 DEF chooseNeighbour
  <1>2. CASE checkConnection
    BY <1>2 DEF checkConnection
  <1>3. CASE gap_connect
    BY <1>3 DEF gap_connect
  <1>4. CASE setConnectionStarted
    BY <1>4 DEF setConnectionStarted
  <1>5. CASE start_scanning
    BY <1>5 DEF start_scanning
  <1>6. CASE armTimer
    BY <1>6 DEF armTimer
  <1>7. CASE cleanupStaleItems
    BY <1>7 DEF cleanupStaleItems
  <1> QED
    BY <1>1, <1>2, <1>3, <1>4, <1>5, <1>6, <1>7 DEF Connecting

\* A scan that is on will be stopped, whatever peers and radio do:
\* start_scanning_for_local_nodes and stop_scan_handler never leave the flag
\* up without a timer.
THEOREM ScanStops == Spec => []ScanWillStop
  <1>1. Init => ScanWillStop
    BY DEF Init, ScanWillStop
  <1>2. ScanWillStop /\ [Next]_vars => ScanWillStop'
    <2>1. ScanWillStop /\ UNCHANGED vars => ScanWillStop'
      BY DEF ScanWillStop, vars
    <2> QED
      BY <2>1, ScanHandler, ScanLoop DEF Next
  <1> QED
    BY <1>1, <1>2, PTL DEF Spec

-----------------------------------------------------------------------------
(***************************************************************************)
(* The flag of a connect in progress.  setConnectionStarted raises it some *)
(* steps after gap_connect, so what it relies on has to be kept all the    *)
(* way: the neighbour it was given, and the connect that was accepted.     *)
(***************************************************************************)

\* The pointer is live until a link event hits connect_to_first_neighbour.
ChosenLive == InConnect /\ ~mishap => chosen \in Addresses

\* So is the connect that setConnectionStarted is about to mark.
StartedReal == pc = "started" /\ ~mishap => pending # Nobody

ProgressInv ==
  /\ neighbours \subseteq Addresses
  /\ mishap \in BOOLEAN
  /\ ChosenLive
  /\ StartedReal
  /\ ProgressIsReal

\* A link event: it takes the flag down with the connect, and counts as a
\* mishap inside connect_to_first_neighbour.
LEMMA ProgressEvent ==
  ASSUME ProgressInv, NEW h, NEW a, connectionEvent(h, a),
         mishap' \in BOOLEAN, mishap \/ InConnect => mishap'
  PROVE  ProgressInv'
  <1>1. pc' = pc /\ connection_in_progress' = FALSE
    BY DEF connectionEvent
  <1>2. neighbours' \subseteq Addresses
    BY DEF connectionEvent, reportConnection, ProgressInv
  <1>3. InConnect' = InConnect
    BY <1>1 DEF InConnect
  <1>4. ~mishap' => ~InConnect
    OBVIOUS
  <1> QED
    BY <1>1, <1>2, <1>3, <1>4
       DEF ProgressInv, ChosenLive, StartedReal, ProgressIsReal, InConnect

\* What does not touch the connect.
LEMMA ProgressKept ==
  ASSUME ProgressInv, neighbours' \subseteq Addresses, mishap' \in BOOLEAN,
         mishap => mishap', UNCHANGED <<loop, pending, connection_in_progress>>
  PROVE  ProgressInv'
  BY DEF ProgressInv, ChosenLive, StartedReal, ProgressIsReal, InConnect, loop

LEMMA ProgressHandler == ProgressInv /\ Handler => ProgressInv'
  <1> SUFFICES ASSUME ProgressInv, Handler PROVE ProgressInv'
    OBVIOUS
  <1>0. neighbours \subseteq Addresses /\ mishap \in BOOLEAN
    BY DEF ProgressInv
  <1>1. CASE clockChanges
    BY <1>0, <1>1, ProgressKept DEF clockChanges, flags
  <1>2. ASSUME NEW a \in Addresses, advertisingReport(a) PROVE ProgressInv'
    BY <1>0, <1>2, ProgressKept DEF advertisingReport, flags
  <1>3. ASSUME NEW h \in Handles, NEW a \in Addresses, connectionComplete(h, a)
        PROVE  ProgressInv'
    <2>1. mishap' = (mishap \/ InConnect) /\ connectionEvent(h, a)
      BY <1>3 DEF connectionComplete
    <2> QED
      BY <2>1, ProgressEvent
  <1>4. ASSUME NEW h \in Handles, serviceResult(h) PROVE ProgressInv'
    BY <1>0, <1>4, ProgressKept DEF serviceResult, flags
  <1>5. ASSUME NEW h \in Handles, characteristicResult(h) PROVE ProgressInv'
    BY <1>0, <1>5, ProgressKept DEF characteristicResult, flags
  <1>6. ASSUME NEW h \in Handles, subscribed(h) PROVE ProgressInv'
    BY <1>0, <1>6, ProgressKept DEF subscribed, flags
  <1>7. ASSUME NEW h \in Handles, queryComplete(h) PROVE ProgressInv'
    BY <1>0, <1>7, ProgressKept DEF queryComplete, flags
  <1>8. ASSUME NEW h \in Handles, reportDisconnection(h) PROVE ProgressInv'
    <2>1. mishap' \in BOOLEAN /\ (mishap => mishap')
      BY <1>0, <1>8 DEF reportDisconnection
    <2> QED
      BY <1>0, <1>8, <2>1, ProgressKept DEF reportDisconnection
  <1>9. CASE connectionFailed
    BY <1>9, ProgressEvent DEF connectionFailed
  <1>10. CASE stop_scan_handler
    BY <1>0, <1>10, ProgressKept DEF stop_scan_handler
  <1> QED
    BY <1>1, <1>2, <1>3, <1>4, <1>5, <1>6, <1>7, <1>8, <1>9, <1>10 DEF Handler

LEMMA ProgressLoop ==
    ProgressInv /\ (Connecting \/ start_scanning \/ armTimer \/ cleanupStaleItems)
      => ProgressInv'
  <1> SUFFICES ASSUME ProgressInv,
                      Connecting \/ start_scanning \/ armTimer \/ cleanupStaleItems
               PROVE  ProgressInv'
    OBVIOUS
  <1> USE DEF ProgressInv, ChosenLive, StartedReal, ProgressIsReal, InConnect,
              flags, loop
  <1>1. CASE chooseNeighbour
    <2>1. chosen' \in Addresses
      BY <1>1 DEF chooseNeighbour, Connectable
    <2> QED
      BY <1>1, <2>1 DEF chooseNeighbour
  <1>2. CASE checkConnection
    <2>1. pc = "chosen" /\ pc' \in {"gate", "checked"}
      BY <1>2 DEF checkConnection
    <2> QED
      BY <1>2, <2>1 DEF checkConnection
  <1>3. CASE gap_connect
    <2>1. PICK a \in Pointed :
            \/ pending' = a /\ pc' = "started"
            \/ pending' = pending /\ pc' = "gate"
      BY <1>3 DEF gap_connect
    <2>2. ~mishap => a \in Addresses /\ a # Nobody
      BY <1>3, AddressesAssumption DEF gap_connect, Pointed
    <2>3. pending = Nobody \/ pc' = "gate"
      BY <1>3 DEF gap_connect
    <2> QED
      BY <1>3, <2>1, <2>2, <2>3 DEF gap_connect
  <1>4. CASE setConnectionStarted
    BY <1>4 DEF setConnectionStarted
  <1>5. CASE start_scanning
    BY <1>5 DEF start_scanning
  <1>6. CASE armTimer
    BY <1>6 DEF armTimer
  <1>7. CASE cleanupStaleItems
    BY <1>7 DEF cleanupStaleItems
  <1> QED
    BY <1>1, <1>2, <1>3, <1>4, <1>5, <1>6, <1>7 DEF Connecting

\* connection_in_progress never waits for an event that has come, unless a
\* link event came between the calls of connect_to_first_neighbour or a
\* connect failed; with any number of links and any order of their events.
THEOREM ProgressReal == Spec => []ProgressIsReal
  <1>1. Init => ProgressInv
    BY DEF Init, ProgressInv, ChosenLive, StartedReal, ProgressIsReal, InConnect
  <1>2. ProgressInv /\ [Next]_vars => ProgressInv'
    <2>1. ProgressInv /\ UNCHANGED vars => ProgressInv'
      BY DEF ProgressInv, ChosenLive, StartedReal, ProgressIsReal, InConnect, vars
    <2> QED
      BY <2>1, ProgressHandler, ProgressLoop DEF Next
  <1>3. ProgressInv => ProgressIsReal
    BY DEF ProgressInv
  <1> QED
    BY <1>1, <1>2, <1>3, PTL DEF Spec
=============================================================================
