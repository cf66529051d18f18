----------------------------- MODULE Connector -----------------------------
(***************************************************************************)
(* How the repeater finds neighbours, connects to them and discovers their *)
(* characteristic: the scan and connect part of main.cpp's loop, its       *)
(* BTstack event handlers and the neighbour table of BleConnectionTracker. *)
(*                                                                         *)
(* Four flags, shared by the main loop and the handlers without a lock,    *)
(* gate the next gap_connect.  The main loop can be interrupted between    *)
(* any two calls of connect_to_first_neighbour and of                      *)
(* start_scanning_for_local_nodes; a handler runs to its end.              *)
(***************************************************************************)
EXTENDS Integers, FiniteSets

CONSTANTS
  Addresses,    \* peers that advertise the service, in the order of the map
  Repeaters,    \* those that advertise the name "Repeater", too
  Randoms,      \* those with a random address, which are never connected to
  Offers,       \* those whose service has the packet characteristic
  Handles,      \* HCI connection handles
  NoHandle,     \* what the event of a failed connect carries as its handle
  Environment,  \* what peers and radio may do, see below
  Nobody        \* no address

\* "drop":        a link is lost while no discovery runs on it
\* "dropMidway":  a link is lost during its discovery
\* "readvertise": a peer goes on advertising while it has a link to us
\* "quick":       a link event arrives inside connect_to_first_neighbour
\* "fail":        a connect ends without a link
Happenings == {"drop", "dropMidway", "readvertise", "quick", "fail"}

ASSUME AddressesAssumption == Addresses \subseteq Nat /\ Nobody \notin Addresses
ASSUME PeersAssumption == Repeaters \cup Randoms \cup Offers \subseteq Addresses
ASSUME HandlesAssumption == NoHandle \notin Handles
ASSUME EnvironmentAssumption == Environment \subseteq Happenings

VARIABLES
  neighbours,              \* keys of available_neighbours
  connections,             \* handle -> record
  query,                   \* handle -> GATT query BTstack is running on it
  pending,                 \* the address BTstack is connecting to, or Nobody
  synced,                  \* timestamp_offset_ms >= build_time_ms
  scanning,
  armed,                   \* stop_scan_timer_source is in BTstack's run loop
  connection_in_progress,
  discover_primary_services,
  discover_characteristics_for_service,
  pc,                      \* where the main loop is
  chosen,                  \* the pointer `neighbour`; Nobody once it dangles
  mishap                   \* history: quick, fail, or a discovery cut off where
                           \* the next query was due; happens once (a bound)

flags == <<scanning, armed, connection_in_progress, discover_primary_services,
           discover_characteristics_for_service>>
loop == <<pc, chosen>>
vars == <<neighbours, connections, query, pending, synced, scanning, armed,
          connection_in_progress, discover_primary_services,
          discover_characteristics_for_service, pc, chosen, mishap>>

Init ==
  /\ neighbours = {} /\ connections = [h \in {} |-> 0]
  /\ query = [h \in Handles |-> "none"] /\ pending = Nobody
  /\ synced = FALSE
  /\ scanning = TRUE /\ armed = TRUE
  /\ connection_in_progress = FALSE
  /\ discover_primary_services = FALSE
  /\ discover_characteristics_for_service = FALSE
  /\ pc = "gate" /\ chosen = Nobody /\ mishap = FALSE

Linked == {h \in DOMAIN connections : connections[h].connected}

\* getConnectionForAddress finds a connection.
Connected(a) == \E h \in Linked : connections[h].address = a

\* The radio has a link to a: a record made by a failed connect is none.
HasLink(a) == \E h \in Linked \cap Handles : connections[h].address = a

\* The main loop is inside connect_to_first_neighbour.
InConnect == pc \in {"chosen", "checked", "started"}

\* getConnectableNeighbours
Connectable == {a \in neighbours : (synced \/ a \in Repeaters) /\ a \notin Randoms}

-----------------------------------------------------------------------------
(***************************************************************************)
(* Handlers.                                                               *)
(***************************************************************************)

\* possiblyUpdateTimeOffset, seen from here.
clockChanges ==
  /\ ~synced /\ Linked # {}
  /\ synced' = TRUE
  /\ UNCHANGED <<neighbours, connections, query, pending, flags, loop, mishap>>

\* GAP_EVENT_ADVERTISING_REPORT with the service in it: addAvailablePeer.
advertisingReport(a) ==
  /\ scanning
  /\ HasLink(a) => "readvertise" \in Environment
  /\ neighbours' = neighbours \cup {a}
  /\ UNCHANGED <<connections, query, pending, synced, flags, loop, mishap>>

\* reportConnection: a neighbour's record replaces what the handle had; any
\* other address inherits it.  The neighbour's node is freed.
reportConnection(h, a) ==
  LET stays == h \in DOMAIN connections /\ a \notin neighbours
      new == [connected |-> TRUE, address |-> a,
              service |-> stays /\ connections[h].service,
              value_handle |-> stays /\ connections[h].value_handle]
  IN /\ connections' = [x \in DOMAIN connections \cup {h} |->
                          IF x = h THEN new ELSE connections[x]]
     /\ neighbours' = neighbours \ {a}
     /\ chosen' = IF chosen = a THEN Nobody ELSE chosen

\* Slip: connection_in_progress is not reset.
connectionEvent_NoReset(h, a) ==
  /\ InConnect => "quick" \in Environment /\ ~mishap
  /\ reportConnection(h, a)
  /\ pending' = IF pending = a THEN Nobody ELSE pending
  /\ discover_primary_services' = TRUE
  /\ UNCHANGED <<synced, scanning, armed, connection_in_progress,
                 discover_characteristics_for_service, pc>>

\* LE_META and META_GAP connection complete; the status is not looked at.
connectionEvent(h, a) ==
  /\ InConnect => "quick" \in Environment /\ ~mishap
  /\ reportConnection(h, a)
  /\ pending' = IF pending = a THEN Nobody ELSE pending
  /\ connection_in_progress' = FALSE
  /\ discover_primary_services' = TRUE
  /\ UNCHANGED <<synced, scanning, armed,
                 discover_characteristics_for_service, pc>>

\* A link, outgoing (a is pending) or incoming, ATT_EVENT_CONNECTED included.
connectionComplete(h, a) ==
  /\ h \notin Linked /\ ~HasLink(a)
  /\ connectionEvent(h, a)
  /\ query' = [query EXCEPT ![h] = "services"]
  /\ mishap' = (mishap \/ InConnect)

\* The connect has failed: BTstack refuses the query on a handle it does not
\* know, so that no completion follows.
connectionFailed ==
  /\ "fail" \in Environment /\ ~mishap
  /\ pending # Nobody
  /\ connectionEvent(NoHandle, pending)
  /\ mishap' = TRUE
  /\ UNCHANGED query

\* GATT_EVENT_SERVICE_QUERY_RESULT: storeHandlesIfServiceMatches.
serviceResult(h) ==
  /\ h \in Linked /\ query[h] = "services" /\ ~connections[h].service
  /\ connections' = [connections EXCEPT ![h].service = TRUE]
  /\ UNCHANGED <<neighbours, query, pending, synced, flags, loop, mishap>>

\* GATT_EVENT_CHARACTERISTIC_QUERY_RESULT: storeHandlesIfCharacteristicMatches.
characteristicResult(h) ==
  /\ h \in Linked /\ query[h] = "characteristics"
  /\ ~connections[h].value_handle /\ connections[h].address \in Offers
  /\ connections' = [connections EXCEPT ![h].value_handle = TRUE]
  /\ UNCHANGED <<neighbours, query, pending, synced, flags, loop, mishap>>

\* A subscription written by the peer: att_write_callback.
subscribed(h) ==
  /\ h \in Linked /\ ~connections[h].value_handle
  /\ connections' = [connections EXCEPT ![h].value_handle = TRUE]
  /\ UNCHANGED <<neighbours, query, pending, synced, flags, loop, mishap>>

\* Slip: the query is repeated although its answer is known.
canAndNeedToDiscover_Again(h) == connections[h].service

canAndNeedToDiscover(h) ==
  connections[h].service /\ ~connections[h].value_handle

\* GATT_EVENT_QUERY_COMPLETE clears the flags of every link and asks for the
\* characteristic if it can; the status is not looked at.
handleQueryComplete(h) ==
  /\ discover_primary_services' = FALSE
  /\ discover_characteristics_for_service' = canAndNeedToDiscover(h)

queryComplete(h) ==
  /\ h \in Linked /\ query[h] # "none"
  /\ handleQueryComplete(h)
  /\ query' = [query EXCEPT ![h] = IF canAndNeedToDiscover(h)
                                   THEN "characteristics" ELSE "none"]
  /\ UNCHANGED <<neighbours, connections, pending, synced, scanning, armed,
                 connection_in_progress, loop, mishap>>

\* HCI_EVENT_DISCONNECTION_COMPLETE.  BTstack completes the query it was
\* running and drops one that is asked for on the dying link.
reportDisconnection(h) ==
  /\ h \in Linked \cap Handles
  /\ IF query[h] = "none"
     THEN /\ "drop" \in Environment
          /\ UNCHANGED <<discover_primary_services,
                         discover_characteristics_for_service, mishap>>
     ELSE /\ "dropMidway" \in Environment
          /\ handleQueryComplete(h)
          /\ canAndNeedToDiscover(h) => ~mishap
          /\ mishap' = (mishap \/ canAndNeedToDiscover(h))
  /\ query' = [query EXCEPT ![h] = "none"]
  /\ connections' = [connections EXCEPT ![h].connected = FALSE]
  /\ UNCHANGED <<neighbours, pending, synced, scanning, armed,
                 connection_in_progress, loop>>

stop_scan_handler ==
  /\ armed
  /\ scanning' = FALSE /\ armed' = FALSE
  /\ UNCHANGED <<neighbours, connections, query, pending, synced,
                 connection_in_progress, discover_primary_services,
                 discover_characteristics_for_service, loop, mishap>>

Handler ==
  \/ clockChanges
  \/ \E a \in Addresses : advertisingReport(a)
  \/ \E h \in Handles :
       \/ \E a \in Addresses : connectionComplete(h, a)
       \/ serviceResult(h) \/ characteristicResult(h) \/ subscribed(h)
       \/ queryComplete(h)
       \/ reportDisconnection(h)
  \/ connectionFailed
  \/ stop_scan_handler

-----------------------------------------------------------------------------
(***************************************************************************)
(* The main loop.                                                          *)
(***************************************************************************)

Busy == connection_in_progress \/ discover_primary_services
        \/ discover_characteristics_for_service

\* The addresses a read through `neighbour` can give.
Pointed == IF chosen = Nobody THEN Addresses \cup {Nobody} ELSE {chosen}

\* The gate is open and the first connectable neighbour is taken.
chooseNeighbour ==
  /\ pc = "gate" /\ ~scanning /\ ~Busy
  /\ \E a \in Connectable : /\ \A b \in Connectable : a <= b
                            /\ chosen' = a
  /\ pc' = "chosen"
  /\ UNCHANGED <<neighbours, connections, query, pending, synced, flags, mishap>>

\* getConnectionForAddress: nothing is tried if the neighbour is connected.
checkConnection ==
  /\ pc = "chosen"
  /\ \E a \in Pointed : pc' = IF Connected(a) THEN "gate" ELSE "checked"
  /\ UNCHANGED <<neighbours, connections, query, pending, synced, flags,
                 chosen, mishap>>

\* BTstack refuses while it is connecting, when the link exists and when it has
\* no connection left.
gap_connect ==
  /\ pc = "checked"
  /\ \E a \in Pointed :
       IF pending = Nobody /\ ~HasLink(a) /\ ~(Handles \subseteq Linked)
       THEN pending' = a /\ pc' = "started"
       ELSE pending' = pending /\ pc' = "gate"
  /\ UNCHANGED <<neighbours, connections, query, synced, flags, chosen, mishap>>

setConnectionStarted ==
  /\ pc = "started"
  /\ \E a \in Pointed : neighbours' = neighbours \ {a}
  /\ connection_in_progress' = TRUE
  /\ pc' = "gate" /\ chosen' = Nobody
  /\ UNCHANGED <<connections, query, pending, synced, scanning, armed,
                 discover_primary_services,
                 discover_characteristics_for_service, mishap>>

\* start_scanning_for_local_nodes, up to the flag.
start_scanning ==
  /\ pc = "gate"
  /\ scanning' = TRUE
  /\ pc' = "arming"
  /\ UNCHANGED <<neighbours, connections, query, pending, synced, armed,
                 connection_in_progress, discover_primary_services,
                 discover_characteristics_for_service, chosen, mishap>>

\* Slip: the timer is set but not added again.
armTimer_SetOnly ==
  /\ pc = "arming"
  /\ pc' = "gate"
  /\ UNCHANGED <<neighbours, connections, query, pending, synced, flags, chosen, mishap>>

\* ... and from there on.
armTimer ==
  /\ pc = "arming"
  /\ armed' = TRUE
  /\ pc' = "gate"
  /\ UNCHANGED <<neighbours, connections, query, pending, synced, scanning,
                 connection_in_progress, discover_primary_services,
                 discover_characteristics_for_service, chosen, mishap>>

\* What cleanupStaleItems does here: old neighbours and old records of lost
\* links are erased.
cleanupStaleItems ==
  /\ pc = "gate"
  /\ \E old \in SUBSET neighbours, lost \in SUBSET (DOMAIN connections \ Linked) :
       /\ neighbours' = neighbours \ old
       /\ connections' = [h \in DOMAIN connections \ lost |-> connections[h]]
  /\ UNCHANGED <<query, pending, synced, flags, loop, mishap>>

Connecting == chooseNeighbour \/ checkConnection \/ gap_connect
              \/ setConnectionStarted

Next == Handler \/ Connecting \/ start_scanning \/ armTimer \/ cleanupStaleItems

Spec == Init /\ [][Next]_vars

\* BTstack's queries end and report what the peer offers.
FairSpec ==
  /\ Spec
  /\ \A h \in Handles : WF_vars(queryComplete(h)) /\ SF_vars(characteristicResult(h))

\* Besides, connects that were accepted end, the scan timer fires and the main
\* loop goes on.  The gate is found open if it is open again and again: a scan
\* takes two seconds of every five minutes.
LoopSpec ==
  /\ FairSpec
  /\ SF_vars(\E h \in Handles : pending # Nobody /\ connectionComplete(h, pending))
  /\ WF_vars(checkConnection \/ gap_connect \/ setConnectionStarted \/ armTimer)
  /\ WF_vars(stop_scan_handler)
  /\ SF_vars(chooseNeighbour)

-----------------------------------------------------------------------------
(***************************************************************************)
(* Properties.                                                             *)
(***************************************************************************)

\* A scan that is on will be stopped: stop_scan_timer_source is in the run
\* loop, or start_scanning_for_local_nodes is about to put it there.
ScanWillStop == scanning => armed \/ pc = "arming"

\* connection_in_progress is set only while BTstack is connecting: unless a
\* link event hits connect_to_first_neighbour, the main loop never waits for an
\* event that has come already.
ProgressIsReal == connection_in_progress /\ ~mishap => pending # Nobody

\* The flags of connecting and discovering are all down again and again,
\* however the discoveries of several links, which share them, interleave,
\* but for three ways to stay busy that the code has, and no other: a connect
\* that never ends (there is no cancel and no timeout), a link to a peer whose
\* service lacks the characteristic, which handleQueryComplete asks for again
\* and again, and the flag that a mishap leaves up until the next link comes.
GateReopens ==
  \/ []<>~Busy
  \/ <>[](pending # Nobody)
  \/ \E h \in Handles : <>[](h \in Linked /\ connections[h].address \notin Offers)
  \/ <>mishap /\ <>[][\A h \in Handles, a \in Addresses : ~connectionComplete(h, a)]_vars

\* readme.md: the repeater is there "to join everyone together".  A neighbour
\* that can be connected to is connected to, or leaves the table.
NeighboursTried ==
  \A a \in Addresses :
    []<>(\/ a \notin neighbours \/ a \in Randoms
         \/ ~synced /\ a \notin Repeaters
         \/ Connected(a))
=============================================================================
