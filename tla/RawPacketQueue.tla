--------------------------- MODULE RawPacketQueue ---------------------------
(***************************************************************************)
(* The last hop of the tracker: SendPacketToConnection leaves the encoded  *)
(* packet in a multimap and asks BTstack for a callback; the callback,     *)
(* notifyRawPacket or writeRawPacket, hands one packet to BTstack and asks *)
(* again while there is more.                                              *)
(*                                                                         *)
(* Packets are numbered in the order they are queued.  Each multimap has a *)
(* single static registration, whose context is the handle of whoever      *)
(* asked last.  BTstack is modelled by the set of connections with a       *)
(* request outstanding: the callback may run for any of them.              *)
(***************************************************************************)
EXTENDS Integers, Sequences

CONSTANTS
  Handles,      \* HCI connection handles
  NoHandle,     \* no context or no entry
  MaxPackets    \* bound on the packets queued

ASSUME HandlesAssumption == Handles \subseteq Nat
ASSUME NoHandleAssumption == NoHandle \notin Handles
ASSUME BoundsAssumption == MaxPackets \in Nat

VARIABLES
  connected,  \* handle -> is the link up
  role,       \* handle -> the role of its last link
  has_data,   \* handle -> has_data_to_send
  raw,        \* kind -> handle -> queue of packets (the two multimaps)
  context,    \* kind -> context of the static registration
  pending,    \* kind -> connections with a request outstanding in BTstack
  queued,     \* the number of packets queued so far
  dest,       \* history: packet -> the multimap and handle it was queued for
  wire        \* history: <<packet, handle>> in the order of transmission

vars == <<connected, role, has_data, raw, context, pending, queued, dest,
          wire>>

Kinds == {"notify", "write"}
Codes == {"SUCCESS", "BUSY", "UNKNOWN_CONNECTION"}

\* Notifications on links we accepted, writes on links we opened.
KindOf(h) == IF role[h] = "slave" THEN "notify" ELSE "write"

\* equal_range(h).first: when h has no entry this is the first entry of the
\* next higher handle, and it is compared with end() only.
FirstFor(k, h) ==
  LET from == {x \in Handles : x >= h /\ raw[k][x] # << >>}
  IN IF from = {} THEN NoHandle
     ELSE CHOOSE x \in from : \A y \in from : x <= y

\* Slip: a registration that has a context keeps it.
Registered_Once(k, h) == IF context[k] = NoHandle THEN [context EXCEPT ![k] = h] ELSE context

\* The static registration with the context of who asks.
Registered(k, h) == [context EXCEPT ![k] = h]

\* att_server_request_to_send_notification and the GATT client's counterpart:
\* refused when the link is gone, idempotent while a request is outstanding.
Request(k, h) ==
  /\ context' = Registered(k, h)
  /\ pending' = IF connected[h] THEN [pending EXCEPT ![k] = @ \cup {h}]
                                ELSE pending

Init ==
  /\ connected = [h \in Handles |-> FALSE]
  /\ role = [h \in Handles |-> "none"]
  /\ has_data = [h \in Handles |-> FALSE]
  /\ raw = [k \in Kinds |-> [h \in Handles |-> << >>]]
  /\ context = [k \in Kinds |-> NoHandle]
  /\ pending = [k \in Kinds |-> {}]
  /\ queued = 0
  /\ dest = << >> /\ wire = << >>

-----------------------------------------------------------------------------
\* A record made from an available neighbour (known) forgets has_data.
reportConnection(h, r, known) ==
  /\ ~connected[h]
  /\ connected' = [connected EXCEPT ![h] = TRUE]
  /\ role' = [role EXCEPT ![h] = r]
  /\ has_data' = IF known THEN [has_data EXCEPT ![h] = FALSE] ELSE has_data
  /\ UNCHANGED <<raw, context, pending, queued, dest, wire>>

\* The queued packets stay; BTstack drops the link's requests.
reportDisconnection(h) ==
  /\ connected[h]
  /\ connected' = [connected EXCEPT ![h] = FALSE]
  /\ pending' = [k \in Kinds |-> pending[k] \ {h}]
  /\ UNCHANGED <<role, has_data, raw, context, queued, dest, wire>>

\* The record is erased; the next access makes a fresh one.
cleanupStaleItems(h) ==
  /\ ~connected[h] /\ role[h] # "none"
  /\ role' = [role EXCEPT ![h] = "none"]
  /\ has_data' = [has_data EXCEPT ![h] = FALSE]
  /\ UNCHANGED <<connected, raw, context, pending, queued, dest,
                 wire>>

\* Slip: a packet behind others leaves the mark alone.
SetHasData_First(k, h) ==
  IF raw[k][h] = << >> THEN [has_data EXCEPT ![h] = TRUE] ELSE has_data

\* ble_connection.setHasData(true)
SetHasData(k, h) == [has_data EXCEPT ![h] = TRUE]

\* Any record will do: the link may just have gone.
SendPacketToConnection(h) ==
  /\ queued < MaxPackets /\ role[h] # "none"
  /\ LET k == KindOf(h)
     IN /\ raw' = [raw EXCEPT ![k][h] = Append(@, queued + 1)]
        /\ Request(k, h)
        /\ dest' = Append(dest, <<k, h>>)
        /\ has_data' = SetHasData(k, h)
  /\ queued' = queued + 1
  /\ UNCHANGED <<connected, role, wire>>

\* Slip: the entry is dropped only when the link is gone.
Erased_OnlyUnknown(ret) == ret = "UNKNOWN_CONNECTION"

\* ERROR_CODE_SUCCESS and ERROR_CODE_UNKNOWN_CONNECTION_IDENTIFIER drop the
\* entry, any other result keeps it.
Erased(ret) == ret \in {"SUCCESS", "UNKNOWN_CONNECTION"}

\* The results BTstack can give on a link.
Results(h) == IF connected[h] THEN {"SUCCESS", "BUSY"} ELSE {"UNKNOWN_CONNECTION"}

\* Slip: the second look starts after the handle's own entries.
AskAgain_UpperBound(h, left) ==
  IF connected[h] /\ \E y \in Handles : y > h /\ left[y] # << >> THEN {h} ELSE {}

\* The second equal_range: ask again while it does not reach end().  The
\* status is ignored, and the request is refused when the link is gone.
AskAgain(h, left) ==
  IF connected[h] /\ \E y \in Handles : y >= h /\ left[y] # << >> THEN {h} ELSE {}

\* packet_can_send_notification_handler then notifyRawPacket, or the same for
\* writes: BTstack calls for connection b, the code acts on the context.
rawPacket(k, b, ret) ==
  /\ b \in pending[k]
  /\ LET h == context[k]
         x == FirstFor(k, h)
     IN /\ ret \in Results(h)
        /\ raw' = IF x # NoHandle /\ Erased(ret)
                  THEN [raw EXCEPT ![k][x] = Tail(@)] ELSE raw
        /\ wire' = IF x # NoHandle /\ ret = "SUCCESS"
                   THEN Append(wire, <<Head(raw[k][x]), h>>) ELSE wire
        /\ pending' = [pending EXCEPT ![k] = (@ \ {b}) \cup AskAgain(h, raw'[k])]
  /\ UNCHANGED <<connected, role, has_data, context, queued, dest>>

notifyRawPacket(b, ret) == rawPacket("notify", b, ret)
writeRawPacket(b, ret) == rawPacket("write", b, ret)

Next ==
  \E h \in Handles :
    \/ \E r \in {"master", "slave"}, known \in BOOLEAN : reportConnection(h, r, known)
    \/ reportDisconnection(h)
    \/ cleanupStaleItems(h)
    \/ SendPacketToConnection(h)
    \/ \E ret \in Codes : notifyRawPacket(h, ret)
    \/ \E ret \in Codes : writeRawPacket(h, ret)

Spec == Init /\ [][Next]_vars

\* BTstack answers a request on a link that stays up, and does not report full
\* buffers for ever.
FairSpec ==
  /\ Spec
  /\ \A h \in Handles : /\ SF_vars(notifyRawPacket(h, "SUCCESS"))
                         /\ SF_vars(writeRawPacket(h, "SUCCESS"))

-----------------------------------------------------------------------------
(***************************************************************************)
(* Properties.                                                             *)
(***************************************************************************)

\* notifyRawPacket and writeRawPacket transmit every packet at most once, and
\* the packets queued for one connection in the order they were queued, even
\* with the requests of several connections sharing one registration.
InOrder ==
  \A i, j \in DOMAIN wire :
    i < j /\ dest[wire[i][1]] = dest[wire[j][1]] => wire[i][1] < wire[j][1]

\* The packets of at most one handle wait in multimap k.
OneWaits(k) ==
  \A x, y \in Handles : raw[k][x] # << >> /\ raw[k][y] # << >> => x = y

\* As long as packets of two handles never wait in one multimap at a time,
\* every packet leaves on the connection it was queued for: links may take
\* turns, be lost and return, results may be busy, and callbacks run for a
\* connection other than the context's.  (With packets of two handles waiting,
\* equal_range of the one that has no more finds those of the next handle.)
OwnLink ==
  \A k \in Kinds :
    []OneWaits(k)
      => [](\A i \in DOMAIN wire :
              dest[wire[i][1]][1] = k => wire[i][2] = dest[wire[i][1]][2])

\* While no second link is ever open, an outstanding request ends with
\* everything queued for the link transmitted, or with the link gone: the chain
\* of requests that notifyRawPacket and writeRawPacket repeat does not break.
\* (A second link can overwrite the context and leave the first one waiting.)
Drains ==
  \A k \in Kinds, h \in Handles :
    [](\A y \in Handles \ {h} : ~connected[y])
      => (h \in pending[k] ~> raw[k][h] = << >> \/ ~connected[h])

\* ASSERT_DEBUG(connection.hasData()) of both callbacks: while no second link
\* is ever open, the record of the context has data whenever BTstack may call
\* and an entry is found, over disconnections that leave packets queued,
\* records that are replaced or erased, and links that return.  (With two
\* links, an entry of the other handle can be found, and it fails.)
AssertHolds ==
  \A h \in Handles :
    [](\A y \in Handles \ {h} : ~connected[y])
      => [](\A k \in Kinds :
              h \in pending[k] /\ FirstFor(k, context[k]) # NoHandle
                => has_data[context[k]])
=============================================================================
