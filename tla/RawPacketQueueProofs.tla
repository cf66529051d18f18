------------------------ MODULE RawPacketQueueProofs ------------------------
(***************************************************************************)
(* Proofs about RawPacketQueue, for any handles and any number of packets. *)
(***************************************************************************)
EXTENDS RawPacketQueue, WellFoundedInduction, TLAPS

-----------------------------------------------------------------------------
(***************************************************************************)
(* The multimaps.                                                          *)
(***************************************************************************)

LEMMA SmallestHandle ==
  ASSUME NEW S \in SUBSET Nat, S # {}
  PROVE  \E m \in S : \A n \in S : m <= n
  <1>1. PICK m \in S : \A k \in S : <<k, m>> \notin OpToRel(<, Nat)
    BY WFMin, NatLessThanWellFounded, Zenon
  <1>2. m \in Nat /\ \A k \in S : ~(k < m)
    BY <1>1, Zenon DEF OpToRel
  <1> QED
    BY <1>2

\* The entry that equal_range(h).first finds is of h or of a handle above.
LEMMA FirstForAbove ==
  ASSUME NEW k \in Kinds, NEW h \in Handles, FirstFor(k, h) # NoHandle
  PROVE  /\ FirstFor(k, h) \in Handles
         /\ FirstFor(k, h) >= h
         /\ raw[k][FirstFor(k, h)] # << >>
  <1> DEFINE from == {x \in Handles : x >= h /\ raw[k][x] # << >>}
  <1>1. from # {}
    BY DEF FirstFor
  <1>2. from \in SUBSET Nat
    BY HandlesAssumption
  <1>3. \E x \in from : \A y \in from : x <= y
    BY <1>1, <1>2, SmallestHandle
  <1>4. FirstFor(k, h) \in from
    BY <1>1, <1>3 DEF FirstFor
  <1> QED
    BY <1>4

TypeOK ==
  /\ role \in [Handles -> {"none", "master", "slave"}]
  /\ raw \in [Kinds -> [Handles -> Seq(Nat)]]
  /\ context \in [Kinds -> Handles \cup {NoHandle}]
  /\ pending \in [Kinds -> SUBSET Handles]
  /\ queued \in Nat
  /\ dest \in Seq(Kinds \X Handles) /\ Len(dest) = queued
  /\ wire \in Seq(Nat \X Handles)
  /\ \A k \in Kinds : pending[k] # {} => context[k] \in Handles

\* The entries of a handle are packets queued for it, in the order in which
\* they were queued.
RawInv ==
  \A k \in Kinds, x \in Handles :
    /\ \A i \in 1 .. Len(raw[k][x]) :
         raw[k][x][i] \in 1 .. queued /\ dest[raw[k][x][i]] = <<k, x>>
    /\ \A i, j \in 1 .. Len(raw[k][x]) : i < j => raw[k][x][i] < raw[k][x][j]

\* What was transmitted was queued, and before everything that waits for the
\* same handle in the same multimap.
WireInv ==
  \A n \in 1 .. Len(wire) :
    /\ wire[n][1] \in 1 .. queued
    /\ \A k \in Kinds, x \in Handles :
         dest[wire[n][1]] = <<k, x>> =>
           \A i \in 1 .. Len(raw[k][x]) : wire[n][1] < raw[k][x][i]

Inv == TypeOK /\ RawInv /\ WireInv /\ InOrder

LEMMA InvInit == Init => Inv
  <1> SUFFICES ASSUME Init PROVE Inv
    OBVIOUS
  <1>1. TypeOK
    BY DEF Init, TypeOK
  <1>2. RawInv
    BY DEF Init, RawInv
  <1>3. WireInv /\ InOrder
    BY DEF Init, WireInv, InOrder
  <1> QED
    BY <1>1, <1>2, <1>3 DEF Inv

\* Steps that leave the queues and the wire alone.
LEMMA QueuesKept ==
  ASSUME Inv, TypeOK', UNCHANGED <<raw, queued, dest, wire>>
  PROVE  Inv'
  BY DEF Inv, RawInv, WireInv, InOrder

LEMMA InvSend ==
  ASSUME Inv, NEW h \in Handles, SendPacketToConnection(h)
  PROVE  Inv'
  <1> DEFINE k == KindOf(h)
  <1>1. k \in Kinds
    BY DEF KindOf, Kinds
  <1>2. /\ raw' = [raw EXCEPT ![k][h] = Append(@, queued + 1)]
        /\ dest' = Append(dest, <<k, h>>)
        /\ queued' = queued + 1 /\ wire' = wire
        /\ context' = [context EXCEPT ![k] = h]
        /\ pending' = IF connected[h] THEN [pending EXCEPT ![k] = @ \cup {h}] ELSE pending
        /\ role' = role
    BY DEF SendPacketToConnection, Request, Registered
  <1> HIDE DEF k
  <1>3. TypeOK'
    <2> USE DEF Inv, TypeOK
    <2>1. raw' \in [Kinds -> [Handles -> Seq(Nat)]]
      BY <1>1, <1>2
    <2>2. /\ dest' \in Seq(Kinds \X Handles) /\ Len(dest') = queued'
          /\ queued' \in Nat /\ wire' \in Seq(Nat \X Handles)
      BY <1>1, <1>2
    <2>3. /\ context' \in [Kinds -> Handles \cup {NoHandle}]
          /\ pending' \in [Kinds -> SUBSET Handles]
          /\ \A x \in Kinds : pending'[x] # {} => context'[x] \in Handles
      BY <1>1, <1>2
    <2> QED
      BY <1>2, <2>1, <2>2, <2>3
  <1>4. \A p \in 1 .. queued : dest'[p] = dest[p]
    BY <1>1, <1>2 DEF Inv, TypeOK
  <1>5. dest'[queued + 1] = <<k, h>>
    BY <1>1, <1>2 DEF Inv, TypeOK
  <1>6. ASSUME NEW m \in Kinds, NEW x \in Handles, ~(m = k /\ x = h)
        PROVE  raw'[m][x] = raw[m][x]
    BY <1>1, <1>2, <1>6 DEF Inv, TypeOK
  <1>7. /\ raw'[k][h] = Append(raw[k][h], queued + 1)
        /\ raw[k][h] \in Seq(Nat)
        /\ queued \in Nat
    BY <1>1, <1>2 DEF Inv, TypeOK
  <1>8. /\ Len(raw'[k][h]) = Len(raw[k][h]) + 1
        /\ \A i \in 1 .. Len(raw[k][h]) : raw'[k][h][i] = raw[k][h][i]
        /\ raw'[k][h][Len(raw[k][h]) + 1] = queued + 1
        /\ Len(raw[k][h]) \in Nat
    BY <1>7
  <1>kept. ASSUME NEW p \in 1 .. queued PROVE p \in 1 .. queued' /\ dest'[p] = dest[p]
    <2>1. p \in 1 .. queued'
      BY <1>2, <1>7
    <2> QED
      BY <2>1, <1>4
  <1>9. RawInv'
    <2>1. ASSUME NEW m \in Kinds, NEW x \in Handles, NEW i \in 1 .. Len(raw'[m][x])
          PROVE  raw'[m][x][i] \in 1 .. queued' /\ dest'[raw'[m][x][i]] = <<m, x>>
      <3>1. CASE ~(m = k /\ x = h)
        <4>1. i \in 1 .. Len(raw[m][x]) /\ raw'[m][x][i] = raw[m][x][i]
          BY <3>1, <1>6
        <4>2. raw[m][x][i] \in 1 .. queued /\ dest[raw[m][x][i]] = <<m, x>>
          BY <4>1 DEF Inv, RawInv
        <4> QED
          BY <4>1, <4>2, <1>kept
      <3>2. CASE m = k /\ x = h /\ i \in 1 .. Len(raw[k][h])
        <4>1. raw'[m][x][i] = raw[m][x][i]
          BY <3>2, <1>8
        <4>2. raw[m][x][i] \in 1 .. queued /\ dest[raw[m][x][i]] = <<m, x>>
          BY <3>2 DEF Inv, RawInv
        <4> QED
          BY <4>1, <4>2, <1>kept
      <3>3. CASE m = k /\ x = h /\ i = Len(raw[k][h]) + 1
        <4>1. raw'[m][x][i] = queued + 1 /\ dest'[queued + 1] = <<m, x>>
          BY <3>3, <1>5, <1>8
        <4>2. queued + 1 \in 1 .. queued'
          BY <1>2, <1>7
        <4> QED
          BY <4>1, <4>2
      <3> QED
        BY <3>1, <3>2, <3>3, <1>8
    <2>2. ASSUME NEW m \in Kinds, NEW x \in Handles,
                 NEW i \in 1 .. Len(raw'[m][x]), NEW j \in 1 .. Len(raw'[m][x]), i < j
          PROVE  raw'[m][x][i] < raw'[m][x][j]
      <3>1. CASE ~(m = k /\ x = h)
        BY <3>1, <2>2, <1>6 DEF Inv, RawInv
      <3>2. CASE m = k /\ x = h /\ j \in 1 .. Len(raw[k][h])
        <4>1. i \in 1 .. Len(raw[k][h])
          BY <3>2, <2>2, <1>8
        <4> QED
          BY <4>1, <3>2, <2>2, <1>1, <1>8 DEF Inv, RawInv
      <3>3. CASE m = k /\ x = h /\ j = Len(raw[k][h]) + 1
        <4>1. i \in 1 .. Len(raw[k][h])
          BY <3>3, <2>2, <1>8
        <4>2. raw[k][h][i] \in 1 .. queued
          BY <4>1, <1>1 DEF Inv, RawInv
        <4>3. raw'[m][x][i] = raw[k][h][i] /\ raw'[m][x][j] = queued + 1
          BY <4>1, <3>3, <1>8, Zenon
        <4>4. raw[k][h][i] < queued + 1
          BY <4>2, <1>7
        <4> QED
          BY <4>3, <4>4, Zenon
      <3> QED
        BY <3>1, <3>2, <3>3, <1>8
    <2> QED
      BY <2>1, <2>2 DEF RawInv
  <1>10. ASSUME NEW n \in 1 .. Len(wire)
         PROVE  wire[n][1] \in 1 .. queued /\ dest'[wire[n][1]] = dest[wire[n][1]]
    BY <1>4 DEF Inv, WireInv
  <1>11. WireInv'
    <2>1. ASSUME NEW n \in 1 .. Len(wire), NEW m \in Kinds, NEW x \in Handles,
                 dest'[wire[n][1]] = <<m, x>>, NEW i \in 1 .. Len(raw'[m][x])
          PROVE  wire[n][1] < raw'[m][x][i]
      <3>1. CASE ~(m = k /\ x = h)
        BY <3>1, <2>1, <1>6, <1>10 DEF Inv, WireInv
      <3>2. CASE m = k /\ x = h /\ i \in 1 .. Len(raw[k][h])
        BY <3>2, <2>1, <1>1, <1>8, <1>10 DEF Inv, WireInv
      <3>3. CASE m = k /\ x = h /\ i = Len(raw[k][h]) + 1
        BY <3>3, <1>7, <1>8, <1>10
      <3> QED
        BY <3>1, <3>2, <3>3, <1>8
    <2>2. \A n \in 1 .. Len(wire) : wire[n][1] \in 1 .. queued'
      BY <1>2, <1>7, <1>10
    <2> QED
      BY <1>2, <2>1, <2>2 DEF WireInv
  <1>12. DOMAIN wire = 1 .. Len(wire)
    BY DEF Inv, TypeOK
  <1>13. InOrder'
    <2>1. ASSUME NEW i \in DOMAIN wire, NEW j \in DOMAIN wire, i < j,
                 dest'[wire[i][1]] = dest'[wire[j][1]]
          PROVE  wire[i][1] < wire[j][1]
      <3>1. dest[wire[i][1]] = dest[wire[j][1]]
        BY <2>1, <1>10, <1>12
      <3> QED
        BY <3>1, <2>1 DEF Inv, InOrder
    <2> QED
      BY <2>1, <1>2 DEF InOrder
  <1> QED
    BY <1>3, <1>9, <1>11, <1>13 DEF Inv
\* The callback.  It acts on the context k has, whoever it was called for.
LEMMA InvRawPacket ==
  ASSUME Inv, NEW k \in Kinds, NEW b \in Handles, NEW ret \in Codes, rawPacket(k, b, ret)
  PROVE  Inv'
  <1> DEFINE h == context[k]
             x == FirstFor(k, h)
  <1>1. h \in Handles
    BY DEF rawPacket, Inv, TypeOK
  <1>2. UNCHANGED <<connected, role, context, queued, dest>>
    BY DEF rawPacket
  <1>3. \A m \in Kinds : pending'[m] # {} => context'[m] \in Handles
    <2>1. \A m \in Kinds : pending'[m] = pending[m] \/ m = k
      BY DEF rawPacket, Inv, TypeOK
    <2> QED
      BY <2>1, <1>1, <1>2 DEF Inv, TypeOK
  <1>4. pending' \in [Kinds -> SUBSET Handles]
    <2>1. AskAgain(h, raw'[k]) \subseteq Handles
      BY <1>1 DEF AskAgain
    <2> QED
      BY <2>1 DEF rawPacket, Inv, TypeOK
  <1>5. CASE raw' = raw /\ wire' = wire
    <2>1. TypeOK'
      BY <1>2, <1>3, <1>4, <1>5 DEF Inv, TypeOK
    <2> QED
      BY <1>2, <1>5, <2>1, QueuesKept
  <1>6. CASE ~(raw' = raw /\ wire' = wire)
    <2>1. x # NoHandle
      BY <1>6 DEF rawPacket
    <2>2. x \in Handles /\ x >= h /\ raw[k][x] # << >>
      BY <1>1, <2>1, FirstForAbove
    <2>3. /\ raw' = [raw EXCEPT ![k][x] = Tail(@)]
          /\ wire' = wire \/ wire' = Append(wire, <<Head(raw[k][x]), h>>)
      BY <1>6 DEF rawPacket, Erased
    <2> HIDE DEF x, h
    <2> DEFINE s == raw[k][x]
    <2>4. /\ s \in Seq(Nat) /\ s # << >>
          /\ raw' \in [Kinds -> [Handles -> Seq(Nat)]]
          /\ raw'[k][x] = Tail(s)
      BY <2>2, <2>3 DEF Inv, TypeOK
    <2>5. ASSUME NEW m \in Kinds, NEW y \in Handles, ~(m = k /\ y = x)
          PROVE  raw'[m][y] = raw[m][y]
      BY <2>2, <2>3, <2>5 DEF Inv, TypeOK
    <2>6. /\ Len(s) \in Nat /\ Len(s) >= 1
          /\ Len(Tail(s)) = Len(s) - 1
          /\ \A i \in 1 .. Len(Tail(s)) : Tail(s)[i] = s[i + 1]
          /\ Head(s) = s[1]
      BY <2>4
    <2> HIDE DEF s
    <2>7. /\ 1 \in 1 .. Len(s)
          /\ \A i \in 1 .. Len(Tail(s)) : i + 1 \in 1 .. Len(s)
      BY <2>6
    <2>8. /\ s[1] \in 1 .. queued /\ dest[s[1]] = <<k, x>>
          /\ \A i \in 1 .. Len(Tail(s)) : s[1] < s[i + 1]
      <3>1. s[1] \in 1 .. queued /\ dest[s[1]] = <<k, x>>
        BY <2>2, <2>7 DEF Inv, RawInv, s
      <3>2. \A i, j \in 1 .. Len(s) : i < j => s[i] < s[j]
        BY <2>2 DEF Inv, RawInv, s
      <3> QED
        BY <3>1, <3>2, <2>7
    <2>9. RawInv'
      <3>1. ASSUME NEW m \in Kinds, NEW y \in Handles, NEW i \in 1 .. Len(raw'[m][y])
            PROVE  raw'[m][y][i] \in 1 .. queued' /\ dest'[raw'[m][y][i]] = <<m, y>>
        <4>1. CASE ~(m = k /\ y = x)
          <5>1. raw'[m][y] = raw[m][y]
            BY <4>1, <2>5
          <5>2. raw[m][y][i] \in 1 .. queued /\ dest[raw[m][y][i]] = <<m, y>>
            BY <5>1 DEF Inv, RawInv
          <5> QED
            BY <5>1, <5>2, <1>2
        <4>2. CASE m = k /\ y = x
          <5>1. raw'[m][y][i] = s[i + 1] /\ i + 1 \in 1 .. Len(s)
            BY <4>2, <2>4, <2>6, <2>7
          <5>2. s[i + 1] \in 1 .. queued /\ dest[s[i + 1]] = <<m, y>>
            BY <4>2, <5>1 DEF Inv, RawInv, s
          <5> QED
            BY <5>1, <5>2, <1>2
        <4> QED
          BY <4>1, <4>2
      <3>2. ASSUME NEW m \in Kinds, NEW y \in Handles,
                   NEW i \in 1 .. Len(raw'[m][y]), NEW j \in 1 .. Len(raw'[m][y]), i < j
            PROVE  raw'[m][y][i] < raw'[m][y][j]
        <4>1. CASE ~(m = k /\ y = x)
          BY <4>1, <3>2, <2>5 DEF Inv, RawInv
        <4>2. CASE m = k /\ y = x
          <5>1. /\ raw'[m][y][i] = s[i + 1] /\ i + 1 \in 1 .. Len(s)
                /\ raw'[m][y][j] = s[j + 1] /\ j + 1 \in 1 .. Len(s)
            BY <4>2, <2>4, <2>6, <2>7
          <5>2. i + 1 < j + 1
            BY <3>2
          <5>3. s[i + 1] < s[j + 1]
            BY <4>2, <5>1, <5>2 DEF Inv, RawInv, s
          <5> QED
            BY <5>1, <5>3
        <4> QED
          BY <4>1, <4>2
      <3> QED
        BY <3>1, <3>2 DEF RawInv
    <2>10. ASSUME NEW n \in 1 .. Len(wire), NEW m \in Kinds, NEW y \in Handles,
                  dest[wire[n][1]] = <<m, y>>
           PROVE  /\ \A i \in 1 .. Len(raw'[m][y]) : wire[n][1] < raw'[m][y][i]
                  /\ (m = k /\ y = x) => wire[n][1] < s[1]
      <3>1. \A i \in 1 .. Len(raw[m][y]) : wire[n][1] < raw[m][y][i]
        BY <2>10 DEF Inv, WireInv
      <3>2. CASE ~(m = k /\ y = x)
        BY <3>1, <3>2, <2>5
      <3>3. CASE m = k /\ y = x
        BY <3>1, <3>3, <2>4, <2>6, <2>7 DEF s
      <3> QED
        BY <3>2, <3>3
    <2>11. CASE wire' = wire
      <3>1. TypeOK'
        BY <1>2, <1>3, <1>4, <2>4, <2>11 DEF Inv, TypeOK
      <3>2. WireInv'
        BY <1>2, <2>10, <2>11 DEF Inv, WireInv
      <3>3. InOrder'
        BY <1>2, <2>11 DEF Inv, InOrder
      <3> QED
        BY <3>1, <3>2, <3>3, <2>9 DEF Inv
    <2>12. CASE wire' = Append(wire, <<s[1], h>>)
      <3>1. wire \in Seq(Nat \X Handles) /\ queued \in Nat
        BY DEF Inv, TypeOK
      <3>2. <<s[1], h>> \in Nat \X Handles
        BY <2>8, <1>1, <3>1
      <3>3. /\ wire' \in Seq(Nat \X Handles)
            /\ Len(wire') = Len(wire) + 1
            /\ Len(wire) \in Nat
            /\ \A n \in 1 .. Len(wire) : wire'[n] = wire[n]
            /\ wire'[Len(wire) + 1] = <<s[1], h>>
            /\ DOMAIN wire' = 1 .. Len(wire')
            /\ DOMAIN wire = 1 .. Len(wire)
        BY <2>12, <3>1, <3>2
      <3>4. TypeOK'
        BY <1>2, <1>3, <1>4, <2>4, <3>3 DEF Inv, TypeOK
      <3>5. WireInv'
        <4>1. ASSUME NEW n \in 1 .. Len(wire')
              PROVE  /\ wire'[n][1] \in 1 .. queued'
                     /\ \A m \in Kinds, y \in Handles :
                          dest'[wire'[n][1]] = <<m, y>> =>
                            \A i \in 1 .. Len(raw'[m][y]) : wire'[n][1] < raw'[m][y][i]
          <5>1. CASE n \in 1 .. Len(wire)
            BY <5>1, <3>3, <2>10, <1>2 DEF Inv, WireInv
          <5>2. CASE n = Len(wire) + 1
            <6>1. wire'[n][1] = s[1]
              BY <5>2, <3>3
            <6>2. ASSUME NEW m \in Kinds, NEW y \in Handles, <<k, x>> = <<m, y>>,
                         NEW i \in 1 .. Len(raw'[m][y])
                  PROVE  s[1] < raw'[m][y][i]
              BY <6>2, <2>4, <2>6, <2>8
            <6> QED
              BY <6>1, <6>2, <2>8, <1>2
          <5> QED
            BY <5>1, <5>2, <3>3
        <4> QED
          BY <4>1 DEF WireInv
      <3>6. InOrder'
        <4>1. ASSUME NEW i \in 1 .. Len(wire'), NEW j \in 1 .. Len(wire'), i < j,
                     dest'[wire'[i][1]] = dest'[wire'[j][1]]
              PROVE  wire'[i][1] < wire'[j][1]
          <5>1. i \in 1 .. Len(wire) /\ wire'[i] = wire[i]
            BY <4>1, <3>3
          <5>2. CASE j \in 1 .. Len(wire)
            <6>1. wire'[j] = wire[j]
              BY <5>2, <3>3
            <6> QED
              BY <4>1, <5>1, <5>2, <6>1, <3>3, <1>2 DEF Inv, InOrder
          <5>3. CASE j = Len(wire) + 1
            <6>1. wire'[j][1] = s[1] /\ dest[wire[i][1]] = <<k, x>>
              BY <4>1, <5>1, <5>3, <3>3, <2>8, <1>2
            <6> QED
              BY <6>1, <5>1, <2>2, <2>10
          <5> QED
            BY <5>2, <5>3, <3>3
        <4> QED
          BY <4>1, <3>3 DEF InOrder
      <3> QED
        BY <3>4, <3>5, <3>6, <2>9 DEF Inv
    <2> QED
      BY <2>3, <2>6, <2>11, <2>12 DEF s
  <1> QED
    BY <1>5, <1>6

LEMMA InvStep == Inv /\ [Next]_vars => Inv'
  <1> SUFFICES ASSUME Inv, [Next]_vars PROVE Inv'
    OBVIOUS
  <1>1. ASSUME NEW h \in Handles, NEW r \in {"master", "slave"}, NEW known \in BOOLEAN,
               reportConnection(h, r, known)
        PROVE  Inv'
    BY <1>1, QueuesKept DEF reportConnection, Inv, TypeOK
  <1>2. ASSUME NEW h \in Handles, reportDisconnection(h) PROVE Inv'
    BY <1>2, QueuesKept DEF reportDisconnection, Inv, TypeOK
  <1>3. ASSUME NEW h \in Handles, cleanupStaleItems(h) PROVE Inv'
    BY <1>3, QueuesKept DEF cleanupStaleItems, Inv, TypeOK
  <1>4. ASSUME NEW h \in Handles, NEW ret \in Codes, notifyRawPacket(h, ret) PROVE Inv'
    BY <1>4, InvRawPacket DEF notifyRawPacket, Kinds
  <1>5. ASSUME NEW h \in Handles, NEW ret \in Codes, writeRawPacket(h, ret) PROVE Inv'
    BY <1>5, InvRawPacket DEF writeRawPacket, Kinds
  <1>6. CASE UNCHANGED vars
    BY <1>6, QueuesKept DEF vars, Inv, TypeOK
  <1> QED
    BY <1>1, <1>2, <1>3, <1>4, <1>5, <1>6, InvSend DEF Next

\* For any handles and any number of packets: the callbacks that share one
\* registration transmit nothing twice, and what was queued for one handle in
\* the order it was queued.
THEOREM TransmitsInOrder == Spec => []InOrder
  <1>1. Inv => InOrder
    BY DEF Inv
  <1> QED
    BY <1>1, InvInit, InvStep, PTL DEF Spec

-----------------------------------------------------------------------------
(***************************************************************************)
(* The link.  As long as one handle alone has packets in a multimap, it is *)
(* the one that asked last, so the context of the registration is it.      *)
(***************************************************************************)

Own(k) == \A i \in DOMAIN wire : dest[wire[i][1]][1] = k => wire[i][2] = dest[wire[i][1]][2]

OwnInv(k) ==
  /\ Inv
  /\ \A x \in Handles : raw[k][x] # << >> => context[k] = x
  /\ Own(k)

LEMMA OwnSend ==
  ASSUME NEW k \in Kinds, OwnInv(k), OneWaits(k)', NEW h \in Handles, SendPacketToConnection(h)
  PROVE  OwnInv(k)'
  <1> DEFINE m == KindOf(h)
  <1>1. Inv'
    BY InvSend DEF OwnInv
  <1>2. m \in Kinds
    BY DEF KindOf, Kinds
  <1>3. /\ raw' = [raw EXCEPT ![m] = [raw[m] EXCEPT ![h] = Append(raw[m][h], queued + 1)]]
        /\ context' = [context EXCEPT ![m] = h]
        /\ dest' = Append(dest, <<m, h>>) /\ wire' = wire
    BY DEF SendPacketToConnection, Request, Registered
  <1> HIDE DEF m
  <1>4. /\ raw \in [Kinds -> [Handles -> Seq(Nat)]]
        /\ context \in [Kinds -> Handles \cup {NoHandle}]
        /\ queued \in Nat
        /\ dest \in Seq(Kinds \X Handles) /\ Len(dest) = queued
        /\ DOMAIN wire = 1 .. Len(wire)
        /\ \A i \in DOMAIN wire : wire[i][1] \in 1 .. queued
    BY DEF OwnInv, Inv, TypeOK, WireInv
  <1>5. \A x \in Handles : raw'[k][x] # << >> => context'[k] = x
    <2>1. CASE k = m
      <3>1. raw'[k][h] = Append(raw[m][h], queued + 1)
        BY <2>1, <1>2, <1>3, <1>4
      <3>2. raw[m][h] \in Seq(Nat) /\ queued + 1 \in Nat
        BY <1>2, <1>4
      <3>3. raw'[k][h] # << >>
        BY <3>1, <3>2
      <3> QED
        BY <3>3, <2>1, <1>2, <1>3, <1>4 DEF OneWaits
    <2>2. CASE k # m
      BY <2>2, <1>2, <1>3, <1>4 DEF OwnInv
    <2> QED
      BY <2>1, <2>2
  <1>6. \A i \in DOMAIN wire : dest'[wire[i][1]] = dest[wire[i][1]]
    <2>1. \A n \in 1 .. queued : dest'[n] = dest[n]
      <3>1. <<m, h>> \in Kinds \X Handles
        BY <1>2
      <3> QED
        BY <3>1, <1>3, <1>4
    <2> QED
      BY <2>1, <1>4
  <1>7. Own(k)'
    BY <1>6, <1>3 DEF OwnInv, Own
  <1> QED
    BY <1>1, <1>5, <1>7 DEF OwnInv

LEMMA OwnRawPacket ==
  ASSUME NEW k \in Kinds, OwnInv(k), NEW m \in Kinds, NEW b \in Handles, NEW ret \in Codes,
         rawPacket(m, b, ret)
  PROVE  OwnInv(k)'
  <1> DEFINE h == context[m]
             x == FirstFor(m, h)
  <1>1. Inv'
    BY InvRawPacket DEF OwnInv
  <1>2. /\ raw' = IF x # NoHandle /\ Erased(ret) THEN [raw EXCEPT ![m] = [raw[m] EXCEPT ![x] = Tail(raw[m][x])]] ELSE raw
        /\ wire' = IF x # NoHandle /\ ret = "SUCCESS" THEN Append(wire, <<Head(raw[m][x]), h>>) ELSE wire
        /\ context' = context /\ dest' = dest
    BY DEF rawPacket
  <1>3. h \in Handles
    BY DEF rawPacket, OwnInv, Inv, TypeOK
  <1>4. x # NoHandle => x \in Handles /\ raw[m][x] # << >>
    BY <1>3, FirstForAbove
  <1> HIDE DEF x
  <1>5. raw \in [Kinds -> [Handles -> Seq(Nat)]] /\ wire \in Seq(Nat \X Handles)
    BY DEF OwnInv, Inv, TypeOK
  <1>6. \A y \in Handles : raw'[k][y] # << >> => context'[k] = y
    <2>1. \A y \in Handles : raw'[k][y] # << >> => raw[k][y] # << >>
      BY <1>2, <1>4, <1>5
    <2> QED
      BY <2>1, <1>2 DEF OwnInv
  <1>7. Own(k)'
    <2>1. CASE wire' = wire
      BY <2>1, <1>2 DEF OwnInv, Own
    <2>2. CASE x # NoHandle /\ wire' = Append(wire, <<Head(raw[m][x]), h>>)
      <3>1. raw[m][x] \in Seq(Nat) /\ Len(raw[m][x]) >= 1 /\ Head(raw[m][x]) = raw[m][x][1]
        BY <2>2, <1>4, <1>5
      <3>2. dest[Head(raw[m][x])] = <<m, x>> /\ Head(raw[m][x]) \in Nat
        <4>1. 1 \in 1 .. Len(raw[m][x])
          BY <3>1
        <4>2. \A i \in 1 .. Len(raw[m][x]) : dest[raw[m][x][i]] = <<m, x>>
          BY <2>2, <1>4 DEF OwnInv, Inv, RawInv
        <4> DEFINE first == raw[m][x][1]
        <4>3. dest[first] = <<m, x>>
          BY <4>1, <4>2
        <4>4. first \in Nat
          BY <4>1, <3>1
        <4>5. Head(raw[m][x]) = first
          BY <3>1
        <4> HIDE DEF first
        <4> QED
          BY <4>3, <4>4, <4>5
      <3> DEFINE head == Head(raw[m][x])
      <3> HIDE DEF head, h
      <3>3. /\ DOMAIN wire' = 1 .. Len(wire) + 1
            /\ DOMAIN wire = 1 .. Len(wire) /\ Len(wire) \in Nat
            /\ \A i \in 1 .. Len(wire) : wire'[i] = wire[i]
            /\ wire'[Len(wire) + 1] = <<head, h>>
        <4>1. <<head, h>> \in Nat \X Handles /\ wire' = Append(wire, <<head, h>>)
          BY <2>2, <3>2, <1>3 DEF head
        <4> QED
          BY <4>1, <1>5
      <3>4. ASSUME NEW i \in DOMAIN wire', dest'[wire'[i][1]][1] = k
            PROVE  wire'[i][2] = dest'[wire'[i][1]][2]
        <4>1. CASE i \in DOMAIN wire
          BY <4>1, <3>3, <3>4, <1>2 DEF OwnInv, Own
        <4>2. CASE i = Len(wire) + 1
          <5>1. wire'[i][1] = head /\ wire'[i][2] = h
            BY <4>2, <3>3
          <5>2. m = k /\ dest'[wire'[i][1]][2] = x
            BY <5>1, <3>2, <3>4, <1>2 DEF head
          <5>3. h = x
            BY <5>2, <2>2, <1>4 DEF OwnInv, h
          <5> QED
            BY <5>1, <5>2, <5>3
        <4> QED
          BY <4>1, <4>2, <3>3
      <3> QED
        BY <3>4 DEF Own
    <2> QED
      BY <2>1, <2>2, <1>2
  <1> QED
    BY <1>1, <1>6, <1>7 DEF OwnInv

LEMMA OwnStep ==
  ASSUME NEW k \in Kinds, OwnInv(k), OneWaits(k)', [Next]_vars
  PROVE  OwnInv(k)'
  <1>1. Inv'
    BY InvStep DEF OwnInv
  <1>2. CASE UNCHANGED <<raw, context, dest, wire>>
    BY <1>1, <1>2 DEF OwnInv, Own
  <1>3. ASSUME NEW h \in Handles, NEW r \in {"master", "slave"}, NEW known \in BOOLEAN,
               reportConnection(h, r, known)
        PROVE  OwnInv(k)'
    BY <1>3, <1>2 DEF reportConnection
  <1>4. ASSUME NEW h \in Handles, reportDisconnection(h) PROVE OwnInv(k)'
    BY <1>4, <1>2 DEF reportDisconnection
  <1>5. ASSUME NEW h \in Handles, cleanupStaleItems(h) PROVE OwnInv(k)'
    BY <1>5, <1>2 DEF cleanupStaleItems
  <1>6. ASSUME NEW h \in Handles, NEW ret \in Codes, notifyRawPacket(h, ret) PROVE OwnInv(k)'
    BY <1>6, OwnRawPacket DEF notifyRawPacket, Kinds
  <1>7. ASSUME NEW h \in Handles, NEW ret \in Codes, writeRawPacket(h, ret) PROVE OwnInv(k)'
    BY <1>7, OwnRawPacket DEF writeRawPacket, Kinds
  <1>8. CASE UNCHANGED vars
    BY <1>8, <1>2 DEF vars
  <1> QED
    BY <1>3, <1>4, <1>5, <1>6, <1>7, <1>8, OwnSend DEF Next

\* For any handles and any number of packets: a packet can leave on a wrong
\* connection only if packets of two handles have waited in one multimap.
THEOREM LeavesOnItsLink == Spec => OwnLink
  <1>1. ASSUME NEW k \in Kinds
        PROVE  Spec => ([]OneWaits(k) => []Own(k))
    <2>1. Init => OwnInv(k)
      <3>1. Init => Inv
        BY InvInit
      <3> QED
        BY <3>1 DEF Init, OwnInv, Own
    <2>2. OwnInv(k) /\ OneWaits(k)' /\ [Next]_vars => OwnInv(k)'
      BY OwnStep
    <2>3. OwnInv(k) => Own(k)
      BY DEF OwnInv
    <2> QED
      BY <2>1, <2>2, <2>3, PTL DEF Spec
  <1>2. Spec => \A k \in Kinds : []OneWaits(k) => []Own(k)
    BY <1>1
  <1> QED
    BY <1>2 DEF OwnLink, Own

-----------------------------------------------------------------------------
(***************************************************************************)
(* The assertion.  As long as h is the only link that is ever open, only h *)
(* has a role, requests are for h alone, and one that is outstanding was   *)
(* made by SendPacketToConnection, which set the mark; what clears it      *)
(* happens to a link that is down, whose requests BTstack has dropped.     *)
(***************************************************************************)

Alone(h) == \A y \in Handles \ {h} : ~connected[y]

Asserted(h) ==
  \A k \in Kinds :
    h \in pending[k] /\ FirstFor(k, context[k]) # NoHandle => has_data[context[k]]

AssertInv(h) ==
  /\ connected \in [Handles -> BOOLEAN]
  /\ has_data \in [Handles -> BOOLEAN]
  /\ role \in [Handles -> {"none", "master", "slave"}]
  /\ pending \in [Kinds -> SUBSET {h}]
  /\ context \in [Kinds -> Handles \cup {NoHandle}]
  /\ \A y \in Handles \ {h} : role[y] = "none"
  /\ \A k \in Kinds : h \in pending[k] => connected[h] /\ has_data[h] /\ context[k] = h

LEMMA AssertStep ==
  ASSUME NEW h \in Handles, AssertInv(h), Alone(h), Alone(h)', [Next]_vars
  PROVE  AssertInv(h)'
  <1>1. ASSUME NEW x \in Handles, NEW r \in {"master", "slave"}, NEW known \in BOOLEAN,
               reportConnection(x, r, known)
        PROVE  AssertInv(h)'
    <2>1. x = h
      BY <1>1 DEF reportConnection, Alone, AssertInv
    <2>2. \A k \in Kinds : h \notin pending[k]
      BY <1>1, <2>1 DEF reportConnection, AssertInv
    <2> QED
      BY <1>1, <2>1, <2>2 DEF reportConnection, AssertInv
  <1>2. ASSUME NEW x \in Handles, reportDisconnection(x) PROVE AssertInv(h)'
    <2>1. x = h
      BY <1>2 DEF reportDisconnection, Alone
    <2> QED
      BY <1>2, <2>1 DEF reportDisconnection, AssertInv
  <1>3. ASSUME NEW x \in Handles, cleanupStaleItems(x) PROVE AssertInv(h)'
    BY <1>3 DEF cleanupStaleItems, AssertInv
  <1>4. ASSUME NEW x \in Handles, SendPacketToConnection(x) PROVE AssertInv(h)'
    <2>1. x = h
      BY <1>4 DEF SendPacketToConnection, AssertInv
    <2>2. KindOf(h) \in Kinds
      BY DEF KindOf, Kinds
    <2>3. /\ UNCHANGED <<connected, role>>
          /\ has_data' = [has_data EXCEPT ![h] = TRUE]
          /\ context' = [context EXCEPT ![KindOf(h)] = h]
          /\ pending' = IF connected[h] THEN [pending EXCEPT ![KindOf(h)] = @ \cup {h}]
                                        ELSE pending
      BY <1>4, <2>1 DEF SendPacketToConnection, Request, Registered, SetHasData
    <2> QED
      BY <2>2, <2>3 DEF AssertInv
  <1>5. ASSUME NEW k \in Kinds, NEW x \in Handles, NEW ret \in Codes, rawPacket(k, x, ret)
        PROVE  AssertInv(h)'
    <2>1. h \in pending[k] /\ context[k] = h
      BY <1>5 DEF rawPacket, AssertInv
    <2>2. AskAgain(h, raw'[k]) \subseteq {h}
      BY DEF AskAgain
    <2>3. /\ UNCHANGED <<connected, role, has_data, context>>
          /\ pending' = [pending EXCEPT ![k] = (@ \ {x}) \cup AskAgain(h, raw'[k])]
      BY <1>5, <2>1 DEF rawPacket
    <2> QED
      BY <2>1, <2>2, <2>3 DEF AssertInv
  <1>6. CASE UNCHANGED vars
    BY <1>6 DEF vars, AssertInv
  <1> QED
    BY <1>1, <1>2, <1>3, <1>4, <1>5, <1>6 DEF Next, notifyRawPacket, writeRawPacket, Kinds

\* ASSERT_DEBUG(connection.hasData()) never fails at a repeater with one link,
\* for any handle and any number of packets.
THEOREM AssertionHolds == Spec => AssertHolds
  <1>1. ASSUME NEW h \in Handles
        PROVE  Spec => ([]Alone(h) => []Asserted(h))
    <2>1. Init => AssertInv(h)
      BY DEF Init, AssertInv
    <2>2. AssertInv(h) /\ Alone(h) /\ Alone(h)' /\ [Next]_vars => AssertInv(h)'
      BY AssertStep
    <2>3. AssertInv(h) => Asserted(h)
      BY DEF AssertInv, Asserted
    <2> QED
      BY <2>1, <2>2, <2>3, PTL DEF Spec
  <1>2. Spec => \A h \in Handles : []Alone(h) => []Asserted(h)
    BY <1>1
  <1> QED
    BY <1>2 DEF AssertHolds, Alone, Asserted
=============================================================================
