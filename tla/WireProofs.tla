----------------------------- MODULE WireProofs -----------------------------
(***************************************************************************)
(* Proofs about Wire and PacketCodec, for bytes and integers of any width, *)
(* packets of any length and any number of hops.                           *)
(***************************************************************************)
EXTENDS Wire, SequenceTheorems, TLAPS

Bytes == Seq(Byte)
Cursors == [rest : Bytes, val : Bytes, short : BOOLEAN]

-----------------------------------------------------------------------------
(***************************************************************************)
(* Sequences.                                                              *)
(***************************************************************************)

LEMMA SubSeqIs ==
  ASSUME NEW S, NEW s \in Seq(S), NEW m \in 1 .. Len(s) + 1, NEW n \in m - 1 .. Len(s)
  PROVE  /\ SubSeq(s, m, n) \in Seq(S)
         /\ Len(SubSeq(s, m, n)) = n - m + 1
         /\ \A i \in 1 .. n - m + 1 : SubSeq(s, m, n)[i] = s[m + i - 1]
  OBVIOUS

LEMMA SameSeq ==
  ASSUME NEW S, NEW s \in Seq(S), NEW t \in Seq(S), Len(s) = Len(t),
         \A i \in 1 .. Len(s) : s[i] = t[i]
  PROVE  s = t
  OBVIOUS

\* The first part of a concatenation, and the second one.
LEMMA FirstPart ==
  ASSUME NEW S, NEW a \in Seq(S), NEW b \in Seq(S)
  PROVE  SubSeq(a \o b, 1, Len(a)) = a
  <1> DEFINE s == a \o b
             r == SubSeq(s, 1, Len(a))
  <1>1. /\ s \in Seq(S) /\ Len(s) = Len(a) + Len(b) /\ Len(a) \in Nat /\ Len(b) \in Nat
        /\ \A i \in 1 .. Len(a) + Len(b) : s[i] = IF i <= Len(a) THEN a[i] ELSE b[i - Len(a)]
    BY ConcatProperties
  <1> HIDE DEF s
  <1>2. 1 \in 1 .. Len(s) + 1 /\ Len(a) \in 1 - 1 .. Len(s)
    BY <1>1
  <1>3. r \in Seq(S) /\ Len(r) = Len(a) /\ \A i \in 1 .. Len(a) : r[i] = s[i]
    <2>1. /\ r \in Seq(S) /\ Len(r) = Len(a) - 1 + 1
          /\ \A i \in 1 .. Len(a) - 1 + 1 : r[i] = s[1 + i - 1]
      BY <1>1, <1>2, SubSeqIs
    <2> HIDE DEF r
    <2> QED
      BY <1>1, <2>1
  <1> HIDE DEF r
  <1>4. \A i \in 1 .. Len(r) : r[i] = a[i]
    BY <1>1, <1>3
  <1>5. r = a
    BY <1>3, <1>4, SameSeq
  <1> QED
    BY <1>5 DEF r, s

LEMMA SecondPart ==
  ASSUME NEW S, NEW a \in Seq(S), NEW b \in Seq(S)
  PROVE  SubSeq(a \o b, Len(a) + 1, Len(a \o b)) = b
  <1> DEFINE s == a \o b
             r == SubSeq(s, Len(a) + 1, Len(s))
  <1>1. /\ s \in Seq(S) /\ Len(s) = Len(a) + Len(b) /\ Len(a) \in Nat /\ Len(b) \in Nat
        /\ \A i \in 1 .. Len(a) + Len(b) : s[i] = IF i <= Len(a) THEN a[i] ELSE b[i - Len(a)]
    BY ConcatProperties
  <1> HIDE DEF s
  <1>2. Len(a) + 1 \in 1 .. Len(s) + 1 /\ Len(s) \in Len(a) + 1 - 1 .. Len(s)
    BY <1>1
  <1>3. r \in Seq(S) /\ Len(r) = Len(b) /\ \A i \in 1 .. Len(b) : r[i] = s[Len(a) + i]
    <2>1. /\ r \in Seq(S) /\ Len(r) = Len(s) - (Len(a) + 1) + 1
          /\ \A i \in 1 .. Len(s) - (Len(a) + 1) + 1 : r[i] = s[Len(a) + 1 + i - 1]
      BY <1>1, <1>2, SubSeqIs
    <2> HIDE DEF r
    <2> QED
      BY <1>1, <2>1
  <1> HIDE DEF r
  <1>4. ASSUME NEW i \in 1 .. Len(r) PROVE r[i] = b[i]
    <2>1. /\ i \in 1 .. Len(b) /\ Len(a) + i \in 1 .. Len(a) + Len(b)
          /\ ~(Len(a) + i <= Len(a)) /\ Len(a) + i - Len(a) = i
      BY <1>1, <1>3
    <2>2. s[Len(a) + i] = b[Len(a) + i - Len(a)]
      BY <1>1, <2>1
    <2> QED
      BY <1>3, <2>1, <2>2
  <1>5. r = b
    BY <1>3, <1>4, SameSeq
  <1> QED
    BY <1>5 DEF r, s

-----------------------------------------------------------------------------
(***************************************************************************)
(* Reading.                                                                *)
(***************************************************************************)

LEMMA ZerosType ==
  ASSUME NEW n \in Nat
  PROVE  Zeros(n) \in Bytes /\ Len(Zeros(n)) = n
  <1>1. 0 \in Byte
    BY BytesAssumption DEF Byte
  <1> QED
    BY <1>1 DEF Zeros, Bytes

\* A read without its branches.
LEMMA AdvanceIs ==
  ASSUME NEW c \in Cursors, NEW n \in Nat, NEW d \in Bytes
  PROVE  /\ Len(c.rest) \in Nat
         /\ n > Len(c.rest) => Advance(c, n, d) = [rest |-> c.rest, val |-> d, short |-> TRUE]
         /\ n <= Len(c.rest) =>
              Advance(c, n, d) = [rest |-> SubSeq(c.rest, n + 1, Len(c.rest)),
                                  val |-> SubSeq(c.rest, 1, n), short |-> c.short]
  <1>1. Len(c.rest) \in Nat
    BY DEF Cursors, Bytes
  <1> QED
    BY <1>1 DEF Advance

LEMMA AdvanceType ==
  ASSUME NEW c \in Cursors, NEW n \in Nat, NEW d \in Bytes
  PROVE  /\ Advance(c, n, d) \in Cursors
         /\ Advance(c, n, d).val = d \/ Len(Advance(c, n, d).val) = n
         /\ ~Advance(c, n, d).short =>
              /\ ~c.short /\ Len(Advance(c, n, d).val) = n
              /\ Len(c.rest) = n + Len(Advance(c, n, d).rest)
  <1>1. c.rest \in Bytes /\ c.val \in Bytes /\ c.short \in BOOLEAN /\ Len(c.rest) \in Nat
    BY DEF Cursors, Bytes
  <1>2. CASE n > Len(c.rest)
    <2>1. Advance(c, n, d) = [rest |-> c.rest, val |-> d, short |-> TRUE]
      BY <1>2, AdvanceIs
    <2> QED
      BY <1>1, <2>1 DEF Cursors
  <1>3. CASE n <= Len(c.rest)
    <2> DEFINE r == SubSeq(c.rest, n + 1, Len(c.rest))
               v == SubSeq(c.rest, 1, n)
    <2>1. Advance(c, n, d) = [rest |-> r, val |-> v, short |-> c.short]
      BY <1>3, AdvanceIs
    <2>2. r \in Bytes /\ Len(r) = Len(c.rest) - n
      <3>1. n + 1 \in 1 .. Len(c.rest) + 1 /\ Len(c.rest) \in n + 1 - 1 .. Len(c.rest)
        BY <1>1, <1>3
      <3>2. r \in Bytes /\ Len(r) = Len(c.rest) - (n + 1) + 1
        BY <1>1, <3>1, SubSeqIs DEF Bytes
      <3> HIDE DEF r
      <3> QED
        BY <1>1, <3>2
    <2>3. v \in Bytes /\ Len(v) = n
      <3>1. 1 \in 1 .. Len(c.rest) + 1 /\ n \in 1 - 1 .. Len(c.rest)
        BY <1>1, <1>3
      <3>2. v \in Bytes /\ Len(v) = n - 1 + 1
        BY <1>1, <3>1, SubSeqIs DEF Bytes
      <3> HIDE DEF v
      <3> QED
        BY <3>2
    <2> HIDE DEF r, v
    <2> QED
      BY <1>1, <2>1, <2>2, <2>3 DEF Cursors
  <1> QED
    BY <1>1, <1>2, <1>3

\* What a read gives depends on what is left, not on what was read before.
LEMMA AdvanceSame ==
  ASSUME NEW c \in Cursors, NEW e \in Cursors, NEW n \in Nat, NEW d \in Bytes,
         c.rest = e.rest, c.short = e.short
  PROVE  Advance(c, n, d) = Advance(e, n, d)
  <1>1. Len(c.rest) \in Nat
    BY AdvanceIs
  <1> QED
    BY <1>1 DEF Advance

\* What was written is read back.
LEMMA AdvanceBack ==
  ASSUME NEW c \in Cursors, NEW a \in Bytes, NEW b \in Bytes, NEW d \in Bytes,
         c.rest = a \o b
  PROVE  Advance(c, Len(a), d) = [rest |-> b, val |-> a, short |-> c.short]
  <1>1. Len(a) \in Nat /\ Len(b) \in Nat /\ Len(a \o b) = Len(a) + Len(b)
    BY ConcatProperties DEF Bytes
  <1>2. Len(a) <= Len(c.rest)
    BY <1>1
  <1>3. Advance(c, Len(a), d) = [rest |-> SubSeq(c.rest, Len(a) + 1, Len(c.rest)),
                                 val |-> SubSeq(c.rest, 1, Len(a)), short |-> c.short]
    BY <1>1, <1>2, AdvanceIs
  <1> QED
    BY <1>3, FirstPart, SecondPart DEF Bytes

LEMMA UintType ==
  ASSUME NEW c \in Cursors, NEW n \in Nat
  PROVE  /\ read_uint(c, n) \in Cursors /\ Len(read_uint(c, n).val) = n
         /\ ~read_uint(c, n).short =>
              ~c.short /\ Len(c.rest) = n + Len(read_uint(c, n).rest)
  BY ZerosType, AdvanceType DEF read_uint

LEMMA UintBack ==
  ASSUME NEW c, NEW n, NEW a, NEW b,
         c \in Cursors, a \in Bytes, b \in Bytes, n = Len(a), c.rest = a \o b
  PROVE  read_uint(c, n) = [rest |-> b, val |-> a, short |-> c.short]
  <1>1. n \in Nat
    BY DEF Bytes
  <1> QED
    BY <1>1, ZerosType, AdvanceBack DEF read_uint

LEMMA CursorFields ==
  ASSUME NEW c, NEW a, NEW b, NEW f, a \in Bytes, b \in Bytes, f \in BOOLEAN,
         c = [rest |-> b, val |-> a, short |-> f]
  PROVE  c \in Cursors /\ c.rest = b /\ c.val = a /\ c.short = f
  BY DEF Cursors

\* A length is at most what its bytes can say.
Most(n) == IF n = 1 THEN Radix - 1 ELSE Radix * Radix - 1

LEMMA TwoDigits ==
  ASSUME NEW a \in Byte, NEW b \in Byte
  PROVE  a * Radix + b \in Nat /\ a * Radix + b <= Radix * Radix - 1
  <1>1. Radix \in Nat /\ a \in Nat /\ b \in Nat /\ a + 1 <= Radix /\ b <= Radix - 1
    BY BytesAssumption DEF Byte
  <1>2. a * Radix \in Nat /\ (a + 1) * Radix = a * Radix + Radix
    BY <1>1
  <1>3. (a + 1) * Radix <= Radix * Radix
    BY <1>1
  <1> QED
    BY <1>1, <1>2, <1>3

LEMMA NumberType ==
  ASSUME NEW n \in {1, 2}, NEW v \in Bytes, Len(v) = n
  PROVE  Number(v) \in Nat /\ Number(v) <= Most(n)
  <1>1. CASE n = 1
    <2>1. v[1] \in Byte
      BY <1>1 DEF Bytes
    <2> QED
      BY <1>1, <2>1, BytesAssumption DEF Number, Most, Byte
  <1>2. CASE n = 2
    <2>1. v[1] \in Byte /\ v[2] \in Byte
      BY <1>2 DEF Bytes
    <2>2. Number(v) = v[1] * Radix + v[2] /\ Most(n) = Radix * Radix - 1
      BY <1>2 DEF Number, Most
    <2> QED
      BY <2>1, <2>2, TwoDigits
  <1> QED
    BY <1>1, <1>2

LEMMA DigitsBack ==
  ASSUME NEW n \in {1, 2}, NEW k \in Nat, k <= Most(n)
  PROVE  Digits(k, n) \in Bytes /\ Len(Digits(k, n)) = n /\ Number(Digits(k, n)) = k
  <1>1. Radix \in Nat \ {0} /\ 0 \in Byte
    BY BytesAssumption DEF Byte
  <1>2. k % Radix \in Byte /\ (k \div Radix) % Radix \in Byte
    BY <1>1 DEF Byte
  <1>3. CASE n = 1
    <2>1. k % Radix = k
      BY <1>1, <1>3 DEF Most
    <2>2. Digits(k, n) = <<k>> /\ k \in Byte
      BY <1>2, <1>3, <2>1 DEF Digits
    <2>3. <<k>> \in Seq(Byte) /\ Len(<<k>>) = 1 /\ <<k>>[1] = k
      BY <2>2
    <2> QED
      BY <1>3, <2>2, <2>3 DEF Number, Bytes
  <1>4. CASE n = 2
    <2>1. k < Radix * Radix
      BY <1>1, <1>4 DEF Most
    <2>2. k = Radix * (k \div Radix) + (k % Radix) /\ k \div Radix \in Nat
      BY <1>1
    <2>3. k \div Radix < Radix
      <3> DEFINE q == k \div Radix
                 r == k % Radix
      <3>1. k = Radix * q + r /\ q \in Nat /\ r \in Nat
        BY <1>1, <2>2
      <3> HIDE DEF q, r
      <3>2. ASSUME Radix <= q PROVE FALSE
        <4>1. Radix * Radix <= Radix * q
          BY <1>1, <3>1, <3>2
        <4> QED
          BY <1>1, <2>1, <3>1, <4>1
      <3>3. q < Radix
        BY <1>1, <3>1, <3>2
      <3> QED
        BY <3>3 DEF q
    <2>4. (k \div Radix) % Radix = k \div Radix
      BY <1>1, <2>2, <2>3
    <2>5. (k \div Radix) * Radix + (k % Radix) = k
      BY <1>1, <2>2
    <2> DEFINE q == k \div Radix
               r == k % Radix
    <2>6. Digits(k, n) = <<q, r>> /\ q \in Byte /\ r \in Byte /\ q * Radix + r = k
      BY <1>2, <1>4, <2>4, <2>5 DEF Digits
    <2> HIDE DEF q, r
    <2>7. <<q, r>> \in Seq(Byte) /\ Len(<<q, r>>) = 2 /\ <<q, r>>[1] = q /\ <<q, r>>[2] = r
      BY <2>6
    <2>8. Number(<<q, r>>) = q * Radix + r
      BY <2>7 DEF Number
    <2> QED
      BY <1>4, <2>6, <2>7, <2>8 DEF Bytes
  <1> QED
    BY <1>3, <1>4

LEMMA DataType ==
  ASSUME NEW c \in Cursors, NEW k \in Nat
  PROVE  /\ read_data(c, k) \in Cursors
         /\ Len(read_data(c, k).val) \in Nat /\ Len(read_data(c, k).val) <= k
         /\ ~read_data(c, k).short =>
              /\ ~c.short /\ Len(read_data(c, k).val) = k
              /\ Len(c.rest) = k + Len(read_data(c, k).rest)
  <1>1. << >> \in Bytes
    BY DEF Bytes
  <1> DEFINE r == Advance(c, k, << >>)
  <1>2. r \in Cursors
    BY <1>1, AdvanceType
  <1>3. r.val = << >> \/ Len(r.val) = k
    BY <1>1, AdvanceType
  <1>4. ~r.short => ~c.short /\ Len(r.val) = k /\ Len(c.rest) = k + Len(r.rest)
    BY <1>1, AdvanceType
  <1>5. read_data(c, k) = r
    BY DEF read_data
  <1> HIDE DEF r
  <1>6. Len(r.val) \in Nat /\ Len(r.val) <= k
    BY <1>2, <1>3 DEF Cursors, Bytes
  <1> QED
    BY <1>2, <1>4, <1>5, <1>6

LEMMA AddAssociative ==
  ASSUME NEW a \in Nat, NEW b \in Nat, NEW c \in Nat
  PROVE  a + (b + c) = a + b + c
  OBVIOUS

LEMMA StringType ==
  ASSUME NEW c \in Cursors, NEW n \in {1, 2}
  PROVE  /\ ReadString(c, n) \in Cursors
         /\ Len(ReadString(c, n).val) \in Nat /\ Len(ReadString(c, n).val) <= Most(n)
         /\ ~ReadString(c, n).short =>
              /\ ~c.short
              /\ Len(c.rest) = n + Len(ReadString(c, n).val) + Len(ReadString(c, n).rest)
  <1> DEFINE l == read_uint(c, n)
             k == Number(l.val)
             r == read_data(l, k)
  <1>0. n \in Nat
    OBVIOUS
  <1>1. /\ l \in Cursors /\ Len(l.val) = n
        /\ ~l.short => ~c.short /\ Len(c.rest) = n + Len(l.rest)
    BY <1>0, UintType
  <1>2. ReadString(c, n) = r
    BY DEF ReadString
  <1> HIDE DEF l
  <1>3. l.val \in Bytes
    BY <1>1 DEF Cursors
  <1>4. k \in Nat /\ k <= Most(n) /\ Most(n) \in Nat
    <2>1. k \in Nat /\ k <= Most(n)
      BY <1>1, <1>3, NumberType
    <2>2. Most(n) \in Nat
      BY BytesAssumption DEF Most
    <2> QED
      BY <2>1, <2>2
  <1> HIDE DEF k
  <1>5. r \in Cursors /\ Len(r.val) \in Nat /\ Len(r.val) <= k
    BY <1>1, <1>4, DataType
  <1>6. ~r.short => ~l.short /\ Len(r.val) = k /\ Len(l.rest) = k + Len(r.rest)
    BY <1>1, <1>4, DataType
  <1> HIDE DEF r
  <1>7. Len(r.val) <= Most(n)
    BY <1>4, <1>5
  <1>8. ASSUME ~r.short PROVE ~c.short /\ Len(c.rest) = n + Len(r.val) + Len(r.rest)
    <2>1. ~l.short /\ Len(r.val) = k /\ Len(l.rest) = k + Len(r.rest)
      BY <1>6, <1>8, Zenon
    <2>2. ~c.short /\ Len(c.rest) = n + Len(l.rest)
      BY <1>1, <2>1, Zenon
    <2>3. Len(c.rest) = n + (k + Len(r.rest)) /\ Len(r.rest) \in Nat
      BY <1>5, <2>1, <2>2 DEF Cursors, Bytes
    <2>4. n + (k + Len(r.rest)) = n + k + Len(r.rest)
      BY <1>0, <1>4, <2>3, AddAssociative
    <2> QED
      BY <2>1, <2>2, <2>3, <2>4, Zenon
  <1> QED
    BY <1>2, <1>5, <1>7, <1>8

\* A string that its length can describe is written whole.
LEMMA StringWritten ==
  ASSUME NEW s \in Bytes, NEW n \in {1, 2}, Len(s) <= Most(n)
  PROVE  /\ WriteString(s, n) = Digits(Len(s), n) \o s
         /\ WriteString(s, n) \in Bytes /\ Len(WriteString(s, n)) = n + Len(s)
  <1>1. Len(s) \in Nat /\ s \in Seq(Byte) /\ Most(n) \in Nat
    BY BytesAssumption DEF Bytes, Most
  <1>2. SubSeq(s, 1, Len(s)) = s
    BY <1>1
  <1>3. WriteString(s, n) = Digits(Len(s), n) \o s
    <2>1. (IF Len(s) < Most(n) THEN Len(s) ELSE Most(n)) = Len(s)
      BY <1>1
    <2>2. WriteString(s, n) =
            LET len == IF Len(s) < Most(n) THEN Len(s) ELSE Most(n)
            IN Digits(len, n) \o SubSeq(s, 1, len)
      BY DEF WriteString, Most
    <2> QED
      BY <1>2, <2>1, <2>2
  <1>4. Digits(Len(s), n) \in Bytes /\ Len(Digits(Len(s), n)) = n
    BY <1>1, DigitsBack
  <1> QED
    BY <1>1, <1>3, <1>4, ConcatProperties DEF Bytes

LEMMA ConcatBytes ==
  ASSUME NEW a \in Bytes, NEW b \in Bytes
  PROVE  a \o b \in Bytes /\ Len(a \o b) = Len(a) + Len(b)
  BY ConcatProperties DEF Bytes

LEMMA Associative ==
  ASSUME NEW a \in Bytes, NEW b \in Bytes, NEW c \in Bytes
  PROVE  (a \o b) \o c = a \o (b \o c)
  BY ConcatAssociative DEF Bytes

LEMMA StringBack ==
  ASSUME NEW c \in Cursors, NEW s \in Bytes, NEW n \in {1, 2}, NEW b \in Bytes,
         Len(s) <= Most(n), c.rest = WriteString(s, n) \o b
  PROVE  ReadString(c, n) = [rest |-> b, val |-> s, short |-> c.short]
  <1> DEFINE d == Digits(Len(s), n)
             l == read_uint(c, n)
  <1>1. Len(s) \in Nat /\ n \in Nat /\ << >> \in Bytes
    BY DEF Bytes
  <1>2. d \in Bytes /\ Len(d) = n /\ Number(d) = Len(s)
    BY <1>1, DigitsBack
  <1>3. s \o b \in Bytes
    BY ConcatProperties DEF Bytes
  <1>4. c.rest = d \o (s \o b)
    <2>1. c.rest = (d \o s) \o b
      BY StringWritten
    <2> HIDE DEF d
    <2>2. (d \o s) \o b = d \o (s \o b)
      BY <1>2, Associative, Zenon
    <2> QED
      BY <2>1, <2>2, Zenon
  <1> HIDE DEF d
  <1>5. l = [rest |-> s \o b, val |-> d, short |-> c.short]
    BY <1>1, <1>2, <1>3, <1>4, UintBack
  <1>6. l \in Cursors /\ l.rest = s \o b /\ l.val = d /\ l.short = c.short
    BY <1>2, <1>3, <1>5 DEF Cursors
  <1>7. ReadString(c, n) = Advance(l, Number(l.val), << >>)
    BY DEF ReadString, read_data
  <1> HIDE DEF l
  <1>8. Advance(l, Len(s), << >>) = [rest |-> b, val |-> s, short |-> l.short]
    BY <1>1, <1>6, AdvanceBack
  <1> QED
    BY <1>2, <1>6, <1>7, <1>8

-----------------------------------------------------------------------------
(***************************************************************************)
(* Headers.                                                                *)
(***************************************************************************)

\* The bytes of the recipient that are on the wire.
Recipient(p) == IF hasPacketRecipient(p.flags) THEN p.recipient ELSE << >>

\* The header fields of a packet that can be written and read back: what an
\* absent recipient reads as is part of it.
IsHeader(p) ==
  /\ p.ttl \in Byte /\ p.flags \in Byte
  /\ p.timestamp \in Bytes /\ Len(p.timestamp) = Wide
  /\ p.sender \in Bytes /\ Len(p.sender) = Wide
  /\ p.recipient \in Bytes /\ Len(p.recipient) = Wide
  /\ hasPacketRecipient(p.flags) \/ p.recipient = Zeros(Wide)

LEMMA CursorType ==
  ASSUME NEW body \in Bytes
  PROVE  Cursor(body) \in Cursors /\ Cursor(body).rest = body /\ Cursor(body).short = FALSE
  BY DEF Cursor, Cursors, Bytes

LEMMA FirstByte ==
  ASSUME NEW v \in Bytes, Len(v) = 1
  PROVE  v[1] \in Byte
  BY DEF Bytes

LEMMA OneByte ==
  ASSUME NEW x \in Byte
  PROVE  <<x>> \in Bytes /\ Len(<<x>>) = 1 /\ <<x>>[1] = x
  BY DEF Bytes

\* The bytes that a header is read from, but for the recipient.
Fixed == 1 + Wide + 1 + Wide

LEMMA HeaderType ==
  ASSUME NEW body \in Bytes
  PROVE  LET h == ReadHeader(body)
         IN /\ IsHeader(h) /\ h.cursor \in Cursors
            /\ ~h.cursor.short =>
                 Len(body) = Fixed + Len(Recipient(h)) + Len(h.cursor.rest)
  <1> DEFINE h == ReadHeader(body)
             c0 == Cursor(body)
             c1 == read_uint(c0, 1)
             c2 == read_uint(c1, Wide)
             c3 == read_uint(c2, 1)
             c4 == read_uint(c3, Wide)
             c5 == IF hasPacketRecipient(c3.val[1]) THEN read_uint(c4, Wide)
                   ELSE Absent(c4, Wide)
  <1> SUFFICES /\ IsHeader(h) /\ h.cursor \in Cursors
               /\ ~h.cursor.short =>
                    Len(body) = Fixed + Len(Recipient(h)) + Len(h.cursor.rest)
    OBVIOUS
  <1>1. h = [ttl |-> c1.val[1], timestamp |-> c2.val, flags |-> c3.val[1],
             sender |-> c4.val, recipient |-> c5.val, cursor |-> c5]
    BY DEF ReadHeader, ReadBase
  <1>2. Wide \in Nat /\ 1 \in Nat
    BY BytesAssumption
  <1>3. c0 \in Cursors /\ c0.rest = body
    BY CursorType
  <1> HIDE DEF h, c0
  <1>4. /\ c1 \in Cursors /\ Len(c1.val) = 1
        /\ ~c1.short => ~c0.short /\ Len(c0.rest) = 1 + Len(c1.rest)
    BY <1>2, <1>3, UintType
  <1> HIDE DEF c1
  <1>5. /\ c2 \in Cursors /\ Len(c2.val) = Wide
        /\ ~c2.short => ~c1.short /\ Len(c1.rest) = Wide + Len(c2.rest)
    BY <1>2, <1>4, UintType
  <1> HIDE DEF c2
  <1>6. /\ c3 \in Cursors /\ Len(c3.val) = 1
        /\ ~c3.short => ~c2.short /\ Len(c2.rest) = 1 + Len(c3.rest)
    BY <1>2, <1>5, UintType
  <1> HIDE DEF c3
  <1>7. /\ c4 \in Cursors /\ Len(c4.val) = Wide
        /\ ~c4.short => ~c3.short /\ Len(c3.rest) = Wide + Len(c4.rest)
    BY <1>2, <1>6, UintType
  <1> HIDE DEF c4
  <1>8. /\ c5 \in Cursors /\ Len(c5.val) = Wide
        /\ hasPacketRecipient(c3.val[1]) \/ c5.val = Zeros(Wide)
        /\ ~c5.short =>
             /\ ~c4.short
             /\ Len(c4.rest) = (IF hasPacketRecipient(c3.val[1]) THEN Wide ELSE 0) + Len(c5.rest)
    <2>1. CASE hasPacketRecipient(c3.val[1])
      <3>1. c5 = read_uint(c4, Wide)
        BY <2>1
      <3> HIDE DEF c5
      <3> QED
        BY <1>2, <1>7, <2>1, <3>1, UintType
    <2>2. CASE ~hasPacketRecipient(c3.val[1])
      <3>1. c5 = [rest |-> c4.rest, val |-> Zeros(Wide), short |-> c4.short]
        BY <2>2 DEF Absent
      <3> HIDE DEF c5
      <3>2. Zeros(Wide) \in Bytes /\ Len(Zeros(Wide)) = Wide
        BY <1>2, ZerosType
      <3>3. c4.rest \in Bytes /\ c4.short \in BOOLEAN /\ Len(c4.rest) \in Nat
        BY <1>7 DEF Cursors, Bytes
      <3>4. c5 \in Cursors /\ c5.rest = c4.rest /\ c5.short = c4.short /\ c5.val = Zeros(Wide)
        BY <3>1, <3>2, <3>3 DEF Cursors
      <3>5. Len(c4.rest) = 0 + Len(c5.rest)
        BY <3>3, <3>4
      <3> QED
        BY <2>2, <3>2, <3>4, <3>5
    <2> QED
      BY <2>1, <2>2
  <1> HIDE DEF c5
  <1>9. /\ h.ttl = c1.val[1] /\ h.timestamp = c2.val /\ h.flags = c3.val[1]
        /\ h.sender = c4.val /\ h.recipient = c5.val /\ h.cursor = c5
    BY <1>1
  <1>10. IsHeader(h)
    <2>1. /\ c1.val \in Bytes /\ c2.val \in Bytes /\ c3.val \in Bytes /\ c4.val \in Bytes
          /\ c5.val \in Bytes
      BY <1>4, <1>5, <1>6, <1>7, <1>8 DEF Cursors
    <2>2. c1.val[1] \in Byte /\ c3.val[1] \in Byte
      BY <1>2, <1>4, <1>6, <2>1, FirstByte
    <2>3. h.ttl \in Byte /\ h.flags \in Byte
      BY <1>9, <2>2
    <2>4. /\ h.timestamp \in Bytes /\ Len(h.timestamp) = Wide
          /\ h.sender \in Bytes /\ Len(h.sender) = Wide
          /\ h.recipient \in Bytes /\ Len(h.recipient) = Wide
      BY <1>5, <1>7, <1>8, <1>9, <2>1
    <2>5. hasPacketRecipient(h.flags) \/ h.recipient = Zeros(Wide)
      BY <1>8, <1>9
    <2> QED
      BY <2>3, <2>4, <2>5 DEF IsHeader
  <1>11. Len(Recipient(h)) = IF hasPacketRecipient(c3.val[1]) THEN Wide ELSE 0
    BY <1>8, <1>9 DEF Recipient
  <1>12. ASSUME ~c5.short PROVE Len(body) = Fixed + Len(Recipient(h)) + Len(c5.rest)
    <2>1. ~c4.short /\ ~c3.short /\ ~c2.short /\ ~c1.short
      BY <1>5, <1>6, <1>7, <1>8, <1>12, Zenon
    <2>2. /\ Len(body) = 1 + Len(c1.rest) /\ Len(c1.rest) = Wide + Len(c2.rest)
          /\ Len(c2.rest) = 1 + Len(c3.rest) /\ Len(c3.rest) = Wide + Len(c4.rest)
          /\ Len(c4.rest) = Len(Recipient(h)) + Len(c5.rest)
      BY <1>3, <1>4, <1>5, <1>6, <1>7, <1>8, <1>11, <1>12, <2>1, Zenon
    <2>3. Len(c5.rest) \in Nat /\ Len(Recipient(h)) \in Nat
      BY <1>2, <1>8, <1>11 DEF Cursors, Bytes
    <2> DEFINE a == Len(Recipient(h))
               z == Len(c5.rest)
    <2>4. Len(body) = 1 + (Wide + (1 + (Wide + (a + z))))
      BY <2>2, Zenon
    <2>5. a \in Nat /\ z \in Nat
      BY <2>3
    <2> HIDE DEF a, z
    <2>6. Len(body) = Fixed + a + z
      BY <1>2, <2>4, <2>5 DEF Fixed
    <2> QED
      BY <2>6 DEF a, z
  <1> QED
    BY <1>8, <1>9, <1>10, <1>12

\* A header, and what follows it, in the order in which it is read.
HeaderBody(p, r) ==
  <<p.ttl>> \o (p.timestamp \o (<<p.flags>> \o (p.sender \o (Recipient(p) \o r))))

LEMMA RecipientType ==
  ASSUME NEW p, IsHeader(p)
  PROVE  Recipient(p) \in Bytes /\ Len(Recipient(p)) \in Nat
  <1>1. << >> \in Bytes /\ Len(<< >>) = 0 /\ p.recipient \in Bytes
    BY DEF IsHeader, Bytes
  <1>2. Recipient(p) \in Bytes
    BY <1>1 DEF Recipient
  <1> QED
    BY <1>2 DEF Bytes

\* Byte sequences, and how they are put together from the left and from the
\* right.
AreBytes(k, x, t, f, s, q, r) ==
  /\ k \in Bytes /\ x \in Bytes /\ t \in Bytes /\ f \in Bytes /\ s \in Bytes
  /\ q \in Bytes /\ r \in Bytes
LeftSum(k, x, t, f, s, q) == ((((k \o x) \o t) \o f) \o s) \o q
RightSum(x, t, f, s, q, r) == x \o (t \o (f \o (s \o (q \o r))))

LEMMA SixParts ==
  ASSUME NEW k, NEW x, NEW t, NEW f, NEW s, NEW q, NEW r,
         AreBytes(k, x, t, f, s, q, r)
  PROVE  /\ LeftSum(k, x, t, f, s, q) \in Bytes
         /\ Len(LeftSum(k, x, t, f, s, q)) =
              Len(k) + Len(x) + Len(t) + Len(f) + Len(s) + Len(q)
         /\ RightSum(x, t, f, s, q, r) \in Bytes
         /\ LeftSum(k, x, t, f, s, q) \o r = k \o RightSum(x, t, f, s, q, r)
  <1> DEFINE a1 == k \o x
             a2 == a1 \o t
             a3 == a2 \o f
             a4 == a3 \o s
             a5 == a4 \o q
             b5 == q \o r
             b4 == s \o b5
             b3 == f \o b4
             b2 == t \o b3
             b1 == x \o b2
  <1>k. k \in Bytes
    BY DEF AreBytes
  <1>x. x \in Bytes
    BY DEF AreBytes
  <1>t. t \in Bytes
    BY DEF AreBytes
  <1>f. f \in Bytes
    BY DEF AreBytes
  <1>s. s \in Bytes
    BY DEF AreBytes
  <1>q. q \in Bytes
    BY DEF AreBytes
  <1>r. r \in Bytes
    BY DEF AreBytes
  <1>1. a1 \in Bytes /\ Len(a1) = Len(k) + Len(x)
    BY <1>k, <1>x, ConcatBytes
  <1>2. b5 \in Bytes
    BY <1>q, <1>r, ConcatBytes
  <1> HIDE DEF a1, b5
  <1>3. a2 \in Bytes /\ Len(a2) = Len(a1) + Len(t)
    BY <1>t, <1>1, ConcatBytes
  <1>4. b4 \in Bytes
    BY <1>s, <1>2, ConcatBytes
  <1> HIDE DEF a2, b4
  <1>5. a3 \in Bytes /\ Len(a3) = Len(a2) + Len(f)
    BY <1>f, <1>3, ConcatBytes
  <1>6. b3 \in Bytes
    BY <1>f, <1>4, ConcatBytes
  <1> HIDE DEF a3, b3
  <1>7. a4 \in Bytes /\ Len(a4) = Len(a3) + Len(s)
    BY <1>s, <1>5, ConcatBytes
  <1>8. b2 \in Bytes
    BY <1>t, <1>6, ConcatBytes
  <1> HIDE DEF a4, b2
  <1>9. a5 \in Bytes /\ Len(a5) = Len(a4) + Len(q)
    BY <1>q, <1>7, ConcatBytes
  <1>10. b1 \in Bytes
    BY <1>x, <1>8, ConcatBytes
  <1> HIDE DEF a5, b1
  <1>11. a5 \o r = a4 \o b5
    <2>1. (a4 \o q) \o r = a4 \o (q \o r)
      BY <1>q, <1>r, <1>7, Associative
    <2> QED
      BY <2>1, Zenon DEF a5, b5
  <1>12. a4 \o b5 = a3 \o b4
    <2>1. (a3 \o s) \o b5 = a3 \o (s \o b5)
      BY <1>s, <1>2, <1>5, Associative
    <2> QED
      BY <2>1, Zenon DEF a4, b4
  <1>13. a3 \o b4 = a2 \o b3
    <2>1. (a2 \o f) \o b4 = a2 \o (f \o b4)
      BY <1>f, <1>3, <1>4, Associative
    <2> QED
      BY <2>1, Zenon DEF a3, b3
  <1>14. a2 \o b3 = a1 \o b2
    <2>1. (a1 \o t) \o b3 = a1 \o (t \o b3)
      BY <1>t, <1>1, <1>6, Associative
    <2> QED
      BY <2>1, Zenon DEF a2, b2
  <1>15. a1 \o b2 = k \o b1
    <2>1. (k \o x) \o b2 = k \o (x \o b2)
      BY <1>k, <1>x, <1>8, Associative
    <2> QED
      BY <2>1, Zenon DEF a1, b1
  <1>16. Len(a5) = Len(k) + Len(x) + Len(t) + Len(f) + Len(s) + Len(q)
    BY <1>1, <1>3, <1>5, <1>7, <1>9, Zenon
  <1>17. LeftSum(k, x, t, f, s, q) = a5
    BY Zenon DEF LeftSum, a1, a2, a3, a4, a5
  <1>18. RightSum(x, t, f, s, q, r) = b1
    BY Zenon DEF RightSum, b1, b2, b3, b4, b5
  <1> QED
    BY <1>9, <1>10, <1>11, <1>12, <1>13, <1>14, <1>15, <1>16, <1>17, <1>18, Zenon

LEMMA HeaderWritten ==
  ASSUME NEW p, IsHeader(p), p.type \in Byte, NEW r \in Bytes
  PROVE  /\ WriteHeader(p) \in Bytes
         /\ Len(WriteHeader(p)) = 2 + Fixed + Len(Recipient(p))
         /\ WriteHeader(p) \o r = <<1, p.type>> \o HeaderBody(p, r)
         /\ HeaderBody(p, r) \in Bytes /\ <<1, p.type>> \in Bytes
  <1> DEFINE k == <<1, p.type>>
             x == <<p.ttl>>
             t == p.timestamp
             f == <<p.flags>>
             s == p.sender
             q == Recipient(p)
  <1>1. /\ k \in Bytes /\ Len(k) = 2 /\ x \in Bytes /\ Len(x) = 1 /\ f \in Bytes /\ Len(f) = 1
    BY BytesAssumption DEF IsHeader, Bytes, Byte
  <1>2. t \in Bytes /\ Len(t) = Wide /\ s \in Bytes /\ Len(s) = Wide /\ q \in Bytes /\ Len(q) \in Nat
    BY RecipientType DEF IsHeader
  <1>3. k \o x = <<1, p.type, p.ttl>>
    <2> DEFINE u == <<1, p.type, p.ttl>>
               v == k \o x
    <2>1. u \in Seq(Byte) /\ Len(u) = 3 /\ u[1] = 1 /\ u[2] = p.type /\ u[3] = p.ttl
      BY BytesAssumption DEF IsHeader, Byte
    <2>2. v \in Seq(Byte) /\ Len(v) = 3 /\ v[1] = k[1] /\ v[2] = k[2] /\ v[3] = x[1]
      <3>0. k \in Seq(Byte) /\ x \in Seq(Byte) /\ Len(k) = 2 /\ Len(x) = 1
        BY <1>1 DEF Bytes
      <3>1. /\ v \in Seq(Byte) /\ Len(v) = Len(k) + Len(x)
            /\ \A i \in 1 .. Len(k) + Len(x) : v[i] = IF i <= Len(k) THEN k[i] ELSE x[i - Len(k)]
        BY <3>0, ConcatProperties
      <3> HIDE DEF k, x, v
      <3> QED
        BY <3>0, <3>1
    <2>3. k[1] = 1 /\ k[2] = p.type /\ x[1] = p.ttl
      OBVIOUS
    <2> HIDE DEF u, v, k, x
    <2>4. u = v
      BY <2>1, <2>2, <2>3, SameSeq
    <2> QED
      BY <2>4 DEF u, v
  <1>4. WriteHeader(p) = LeftSum(k, x, t, f, s, q)
    BY <1>3 DEF WriteHeader, WriteBase, Recipient, LeftSum
  <1>5. HeaderBody(p, r) = RightSum(x, t, f, s, q, r)
    BY DEF HeaderBody, RightSum
  <1> HIDE DEF k, x, t, f, s, q
  <1>6. AreBytes(k, x, t, f, s, q, r)
    BY <1>1, <1>2 DEF AreBytes
  <1>7. /\ LeftSum(k, x, t, f, s, q) \in Bytes
        /\ Len(LeftSum(k, x, t, f, s, q)) = Len(k) + Len(x) + Len(t) + Len(f) + Len(s) + Len(q)
        /\ RightSum(x, t, f, s, q, r) \in Bytes
        /\ LeftSum(k, x, t, f, s, q) \o r = k \o RightSum(x, t, f, s, q, r)
    BY <1>6, SixParts
  <1>10. Len(WriteHeader(p)) = 2 + Fixed + Len(q)
    <2>1. 2 + 1 + Wide + 1 + Wide + Len(q) = 2 + Fixed + Len(q)
      BY <1>2, BytesAssumption DEF Fixed
    <2>2. Len(WriteHeader(p)) = 2 + 1 + Wide + 1 + Wide + Len(q)
      BY <1>1, <1>2, <1>4, <1>7, Zenon
    <2> QED
      BY <2>1, <2>2
  <1>11. WriteHeader(p) \in Bytes /\ HeaderBody(p, r) \in Bytes
    BY <1>4, <1>5, <1>7, Zenon
  <1>12. WriteHeader(p) \o r = k \o HeaderBody(p, r)
    BY <1>4, <1>5, <1>7, Zenon
  <1> QED
    BY <1>1, <1>10, <1>11, <1>12, Zenon DEF k, q

\* A header is read back as it was written.
LEMMA HeaderBack ==
  ASSUME NEW p, IsHeader(p), NEW r \in Bytes
  PROVE  ReadHeader(HeaderBody(p, r)) =
           [ttl |-> p.ttl, timestamp |-> p.timestamp, flags |-> p.flags,
            sender |-> p.sender, recipient |-> p.recipient,
            cursor |-> [rest |-> r, val |-> p.recipient, short |-> FALSE]]
  <1> DEFINE body == HeaderBody(p, r)
             b5 == Recipient(p) \o r
             b4 == p.sender \o b5
             b3 == <<p.flags>> \o b4
             b2 == p.timestamp \o b3
             c0 == Cursor(body)
             c1 == read_uint(c0, 1)
             c2 == read_uint(c1, Wide)
             c3 == read_uint(c2, 1)
             c4 == read_uint(c3, Wide)
             c5 == IF hasPacketRecipient(c3.val[1]) THEN read_uint(c4, Wide)
                   ELSE Absent(c4, Wide)
  <1>1. ReadHeader(body) =
          [ttl |-> c1.val[1], timestamp |-> c2.val, flags |-> c3.val[1],
           sender |-> c4.val, recipient |-> c5.val, cursor |-> c5]
    BY DEF ReadHeader, ReadBase
  <1>2. body = <<p.ttl>> \o b2
    BY DEF HeaderBody
  <1>3. /\ Wide \in Nat /\ 1 \in Nat /\ p.timestamp \in Bytes /\ Len(p.timestamp) = Wide
        /\ p.sender \in Bytes /\ Len(p.sender) = Wide /\ p.ttl \in Byte /\ p.flags \in Byte
        /\ p.recipient \in Bytes /\ Len(p.recipient) = Wide /\ Recipient(p) \in Bytes
    BY BytesAssumption, RecipientType DEF IsHeader
  <1>w. Wide \in Nat
    BY <1>3
  <1>t. p.timestamp \in Bytes /\ Len(p.timestamp) = Wide
    BY <1>3
  <1>s. p.sender \in Bytes /\ Len(p.sender) = Wide
    BY <1>3
  <1>r. p.recipient \in Bytes /\ Len(p.recipient) = Wide
    BY <1>3
  <1>4. <<p.ttl>> \in Bytes /\ Len(<<p.ttl>>) = 1 /\ <<p.ttl>>[1] = p.ttl
    BY <1>3, OneByte
  <1>5. <<p.flags>> \in Bytes /\ Len(<<p.flags>>) = 1 /\ <<p.flags>>[1] = p.flags
    BY <1>3, OneByte
  <1>b5. b5 \in Bytes
    BY <1>3, ConcatBytes
  <1> HIDE DEF b5
  <1>b4. b4 \in Bytes
    BY <1>3, <1>b5, ConcatBytes
  <1> HIDE DEF b4
  <1>b3. b3 \in Bytes
    BY <1>5, <1>b4, ConcatBytes
  <1> HIDE DEF b3
  <1>b2. b2 \in Bytes
    BY <1>3, <1>b3, ConcatBytes
  <1> HIDE DEF b2
  <1>b1. body \in Bytes
    BY <1>2, <1>4, <1>b2, ConcatBytes
  <1> HIDE DEF body
  <1>c0. c0 \in Cursors /\ c0.rest = <<p.ttl>> \o b2 /\ c0.short = FALSE
    BY <1>2, <1>b1, CursorType
  <1> HIDE DEF c0
  <1>c1. c1 \in Cursors /\ c1.rest = b2 /\ c1.val = <<p.ttl>> /\ c1.short = FALSE
    <2>1. c0 \in Cursors /\ c0.rest = <<p.ttl>> \o b2 /\ c0.short = FALSE
      BY <1>c0
    <2>2. c1 = [rest |-> b2, val |-> <<p.ttl>>, short |-> c0.short]
      BY <1>4, <1>b2, <2>1, UintBack
    <2> HIDE DEF c1
    <2>3. c1 = [rest |-> b2, val |-> <<p.ttl>>, short |-> FALSE]
      BY <2>1, <2>2
    <2> QED
      BY <1>4, <1>b2, <2>3, CursorFields
  <1> HIDE DEF c1
  <1>c2. c2 \in Cursors /\ c2.rest = b3 /\ c2.val = p.timestamp /\ c2.short = FALSE
    <2>1. c1 \in Cursors /\ c1.rest = p.timestamp \o b3 /\ c1.short = FALSE
      BY <1>c1 DEF b2
    <2>2. c2 = [rest |-> b3, val |-> p.timestamp, short |-> c1.short]
      BY <1>t, <1>b3, <2>1, UintBack
    <2> HIDE DEF c2
    <2>3. c2 = [rest |-> b3, val |-> p.timestamp, short |-> FALSE]
      BY <2>1, <2>2
    <2> QED
      BY <1>t, <1>b3, <2>3, CursorFields
  <1> HIDE DEF c2
  <1>c3. c3 \in Cursors /\ c3.rest = b4 /\ c3.val = <<p.flags>> /\ c3.short = FALSE
    <2>1. c2 \in Cursors /\ c2.rest = <<p.flags>> \o b4 /\ c2.short = FALSE
      BY <1>c2 DEF b3
    <2>2. c3 = [rest |-> b4, val |-> <<p.flags>>, short |-> c2.short]
      BY <1>5, <1>b4, <2>1, UintBack
    <2> HIDE DEF c3
    <2>3. c3 = [rest |-> b4, val |-> <<p.flags>>, short |-> FALSE]
      BY <2>1, <2>2
    <2> QED
      BY <1>5, <1>b4, <2>3, CursorFields
  <1> HIDE DEF c3
  <1>c4. c4 \in Cursors /\ c4.rest = b5 /\ c4.val = p.sender /\ c4.short = FALSE
    <2>1. c3 \in Cursors /\ c3.rest = p.sender \o b5 /\ c3.short = FALSE
      BY <1>c3 DEF b4
    <2>2. c4 = [rest |-> b5, val |-> p.sender, short |-> c3.short]
      BY <1>s, <1>b5, <2>1, UintBack
    <2> HIDE DEF c4
    <2>3. c4 = [rest |-> b5, val |-> p.sender, short |-> FALSE]
      BY <2>1, <2>2
    <2> QED
      BY <1>s, <1>b5, <2>3, CursorFields
  <1> HIDE DEF c4
  <1>6. c3.val[1] = p.flags
    BY <1>5, <1>c3
  <1>c5. c5 = [rest |-> r, val |-> p.recipient, short |-> FALSE]
    <2>1. CASE hasPacketRecipient(p.flags)
      <3>1. c5 = read_uint(c4, Wide) /\ b5 = p.recipient \o r
        BY <1>6, <2>1 DEF b5, Recipient
      <3> HIDE DEF c5
      <3>2. c4.rest = p.recipient \o r
        BY <1>c4, <3>1
      <3>3. read_uint(c4, Wide) = [rest |-> r, val |-> p.recipient, short |-> c4.short]
        BY <1>r, <1>c4, <3>2, UintBack
      <3> QED
        BY <1>c4, <3>1, <3>3
    <2>2. CASE ~hasPacketRecipient(p.flags)
      <3>1. c5 = Absent(c4, Wide) /\ b5 = << >> \o r /\ p.recipient = Zeros(Wide)
        BY <1>6, <2>2 DEF b5, Recipient, IsHeader
      <3>2. << >> \o r = r
        BY ConcatEmptySeq DEF Bytes
      <3> HIDE DEF c5
      <3> QED
        BY <1>c4, <3>1, <3>2 DEF Absent
    <2> QED
      BY <2>1, <2>2
  <1> HIDE DEF c5
  <1>7. c1.val[1] = p.ttl /\ c5.val = p.recipient
    BY <1>4, <1>c1, <1>c5
  <1>8. ReadHeader(body) =
          [ttl |-> p.ttl, timestamp |-> p.timestamp, flags |-> p.flags,
           sender |-> p.sender, recipient |-> p.recipient,
           cursor |-> [rest |-> r, val |-> p.recipient, short |-> FALSE]]
    BY <1>1, <1>6, <1>7, <1>c2, <1>c4, <1>c5
  <1> QED
    BY <1>8 DEF body

\* The header fields that a packet takes over from its header.
SameHeader(p, h) ==
  /\ p.ttl = h.ttl /\ p.timestamp = h.timestamp /\ p.flags = h.flags
  /\ p.sender = h.sender /\ p.recipient = h.recipient

LEMMA HeaderOf ==
  ASSUME NEW p, NEW h, SameHeader(p, h), IsHeader(h)
  PROVE  IsHeader(p) /\ Recipient(p) = Recipient(h)
  BY DEF SameHeader, IsHeader, Recipient

-----------------------------------------------------------------------------
(***************************************************************************)
(* Announcements.                                                          *)
(***************************************************************************)

LEMMA AtLeast ==
  ASSUME NEW n, NEW a \in Nat, NEW b \in Nat, NEW c \in Nat, n = a + b + c
  PROVE  n >= a + b
  OBVIOUS

\* An announcement that was read whole is not shorter than what is passed on.
LEMMA AnnounceType ==
  ASSUME NEW body \in Bytes
  PROVE  LET p == ReadAnnounce(body)
         IN /\ IsHeader(p) /\ p.type = type_announce
            /\ p.whole => Len(body) >= Fixed + Len(Recipient(p))
  <1> DEFINE p == ReadAnnounce(body)
             h == ReadHeader(body)
             n == ReadString(h.cursor, 1)
  <1> SUFFICES /\ IsHeader(p) /\ p.type = type_announce
               /\ p.whole => Len(body) >= Fixed + Len(Recipient(p))
    OBVIOUS
  <1>1. p = [type |-> type_announce, ttl |-> h.ttl, timestamp |-> h.timestamp,
             flags |-> h.flags, sender |-> h.sender, recipient |-> h.recipient,
             name |-> n.val, whole |-> ~n.short]
    BY DEF ReadAnnounce
  <1>2. /\ IsHeader(h) /\ h.cursor \in Cursors
        /\ ~h.cursor.short => Len(body) = Fixed + Len(Recipient(h)) + Len(h.cursor.rest)
    BY HeaderType
  <1> HIDE DEF p, h
  <1>3. /\ n \in Cursors
        /\ ~n.short => /\ ~h.cursor.short
                       /\ Len(h.cursor.rest) = 1 + Len(n.val) + Len(n.rest)
    BY <1>2, StringType
  <1> HIDE DEF n
  <1>4. SameHeader(p, h) /\ p.type = type_announce /\ p.whole = ~n.short
    BY <1>1 DEF SameHeader
  <1>5. IsHeader(p) /\ Recipient(p) = Recipient(h)
    BY <1>2, <1>4, HeaderOf
  <1>6. ASSUME p.whole PROVE Len(body) >= Fixed + Len(Recipient(p))
    <2>1. ~n.short
      BY <1>4, <1>6
    <2>2. ~h.cursor.short
      BY <1>3, <2>1, Zenon
    <2>3. Len(body) = Fixed + Len(Recipient(p)) + Len(h.cursor.rest)
      BY <1>2, <1>5, <2>2
    <2>4. Len(h.cursor.rest) \in Nat /\ Len(Recipient(p)) \in Nat /\ Fixed \in Nat
      BY <1>2, <1>5, RecipientType, BytesAssumption DEF Cursors, Bytes, Fixed
    <2> QED
      BY <2>3, <2>4, AtLeast
  <1> QED
    BY <1>4, <1>5, <1>6

\* Passed on without its name, an announcement keeps its header.
LEMMA PassAlongBack ==
  ASSUME NEW p, IsHeader(p), NEW r \in Bytes
  PROVE  LET q == ReadAnnounce(HeaderBody(p, r))
         IN SameHeader(q, p) /\ q.type = type_announce
  <1> DEFINE body == HeaderBody(p, r)
             h == ReadHeader(body)
             n == ReadString(h.cursor, 1)
             q == ReadAnnounce(body)
  <1>1. q = [type |-> type_announce, ttl |-> h.ttl, timestamp |-> h.timestamp,
             flags |-> h.flags, sender |-> h.sender, recipient |-> h.recipient,
             name |-> n.val, whole |-> ~n.short]
    BY DEF ReadAnnounce
  <1>2. h = [ttl |-> p.ttl, timestamp |-> p.timestamp, flags |-> p.flags,
             sender |-> p.sender, recipient |-> p.recipient,
             cursor |-> [rest |-> r, val |-> p.recipient, short |-> FALSE]]
    BY HeaderBack
  <1> HIDE DEF h, n, q
  <1>3. SameHeader(h, p)
    BY <1>2 DEF SameHeader
  <1>4. SameHeader(q, p) /\ q.type = type_announce
    BY <1>1, <1>3 DEF SameHeader
  <1> QED
    BY <1>4 DEF q

\* Our own announcement is read back with its name.
LEMMA AnnounceBack ==
  ASSUME NEW p, IsHeader(p), p.name \in Bytes, Len(p.name) <= Most(1)
  PROVE  ReadAnnounce(HeaderBody(p, WriteString(p.name, 1))) =
           [type |-> type_announce, ttl |-> p.ttl, timestamp |-> p.timestamp,
            flags |-> p.flags, sender |-> p.sender, recipient |-> p.recipient,
            name |-> p.name, whole |-> TRUE]
  <1> DEFINE r == WriteString(p.name, 1)
             body == HeaderBody(p, r)
             h == ReadHeader(body)
             n == ReadString(h.cursor, 1)
             q == ReadAnnounce(body)
  <1>1. q = [type |-> type_announce, ttl |-> h.ttl, timestamp |-> h.timestamp,
             flags |-> h.flags, sender |-> h.sender, recipient |-> h.recipient,
             name |-> n.val, whole |-> ~n.short]
    BY DEF ReadAnnounce
  <1>2. r \in Bytes /\ << >> \in Bytes
    BY StringWritten DEF Bytes
  <1>3. r = r \o << >>
    BY <1>2, ConcatEmptySeq DEF Bytes
  <1> HIDE DEF r
  <1>4. h = [ttl |-> p.ttl, timestamp |-> p.timestamp, flags |-> p.flags,
             sender |-> p.sender, recipient |-> p.recipient,
             cursor |-> [rest |-> r, val |-> p.recipient, short |-> FALSE]]
    BY <1>2, HeaderBack
  <1> HIDE DEF h
  <1>5. SameHeader(h, p) /\ h.cursor = [rest |-> r, val |-> p.recipient, short |-> FALSE]
    BY <1>4 DEF SameHeader
  <1>6. /\ h.cursor \in Cursors /\ h.cursor.short = FALSE
        /\ h.cursor.rest = WriteString(p.name, 1) \o << >>
    <2>1. p.recipient \in Bytes
      BY DEF IsHeader
    <2>2. h.cursor \in Cursors /\ h.cursor.rest = r /\ h.cursor.short = FALSE
      <3> DEFINE c == h.cursor
      <3>1. r \in Bytes /\ c = [rest |-> r, val |-> p.recipient, short |-> FALSE]
        BY <1>2, <1>5
      <3> HIDE DEF c
      <3>2. c \in Cursors /\ c.rest = r /\ c.short = FALSE
        BY <2>1, <3>1, CursorFields
      <3> QED
        BY <3>2 DEF c
    <2> QED
      BY <1>3, <2>2 DEF r
  <1>7. n = [rest |-> << >>, val |-> p.name, short |-> h.cursor.short]
    BY <1>2, <1>6, StringBack
  <1> HIDE DEF n
  <1>8. n.val = p.name /\ n.short = FALSE
    BY <1>6, <1>7
  <1>9. q = [type |-> type_announce, ttl |-> p.ttl, timestamp |-> p.timestamp,
             flags |-> p.flags, sender |-> p.sender, recipient |-> p.recipient,
             name |-> p.name, whole |-> TRUE]
    BY <1>1, <1>5, <1>8 DEF SameHeader
  <1> QED
    BY <1>9 DEF r

-----------------------------------------------------------------------------
(***************************************************************************)
(* Messages.                                                               *)
(***************************************************************************)

IsMessage(p) ==
  /\ IsHeader(p) /\ p.message_flags \in Byte
  /\ p.message_timestamp \in Bytes /\ Len(p.message_timestamp) = Wide
  /\ p.message_id \in Bytes /\ Len(p.message_id) <= Most(1)
  /\ p.sender_nickname \in Bytes /\ Len(p.sender_nickname) <= Most(1)
  /\ p.content \in Bytes /\ Len(p.content) <= Most(2)

\* The part of a message behind the header, and what follows it, in the order
\* in which it is read.
MessageBody(p, z) ==
  <<p.message_flags>> \o (p.message_timestamp \o (WriteString(p.message_id, 1)
    \o (WriteString(p.sender_nickname, 1) \o (WriteString(p.content, 2) \o z))))

\* How long that part is.
MessageSize(p) ==
  1 + Wide + (1 + Len(p.message_id)) + (1 + Len(p.sender_nickname)) + (2 + Len(p.content))

LEMMA Sizes ==
  ASSUME NEW p, IsMessage(p)
  PROVE  /\ Fixed \in Nat /\ Len(Recipient(p)) \in Nat /\ MessageSize(p) \in Nat
         /\ Len(p.message_id) \in Nat /\ Len(p.sender_nickname) \in Nat /\ Len(p.content) \in Nat
  <1>1. Len(Recipient(p)) \in Nat
    BY RecipientType DEF IsMessage
  <1>2. Len(p.message_id) \in Nat /\ Len(p.sender_nickname) \in Nat /\ Len(p.content) \in Nat
    BY DEF IsMessage, Bytes
  <1> DEFINE a == Len(p.message_id)
             b == Len(p.sender_nickname)
             d == Len(p.content)
  <1>3. MessageSize(p) = 1 + Wide + (1 + a) + (1 + b) + (2 + d)
    BY DEF MessageSize
  <1>4. a \in Nat /\ b \in Nat /\ d \in Nat /\ Wide \in Nat
    BY <1>2, BytesAssumption
  <1> HIDE DEF a, b, d
  <1>5. MessageSize(p) \in Nat
    BY <1>3, <1>4
  <1>6. Fixed \in Nat
    BY <1>4 DEF Fixed
  <1> QED
    BY <1>1, <1>2, <1>5, <1>6

\* A message that was read whole is not shorter than what is written of it.
LEMMA MessageType ==
  ASSUME NEW body \in Bytes
  PROVE  LET p == ReadMessage(body)
         IN /\ IsMessage(p) /\ p.type = type_message
            /\ p.whole => Len(body) >= Fixed + Len(Recipient(p)) + MessageSize(p)
  <1> DEFINE p == ReadMessage(body)
             h == ReadHeader(body)
             c0 == h.cursor
             c1 == read_uint(c0, 1)
             c2 == read_uint(c1, Wide)
             c3 == ReadString(c2, 1)
             c4 == ReadString(c3, 1)
             c5 == ReadString(c4, 2)
  <1> SUFFICES /\ IsMessage(p) /\ p.type = type_message
               /\ p.whole => Len(body) >= Fixed + Len(Recipient(p)) + MessageSize(p)
    OBVIOUS
  <1>1. p = [type |-> type_message, ttl |-> h.ttl, timestamp |-> h.timestamp,
             flags |-> h.flags, sender |-> h.sender, recipient |-> h.recipient,
             message_flags |-> c1.val[1], message_timestamp |-> c2.val,
             message_id |-> c3.val, sender_nickname |-> c4.val,
             content |-> c5.val, whole |-> ~c5.short]
    BY DEF ReadMessage
  <1>2. /\ IsHeader(h) /\ c0 \in Cursors
        /\ ~c0.short => Len(body) = Fixed + Len(Recipient(h)) + Len(c0.rest)
    BY HeaderType
  <1> HIDE DEF p, h, c0
  <1>3. Wide \in Nat
    BY BytesAssumption
  <1>c1. /\ c1 \in Cursors /\ Len(c1.val) = 1
         /\ ~c1.short => ~c0.short /\ Len(c0.rest) = 1 + Len(c1.rest)
    BY <1>2, UintType
  <1> HIDE DEF c1
  <1>c2. /\ c2 \in Cursors /\ Len(c2.val) = Wide
         /\ ~c2.short => ~c1.short /\ Len(c1.rest) = Wide + Len(c2.rest)
    BY <1>3, <1>c1, UintType
  <1> HIDE DEF c2
  <1>c3. /\ c3 \in Cursors /\ Len(c3.val) \in Nat /\ Len(c3.val) <= Most(1)
         /\ ~c3.short => ~c2.short /\ Len(c2.rest) = 1 + Len(c3.val) + Len(c3.rest)
    BY <1>c2, StringType
  <1> HIDE DEF c3
  <1>c4. /\ c4 \in Cursors /\ Len(c4.val) \in Nat /\ Len(c4.val) <= Most(1)
         /\ ~c4.short => ~c3.short /\ Len(c3.rest) = 1 + Len(c4.val) + Len(c4.rest)
    BY <1>c3, StringType
  <1> HIDE DEF c4
  <1>c5. /\ c5 \in Cursors /\ Len(c5.val) \in Nat /\ Len(c5.val) <= Most(2)
         /\ ~c5.short => ~c4.short /\ Len(c4.rest) = 2 + Len(c5.val) + Len(c5.rest)
    BY <1>c4, StringType
  <1> HIDE DEF c5
  <1>4. /\ SameHeader(p, h) /\ p.type = type_message /\ p.whole = ~c5.short
        /\ p.message_flags = c1.val[1] /\ p.message_timestamp = c2.val
        /\ p.message_id = c3.val /\ p.sender_nickname = c4.val /\ p.content = c5.val
    BY <1>1 DEF SameHeader
  <1>5. IsHeader(p) /\ Recipient(p) = Recipient(h)
    BY <1>2, <1>4, HeaderOf
  <1>6. IsMessage(p)
    <2>1. /\ c1.val \in Bytes /\ c2.val \in Bytes /\ c3.val \in Bytes /\ c4.val \in Bytes
          /\ c5.val \in Bytes
      BY <1>c1, <1>c2, <1>c3, <1>c4, <1>c5 DEF Cursors
    <2>2. c1.val[1] \in Byte
      BY <1>c1, <2>1, FirstByte
    <2>3. p.message_flags \in Byte
      BY <1>4, <2>2
    <2>4. /\ p.message_timestamp \in Bytes /\ Len(p.message_timestamp) = Wide
          /\ p.message_id \in Bytes /\ Len(p.message_id) <= Most(1)
          /\ p.sender_nickname \in Bytes /\ Len(p.sender_nickname) <= Most(1)
          /\ p.content \in Bytes /\ Len(p.content) <= Most(2)
      BY <1>4, <1>c2, <1>c3, <1>c4, <1>c5, <2>1
    <2> QED
      BY <1>5, <2>3, <2>4 DEF IsMessage
  <1>7. ASSUME p.whole PROVE Len(body) >= Fixed + Len(Recipient(p)) + MessageSize(p)
    <2>0. ~c5.short
      BY <1>4, <1>7
    <2>1. ~c4.short /\ ~c3.short /\ ~c2.short /\ ~c1.short /\ ~c0.short
      BY <1>c1, <1>c2, <1>c3, <1>c4, <1>c5, <2>0, Zenon
    <2> DEFINE f == Fixed
               o == Len(Recipient(p))
               a == Len(p.message_id)
               b == Len(p.sender_nickname)
               d == Len(p.content)
               z == Len(c5.rest)
    <2>2. Len(c4.rest) = 2 + d + z /\ Len(c3.rest) = 1 + b + Len(c4.rest)
      BY <1>4, <1>c4, <1>c5, <2>0, <2>1, Zenon
    <2>3. Len(c2.rest) = 1 + a + Len(c3.rest) /\ Len(c1.rest) = Wide + Len(c2.rest)
      BY <1>4, <1>c2, <1>c3, <2>1, Zenon
    <2>4. Len(c0.rest) = 1 + Len(c1.rest) /\ Len(body) = f + o + Len(c0.rest)
      BY <1>2, <1>5, <1>c1, <2>1, Zenon
    <2>5. Len(body) = f + o + (1 + (Wide + (1 + a + (1 + b + (2 + d + z)))))
      BY <2>2, <2>3, <2>4, Zenon
    <2>6. /\ f \in Nat /\ o \in Nat /\ a \in Nat /\ b \in Nat /\ d \in Nat
      BY <1>6, Sizes
    <2>7. z \in Nat
      BY <1>c5 DEF Cursors, Bytes
    <2>8. MessageSize(p) = 1 + Wide + (1 + a) + (1 + b) + (2 + d)
      BY DEF MessageSize
    <2> HIDE DEF f, o, a, b, d, z
    <2>9. Len(body) >= f + o + MessageSize(p)
      BY <1>3, <2>5, <2>6, <2>7, <2>8
    <2> QED
      BY <2>9 DEF f, o
  <1> QED
    BY <1>4, <1>6, <1>7

\* What is written behind the content.
PeerPart(p, id) == IF hasSenderPeerID(p.message_flags) THEN <<2 * Wide>> \o id ELSE << >>

LEMMA PeerPartType ==
  ASSUME NEW p, NEW id \in Bytes
  PROVE  PeerPart(p, id) \in Bytes
  <1>1. 2 * Wide \in Byte /\ << >> \in Bytes
    BY BytesAssumption DEF Byte, Bytes
  <1>2. <<2 * Wide>> \in Bytes
    BY <1>1, OneByte
  <1>3. <<2 * Wide>> \o id \in Bytes
    BY <1>2, ConcatBytes
  <1> QED
    BY <1>1, <1>3 DEF PeerPart

LEMMA MessageParts ==
  ASSUME NEW p, IsMessage(p)
  PROVE  /\ <<p.message_flags>> \in Bytes /\ Len(<<p.message_flags>>) = 1
         /\ WriteString(p.message_id, 1) \in Bytes
         /\ Len(WriteString(p.message_id, 1)) = 1 + Len(p.message_id)
         /\ WriteString(p.sender_nickname, 1) \in Bytes
         /\ Len(WriteString(p.sender_nickname, 1)) = 1 + Len(p.sender_nickname)
         /\ WriteString(p.content, 2) \in Bytes
         /\ Len(WriteString(p.content, 2)) = 2 + Len(p.content)
  <1>1. <<p.message_flags>> \in Bytes /\ Len(<<p.message_flags>>) = 1
    BY OneByte DEF IsMessage
  <1>2. /\ WriteString(p.message_id, 1) \in Bytes
        /\ Len(WriteString(p.message_id, 1)) = 1 + Len(p.message_id)
    BY StringWritten DEF IsMessage
  <1>3. /\ WriteString(p.sender_nickname, 1) \in Bytes
        /\ Len(WriteString(p.sender_nickname, 1)) = 1 + Len(p.sender_nickname)
    BY StringWritten DEF IsMessage
  <1>4. /\ WriteString(p.content, 2) \in Bytes
        /\ Len(WriteString(p.content, 2)) = 2 + Len(p.content)
    BY StringWritten DEF IsMessage
  <1> QED
    BY <1>1, <1>2, <1>3, <1>4

LEMMA MessageWritten ==
  ASSUME NEW p, IsMessage(p), p.type \in Byte, NEW id \in Bytes
  PROVE  LET r == MessageBody(p, PeerPart(p, id))
         IN /\ WriteMessage(p, id) = <<1, p.type>> \o HeaderBody(p, r)
            /\ r \in Bytes /\ HeaderBody(p, r) \in Bytes /\ <<1, p.type>> \in Bytes
            /\ Len(WriteMessage(p, id)) =
                 2 + Fixed + Len(Recipient(p)) + MessageSize(p) + Len(PeerPart(p, id))
  <1> DEFINE k == WriteHeader(p)
             x == <<p.message_flags>>
             t == p.message_timestamp
             f == WriteString(p.message_id, 1)
             s == WriteString(p.sender_nickname, 1)
             q == WriteString(p.content, 2)
             z == PeerPart(p, id)
             r == MessageBody(p, z)
             w == WriteMessage(p, id)
  <1>1. w = LeftSum(k, x, t, f, s, q) \o z
    BY DEF WriteMessage, LeftSum, PeerPart
  <1>2. r = RightSum(x, t, f, s, q, z)
    BY DEF MessageBody, RightSum
  <1>3. IsHeader(p) /\ << >> \in Bytes /\ t \in Bytes /\ Len(t) = Wide
    BY DEF IsMessage, Bytes
  <1>4. k \in Bytes /\ Len(k) = 2 + Fixed + Len(Recipient(p))
    BY <1>3, HeaderWritten
  <1>5. z \in Bytes
    BY PeerPartType
  <1>6. /\ x \in Bytes /\ Len(x) = 1
        /\ f \in Bytes /\ Len(f) = 1 + Len(p.message_id)
        /\ s \in Bytes /\ Len(s) = 1 + Len(p.sender_nickname)
        /\ q \in Bytes /\ Len(q) = 2 + Len(p.content)
    BY MessageParts
  <1> HIDE DEF k, x, t, f, s, q, z, r, w
  <1>7. AreBytes(k, x, t, f, s, q, z)
    BY <1>3, <1>4, <1>5, <1>6 DEF AreBytes
  <1>8. /\ LeftSum(k, x, t, f, s, q) \in Bytes
        /\ Len(LeftSum(k, x, t, f, s, q)) = Len(k) + Len(x) + Len(t) + Len(f) + Len(s) + Len(q)
        /\ RightSum(x, t, f, s, q, z) \in Bytes
        /\ LeftSum(k, x, t, f, s, q) \o z = k \o RightSum(x, t, f, s, q, z)
    BY <1>7, SixParts
  <1>9. r \in Bytes /\ w = k \o r
    BY <1>1, <1>2, <1>8, Zenon
  <1>10. /\ k \o r = <<1, p.type>> \o HeaderBody(p, r)
         /\ HeaderBody(p, r) \in Bytes /\ <<1, p.type>> \in Bytes
    BY <1>3, <1>9, HeaderWritten DEF k
  <1>11. Len(w) = 2 + Fixed + Len(Recipient(p)) + MessageSize(p) + Len(z)
    <2> DEFINE l == LeftSum(k, x, t, f, s, q)
               a == Len(p.message_id)
               b == Len(p.sender_nickname)
               d == Len(p.content)
               o == Len(Recipient(p))
               y == Len(z)
    <2>1. Len(w) = Len(l) + y
      BY <1>1, <1>5, <1>8, ConcatBytes
    <2>2. Len(l) = (2 + Fixed + o) + 1 + Wide + (1 + a) + (1 + b) + (2 + d)
      BY <1>3, <1>4, <1>6, <1>8, Zenon
    <2>3. MessageSize(p) = 1 + Wide + (1 + a) + (1 + b) + (2 + d)
      BY DEF MessageSize
    <2>4. /\ a \in Nat /\ b \in Nat /\ d \in Nat /\ o \in Nat /\ Fixed \in Nat /\ Wide \in Nat
          /\ y \in Nat
      <3>1. y \in Nat
        BY <1>5 DEF Bytes
      <3> QED
        BY <3>1, Sizes, BytesAssumption
    <2> HIDE DEF l, a, b, d, o, y
    <2>5. Len(w) = 2 + Fixed + o + MessageSize(p) + y
      BY <2>1, <2>2, <2>3, <2>4
    <2> QED
      BY <2>5 DEF o, y
  <1>12. /\ w = <<1, p.type>> \o HeaderBody(p, r)
         /\ r \in Bytes /\ HeaderBody(p, r) \in Bytes /\ <<1, p.type>> \in Bytes
         /\ Len(w) = 2 + Fixed + Len(Recipient(p)) + MessageSize(p) + Len(z)
    BY <1>9, <1>10, <1>11, Zenon
  <1> QED
    BY <1>12, Zenon DEF w, r, z

\* A message is read back as it was written, whatever follows its content.
LEMMA MessageBack ==
  ASSUME NEW p, IsMessage(p), NEW z \in Bytes
  PROVE  ReadMessage(HeaderBody(p, MessageBody(p, z))) =
           [type |-> type_message, ttl |-> p.ttl, timestamp |-> p.timestamp,
            flags |-> p.flags, sender |-> p.sender, recipient |-> p.recipient,
            message_flags |-> p.message_flags, message_timestamp |-> p.message_timestamp,
            message_id |-> p.message_id, sender_nickname |-> p.sender_nickname,
            content |-> p.content, whole |-> TRUE]
  <1> DEFINE x == <<p.message_flags>>
             t == p.message_timestamp
             i == p.message_id
             n == p.sender_nickname
             u == p.content
             b5 == WriteString(u, 2) \o z
             b4 == WriteString(n, 1) \o b5
             b3 == WriteString(i, 1) \o b4
             b2 == t \o b3
             r == MessageBody(p, z)
             body == HeaderBody(p, r)
             h == ReadHeader(body)
             c0 == h.cursor
             c1 == read_uint(c0, 1)
             c2 == read_uint(c1, Wide)
             c3 == ReadString(c2, 1)
             c4 == ReadString(c3, 1)
             c5 == ReadString(c4, 2)
             m == ReadMessage(body)
  <1>1. m = [type |-> type_message, ttl |-> h.ttl, timestamp |-> h.timestamp,
             flags |-> h.flags, sender |-> h.sender, recipient |-> h.recipient,
             message_flags |-> c1.val[1], message_timestamp |-> c2.val,
             message_id |-> c3.val, sender_nickname |-> c4.val,
             content |-> c5.val, whole |-> ~c5.short]
    BY DEF ReadMessage
  <1>2. r = x \o b2
    BY DEF MessageBody
  <1>x. x \in Bytes /\ Len(x) = 1 /\ x[1] = p.message_flags
    BY OneByte DEF IsMessage
  <1>t. t \in Bytes /\ Len(t) = Wide
    BY DEF IsMessage
  <1>i. i \in Bytes /\ Len(i) <= Most(1)
    BY DEF IsMessage
  <1>n. n \in Bytes /\ Len(n) <= Most(1)
    BY DEF IsMessage
  <1>u. u \in Bytes /\ Len(u) <= Most(2)
    BY DEF IsMessage
  <1>3. /\ WriteString(i, 1) \in Bytes /\ WriteString(n, 1) \in Bytes
        /\ WriteString(u, 2) \in Bytes
    BY MessageParts
  <1>4. IsHeader(p) /\ p.recipient \in Bytes
    BY DEF IsMessage, IsHeader
  <1> HIDE DEF x, t, i, n, u
  <1>b5. b5 \in Bytes
    BY <1>3, ConcatBytes
  <1> HIDE DEF b5
  <1>b4. b4 \in Bytes
    BY <1>3, <1>b5, ConcatBytes
  <1> HIDE DEF b4
  <1>b3. b3 \in Bytes
    BY <1>3, <1>b4, ConcatBytes
  <1> HIDE DEF b3
  <1>b2. b2 \in Bytes
    BY <1>t, <1>b3, ConcatBytes
  <1> HIDE DEF b2
  <1>b1. r \in Bytes
    BY <1>2, <1>x, <1>b2, ConcatBytes
  <1> HIDE DEF r
  <1>5. h = [ttl |-> p.ttl, timestamp |-> p.timestamp, flags |-> p.flags,
             sender |-> p.sender, recipient |-> p.recipient,
             cursor |-> [rest |-> r, val |-> p.recipient, short |-> FALSE]]
    BY <1>4, <1>b1, HeaderBack
  <1> HIDE DEF h
  <1>6. SameHeader(h, p) /\ c0 = [rest |-> r, val |-> p.recipient, short |-> FALSE]
    BY <1>5 DEF SameHeader
  <1> HIDE DEF c0
  <1>c0. c0 \in Cursors /\ c0.rest = x \o b2 /\ c0.short = FALSE
    <2>1. r \in Bytes /\ p.recipient \in Bytes
      BY <1>4, <1>b1
    <2>2. c0 \in Cursors /\ c0.rest = r /\ c0.short = FALSE
      BY <1>6, <2>1, CursorFields
    <2> QED
      BY <1>2, <2>2
  <1>c1. c1 \in Cursors /\ c1.rest = b2 /\ c1.val = x /\ c1.short = FALSE
    <2>1. c1 = [rest |-> b2, val |-> x, short |-> c0.short]
      BY <1>x, <1>b2, <1>c0, UintBack
    <2> HIDE DEF c1
    <2>2. c1 = [rest |-> b2, val |-> x, short |-> FALSE]
      BY <1>c0, <2>1
    <2> QED
      BY <1>x, <1>b2, <2>2, CursorFields
  <1> HIDE DEF c1
  <1>c2. c2 \in Cursors /\ c2.rest = b3 /\ c2.val = t /\ c2.short = FALSE
    <2>1. c1 \in Cursors /\ c1.rest = t \o b3 /\ c1.short = FALSE
      BY <1>c1 DEF b2
    <2>2. c2 = [rest |-> b3, val |-> t, short |-> c1.short]
      BY <1>t, <1>b3, <2>1, UintBack
    <2> HIDE DEF c2
    <2>3. c2 = [rest |-> b3, val |-> t, short |-> FALSE]
      BY <2>1, <2>2
    <2> QED
      BY <1>t, <1>b3, <2>3, CursorFields
  <1> HIDE DEF c2
  <1>c3. c3 \in Cursors /\ c3.rest = b4 /\ c3.val = i /\ c3.short = FALSE
    <2>1. c2 \in Cursors /\ c2.rest = WriteString(i, 1) \o b4 /\ c2.short = FALSE
      BY <1>c2 DEF b3
    <2>2. c3 = [rest |-> b4, val |-> i, short |-> c2.short]
      BY <1>i, <1>b4, <2>1, StringBack
    <2> HIDE DEF c3
    <2>3. c3 = [rest |-> b4, val |-> i, short |-> FALSE]
      BY <2>1, <2>2
    <2> QED
      BY <1>i, <1>b4, <2>3, CursorFields
  <1> HIDE DEF c3
  <1>c4. c4 \in Cursors /\ c4.rest = b5 /\ c4.val = n /\ c4.short = FALSE
    <2>1. c3 \in Cursors /\ c3.rest = WriteString(n, 1) \o b5 /\ c3.short = FALSE
      BY <1>c3 DEF b4
    <2>2. c4 = [rest |-> b5, val |-> n, short |-> c3.short]
      BY <1>n, <1>b5, <2>1, StringBack
    <2> HIDE DEF c4
    <2>3. c4 = [rest |-> b5, val |-> n, short |-> FALSE]
      BY <2>1, <2>2
    <2> QED
      BY <1>n, <1>b5, <2>3, CursorFields
  <1> HIDE DEF c4
  <1>c5. c5.val = u /\ c5.short = FALSE
    <2>1. c4 \in Cursors /\ c4.rest = WriteString(u, 2) \o z /\ c4.short = FALSE
      BY <1>c4 DEF b5
    <2>2. c5 = [rest |-> z, val |-> u, short |-> c4.short]
      BY <1>u, <2>1, StringBack
    <2> HIDE DEF c5
    <2> QED
      BY <2>1, <2>2
  <1> HIDE DEF c5, m, body
  <1>7. c1.val[1] = p.message_flags
    BY <1>x, <1>c1
  <1>8. m = [type |-> type_message, ttl |-> p.ttl, timestamp |-> p.timestamp,
             flags |-> p.flags, sender |-> p.sender, recipient |-> p.recipient,
             message_flags |-> p.message_flags, message_timestamp |-> t,
             message_id |-> i, sender_nickname |-> n, content |-> u, whole |-> TRUE]
    BY <1>1, <1>6, <1>7, <1>c2, <1>c3, <1>c4, <1>c5 DEF SameHeader
  <1> QED
    BY <1>8 DEF m, body, r, t, i, n, u

-----------------------------------------------------------------------------
(***************************************************************************)
(* A packet on the wire.                                                   *)
(***************************************************************************)

Types == {type_announce, type_message}

\* A packet with a version and a type that processWrite goes on with.
IsPacket(w) == w \in Bytes /\ Len(w) >= 2 /\ w[2] \in Types

Body(w) == SubSeq(w, 3, Len(w))

LEMMA BodyType ==
  ASSUME NEW w, IsPacket(w)
  PROVE  /\ Body(w) \in Bytes /\ Len(w) = 2 + Len(Body(w)) /\ Len(Body(w)) \in Nat
         /\ \A i \in 1 .. Len(Body(w)) : Body(w)[i] = w[i + 2]
  <1>1. w \in Seq(Byte) /\ Len(w) \in Nat /\ Len(w) >= 2
    BY DEF IsPacket, Bytes
  <1>2. 3 \in 1 .. Len(w) + 1 /\ Len(w) \in 3 - 1 .. Len(w)
    BY <1>1
  <1>3. /\ Body(w) \in Seq(Byte) /\ Len(Body(w)) = Len(w) - 3 + 1
        /\ \A i \in 1 .. Len(w) - 3 + 1 : Body(w)[i] = w[3 + i - 1]
    BY <1>1, <1>2, SubSeqIs DEF Body
  <1>4. Body(w) \in Bytes /\ Len(w) = 2 + Len(Body(w)) /\ Len(Body(w)) \in Nat
    BY <1>1, <1>3 DEF Bytes
  <1>5. ASSUME NEW i \in 1 .. Len(Body(w)) PROVE Body(w)[i] = w[i + 2]
    <2>1. i \in 1 .. Len(w) - 3 + 1 /\ 3 + i - 1 = i + 2
      BY <1>1, <1>3
    <2> QED
      BY <1>3, <2>1
  <1> QED
    BY <1>4, <1>5

\* What is put behind version and type is what is read.
LEMMA Received12 ==
  ASSUME NEW t \in Types, NEW b \in Bytes
  PROVE  /\ IsPacket(<<1, t>> \o b) /\ (<<1, t>> \o b)[2] = t
         /\ Body(<<1, t>> \o b) = b
  <1> DEFINE k == <<1, t>>
             w == k \o b
  <1>1. t \in Byte /\ 1 \in Byte
    BY TypesAssumption, BytesAssumption DEF Types, Byte
  <1>2. k \in Seq(Byte) /\ Len(k) = 2 /\ k[2] = t /\ b \in Seq(Byte) /\ Len(b) \in Nat
    BY <1>1 DEF Bytes
  <1> HIDE DEF k
  <1>3. /\ w \in Seq(Byte) /\ Len(w) = Len(k) + Len(b)
        /\ \A i \in 1 .. Len(k) + Len(b) : w[i] = IF i <= Len(k) THEN k[i] ELSE b[i - Len(k)]
    BY <1>2, ConcatProperties
  <1>4. SubSeq(k \o b, Len(k) + 1, Len(k \o b)) = b
    BY <1>2, SecondPart
  <1>5. Body(w) = b
    <2>1. Len(k) + 1 = 3
      BY <1>2
    <2> QED
      BY <1>4, <2>1 DEF Body
  <1> HIDE DEF w
  <1>6. Len(w) >= 2 /\ w[2] = t
    BY <1>2, <1>3
  <1>7. IsPacket(w) /\ w[2] = t /\ Body(w) = b
    BY <1>3, <1>5, <1>6 DEF IsPacket, Bytes
  <1> QED
    BY <1>7 DEF w, k

LEMMA AcceptedIsPacket ==
  ASSUME NEW w \in Bytes, Accepted(w)
  PROVE  IsPacket(w)
  <1> DEFINE c == Cursor(w)
             v == read_uint(c, 1)
             t == read_uint(v, 1)
  <1>1. v.val[1] \in 1 .. 2 /\ t.val[1] \in Types
    BY DEF Accepted, Types
  <1>2. c \in Cursors /\ c.rest = w
    BY CursorType
  <1>3. Zeros(1) \in Bytes /\ Zeros(1)[1] = 0 /\ Len(w) \in Nat
    <2>1. Zeros(1) \in Bytes
      BY ZerosType
    <2>2. Zeros(1)[1] = 0
      BY DEF Zeros
    <2>3. Len(w) \in Nat
      BY DEF Bytes
    <2> QED
      BY <2>1, <2>2, <2>3
  <1> HIDE DEF c
  <1>4. v = Advance(c, 1, Zeros(1)) /\ t = Advance(v, 1, Zeros(1))
    BY DEF read_uint
  <1>5. v \in Cursors
    BY <1>2, UintType
  <1> HIDE DEF v, t
  <1>6. Len(w) >= 1
    <2> SUFFICES ASSUME ~(Len(w) >= 1) PROVE FALSE
      OBVIOUS
    <2>1. 1 > Len(c.rest)
      BY <1>2, <1>3
    <2>2. v = [rest |-> c.rest, val |-> Zeros(1), short |-> TRUE]
      BY <1>4, <2>1 DEF Advance
    <2>3. v.val[1] = 0
      BY <1>3, <2>2
    <2> QED
      BY <1>1, <2>3
  <1>7. v.rest = SubSeq(w, 2, Len(w))
    <2>1. ~(1 > Len(c.rest)) /\ 1 + 1 = 2
      BY <1>2, <1>3, <1>6
    <2>2. v = [rest |-> SubSeq(c.rest, 1 + 1, Len(c.rest)), val |-> SubSeq(c.rest, 1, 1),
               short |-> c.short]
      BY <1>4, <2>1 DEF Advance
    <2> QED
      BY <1>2, <2>1, <2>2
  <1>8. Len(v.rest) = Len(w) - 1 /\ (Len(w) >= 2 => v.rest[1] = w[2])
    <2> DEFINE u == SubSeq(w, 2, Len(w))
    <2>1. w \in Seq(Byte) /\ 2 \in 1 .. Len(w) + 1 /\ Len(w) \in 2 - 1 .. Len(w)
      BY <1>3, <1>6 DEF Bytes
    <2>2. /\ Len(u) = Len(w) - 2 + 1
          /\ \A i \in 1 .. Len(w) - 2 + 1 : u[i] = w[2 + i - 1]
      BY <2>1, SubSeqIs
    <2>3. v.rest = u
      BY <1>7
    <2> HIDE DEF u
    <2>4. Len(u) = Len(w) - 1 /\ (Len(w) >= 2 => u[1] = w[2])
      BY <1>3, <2>2
    <2> QED
      BY <2>3, <2>4
  <1>9. Len(w) >= 2
    <2> SUFFICES ASSUME ~(Len(w) >= 2) PROVE FALSE
      OBVIOUS
    <2>1. 1 > Len(v.rest)
      BY <1>3, <1>6, <1>8
    <2>2. t = [rest |-> v.rest, val |-> Zeros(1), short |-> TRUE]
      BY <1>4, <2>1 DEF Advance
    <2>3. t.val[1] = 0
      BY <1>3, <2>2
    <2> QED
      BY <1>1, <2>3, TypesAssumption DEF Types
  <1>10. t.val = SubSeq(v.rest, 1, 1)
    <2>1. ~(1 > Len(v.rest))
      BY <1>3, <1>8, <1>9
    <2> QED
      BY <1>4, <2>1 DEF Advance
  <1>11. t.val[1] = w[2]
    <2>1. v.rest \in Seq(Byte) /\ Len(v.rest) >= 1
      BY <1>3, <1>5, <1>8, <1>9 DEF Cursors, Bytes
    <2>2. SubSeq(v.rest, 1, 1)[1] = v.rest[1]
      BY <2>1
    <2> QED
      BY <1>8, <1>9, <1>10, <2>2
  <1> QED
    BY <1>1, <1>9, <1>11 DEF IsPacket

-----------------------------------------------------------------------------
(***************************************************************************)
(* Packets that every repeater takes for the same one.                     *)
(***************************************************************************)

\* They may differ in the time to live and in whether a read came up short,
\* and announcements in the name.
Same(p, q) ==
  /\ p.type = q.type /\ p.timestamp = q.timestamp /\ p.flags = q.flags
  /\ p.sender = q.sender /\ p.recipient = q.recipient
  /\ p.type = type_message =>
       /\ p.message_flags = q.message_flags /\ p.message_timestamp = q.message_timestamp
       /\ p.message_id = q.message_id /\ p.sender_nickname = q.sender_nickname
       /\ p.content = q.content

LEMMA SameMeans ==
  ASSUME NEW p, NEW q, Same(p, q)
  PROVE  Lasting(p) = Lasting(q) /\ Identity(p) = Identity(q)
  <1>1. CASE p.type = type_message
    BY <1>1 DEF Same, Lasting, Identity
  <1>2. CASE p.type # type_message
    BY <1>2 DEF Same, Lasting, Identity
  <1> QED
    BY <1>1, <1>2

LEMMA SameTransitive ==
  ASSUME NEW p, NEW q, NEW r, Same(p, q), Same(q, r)
  PROVE  Same(p, r)
  BY DEF Same

LEMMA ReceivedIs ==
  ASSUME NEW w, IsPacket(w)
  PROVE  /\ w[2] = type_announce => Received(w) = ReadAnnounce(Body(w))
         /\ w[2] = type_message => Received(w) = ReadMessage(Body(w))
  BY TypesAssumption DEF Received, Body

\* The packet that processWrite reads.
LEMMA ReceivedType ==
  ASSUME NEW w, IsPacket(w)
  PROVE  LET p == Received(w)
         IN \/ /\ p.type = type_announce /\ w[2] = type_announce /\ IsHeader(p)
               /\ p.whole => Len(w) >= 2 + Fixed + Len(Recipient(p))
            \/ /\ p.type = type_message /\ w[2] = type_message /\ IsMessage(p)
               /\ p.whole => Len(w) >= 2 + Fixed + Len(Recipient(p)) + MessageSize(p)
  <1> DEFINE p == Received(w)
             b == Body(w)
             n == Len(b)
  <1>1. b \in Bytes /\ Len(w) = 2 + n /\ n \in Nat
    BY BodyType
  <1> HIDE DEF b
  <1>2. CASE w[2] = type_announce
    <2>1. p = ReadAnnounce(b)
      BY <1>2, ReceivedIs DEF b
    <2>2. /\ IsHeader(p) /\ p.type = type_announce
          /\ p.whole => n >= Fixed + Len(Recipient(p))
      BY <1>1, <2>1, AnnounceType
    <2> HIDE DEF p, n
    <2> DEFINE o == Len(Recipient(p))
    <2>3. o \in Nat /\ Fixed \in Nat
      BY <2>2, RecipientType, BytesAssumption DEF Fixed
    <2>4. p.whole => n >= Fixed + o
      BY <2>2
    <2> HIDE DEF o
    <2>5. n >= Fixed + o => Len(w) >= 2 + Fixed + o
      BY <1>1, <2>3
    <2>6. p.whole => Len(w) >= 2 + Fixed + o
      BY <2>4, <2>5
    <2> QED
      BY <1>2, <2>2, <2>6 DEF p, o
  <1>3. CASE w[2] = type_message
    <2>1. p = ReadMessage(b)
      BY <1>3, ReceivedIs DEF b
    <2>2. /\ IsMessage(p) /\ p.type = type_message
          /\ p.whole => n >= Fixed + Len(Recipient(p)) + MessageSize(p)
      BY <1>1, <2>1, MessageType
    <2> HIDE DEF p, n
    <2> DEFINE o == Len(Recipient(p))
               m == MessageSize(p)
    <2>3. o \in Nat /\ Fixed \in Nat /\ m \in Nat
      BY <2>2, Sizes
    <2>4. p.whole => n >= Fixed + o + m
      BY <2>2
    <2> HIDE DEF o, m
    <2>5. n >= Fixed + o + m => Len(w) >= 2 + Fixed + o + m
      BY <1>1, <2>3
    <2>6. p.whole => Len(w) >= 2 + Fixed + o + m
      BY <2>4, <2>5
    <2> QED
      BY <1>3, <2>2, <2>6 DEF p, o, m
  <1> QED
    BY <1>2, <1>3 DEF IsPacket, Types

\* An announcement that is passed on.
LEMMA PassedOn ==
  ASSUME NEW p, IsHeader(p), p.type = type_announce
  PROVE  /\ IsPacket(WritePassAlong(p)) /\ Same(Received(WritePassAlong(p)), p)
         /\ Len(WritePassAlong(p)) = 2 + Fixed + Len(Recipient(p))
  <1> DEFINE w == WritePassAlong(p)
             b == HeaderBody(p, << >>)
             q == ReadAnnounce(b)
  <1>1. << >> \in Bytes /\ p.type \in Byte /\ type_announce \in Types
    BY TypesAssumption DEF Bytes, Types, Byte
  <1>2. /\ WriteHeader(p) \in Bytes /\ Len(WriteHeader(p)) = 2 + Fixed + Len(Recipient(p))
        /\ WriteHeader(p) \o << >> = <<1, p.type>> \o b /\ b \in Bytes
    BY <1>1, HeaderWritten
  <1>3. WriteHeader(p) \o << >> = WriteHeader(p) /\ w = WriteHeader(p)
    BY <1>2, ConcatEmptySeq DEF Bytes, WritePassAlong
  <1>4. SameHeader(q, p) /\ q.type = type_announce
    BY <1>1, PassAlongBack
  <1> HIDE DEF w, b, q
  <1>5. w = <<1, type_announce>> \o b /\ Len(w) = 2 + Fixed + Len(Recipient(p))
    BY <1>2, <1>3
  <1>6. IsPacket(w) /\ w[2] = type_announce /\ Body(w) = b
    BY <1>1, <1>2, <1>5, Received12
  <1>7. Received(w) = q
    BY <1>6, ReceivedIs DEF q
  <1>8. Same(q, p)
    BY <1>4, TypesAssumption DEF Same, SameHeader
  <1>9. /\ IsPacket(w) /\ Same(Received(w), p) /\ Len(w) = 2 + Fixed + Len(Recipient(p))
    BY <1>5, <1>6, <1>7, <1>8
  <1> QED
    BY <1>9 DEF w

\* A message that is written, with whatever id of a peer.
LEMMA WrittenOut ==
  ASSUME NEW p, IsMessage(p), p.type = type_message, NEW id \in Bytes
  PROVE  /\ IsPacket(WriteMessage(p, id)) /\ Same(Received(WriteMessage(p, id)), p)
         /\ Len(WriteMessage(p, id)) =
              2 + Fixed + Len(Recipient(p)) + MessageSize(p) + Len(PeerPart(p, id))
         /\ Received(WriteMessage(p, id)) =
              [type |-> type_message, ttl |-> p.ttl, timestamp |-> p.timestamp,
               flags |-> p.flags, sender |-> p.sender, recipient |-> p.recipient,
               message_flags |-> p.message_flags, message_timestamp |-> p.message_timestamp,
               message_id |-> p.message_id, sender_nickname |-> p.sender_nickname,
               content |-> p.content, whole |-> TRUE]
  <1> DEFINE w == WriteMessage(p, id)
             z == PeerPart(p, id)
             r == MessageBody(p, z)
             b == HeaderBody(p, r)
             q == ReadMessage(b)
  <1>1. z \in Bytes /\ p.type \in Byte /\ type_message \in Types
    BY PeerPartType, TypesAssumption DEF Types, Byte
  <1>2. /\ w = <<1, p.type>> \o b /\ b \in Bytes
        /\ Len(w) = 2 + Fixed + Len(Recipient(p)) + MessageSize(p) + Len(z)
    BY <1>1, MessageWritten
  <1>3. q = [type |-> type_message, ttl |-> p.ttl, timestamp |-> p.timestamp,
             flags |-> p.flags, sender |-> p.sender, recipient |-> p.recipient,
             message_flags |-> p.message_flags, message_timestamp |-> p.message_timestamp,
             message_id |-> p.message_id, sender_nickname |-> p.sender_nickname,
             content |-> p.content, whole |-> TRUE]
    BY <1>1, MessageBack
  <1> HIDE DEF w, z, r, b, q
  <1>4. w = <<1, type_message>> \o b
    BY <1>2
  <1>5. IsPacket(w) /\ w[2] = type_message /\ Body(w) = b
    BY <1>1, <1>2, <1>4, Received12
  <1>6. Received(w) = q
    BY <1>5, ReceivedIs DEF q
  <1>7. Same(q, p)
    BY <1>3 DEF Same
  <1> QED
    BY <1>2, <1>3, <1>5, <1>6, <1>7 DEF w, z

-----------------------------------------------------------------------------
(***************************************************************************)
(* A phone changes the time to live only.                                  *)
(***************************************************************************)

\* Two bodies that differ at most in their first byte.
Tails(a, b) ==
  /\ a \in Bytes /\ b \in Bytes /\ Len(a) >= 1 /\ Len(b) = Len(a)
  /\ \A i \in 2 .. Len(a) : a[i] = b[i]

LEMMA TailsSame ==
  ASSUME NEW a, NEW b, Tails(a, b)
  PROVE  SubSeq(a, 2, Len(a)) = SubSeq(b, 2, Len(b))
  <1> DEFINE u == SubSeq(a, 2, Len(a))
             v == SubSeq(b, 2, Len(b))
  <1>1. /\ a \in Seq(Byte) /\ b \in Seq(Byte) /\ Len(a) \in Nat /\ Len(a) >= 1 /\ Len(b) = Len(a)
        /\ \A i \in 2 .. Len(a) : a[i] = b[i]
    BY DEF Tails, Bytes
  <1>2. 2 \in 1 .. Len(a) + 1 /\ Len(a) \in 2 - 1 .. Len(a)
    BY <1>1
  <1>3. /\ u \in Seq(Byte) /\ Len(u) = Len(a) - 2 + 1
        /\ \A i \in 1 .. Len(a) - 2 + 1 : u[i] = a[2 + i - 1]
    BY <1>1, <1>2, SubSeqIs
  <1>4. /\ v \in Seq(Byte) /\ Len(v) = Len(a) - 2 + 1
        /\ \A i \in 1 .. Len(a) - 2 + 1 : v[i] = b[2 + i - 1]
    <2>1. 2 \in 1 .. Len(b) + 1 /\ Len(b) \in 2 - 1 .. Len(b)
      BY <1>1, <1>2
    <2>2. /\ v \in Seq(Byte) /\ Len(v) = Len(b) - 2 + 1
          /\ \A i \in 1 .. Len(b) - 2 + 1 : v[i] = b[2 + i - 1]
      BY <1>1, <2>1, SubSeqIs
    <2> HIDE DEF v
    <2> QED
      BY <1>1, <2>2
  <1> HIDE DEF u, v
  <1>5. ASSUME NEW i \in 1 .. Len(u) PROVE u[i] = v[i]
    <2>1. i \in 1 .. Len(a) - 2 + 1 /\ 2 + i - 1 \in 2 .. Len(a)
      BY <1>1, <1>3
    <2>2. u[i] = a[2 + i - 1] /\ v[i] = b[2 + i - 1]
      BY <1>3, <1>4, <2>1
    <2>3. a[2 + i - 1] = b[2 + i - 1]
      BY <1>1, <2>1
    <2> QED
      BY <2>2, <2>3
  <1>6. u = v
    BY <1>3, <1>4, <1>5, SameSeq
  <1> QED
    BY <1>6 DEF u, v

LEMMA FirstRead ==
  ASSUME NEW a \in Bytes, Len(a) >= 1
  PROVE  /\ read_uint(Cursor(a), 1) \in Cursors
         /\ read_uint(Cursor(a), 1).rest = SubSeq(a, 2, Len(a))
         /\ read_uint(Cursor(a), 1).short = FALSE
  <1> DEFINE c == Cursor(a)
             v == read_uint(c, 1)
  <1>1. c \in Cursors /\ c.rest = a /\ c.short = FALSE
    BY CursorType
  <1>2. v = Advance(c, 1, Zeros(1))
    BY DEF read_uint
  <1> HIDE DEF c
  <1>3. v \in Cursors
    BY <1>1, UintType
  <1> HIDE DEF v
  <1>4. ~(1 > Len(c.rest)) /\ 1 + 1 = 2
    BY <1>1 DEF Bytes
  <1>5. v = [rest |-> SubSeq(c.rest, 1 + 1, Len(c.rest)), val |-> SubSeq(c.rest, 1, 1),
             short |-> c.short]
    BY <1>2, <1>4 DEF Advance
  <1>6. v.rest = SubSeq(a, 2, Len(a)) /\ v.short = FALSE
    BY <1>1, <1>4, <1>5
  <1> QED
    BY <1>3, <1>6 DEF v, c

LEMMA HeaderSame ==
  ASSUME NEW a, NEW b, Tails(a, b)
  PROVE  LET g == ReadHeader(a)
             h == ReadHeader(b)
         IN /\ h.timestamp = g.timestamp /\ h.flags = g.flags /\ h.sender = g.sender
            /\ h.recipient = g.recipient /\ h.cursor = g.cursor
  <1> DEFINE c1 == read_uint(Cursor(a), 1)
             e1 == read_uint(Cursor(b), 1)
             c2 == read_uint(c1, Wide)
             e2 == read_uint(e1, Wide)
             F(x) == read_uint(x, 1).val[1]
             S(x) == read_uint(read_uint(x, 1), Wide)
             R(x) == IF hasPacketRecipient(F(x)) THEN read_uint(S(x), Wide)
                     ELSE Absent(S(x), Wide)
             g == ReadHeader(a)
             h == ReadHeader(b)
  <1>1. /\ a \in Bytes /\ b \in Bytes /\ Len(a) >= 1 /\ Len(b) >= 1
    BY DEF Tails
  <1>2. c1 \in Cursors /\ c1.rest = SubSeq(a, 2, Len(a)) /\ c1.short = FALSE
    BY <1>1, FirstRead
  <1>3. e1 \in Cursors /\ e1.rest = SubSeq(b, 2, Len(b)) /\ e1.short = FALSE
    BY <1>1, FirstRead
  <1>4. g = [ttl |-> c1.val[1], timestamp |-> c2.val, flags |-> F(c2),
             sender |-> S(c2).val, recipient |-> R(c2).val, cursor |-> R(c2)]
    BY DEF ReadHeader, ReadBase
  <1>5. h = [ttl |-> e1.val[1], timestamp |-> e2.val, flags |-> F(e2),
             sender |-> S(e2).val, recipient |-> R(e2).val, cursor |-> R(e2)]
    BY DEF ReadHeader, ReadBase
  <1> HIDE DEF c1, e1
  <1>6. c2 = e2
    <2>1. c1.rest = e1.rest /\ c1.short = e1.short
      BY <1>2, <1>3, TailsSame
    <2>2. Wide \in Nat /\ Zeros(Wide) \in Bytes
      BY BytesAssumption, ZerosType
    <2> QED
      BY <1>2, <1>3, <2>1, <2>2, AdvanceSame DEF read_uint
  <1> HIDE DEF c2, e2, F, S, R, g, h
  <1>7. /\ h.timestamp = g.timestamp /\ h.flags = g.flags /\ h.sender = g.sender
        /\ h.recipient = g.recipient /\ h.cursor = g.cursor
    BY <1>4, <1>5, <1>6
  <1> QED
    BY <1>7 DEF g, h

LEMMA ReadSame ==
  ASSUME NEW a, NEW b, Tails(a, b)
  PROVE  Same(ReadAnnounce(b), ReadAnnounce(a)) /\ Same(ReadMessage(b), ReadMessage(a))
  <1> DEFINE g == ReadHeader(a)
             h == ReadHeader(b)
  <1>1. /\ h.timestamp = g.timestamp /\ h.flags = g.flags /\ h.sender = g.sender
        /\ h.recipient = g.recipient /\ h.cursor = g.cursor
    BY HeaderSame
  <1> DEFINE N(x) == ReadString(x, 1)
             p == ReadAnnounce(a)
             q == ReadAnnounce(b)
  <1>2. Same(q, p)
    <2>1. p = [type |-> type_announce, ttl |-> g.ttl, timestamp |-> g.timestamp,
               flags |-> g.flags, sender |-> g.sender, recipient |-> g.recipient,
               name |-> N(g.cursor).val, whole |-> ~N(g.cursor).short]
      BY DEF ReadAnnounce
    <2>2. q = [type |-> type_announce, ttl |-> h.ttl, timestamp |-> h.timestamp,
               flags |-> h.flags, sender |-> h.sender, recipient |-> h.recipient,
               name |-> N(h.cursor).val, whole |-> ~N(h.cursor).short]
      BY DEF ReadAnnounce
    <2> HIDE DEF g, h, p, q, N
    <2> QED
      BY <1>1, <2>1, <2>2, TypesAssumption DEF Same
  <1> DEFINE M(x) == read_uint(x, 1)
             T(x) == read_uint(M(x), Wide)
             I(x) == ReadString(T(x), 1)
             K(x) == ReadString(I(x), 1)
             C(x) == ReadString(K(x), 2)
             r == ReadMessage(a)
             s == ReadMessage(b)
  <1>3. Same(s, r)
    <2>1. r = [type |-> type_message, ttl |-> g.ttl, timestamp |-> g.timestamp,
               flags |-> g.flags, sender |-> g.sender, recipient |-> g.recipient,
               message_flags |-> M(g.cursor).val[1], message_timestamp |-> T(g.cursor).val,
               message_id |-> I(g.cursor).val, sender_nickname |-> K(g.cursor).val,
               content |-> C(g.cursor).val, whole |-> ~C(g.cursor).short]
      BY DEF ReadMessage
    <2>2. s = [type |-> type_message, ttl |-> h.ttl, timestamp |-> h.timestamp,
               flags |-> h.flags, sender |-> h.sender, recipient |-> h.recipient,
               message_flags |-> M(h.cursor).val[1], message_timestamp |-> T(h.cursor).val,
               message_id |-> I(h.cursor).val, sender_nickname |-> K(h.cursor).val,
               content |-> C(h.cursor).val, whole |-> ~C(h.cursor).short]
      BY DEF ReadMessage
    <2> HIDE DEF g, h, r, s, M, T, I, K, C
    <2> QED
      BY <1>1, <2>1, <2>2 DEF Same
  <1> QED
    BY <1>2, <1>3

LEMMA PhoneSame ==
  ASSUME NEW w, NEW v, IsPacket(w), Len(w) > 2, w[3] > 0, v = [w EXCEPT ![3] = w[3] - 1]
  PROVE  IsPacket(v) /\ Same(Received(v), Received(w)) /\ Len(v) = Len(w)
  <1>1. w \in Seq(Byte) /\ Len(w) \in Nat /\ w[2] \in Types /\ 2 \in 1 .. Len(w) /\ 3 \in 1 .. Len(w)
    BY DEF IsPacket, Bytes
  <1>2. w[3] \in Byte
    BY <1>1
  <1>3. w[3] - 1 \in Byte
    BY <1>2, BytesAssumption DEF Byte
  <1>4. v \in Seq(Byte) /\ Len(v) = Len(w) /\ \A i \in 1 .. Len(w) : i # 3 => v[i] = w[i]
    BY <1>1, <1>3
  <1>5. v[2] = w[2] /\ IsPacket(v)
    BY <1>1, <1>4 DEF IsPacket, Bytes
  <1> DEFINE a == Body(w)
             b == Body(v)
  <1>6. /\ a \in Bytes /\ Len(w) = 2 + Len(a) /\ Len(a) \in Nat
        /\ \A i \in 1 .. Len(a) : a[i] = w[i + 2]
    BY BodyType
  <1>7. /\ b \in Bytes /\ Len(v) = 2 + Len(b) /\ Len(b) \in Nat
        /\ \A i \in 1 .. Len(b) : b[i] = v[i + 2]
    BY <1>5, BodyType
  <1> HIDE DEF a, b
  <1>8. Len(b) = Len(a) /\ Len(a) >= 1
    BY <1>1, <1>4, <1>6, <1>7
  <1>9. ASSUME NEW i \in 2 .. Len(a) PROVE a[i] = b[i]
    <2>1. i \in 1 .. Len(a) /\ i \in 1 .. Len(b) /\ i + 2 \in 1 .. Len(w) /\ i + 2 # 3
      BY <1>6, <1>8
    <2>2. a[i] = w[i + 2] /\ b[i] = v[i + 2]
      BY <1>6, <1>7, <2>1
    <2> QED
      BY <1>4, <2>1, <2>2
  <1>10. Tails(a, b)
    BY <1>6, <1>7, <1>8, <1>9 DEF Tails
  <1>11. Same(ReadAnnounce(b), ReadAnnounce(a)) /\ Same(ReadMessage(b), ReadMessage(a))
    BY <1>10, ReadSame
  <1>12. CASE w[2] = type_announce
    <2>1. Received(w) = ReadAnnounce(a) /\ Received(v) = ReadAnnounce(b)
      BY <1>5, <1>12, ReceivedIs DEF a, b
    <2> QED
      BY <1>4, <1>5, <1>11, <2>1
  <1>13. CASE w[2] = type_message
    <2>1. Received(w) = ReadMessage(a) /\ Received(v) = ReadMessage(b)
      BY <1>5, <1>13, ReceivedIs DEF a, b
    <2> QED
      BY <1>4, <1>5, <1>11, <2>1
  <1> QED
    BY <1>1, <1>12, <1>13 DEF Types

-----------------------------------------------------------------------------
(***************************************************************************)
(* Our own packets.                                                        *)
(***************************************************************************)

LEMMA OwnHeader ==
  ASSUME NEW p, NEW t \in Times, p.ttl \in {3, 7}, p.timestamp = t, p.flags = 0,
         p.sender = Me, p.recipient = Zeros(Wide)
  PROVE  IsHeader(p)
  <1>1. Wide \in Nat /\ 3 \in Byte /\ 7 \in Byte /\ 0 \in Byte
    BY BytesAssumption, WidthAssumption DEF Byte
  <1>2. Zeros(Wide) \in Bytes /\ Len(Zeros(Wide)) = Wide
    BY <1>1, ZerosType
  <1>3. t \in Bytes /\ Len(t) = Wide /\ Me \in Bytes /\ Len(Me) = Wide
    BY FieldsAssumption, IdsAssumption DEF Bytes
  <1>4. p.ttl \in Byte /\ p.flags \in Byte
    BY <1>1
  <1> QED
    BY <1>2, <1>3, <1>4 DEF IsHeader

LEMMA OwnAnnounce ==
  ASSUME NEW t \in Times
  PROVE  LET p == ownAnnounce(t)
         IN IsPacket(WriteAnnounce(p)) /\ Received(WriteAnnounce(p)) = p
  <1> DEFINE p == ownAnnounce(t)
             r == WriteString(p.name, 1)
             b == HeaderBody(p, r)
             w == WriteAnnounce(p)
  <1>1. p = [type |-> type_announce, ttl |-> 3, timestamp |-> t, flags |-> 0,
             sender |-> Me, recipient |-> Zeros(Wide), name |-> Name, whole |-> TRUE]
    BY DEF ownAnnounce
  <1> HIDE DEF p
  <1>2. /\ p.type = type_announce /\ p.ttl = 3 /\ p.timestamp = t /\ p.flags = 0
        /\ p.sender = Me /\ p.recipient = Zeros(Wide) /\ p.name = Name
    BY <1>1
  <1>3. IsHeader(p)
    BY <1>2, OwnHeader
  <1>4. p.name \in Bytes /\ Len(p.name) <= Most(1)
    <2>1. Name \in Seq(Byte) /\ Len(Name) < Radix /\ Len(Name) \in Nat
      BY FieldsAssumption
    <2>2. Len(Name) <= Radix - 1
      BY <2>1, BytesAssumption
    <2> QED
      BY <1>2, <2>1, <2>2 DEF Most, Bytes
  <1>5. r \in Bytes
    BY <1>4, StringWritten
  <1>6. w = WriteHeader(p) \o r
    BY DEF WriteAnnounce
  <1> HIDE DEF r, w
  <1>7. p.type \in Byte /\ type_announce \in Types
    BY <1>2, TypesAssumption DEF Byte, Types
  <1>8. WriteHeader(p) \o r = <<1, p.type>> \o b /\ b \in Bytes
    BY <1>3, <1>5, <1>7, HeaderWritten
  <1>9. ReadAnnounce(b) = [type |-> type_announce, ttl |-> p.ttl, timestamp |-> p.timestamp,
             flags |-> p.flags, sender |-> p.sender, recipient |-> p.recipient,
             name |-> p.name, whole |-> TRUE]
    BY <1>3, <1>4, AnnounceBack DEF r
  <1> HIDE DEF b
  <1>10. w = <<1, type_announce>> \o b
    BY <1>2, <1>6, <1>8
  <1>11. IsPacket(w) /\ w[2] = type_announce /\ Body(w) = b
    BY <1>7, <1>8, <1>10, Received12
  <1>12. Received(w) = ReadAnnounce(b)
    BY <1>11, ReceivedIs
  <1>13. Received(w) = p
    BY <1>1, <1>2, <1>9, <1>12
  <1> QED
    BY <1>11, <1>13 DEF w, p

\* The id of a pin message: five bytes and our address.
LEMMA OwnId ==
  ASSUME NEW t \in Times
  PROVE  LET i == <<0, 0>> \o SubSeq(t, Wide - 1, Wide) \o <<5>> \o Me
         IN i \in Bytes /\ Len(i) <= Most(1)
  <1> DEFINE z == <<0, 0>>
             s == SubSeq(t, Wide - 1, Wide)
             f == <<5>>
             i == ((z \o s) \o f) \o Me
  <1>1. Wide \in Nat /\ Wide >= 2 /\ 0 \in Byte /\ 5 \in Byte /\ Wide + 5 <= Radix - 1
    BY BytesAssumption, WidthAssumption DEF Byte
  <1>2. z \in Bytes /\ Len(z) = 2
    BY <1>1 DEF Bytes
  <1>3. f \in Bytes /\ Len(f) = 1
    BY <1>1, OneByte
  <1>4. s \in Bytes /\ Len(s) = 2
    <2>1. t \in Seq(Byte) /\ Len(t) = Wide
      BY FieldsAssumption
    <2>2. Wide - 1 \in 1 .. Len(t) + 1 /\ Wide \in (Wide - 1) - 1 .. Len(t)
      BY <1>1, <2>1
    <2>3. s \in Seq(Byte) /\ Len(s) = Wide - (Wide - 1) + 1
      BY <2>1, <2>2, SubSeqIs
    <2> HIDE DEF s
    <2> QED
      BY <1>1, <2>3 DEF Bytes
  <1>5. Me \in Bytes /\ Len(Me) = Wide
    BY IdsAssumption DEF Bytes
  <1> HIDE DEF z, s, f
  <1>6. z \o s \in Bytes /\ Len(z \o s) = Len(z) + Len(s)
    BY <1>2, <1>4, ConcatBytes
  <1>7. (z \o s) \o f \in Bytes /\ Len((z \o s) \o f) = Len(z \o s) + Len(f)
    BY <1>3, <1>6, ConcatBytes
  <1>8. i \in Bytes /\ Len(i) = Len((z \o s) \o f) + Len(Me)
    BY <1>5, <1>7, ConcatBytes
  <1> HIDE DEF i
  <1>9. Len(i) = Wide + 5
    BY <1>1, <1>2, <1>3, <1>4, <1>5, <1>6, <1>7, <1>8
  <1>10. i \in Bytes /\ Len(i) <= Most(1)
    BY <1>1, <1>8, <1>9 DEF Most
  <1> QED
    BY <1>10 DEF i, z, s, f

LEMMA OwnMessage ==
  ASSUME NEW t \in Times, NEW c \in Contents
  PROVE  LET p == pinMessage(t, c)
         IN /\ IsPacket(WriteMessage(p, Zeros(Wide)))
            /\ Received(WriteMessage(p, Zeros(Wide))) = p
  <1> DEFINE p == pinMessage(t, c)
             i == <<0, 0>> \o SubSeq(t, Wide - 1, Wide) \o <<5>> \o Me
             z == Zeros(Wide)
             w == WriteMessage(p, z)
  <1>1. p = [type |-> type_message, ttl |-> 7, timestamp |-> t, flags |-> 0,
             sender |-> Me, recipient |-> z, message_flags |-> 0,
             message_timestamp |-> t, message_id |-> i,
             sender_nickname |-> Name, content |-> c, whole |-> TRUE]
    BY DEF pinMessage
  <1>2. i \in Bytes /\ Len(i) <= Most(1)
    BY OwnId
  <1> HIDE DEF p, i
  <1>3. /\ p.type = type_message /\ p.ttl = 7 /\ p.timestamp = t /\ p.flags = 0
        /\ p.sender = Me /\ p.recipient = z /\ p.message_flags = 0
        /\ p.message_timestamp = t /\ p.message_id = i
        /\ p.sender_nickname = Name /\ p.content = c
    BY <1>1
  <1>4. IsHeader(p)
    BY <1>3, OwnHeader
  <1>5. t \in Bytes /\ Len(t) = Wide /\ Wide \in Nat /\ 0 \in Byte
    BY FieldsAssumption, BytesAssumption DEF Bytes, Byte
  <1>6. Name \in Bytes /\ Len(Name) <= Most(1)
    <2>1. Name \in Seq(Byte) /\ Len(Name) < Radix /\ Len(Name) \in Nat
      BY FieldsAssumption
    <2>2. Len(Name) <= Radix - 1
      BY <2>1, BytesAssumption
    <2> QED
      BY <2>1, <2>2 DEF Most, Bytes
  <1>7. c \in Bytes /\ Len(c) <= Most(2)
    <2> DEFINE m == Radix * Radix
               l == Len(c)
    <2>1. c \in Seq(Byte) /\ l < m
      BY FieldsAssumption
    <2>2. l \in Nat /\ m \in Nat
      BY <2>1, BytesAssumption
    <2>3. Most(2) = m - 1
      BY DEF Most
    <2> HIDE DEF m, l
    <2>4. l <= m - 1
      BY <2>1, <2>2
    <2> QED
      BY <2>1, <2>3, <2>4 DEF l, Bytes
  <1>8. IsMessage(p)
    BY <1>2, <1>3, <1>4, <1>5, <1>6, <1>7 DEF IsMessage
  <1>9. z \in Bytes
    BY <1>5, ZerosType
  <1> HIDE DEF z
  <1>10. /\ IsPacket(w)
         /\ Received(w) =
              [type |-> type_message, ttl |-> p.ttl, timestamp |-> p.timestamp,
               flags |-> p.flags, sender |-> p.sender, recipient |-> p.recipient,
               message_flags |-> p.message_flags, message_timestamp |-> p.message_timestamp,
               message_id |-> p.message_id, sender_nickname |-> p.sender_nickname,
               content |-> p.content, whole |-> TRUE]
    BY <1>3, <1>8, <1>9, WrittenOut
  <1> HIDE DEF w
  <1>11. Received(w) = p
    BY <1>1, <1>3, <1>10
  <1> QED
    BY <1>10, <1>11 DEF w, p, z

-----------------------------------------------------------------------------
(***************************************************************************)
(* The packet on its way.                                                  *)
(***************************************************************************)

\* What SamePacket needs to be kept: the bytes are a packet, and it is Same,
\* type and all, which Lasting alone does not say.
WireInv ==
  /\ IsPacket(wire) /\ hops \in Nat
  /\ Same(Received(wire), meant)
  /\ hops = 0 => Received(wire) = meant

LEMMA SameReflexive ==
  ASSUME NEW p
  PROVE  Same(p, p)
  BY DEF Same

LEMMA InitInv ==
  ASSUME Init
  PROVE  WireInv
  <1>1. hops = 0
    BY DEF Init
  <1>2. IsPacket(wire) /\ Received(wire) = meant
    <2>1. CASE wire \in {w \in Wires : Accepted(w)} /\ meant = Received(wire)
      <3>1. wire \in Bytes /\ Accepted(wire)
        BY <2>1, FieldsAssumption DEF Bytes
      <3> QED
        BY <2>1, <3>1, AcceptedIsPacket
    <2>2. CASE meant \in {ownAnnounce(t) : t \in Times} /\ wire = WriteAnnounce(meant)
      <3>1. PICK t \in Times : meant = ownAnnounce(t)
        BY <2>2
      <3> QED
        BY <2>2, <3>1, OwnAnnounce
    <2>3. CASE /\ meant \in {pinMessage(t, c) : t \in Times, c \in Contents}
               /\ wire = WriteMessage(meant, Zeros(Wide))
      <3>1. PICK t \in Times, c \in Contents : meant = pinMessage(t, c)
        BY <2>3
      <3> QED
        BY <2>3, <3>1, OwnMessage
    <2> QED
      BY <2>1, <2>2, <2>3 DEF Init
  <1> QED
    BY <1>1, <1>2, SameReflexive DEF WireInv

\* What a repeater sends is what it received, and longer only as RelayFits
\* allows.
LEMMA RelayStep ==
  ASSUME IsPacket(wire), relay
  PROVE  LET p == Received(wire)
         IN /\ IsPacket(wire') /\ Same(Received(wire'), p)
            /\ Len(wire') > Len(wire) =>
                 ~p.whole \/ (p.type = type_message /\ hasSenderPeerID(p.message_flags))
  <1> DEFINE p == Received(wire)
  <1>1. \/ /\ p.type = type_announce /\ IsHeader(p)
           /\ p.whole => Len(wire) >= 2 + Fixed + Len(Recipient(p))
        \/ /\ p.type = type_message /\ IsMessage(p)
           /\ p.whole => Len(wire) >= 2 + Fixed + Len(Recipient(p)) + MessageSize(p)
    BY ReceivedType
  <1>2. \/ p.type = type_announce /\ wire' = WritePassAlong(p)
        \/ p.type = type_message /\ \E id \in PeerIds : wire' = WriteMessage(p, id)
    BY DEF relay
  <1> HIDE DEF p
  <1>3. CASE p.type = type_announce
    <2>1. /\ IsHeader(p) /\ wire' = WritePassAlong(p)
          /\ p.whole => Len(wire) >= 2 + Fixed + Len(Recipient(p))
      BY <1>1, <1>2, <1>3, TypesAssumption
    <2>2. /\ IsPacket(wire') /\ Same(Received(wire'), p)
          /\ Len(wire') = 2 + Fixed + Len(Recipient(p))
      BY <1>3, <2>1, PassedOn
    <2>3. Len(wire) \in Nat /\ Len(wire') \in Nat
      BY <2>2 DEF IsPacket, Bytes
    <2>4. p.whole => Len(wire) >= Len(wire')
      BY <2>1, <2>2
    <2>5. p.whole => ~(Len(wire') > Len(wire))
      BY <2>3, <2>4
    <2> QED
      BY <2>2, <2>5 DEF p
  <1>4. CASE p.type = type_message
    <2>1. /\ IsMessage(p)
          /\ p.whole => Len(wire) >= 2 + Fixed + Len(Recipient(p)) + MessageSize(p)
      BY <1>1, <1>4, TypesAssumption
    <2>2. PICK id \in PeerIds : wire' = WriteMessage(p, id)
      BY <1>2, <1>4, TypesAssumption
    <2>3. id \in Bytes
      BY FieldsAssumption DEF Bytes
    <2>4. /\ IsPacket(wire') /\ Same(Received(wire'), p)
          /\ Len(wire') =
               2 + Fixed + Len(Recipient(p)) + MessageSize(p) + Len(PeerPart(p, id))
      BY <1>4, <2>1, <2>2, <2>3, WrittenOut
    <2>5. ASSUME p.whole, ~hasSenderPeerID(p.message_flags)
          PROVE  ~(Len(wire') > Len(wire))
      <3> DEFINE n == 2 + Fixed + Len(Recipient(p)) + MessageSize(p)
                 l == Len(wire)
      <3>1. Len(PeerPart(p, id)) = 0
        BY <2>5 DEF PeerPart
      <3>2. l \in Nat /\ l >= n
        BY <2>1, <2>5 DEF IsPacket, Bytes
      <3>3. n \in Nat
        BY <2>1, Sizes
      <3>4. Len(wire') = n + 0
        BY <2>4, <3>1
      <3> HIDE DEF n, l
      <3>5. ~(Len(wire') > l)
        BY <3>2, <3>3, <3>4
      <3> QED
        BY <3>5 DEF l
    <2> QED
      BY <1>4, <2>4, <2>5 DEF p
  <1> QED
    BY <1>1, <1>3, <1>4

LEMMA PhoneStep ==
  ASSUME IsPacket(wire), phoneRelays
  PROVE  IsPacket(wire') /\ Same(Received(wire'), Received(wire)) /\ Len(wire') = Len(wire)
  BY PhoneSame DEF phoneRelays

LEMMA StepInv ==
  ASSUME WireInv, [Next]_vars
  PROVE  WireInv'
  <1>1. CASE Next
    <2>1. IsPacket(wire') /\ Same(Received(wire'), Received(wire))
      BY <1>1, RelayStep, PhoneStep DEF Next, WireInv
    <2>2. Same(Received(wire), meant) /\ hops \in Nat /\ hops' = hops + 1 /\ meant' = meant
      BY <1>1 DEF WireInv, Next, relay, phoneRelays
    <2>3. Same(Received(wire'), meant)
      BY <2>1, <2>2, SameTransitive
    <2>4. hops' \in Nat /\ hops' # 0
      BY <2>2
    <2> QED
      BY <2>1, <2>2, <2>3, <2>4 DEF WireInv
  <1>2. CASE UNCHANGED vars
    <2>1. wire' = wire /\ hops' = hops /\ meant' = meant
      BY <1>2 DEF vars
    <2> QED
      BY <2>1 DEF WireInv
  <1> QED
    BY <1>1, <1>2

LEMMA Kept == Spec => []WireInv
  BY InitInv, StepInv, PTL DEF Spec

\* However the constructors and writePacketPayload are chained, over any
\* number of repeaters and phones, each reads what the author wrote, or what
\* the first reader made of a packet that was cut off.
THEOREM ReadAlike == Spec => []SamePacket
  <1>1. ASSUME WireInv PROVE SamePacket
    BY <1>1, SameMeans DEF WireInv, SamePacket
  <1> QED
    BY <1>1, Kept, PTL

\* getPacketHash and the message id find a packet again that has been relayed
\* by any number of repeaters and phones.
THEOREM FoundAgain == Spec => []KnownAgain
  <1>1. ASSUME WireInv PROVE KnownAgain
    BY <1>1, SameMeans DEF WireInv, KnownAgain
  <1> QED
    BY <1>1, Kept, PTL

\* SendPacketToConnection writes no more bytes than processWrite was given,
\* unless the packet was cut off or names a peer.
THEOREM RelayedFits == Spec => RelayFits
  <1> DEFINE F == Len(wire') > Len(wire) =>
                    LET p == Received(wire)
                    IN ~p.whole \/ (p.type = type_message /\ hasSenderPeerID(p.message_flags))
  <1>1. ASSUME WireInv, [Next]_vars PROVE [F]_vars
    <2>1. CASE relay
      BY <1>1, <2>1, RelayStep DEF WireInv
    <2>2. CASE phoneRelays
      <3>1. Len(wire') = Len(wire) /\ Len(wire) \in Nat
        BY <1>1, <2>2, PhoneStep DEF WireInv, IsPacket, Bytes
      <3>2. ~(Len(wire') > Len(wire))
        BY <3>1
      <3> QED
        BY <3>2
    <2> QED
      BY <1>1, <2>1, <2>2 DEF Next
  <1> QED
    BY <1>1, Kept, PTL DEF Spec, RelayFits
=============================================================================
