------------------------ MODULE CircularBufferProofs ------------------------
(***************************************************************************)
(* Proofs about CircularBuffer, for a buffer of any size, any texts and    *)
(* any line sizes.                                                         *)
(***************************************************************************)
EXTENDS CircularBuffer, SequenceTheorems, TLAPS

-----------------------------------------------------------------------------
(***************************************************************************)
(* Positions.  Sums of two positions and differences of positions, without *)
(* the remainder.                                                          *)
(***************************************************************************)

LEMMA ModSmall == ASSUME NEW n \in Nat \ {0}, NEW x \in 0 .. n - 1
                  PROVE  x % n = x
  OBVIOUS

LEMMA ModOnce == ASSUME NEW n \in Nat \ {0}, NEW x \in n .. (n + n - 1)
                 PROVE  x % n = x - n
  OBVIOUS

LEMMA ModTwice == ASSUME NEW n \in Nat \ {0}, NEW x \in (n + n) .. (n + n + n - 1)
                  PROVE  x % n = x - (n + n)
  OBVIOUS

LEMMA ModNegative == ASSUME NEW n \in Nat \ {0}, NEW x \in -n .. -1
                     PROVE  x % n = x + n
  OBVIOUS

LEMMA Sum ==
  ASSUME NEW x \in 0 .. (N + N + N - 1)
  PROVE  x % N = IF x < N THEN x ELSE IF x < N + N THEN x - N ELSE x - (N + N)
  <1>1. CASE x < N
    BY <1>1, ModSmall, SizeAssumption
  <1>2. CASE ~(x < N) /\ x < N + N
    <2>1. x \in N .. (N + N - 1)
      BY <1>2, SizeAssumption
    <2> QED
      BY <1>2, <2>1, ModOnce, SizeAssumption
  <1>3. CASE ~(x < N) /\ ~(x < N + N)
    <2>1. x \in (N + N) .. (N + N + N - 1)
      BY <1>3, SizeAssumption
    <2> QED
      BY <1>3, <2>1, ModTwice, SizeAssumption
  <1> QED
    BY <1>1, <1>2, <1>3

LEMMA Difference ==
  ASSUME NEW a \in 0 .. N - 1, NEW b \in 0 .. N - 1
  PROVE  (a - b) % N = IF a >= b THEN a - b ELSE a - b + N
  <1>1. CASE a >= b
    <2>1. a - b \in 0 .. N - 1
      BY <1>1, SizeAssumption
    <2> QED
      BY <2>1, <1>1, ModSmall, SizeAssumption
  <1>2. CASE a < b
    <2>1. a - b \in -N .. -1
      BY <1>2, SizeAssumption
    <2> QED
      BY <2>1, <1>2, ModNegative, SizeAssumption
  <1> QED
    BY <1>1, <1>2, SizeAssumption

LEMMA Remainder ==
  ASSUME NEW x \in Int
  PROVE  x % N \in 0 .. N - 1
  BY SizeAssumption

LEMMA CopyType ==
  ASSUME buffer \in [0 .. N -> Items],
         NEW p \in 0 .. N, NEW n \in Nat, p + n - 1 <= N
  PROVE  Copy(p, n) \in Seq(Items) /\ Len(Copy(p, n)) = n
  <1>1. \A i \in 1 .. n : buffer[p + i - 1] \in Items
    BY SizeAssumption
  <1> QED
    BY <1>1 DEF Copy

\* What is read without wrapping is inside the array.
LEMMA ConsumableRange ==
  ASSUME head \in 0 .. N - 1, tail \in 0 .. N - 1
  PROVE  /\ Consumable \in Nat
         /\ tail + Consumable <= N
         /\ ~empty => Consumable >= 1
         /\ ~Wrapped => tail + Consumable = head
         /\ Wrapped => tail + Consumable = N
         /\ Consumable <= (head - tail) % N
  BY Difference, SizeAssumption DEF Consumable, Wrapped, empty

-----------------------------------------------------------------------------
(***************************************************************************)
(* Types and bounds.  They are proved together with LineFits: where        *)
(* consume_line stores the tail depends on how much it copied.             *)
(***************************************************************************)

LineType ==
  line \in [size : 0 .. N, next : 0 .. N - 1, drained : 0 .. N - 1, text : Seq(Items),
            off : BOOLEAN, late : BOOLEAN]

TypeInv == TypeOK /\ LineType /\ LineFits

LEMMA TypeInit == Init => TypeInv
  BY SizeAssumption DEF Init, TypeInv, TypeOK, LineType, LineFits, InLine, NoLine, Items

LEMMA LineIsLine ==
  ASSUME NEW size \in 0 .. N, NEW next \in 0 .. N - 1, NEW drained \in 0 .. N - 1,
         NEW text \in Seq(Items), NEW off \in BOOLEAN
  PROVE  /\ Line(size, next, drained, text, off) \in
              [size : 0 .. N, next : 0 .. N - 1, drained : 0 .. N - 1, text : Seq(Items),
               off : BOOLEAN, late : BOOLEAN]
         /\ Line(size, next, drained, text, off).size = size
         /\ Line(size, next, drained, text, off).next = next
         /\ Line(size, next, drained, text, off).drained = drained
         /\ Line(size, next, drained, text, off).text = text
         /\ Line(size, next, drained, text, off).off = off
  BY DEF Line

LEMMA TypeWriteItem ==
  ASSUME TypeInv, NEW c \in Chars, writeItem(c)
  PROVE  TypeInv'
  <1> USE DEF TypeInv
  <1>1. buffer' \in [0 .. N -> Items]
    <2>1. c \in Items /\ NUL \in Items
      BY DEF Items
    <2> QED
      BY <2>1 DEF TypeOK, writeItem
  <1>2. head' \in 0 .. N - 1 /\ tail' \in 0 .. N - 1
    <2>1. head + 1 \in Int /\ head + 2 \in Int
      BY SizeAssumption DEF TypeOK
    <2> QED
      BY <2>1, Remainder DEF TypeOK, writeItem
  <1>3. /\ maxed' \in BOOLEAN /\ damage' \in BOOLEAN /\ will_clear_if_empty' \in BOOLEAN
        /\ late' \in BOOLEAN
    BY Zenon DEF writeItem, UnmarkedFull, MarkedNotFull
  <1>4. UNCHANGED <<at, line>> /\ out' = << >>
    BY DEF writeItem
  <1> QED
    BY <1>1, <1>2, <1>3, <1>4 DEF TypeOK, LineType, LineFits, InLine

LEMMA WrittenType ==
  ASSUME TypeOK, NEW t \in Texts
  PROVE  Written(t) \in [0 .. N -> Items]
  <1>1. ASSUME NEW p \in 0 .. N, (p - head) % N < Len(t)
        PROVE  t[((p - head) % N) + 1] \in Items
    <2>1. p - head \in Int
      BY SizeAssumption DEF TypeOK
    <2>2. (p - head) % N \in 0 .. N - 1
      BY <2>1, Remainder
    <2>3. ((p - head) % N) + 1 \in 1 .. Len(t)
      BY <1>1, <2>2, TextsAssumption, SizeAssumption
    <2> QED
      BY <2>3, TextsAssumption DEF Items
  <1> QED
    BY <1>1 DEF Written, TypeOK, Items

\* What a text does to the line that is being read.
LEMMA LineWrite ==
  ASSUME LineType, NEW t \in Texts, write(t)
  PROVE  /\ LineType'
         /\ line'.text = line.text /\ line'.size = line.size /\ line'.next = line.next
         /\ line'.drained = line.drained
         /\ line'.off = (line.off \/ (InLine /\ (Overruns(Len(t)) \/ MarkedNotFull)))
  <1> DEFINE off == line.off \/ (InLine /\ (Overruns(Len(t)) \/ MarkedNotFull))
             lateness == line.late \/ at \in {"unmarked", "tested"}
  <1>1. off \in BOOLEAN /\ lateness \in BOOLEAN
    BY Zenon
  <1>2. line' = [line EXCEPT !.off = off, !.late = lateness]
    BY DEF write
  <1> HIDE DEF off, lateness
  <1>3. /\ LineType'
        /\ line'.text = line.text /\ line'.size = line.size /\ line'.next = line.next
        /\ line'.drained = line.drained /\ line'.off = off
    BY <1>1, <1>2 DEF LineType
  <1> QED
    BY <1>3 DEF off

LEMMA TypeWrite ==
  ASSUME TypeInv, NEW t \in Texts, write(t)
  PROVE  TypeInv'
  <1> USE DEF TypeInv
  <1>1. buffer' \in [0 .. N -> Items]
    BY WrittenType DEF write
  <1>2. Len(t) \in Nat
    BY TextsAssumption
  <1>3. head' \in 0 .. N - 1 /\ tail' \in 0 .. N - 1
    <2>1. (head + Len(t)) \in Int /\ (head + Len(t) + 1) \in Int
      BY <1>2, SizeAssumption DEF TypeOK
    <2> QED
      BY <2>1, Remainder DEF write, TypeOK
  <1>4. /\ LineType'
        /\ line'.text = line.text /\ line'.size = line.size /\ line'.next = line.next
    BY LineWrite
  <1>5. /\ maxed' \in BOOLEAN /\ damage' \in BOOLEAN /\ will_clear_if_empty' \in BOOLEAN
        /\ late' \in BOOLEAN
    BY Zenon DEF write, UnmarkedFull, MarkedNotFull
  <1>6. at' = at /\ out' = << >>
    BY DEF write
  <1> QED
    BY <1>1, <1>3, <1>4, <1>5, <1>6 DEF TypeOK, LineFits, InLine

LEMMA TypeConsume ==
  ASSUME TypeInv, consume \/ \E size \in 1 .. N : consume_block(size)
  PROVE  TypeInv'
  <1> USE DEF TypeInv
  <1>1. /\ UNCHANGED <<buffer, head, will_clear_if_empty, at, line>>
        /\ damage' = FALSE /\ late' \in BOOLEAN
    BY DEF consume, consume_block
  <1>2. head \in 0 .. N - 1 /\ tail \in 0 .. N - 1 /\ maxed \in BOOLEAN
        /\ buffer \in [0 .. N -> Items]
    BY DEF TypeOK
  <1>3. tail' \in 0 .. N - 1 /\ out' \in Seq(Items) /\ maxed' \in BOOLEAN
    <2>1. CASE consume
      <3>1. tail + 1 \in Int
        BY <1>2, SizeAssumption
      <3>2. Copy(tail, 1) \in Seq(Items)
        BY <1>2, SizeAssumption, CopyType
      <3>3. (tail + 1) % N \in 0 .. N - 1
        BY <3>1, Remainder
      <3>4. << >> \in Seq(Items) /\ FALSE \in BOOLEAN
        OBVIOUS
      <3> QED
        BY <2>1, <3>2, <3>3, <3>4, <1>2, Zenon DEF consume
    <2>2. ASSUME NEW size \in 1 .. N, consume_block(size)
          PROVE  tail' \in 0 .. N - 1 /\ out' \in Seq(Items) /\ maxed' \in BOOLEAN
      <3>1. tail + size \in Int /\ 0 \in 0 .. N - 1
        BY <1>2, SizeAssumption
      <3>2. /\ Lesser(size, Consumable) \in Nat
            /\ tail + Lesser(size, Consumable) - 1 <= N
            /\ tail \in 0 .. N
        BY <1>2, ConsumableRange, SizeAssumption DEF Lesser
      <3>3. Copy(tail, Lesser(size, Consumable)) \in Seq(Items)
        BY <1>2, <3>2, CopyType
      <3> QED
        BY <2>2, <3>1, <3>3, <1>2, Remainder DEF consume_block
    <2> QED
      BY <2>1, <2>2
  <1> QED
    BY <1>1, <1>3 DEF TypeOK, LineType, LineFits, InLine

LEMMA TypeClear ==
  ASSUME TypeInv, clear \/ clearAsk \/ clearTest \/ clearReset
  PROVE  TypeInv'
  <1> USE DEF TypeInv
  <1>1. /\ UNCHANGED line /\ damage' \in BOOLEAN /\ will_clear_if_empty' \in BOOLEAN
        /\ late' \in BOOLEAN
    BY Zenon DEF clear, clearAsk, clearTest, clearReset, index, TypeOK, empty
  <1>2. out' = out \/ out' = << >>
    BY DEF clear, clearAsk, clearTest, clearReset
  <1>3. /\ at' \in {"no", "asked", "empty", "line", "unmarked", "tested"}
        /\ InLine' => InLine
    BY DEF clear, clearAsk, clearTest, clearReset, TypeOK, InLine
  <1>4. buffer' \in [0 .. N -> Items]
    <2>1. NUL \in Items
      BY DEF Items
    <2> QED
      BY <2>1 DEF clear, clearAsk, clearTest, clearReset, index, TypeOK
  <1>5. \/ UNCHANGED <<head, tail, maxed>>
        \/ head' = 0 /\ tail' = 0 /\ maxed' = FALSE
    BY Zenon DEF clear, clearAsk, clearTest, clearReset, index
  <1>6. head' \in 0 .. N - 1 /\ tail' \in 0 .. N - 1
    BY <1>5, SizeAssumption DEF TypeOK
  <1>7. maxed' \in BOOLEAN
    BY <1>5, Zenon DEF TypeOK
  <1>8. out' \in Seq(Items)
    <2>1. << >> \in Seq(Items)
      OBVIOUS
    <2> QED
      BY <1>2, <2>1, Zenon DEF TypeOK
  <1>9. LineType' /\ LineFits'
    BY <1>1, <1>3, Zenon DEF LineType, LineFits
  <1>10. line'.next \in 0 .. N - 1 /\ line'.text \in Seq(Items)
    BY <1>1 DEF TypeOK
  <1> QED
    BY <1>1, <1>3, <1>4, <1>6, <1>7, <1>8, <1>9, <1>10, Zenon DEF TypeOK

-----------------------------------------------------------------------------
(***************************************************************************)
(* The three ways in which consume_line works out its line.                *)
(***************************************************************************)

LEMMA StrChrRange ==
  ASSUME NEW p \in 0 .. N, NEW e \in Null .. Beyond, StrChr(p, e), e # Null
  PROVE  e \in p .. Beyond
  BY SizeAssumption DEF StrChr, Null, Beyond

\* How much a line takes, and where the tail will be.
LEMMA UpToType ==
  ASSUME TypeOK, ~empty, NEW size \in LineSizes, NEW e \in tail .. Beyond
  PROVE  \E n \in 1 .. size :
           /\ n <= Consumable
           /\ lineUpTo(size, e) = Line(size, (tail + n) % N, (tail + n) % N, Copy(tail, n), FALSE)
           /\ (tail + n) % N \in 0 .. N - 1
           /\ Copy(tail, n) \in Seq(Items) /\ Len(Copy(tail, n)) = n
  <1> DEFINE n == Lesser(Lesser(size, Consumable), e - tail + 1)
  <1>1. head \in 0 .. N - 1 /\ tail \in 0 .. N - 1 /\ buffer \in [0 .. N -> Items]
    BY DEF TypeOK
  <1>2. n \in 1 .. size /\ n <= Consumable
    <2>1. Consumable \in Nat /\ Consumable >= 1
      BY <1>1, ConsumableRange
    <2>2. size \in Nat /\ size >= 1 /\ e - tail + 1 \in Nat /\ e - tail + 1 >= 1
      BY <1>1, SizeAssumption DEF Beyond
    <2> QED
      BY <2>1, <2>2 DEF Lesser
  <1> HIDE DEF n
  <1>3. tail + n \in Int /\ tail + n - 1 <= N /\ n \in Nat /\ tail \in 0 .. N
    BY <1>1, <1>2, ConsumableRange, SizeAssumption
  <1>4. Copy(tail, n) \in Seq(Items) /\ Len(Copy(tail, n)) = n
    BY <1>1, <1>3, CopyType
  <1>5. lineUpTo(size, e) = Line(size, (tail + n) % N, (tail + n) % N, Copy(tail, n), FALSE)
    BY DEF lineUpTo, n
  <1> QED
    BY <1>2, <1>3, <1>4, <1>5, Remainder

\* How much of the start of the array a line over its end takes.
Extra(size, e) ==
  IF Wrapped /\ e # Null THEN Lesser(size - Consumable, e + 1) ELSE 0

OverEndOff(size, e) == EndsWithArray /\ e # Null /\ Consumable < size

LEMMA OverEndType ==
  ASSUME TypeOK, ~empty, NEW size \in LineSizes, Consumable <= size, NEW e \in Null .. Beyond
  PROVE  LET extra == Extra(size, e)
             next == IF Wrapped THEN extra % N ELSE head
         IN /\ extra \in 0 .. size - Consumable /\ next \in 0 .. N - 1
            /\ lineOverEnd(size, e) =
                 Line(size, next, next, Copy(tail, Consumable) \o Copy(0, extra),
                      OverEndOff(size, e))
            /\ ~Wrapped => extra = 0
            /\ Copy(tail, Consumable) \in Seq(Items) /\ Len(Copy(tail, Consumable)) = Consumable
            /\ Copy(0, extra) \in Seq(Items) /\ Len(Copy(0, extra)) = extra
  <1> DEFINE extra == Extra(size, e)
  <1> DEFINE next == IF Wrapped THEN extra % N ELSE head
  <1>1. head \in 0 .. N - 1 /\ tail \in 0 .. N - 1 /\ buffer \in [0 .. N -> Items]
    BY DEF TypeOK
  <1>2. extra \in 0 .. size - Consumable /\ (~Wrapped => extra = 0)
    BY <1>1, ConsumableRange, SizeAssumption DEF Lesser, Beyond, Null, Extra
  <1> HIDE DEF extra
  <1>3. /\ extra \in Nat /\ 0 + extra - 1 <= N /\ 0 \in 0 .. N
        /\ Consumable \in Nat /\ tail + Consumable - 1 <= N /\ tail \in 0 .. N
        /\ extra \in Int
    BY <1>1, <1>2, ConsumableRange, SizeAssumption
  <1>4. next \in 0 .. N - 1
    BY <1>1, <1>3, Remainder
  <1>5. lineOverEnd(size, e) =
          Line(size, next, next, Copy(tail, Consumable) \o Copy(0, extra), OverEndOff(size, e))
    BY DEF lineOverEnd, extra, Extra, OverEndOff
  <1>6. Copy(tail, Consumable) \in Seq(Items) /\ Len(Copy(tail, Consumable)) = Consumable
    BY <1>1, <1>3, CopyType
  <1>7. Copy(0, extra) \in Seq(Items) /\ Len(Copy(0, extra)) = extra
    BY <1>1, <1>3, CopyType
  <1> QED
    BY <1>2, <1>4, <1>5, <1>6, <1>7 DEF extra

LEMMA FullLineType ==
  ASSUME TypeOK, ~empty, NEW size \in LineSizes, Consumable > size
  PROVE  \E next \in 0 .. N - 1, drained \in 0 .. N - 1, off \in BOOLEAN :
           /\ lineFull(size) = Line(size, next, drained, Copy(tail, size), off)
           /\ ~off => next = (tail + size) % N /\ drained = next
           /\ Copy(tail, size) \in Seq(Items) /\ Len(Copy(tail, size)) = size
  <1> DEFINE over == IF head <= tail + size THEN size ELSE head
  <1>1. head \in 0 .. N - 1 /\ tail \in 0 .. N - 1 /\ buffer \in [0 .. N -> Items]
    BY DEF TypeOK
  <1>2. /\ size \in 0 .. N - 1 /\ size \in Nat /\ tail + size - 1 <= N /\ tail \in 0 .. N
        /\ tail + size \in Int
    BY <1>1, ConsumableRange, SizeAssumption
  <1>3. over \in 0 .. N - 1 /\ (tail + size) % N \in 0 .. N - 1
    BY <1>1, <1>2, Remainder
  <1>4. Copy(tail, size) \in Seq(Items) /\ Len(Copy(tail, size)) = size
    BY <1>1, <1>2, CopyType
  <1>5. CASE size <= head
    <2>1. lineFull(size) =
            Line(size, (tail + size) % N, (tail + size) % N, Copy(tail, size), FALSE)
      BY <1>5 DEF lineFull
    <2> QED
      BY <1>3, <1>4, <2>1
  <1>6. CASE ~(size <= head)
    <2>1. lineFull(size) = Line(size, over, head, Copy(tail, size), TRUE)
      BY <1>6 DEF lineFull
    <2> HIDE DEF over
    <2> QED
      BY <1>1, <1>3, <1>4, <2>1
  <1> QED
    BY <1>5, <1>6

LEMMA TypeLineCopy ==
  ASSUME TypeInv, ~empty, NEW size \in LineSizes, lineCopy(size)
  PROVE  TypeInv'
  <1> USE DEF TypeInv
  <1>1. UNCHANGED <<buffer, head, tail, maxed, will_clear_if_empty, out, late>>
        /\ at' = "line" /\ damage' = FALSE
    BY DEF lineCopy, index
  <1>2. size \in 0 .. N /\ size \in 1 .. N /\ tail \in 0 .. N /\ tail \in 0 .. N - 1
        /\ head \in 0 .. N - 1
    BY SizeAssumption DEF TypeOK
  <1>3. \E next \in 0 .. N - 1, drained \in 0 .. N - 1, text \in Seq(Items), off \in BOOLEAN :
          line' = Line(size, next, drained, text, off) /\ Len(text) \in 1 .. size
    <2>1. PICK e \in Null .. Beyond, e2 \in Null .. Beyond :
            /\ StrChr(tail, e)
            /\ \/ e # Null /\ line' = lineUpTo(size, e)
               \/ e = Null /\ Consumable <= size /\ line' = lineOverEnd(size, e2)
               \/ e = Null /\ Consumable > size /\ line' = lineFull(size)
      BY DEF lineCopy
    <2>2. CASE e # Null /\ line' = lineUpTo(size, e)
      <3>1. e \in tail .. Beyond
        BY <2>1, <2>2, <1>2, StrChrRange
      <3>2. PICK n \in 1 .. size :
              /\ line' = Line(size, (tail + n) % N, (tail + n) % N, Copy(tail, n), FALSE)
              /\ (tail + n) % N \in 0 .. N - 1
              /\ Copy(tail, n) \in Seq(Items) /\ Len(Copy(tail, n)) = n
        BY <2>2, <3>1, UpToType
      <3> QED
        BY <3>2
    <2>3. CASE Consumable <= size /\ line' = lineOverEnd(size, e2)
      <3> DEFINE extra == Extra(size, e2)
                 next == IF Wrapped THEN extra % N ELSE head
                 off == OverEndOff(size, e2)
                 text == Copy(tail, Consumable) \o Copy(0, extra)
      <3>1. /\ extra \in 0 .. size - Consumable /\ next \in 0 .. N - 1
            /\ line' = Line(size, next, next, text, off)
            /\ Copy(tail, Consumable) \in Seq(Items) /\ Len(Copy(tail, Consumable)) = Consumable
            /\ Copy(0, extra) \in Seq(Items) /\ Len(Copy(0, extra)) = extra
        BY <2>3, OverEndType, Zenon
      <3>2. off \in BOOLEAN
        BY DEF OverEndOff, EndsWithArray
      <3> HIDE DEF extra, next, off
      <3>3. text \in Seq(Items) /\ Len(text) = Consumable + extra
        BY <3>1
      <3>4. Consumable + extra \in 1 .. size
        BY <1>2, <2>3, <3>1, ConsumableRange
      <3>5. line' = Line(size, next, next, text, off)
        BY <3>1
      <3> HIDE DEF text
      <3>6. next \in 0 .. N - 1 /\ Len(text) \in 1 .. size
        BY <3>1, <3>3, <3>4
      <3> QED
        BY <3>2, <3>3, <3>5, <3>6
    <2>4. CASE Consumable > size /\ line' = lineFull(size)
      <3>1. PICK next \in 0 .. N - 1, drained \in 0 .. N - 1, off \in BOOLEAN :
              /\ line' = Line(size, next, drained, Copy(tail, size), off)
              /\ Copy(tail, size) \in Seq(Items) /\ Len(Copy(tail, size)) = size
        BY <2>4, FullLineType
      <3>2. size \in 1 .. size
        BY <1>2
      <3> QED
        BY <3>1, <3>2
    <2> QED
      BY <2>1, <2>2, <2>3, <2>4
  <1>4. PICK next \in 0 .. N - 1, drained \in 0 .. N - 1, text \in Seq(Items), off \in BOOLEAN :
          line' = Line(size, next, drained, text, off) /\ Len(text) \in 1 .. size
    BY <1>3
  <1>5. /\ LineType'
        /\ line'.size = size /\ line'.next = next /\ line'.text = text
    BY <1>2, <1>4, LineIsLine DEF LineType
  <1> QED
    BY <1>1, <1>4, <1>5 DEF TypeOK, LineFits, InLine

LEMMA TypeLineSteps ==
  ASSUME TypeInv, lineUnmark \/ lineTest
  PROVE  TypeInv'
  <1> USE DEF TypeInv
  <1>1. /\ UNCHANGED <<buffer, head, tail, will_clear_if_empty, out>>
        /\ InLine /\ at' \in {"unmarked", "tested"} /\ damage' = FALSE
    BY DEF lineUnmark, lineTest, index, InLine
  <1>2. maxed' \in BOOLEAN /\ late' \in BOOLEAN
    BY DEF lineUnmark, lineTest, index, TypeOK
  <1>3. LineType' /\ line'.text = line.text /\ line'.size = line.size
    BY DEF lineUnmark, lineTest, LineType
  <1>4. line'.next \in 0 .. N - 1
    BY <1>3 DEF LineType
  <1> QED
    BY <1>1, <1>2, <1>3, <1>4 DEF TypeOK, LineFits, InLine

LEMMA TypeLineStore ==
  ASSUME TypeInv, lineStore
  PROVE  TypeInv'
  <1> USE DEF TypeInv
  <1>1. /\ UNCHANGED <<buffer, head, maxed, will_clear_if_empty>>
        /\ tail' = line.next /\ out' = line.text /\ at' = "no" /\ line' = NoLine
    BY DEF lineStore
  <1>2. late' \in BOOLEAN /\ damage' \in BOOLEAN
    BY DEF lineStore, LineType
  <1>3. LineType' /\ line'.next \in 0 .. N - 1 /\ line'.text \in Seq(Items)
    BY <1>1, SizeAssumption DEF LineType, NoLine
  <1> QED
    BY <1>1, <1>2, <1>3 DEF TypeOK, LineFits, InLine

LEMMA TypeStep == TypeInv /\ [Next]_vars => TypeInv'
  <1> SUFFICES ASSUME TypeInv, [Next]_vars PROVE TypeInv'
    OBVIOUS
  <1>1. CASE UNCHANGED vars
    BY <1>1 DEF vars, TypeInv, TypeOK, LineType, LineFits, InLine
  <1> QED
    BY <1>1, TypeWriteItem, TypeWrite, TypeConsume, TypeClear, TypeLineCopy,
       TypeLineSteps, TypeLineStore
       DEF Next, Read

LEMMA TypeAlways == Spec => []TypeInv
  BY TypeInit, TypeStep, PTL DEF Spec

\* For a buffer of any size: head and tail stay inside the array, and nothing
\* is stored behind its extra item.
THEOREM TypeCorrect == Spec => []TypeOK
  <1>1. TypeInv => TypeOK
    BY DEF TypeInv
  <1> QED
    BY <1>1, TypeAlways, PTL

\* consume_line never writes behind the caller's line and never returns 0 for
\* a buffer that is not empty, for any line sizes up to the buffer's.
THEOREM LinesFit == Spec => []LineFits
  <1>1. TypeInv => LineFits
    BY DEF TypeInv
  <1> QED
    BY <1>1, TypeAlways, PTL

-----------------------------------------------------------------------------
\* maxed is computed with head = tail - 1, without a remainder: it may miss a
\* full buffer whose tail is at 0 but never sees one that is not there.  What
\* lineStore leaves behind is right unless a text came after lineUnmark.
UnmarkedInv ==
  /\ at \in {"unmarked", "tested"} /\ ~line.late => ~maxed
  /\ InLine => ~line.late \/ at \in {"unmarked", "tested"}

FullInv == TypeInv /\ FullMeansFull /\ UnmarkedInv

LEMMA FullStep == FullInv /\ [Next]_vars => FullInv'
  <1> SUFFICES ASSUME FullInv, [Next]_vars PROVE FullInv'
    OBVIOUS
  <1>1. TypeInv /\ TypeInv'
    BY TypeStep DEF FullInv
  <1>2. head' \in 0 .. N - 1 /\ tail' \in 0 .. N - 1
    BY <1>1 DEF TypeInv, TypeOK
  <1>3. FullMeansFull'
    <2> SUFFICES ASSUME maxed', ~late' PROVE (head' - tail') % N = N - 1
      BY DEF FullMeansFull, full
    <2>1. CASE head' = tail' - 1
      BY <1>2, <2>1, Difference, SizeAssumption
    <2>2. CASE UNCHANGED <<head, tail, maxed>> /\ (late' <=> late)
      BY <2>2 DEF FullInv, FullMeansFull, full
    <2>3. CASE lineStore
      BY <2>3 DEF FullInv, UnmarkedInv, lineStore
    <2>4. lineStore \/ head' = tail' - 1 \/ (UNCHANGED <<head, tail, maxed>> /\ (late' <=> late))
      BY DEF Next, Read, vars, index, write, writeItem, clear, clearAsk, clearTest,
             clearReset, consume, consume_block, lineCopy, lineUnmark, lineTest
    <2> QED
      BY <2>1, <2>2, <2>3, <2>4
  <1>4. UnmarkedInv'
    <2>1. ASSUME NEW t \in Texts, write(t) PROVE UnmarkedInv'
      <3>1. line'.late = (line.late \/ at \in {"unmarked", "tested"}) /\ at' = at
        BY <1>1, <2>1 DEF write, TypeInv, LineType
      <3> QED
        BY <3>1 DEF UnmarkedInv, FullInv, InLine
    <2>2. ASSUME NEW size \in LineSizes, lineCopy(size) PROVE UnmarkedInv'
      <3>1. ~line'.late /\ at' = "line"
        BY <2>2 DEF lineCopy, lineUpTo, lineOverEnd, lineFull, Line
      <3> QED
        BY <3>1 DEF UnmarkedInv, InLine
    <2>3. CASE lineUnmark
      BY <2>3 DEF lineUnmark, UnmarkedInv, FullInv, InLine
    <2>4. CASE lineTest
      <3>1. line'.late = line.late /\ UNCHANGED maxed /\ at = "unmarked" /\ at' = "tested"
        BY <1>1, <2>4 DEF lineTest, index, TypeInv, LineType
      <3> QED
        BY <3>1 DEF UnmarkedInv, FullInv, InLine
    <2>5. CASE lineStore
      BY <2>5 DEF lineStore, UnmarkedInv, InLine
    <2>6. CASE clearTest \/ clearReset
      <3>1. at' \in {"no", "empty"}
        BY <2>6 DEF clearTest, clearReset
      <3> QED
        BY <3>1 DEF UnmarkedInv, InLine
    <2>7. CASE at = "no" /\ (at' = at \/ at' = "asked")
      BY <2>7 DEF UnmarkedInv, InLine
    <2>8. CASE UNCHANGED vars
      BY <2>8 DEF vars, UnmarkedInv, FullInv, InLine
    <2>9. CASE Read
      <3>1. /\ at = "no"
            /\ (at' = at \/ at' = "asked") \/ \E size \in LineSizes : lineCopy(size)
        BY <2>9 DEF Read, clear, clearAsk, consume, consume_block
      <3> QED
        BY <2>2, <2>7, <3>1
    <2>10. ASSUME NEW c \in Chars, at = "no" /\ writeItem(c) PROVE UnmarkedInv'
      <3>1. at = "no" /\ at' = at
        BY <2>10 DEF writeItem
      <3> QED
        BY <2>7, <3>1
    <2> QED
      BY <2>1, <2>3, <2>4, <2>5, <2>6, <2>8, <2>9, <2>10 DEF Next
  <1> QED
    BY <1>1, <1>3, <1>4 DEF FullInv

\* For every size of the buffer: one that says it is full has no room left,
\* whatever was read since, unless an interrupt logged between the two stores
\* of the last line.
THEOREM FullIsFull == Spec => []FullMeansFull
  <1>1. Init => FullInv
    BY TypeInit DEF Init, FullInv, FullMeansFull, full, UnmarkedInv, InLine
  <1>2. FullInv => FullMeansFull
    BY DEF FullInv
  <1> QED
    BY <1>1, <1>2, FullStep, PTL DEF Spec

-----------------------------------------------------------------------------
(***************************************************************************)
(* The buffer is a queue.  Positions are counted from head: what is unread *)
(* lies in the last Used places, a text goes into the first ones.          *)
(***************************************************************************)

\* The place i behind t, x % N for the sums that occur, and how many characters
\* are unread.
Pos(t, i) == IF t + i < N THEN t + i ELSE t + i - N
Reduced(x) == IF x < N THEN x ELSE IF x < N + N THEN x - N ELSE x - (N + N)
Used == IF head >= tail THEN head - tail ELSE head - tail + N

LEMMA PosRange ==
  ASSUME NEW t \in 0 .. N - 1, NEW i \in 0 .. N - 1
  PROVE  Pos(t, i) \in 0 .. N - 1 /\ (t + i) % N = Pos(t, i)
  <1>1. t + i \in 0 .. (N + N + N - 1)
    BY SizeAssumption
  <1> QED
    BY <1>1, Sum, SizeAssumption DEF Pos

UnreadFacts ==
  /\ Used \in 0 .. N - 1 /\ (head - tail) % N = Used
  /\ Unread \in Seq(Items) /\ Len(Unread) = Used
  /\ \A i \in 1 .. Used : Unread[i] = buffer[Pos(tail, i - 1)]

LEMMA UnreadIs == TypeOK => UnreadFacts
  <1> SUFFICES ASSUME TypeOK PROVE UnreadFacts
    OBVIOUS
  <1>1. head \in 0 .. N - 1 /\ tail \in 0 .. N - 1
    BY DEF TypeOK
  <1>2. Used \in 0 .. N - 1 /\ (head - tail) % N = Used
    BY <1>1, Difference, SizeAssumption DEF Used
  <1>3. ASSUME NEW i \in 1 .. Used
        PROVE  /\ (tail + i - 1) % N = Pos(tail, i - 1)
               /\ Pos(tail, i - 1) \in 0 .. N
    <2>1. i - 1 \in 0 .. N - 1 /\ tail + i - 1 = tail + (i - 1)
      BY <1>1, <1>2, SizeAssumption
    <2> QED
      BY <1>1, <2>1, PosRange, SizeAssumption
  <1>4. Unread = [i \in 1 .. Used |-> buffer[Pos(tail, i - 1)]]
    BY <1>2, <1>3 DEF Unread
  <1>5. \A i \in 1 .. Used : buffer[Pos(tail, i - 1)] \in Items
    BY <1>3 DEF TypeOK
  <1> QED
    BY <1>2, <1>4, <1>5 DEF UnreadFacts

\* An unread character, counted from head.
LEMMA FromHead ==
  ASSUME TypeOK, NEW i \in 1 .. Used
  PROVE  Pos(tail, i - 1) = Pos(head, N - Used + i - 1) /\ N - Used + i - 1 \in 0 .. N - 1
  BY UnreadIs, SizeAssumption DEF UnreadFacts, Pos, Used, TypeOK

\* Where write(items) puts its characters, and what it leaves alone; at the
\* place behind them is the terminator or what was there.
LEMMA WrittenAt ==
  ASSUME TypeOK, NEW t \in Seq(Chars), Len(t) \in 1 .. N, NEW o \in 0 .. N - 1
  PROVE  /\ o < Len(t) /\ ~(Len(t) = N /\ o = 0) => Written(t)[Pos(head, o)] = t[o + 1]
         /\ o > Len(t) => Written(t)[Pos(head, o)] = buffer[Pos(head, o)]
  <1> DEFINE p == Pos(head, o)
             q == Pos(head, Len(t) - 1)
  <1>1. head \in 0 .. N - 1 /\ Len(t) - 1 \in 0 .. N - 1
    BY SizeAssumption DEF TypeOK
  <1>2. p \in 0 .. N - 1 /\ q \in 0 .. N - 1 /\ p \in 0 .. N
    <2>1. p \in 0 .. N - 1
      BY <1>1, PosRange
    <2>2. q \in 0 .. N - 1
      BY <1>1, PosRange
    <2> HIDE DEF p, q
    <2> QED
      BY <2>1, <2>2, SizeAssumption
  <1>3. (head + Len(t) - 1) % N = q
    <2>1. head + Len(t) - 1 = head + (Len(t) - 1)
      BY <1>1, SizeAssumption
    <2> QED
      BY <1>1, <2>1, PosRange
  <1>4. (p - head) % N = o
    BY <1>1, <1>2, Difference, SizeAssumption DEF Pos
  <1>5. Written(t)[p] = IF p = q + 1 THEN NUL
                        ELSE IF p < N /\ o < Len(t) THEN t[o + 1] ELSE buffer[p]
    BY <1>2, <1>3, <1>4 DEF Written
  <1>6. p < N
    BY <1>2, SizeAssumption
  <1>7. (o < Len(t) /\ ~(Len(t) = N /\ o = 0)) \/ o > Len(t) => p # q + 1
    BY <1>1, SizeAssumption DEF Pos
  <1> HIDE DEF p, q
  <1>8. o < Len(t) /\ ~(Len(t) = N /\ o = 0) => Written(t)[p] = t[o + 1]
    BY <1>5, <1>6, <1>7
  <1>9. o > Len(t) => Written(t)[p] = buffer[p]
    BY <1>1, <1>5, <1>6, <1>7
  <1> QED
    BY <1>8, <1>9 DEF p

LEMMA SameSeq ==
  ASSUME NEW S, NEW s \in Seq(S), NEW t \in Seq(S), Len(s) = Len(t),
         \A i \in 1 .. Len(s) : s[i] = t[i]
  PROVE  s = t
  OBVIOUS

LEMMA TextType == ASSUME NEW t \in Seq(Chars) PROVE t \in Seq(Items)
  <1>1. \A i \in 1 .. Len(t) : t[i] \in Items
    BY DEF Items
  <1>2. t = [i \in 1 .. Len(t) |-> t[i]] /\ Len(t) \in Nat
    OBVIOUS
  <1> QED
    BY <1>1, <1>2

LEMMA ConcatIs ==
  ASSUME NEW S, NEW a \in Seq(S), NEW b \in Seq(S)
  PROVE  /\ a \o b \in Seq(S) /\ Len(a \o b) = Len(a) + Len(b)
         /\ \A i \in 1 .. Len(a) + Len(b) :
              (a \o b)[i] = IF i <= Len(a) THEN a[i] ELSE b[i - Len(a)]
  BY ConcatProperties

\* A text that fits goes behind what is unread.
LEMMA WriteFits ==
  ASSUME TypeOK, TypeOK', NEW t \in Seq(Chars), Len(t) \in 1 .. N,
         buffer' = Written(t), tail' = tail, head' = Pos(head, Len(t)),
         Used + Len(t) < N
  PROVE  Unread' = Unread \o t
  <1> DEFINE L == Len(t)
  <1>1. /\ head \in 0 .. N - 1 /\ tail \in 0 .. N - 1 /\ L \in 1 .. N - 1
        /\ Used \in 0 .. N - 1 /\ Unread \in Seq(Items) /\ Len(Unread) = Used
        /\ \A i \in 1 .. Used : Unread[i] = buffer[Pos(tail, i - 1)]
    <2>1. /\ head \in 0 .. N - 1 /\ tail \in 0 .. N - 1
          /\ Used \in 0 .. N - 1 /\ Unread \in Seq(Items) /\ Len(Unread) = Used
          /\ \A i \in 1 .. Used : Unread[i] = buffer[Pos(tail, i - 1)]
      BY UnreadIs DEF TypeOK, UnreadFacts
    <2>2. L \in 1 .. N - 1
      BY <2>1, SizeAssumption
    <2> QED
      BY <2>1, <2>2
  <1>2. /\ Unread' \in Seq(Items) /\ Len(Unread') = Used'
        /\ \A i \in 1 .. Used' : Unread'[i] = buffer'[Pos(tail, i - 1)]
    <2>1. UnreadFacts'
      BY UnreadIs, PTL
    <2> QED
      BY <2>1 DEF UnreadFacts, Pos
  <1>3. Used' = Used + L
    <2>1. Used' = IF head' >= tail THEN head' - tail ELSE head' - tail + N
      BY DEF Used
    <2> QED
      BY <1>1, <2>1, SizeAssumption DEF Used, Pos
  <1>4. t \in Seq(Items) /\ Unread \o t \in Seq(Items) /\ Len(Unread \o t) = Used + L
    <2>1. t \in Seq(Items)
      BY TextType
    <2> QED
      BY <1>1, <2>1, ConcatProperties
  <1>5. ASSUME NEW i \in 1 .. Used + L PROVE Unread'[i] = (Unread \o t)[i]
    <2>1. CASE i \in 1 .. Used
      <3>1. Pos(tail, i - 1) = Pos(head, N - Used + i - 1) /\ N - Used + i - 1 \in 0 .. N - 1
        BY <2>1, FromHead
      <3>2. N - Used + i - 1 > L
        BY <1>1, <2>1, SizeAssumption
      <3>3. buffer'[Pos(tail, i - 1)] = buffer[Pos(tail, i - 1)]
        BY <3>1, <3>2, WrittenAt
      <3>4. (Unread \o t)[i] = Unread[i]
        BY <1>1, <1>4, <2>1
      <3> QED
        BY <1>1, <1>2, <1>3, <2>1, <3>3, <3>4
    <2>2. CASE i \in Used + 1 .. Used + L
      <3> DEFINE o == i - Used - 1
      <3>1. o \in 0 .. N - 1 /\ o < L /\ ~(L = N /\ o = 0)
        BY <1>1, <2>2, SizeAssumption
      <3>2. Pos(tail, i - 1) = Pos(head, o)
        BY <1>1, <2>2, SizeAssumption DEF Pos, Used
      <3>3. buffer'[Pos(head, o)] = t[o + 1]
        BY <3>1, WrittenAt
      <3>4. (Unread \o t)[i] = t[i - Used] /\ o + 1 = i - Used
        BY <1>1, <1>4, <2>2
      <3> QED
        BY <1>2, <1>3, <3>2, <3>3, <3>4
    <2> QED
      BY <1>1, <2>1, <2>2
  <1> QED
    BY <1>2, <1>3, <1>4, <1>5, SameSeq

LEMMA NewestIs ==
  ASSUME NEW S, NEW s \in Seq(S), NEW n \in Nat, Len(s) >= n
  PROVE  /\ Queue!Newest(s, n) \in Seq(S)
         /\ Len(Queue!Newest(s, n)) = n
         /\ \A i \in 1 .. n : Queue!Newest(s, n)[i] = s[Len(s) - n + i]
  BY DEF Queue!Newest

\* A text that does not fit, or just so, leaves the newest N - 1 characters.
LEMMA WriteDrops ==
  ASSUME TypeOK, TypeOK', NEW t \in Seq(Chars), Len(t) \in 1 .. N,
         buffer' = Written(t), head' = Reduced(head + Len(t)),
         tail' = Reduced(head + Len(t) + 1), Used + Len(t) >= N - 1
  PROVE  Unread' = Queue!Newest(Unread \o t, N - 1)
  <1> DEFINE L == Len(t)
             s == Unread \o t
  <1>1. /\ head \in 0 .. N - 1 /\ tail \in 0 .. N - 1 /\ L \in 1 .. N
        /\ Used \in 0 .. N - 1 /\ Unread \in Seq(Items) /\ Len(Unread) = Used
        /\ \A i \in 1 .. Used : Unread[i] = buffer[Pos(tail, i - 1)]
    BY UnreadIs DEF TypeOK, UnreadFacts
  <1>2. /\ Unread' \in Seq(Items) /\ Len(Unread') = Used'
        /\ \A i \in 1 .. Used' : Unread'[i] = buffer'[Pos(tail', i - 1)]
    <2>1. UnreadFacts'
      BY UnreadIs, PTL
    <2> QED
      BY <2>1 DEF UnreadFacts, Pos
  <1>3. /\ Used' = N - 1
        /\ \A i \in 1 .. N - 1 :
             Pos(tail', i - 1) = Pos(head, IF L + i < N THEN L + i ELSE L + i - N)
    <2>1. Used' = IF head' >= tail' THEN head' - tail' ELSE head' - tail' + N
      BY DEF Used
    <2>2. Used' = N - 1
      BY <1>1, <2>1, SizeAssumption DEF Reduced
    <2>3. ASSUME NEW i \in 1 .. N - 1
          PROVE  Pos(tail', i - 1) = Pos(head, IF L + i < N THEN L + i ELSE L + i - N)
      BY <1>1, SizeAssumption DEF Pos, Reduced
    <2> QED
      BY <2>2, <2>3
  <1>4. /\ s \in Seq(Items) /\ Len(s) = Used + L
        /\ \A i \in 1 .. Used + L : s[i] = IF i <= Used THEN Unread[i] ELSE t[i - Used]
    <2>1. t \in Seq(Items)
      BY TextType
    <2>2. /\ s \in Seq(Items) /\ Len(s) = Len(Unread) + Len(t)
          /\ \A i \in 1 .. Len(Unread) + Len(t) :
               s[i] = IF i <= Len(Unread) THEN Unread[i] ELSE t[i - Len(Unread)]
      BY <1>1, <2>1, ConcatIs
    <2> QED
      BY <1>1, <2>2, Zenon
  <1> HIDE DEF s
  <1>5. /\ Queue!Newest(s, N - 1) \in Seq(Items)
        /\ Len(Queue!Newest(s, N - 1)) = N - 1
        /\ \A i \in 1 .. N - 1 : Queue!Newest(s, N - 1)[i] = s[Len(s) - (N - 1) + i]
    <2> DEFINE n == N - 1
    <2>1. n \in Nat /\ Len(s) >= n /\ s \in Seq(Items)
      BY <1>4, SizeAssumption
    <2> HIDE DEF n
    <2>2. /\ Queue!Newest(s, n) \in Seq(Items) /\ Len(Queue!Newest(s, n)) = n
          /\ \A i \in 1 .. n : Queue!Newest(s, n)[i] = s[Len(s) - n + i]
      BY <2>1, NewestIs
    <2> QED
      BY <2>2, Zenon DEF n
  <1>6. ASSUME NEW i \in 1 .. N - 1 PROVE Unread'[i] = s[Len(s) - (N - 1) + i]
    <2> DEFINE j == Len(s) - (N - 1) + i
    <2>1. CASE L + i < N
      <3>1. j \in 1 .. Used /\ N - Used + j - 1 = L + i
        BY <1>1, <1>4, <2>1, SizeAssumption
      <3>2. Pos(tail, j - 1) = Pos(head, L + i) /\ L + i \in 0 .. N - 1
        BY <3>1, FromHead
      <3>3. buffer'[Pos(head, L + i)] = buffer[Pos(head, L + i)]
        <4>1. L + i > L
          BY <1>1
        <4> QED
          BY <4>1, <3>2, WrittenAt
      <3>4. s[j] = Unread[j]
        BY <1>1, <1>4, <3>1
      <3> QED
        BY <1>1, <1>2, <1>3, <2>1, <3>1, <3>2, <3>3, <3>4
    <2>2. CASE ~(L + i < N)
      <3> DEFINE o == L + i - N
      <3>1. /\ o \in 0 .. N - 1 /\ o < L /\ ~(L = N /\ o = 0)
            /\ j \in Used + 1 .. Used + L /\ j - Used = o + 1
        BY <1>1, <1>4, <2>2, SizeAssumption
      <3>2. buffer'[Pos(head, o)] = t[o + 1]
        BY <3>1, WrittenAt
      <3>3. s[j] = t[o + 1]
        <4>1. j \in 1 .. Used + L /\ ~(j <= Used)
          BY <1>1, <3>1
        <4> QED
          BY <1>4, <3>1, <4>1
      <3> QED
        BY <1>2, <1>3, <2>2, <3>2, <3>3
    <2> QED
      BY <2>1, <2>2
  <1>7. Unread' = Queue!Newest(s, N - 1)
    BY <1>2, <1>3, <1>5, <1>6, SameSeq
  <1> QED
    BY <1>7 DEF s

\* The loop of write(items) meets the tail exactly when the text leaves no
\* room, but for a buffer that is full and not marked so.
LEMMA MeetsMeans ==
  ASSUME TypeOK, NEW L \in 1 .. N
  PROVE  /\ Meets(L) => Used + L >= N - 1
         /\ ~Meets(L) /\ ~(tail # 0 /\ Used = N - 1) => Used + L < N
  <1>1. /\ head \in 0 .. N - 1 /\ tail \in 0 .. N - 1
        /\ Used \in 0 .. N - 1
    BY UnreadIs DEF TypeOK, UnreadFacts
  <1>2. ASSUME NEW i \in 0 .. L - 1
        PROVE  /\ (head + i) % N = Pos(head, i)
               /\ Pos(head, i) \in 0 .. N - 1
               /\ (Pos(head, i) + 1) % N = Pos(Pos(head, i), 1)
    <2>1. i \in 0 .. N - 1 /\ 1 \in 0 .. N - 1
      BY SizeAssumption
    <2> QED
      BY <1>1, <2>1, PosRange
  <1>3. Meets(L) <=> \E i \in 0 .. L - 1 :
                       \/ Pos(Pos(head, i), 1) = tail - 1
                       \/ tail = 0 /\ Pos(head, i) = N - 1
    BY <1>2 DEF Meets
  <1>4. ASSUME NEW i \in 0 .. L - 1,
               Pos(Pos(head, i), 1) = tail - 1 \/ (tail = 0 /\ Pos(head, i) = N - 1)
        PROVE  Used + L >= N - 1
    BY <1>1, <1>4, SizeAssumption DEF Pos, Used
  <1>5. ASSUME Used + L >= N, ~(tail # 0 /\ Used = N - 1)
        PROVE  \E i \in 0 .. L - 1 :
                 \/ Pos(Pos(head, i), 1) = tail - 1
                 \/ tail = 0 /\ Pos(head, i) = N - 1
    <2>1. CASE tail = 0
      <3> DEFINE i == N - 1 - Used
      <3>1. i \in 0 .. L - 1 /\ Pos(head, i) = N - 1
        BY <1>1, <1>5, <2>1, SizeAssumption DEF Pos, Used
      <3> QED
        BY <3>1, <2>1
    <2>2. CASE tail # 0
      <3> DEFINE i == N - 2 - Used
      <3>1. i \in 0 .. L - 1 /\ Pos(Pos(head, i), 1) = tail - 1
        BY <1>1, <1>5, <2>2, SizeAssumption DEF Pos, Used
      <3> QED
        BY <3>1
    <2> QED
      BY <2>1, <2>2
  <1> QED
    BY <1>1, <1>3, <1>4, <1>5, SizeAssumption

LEMMA UnmarkedFullMeans ==
  ASSUME TypeOK
  PROVE  /\ UnmarkedFull <=> ~maxed /\ Used = N - 1
         /\ MarkedNotFull <=> maxed /\ Used # N - 1
  <1>1. head \in 0 .. N - 1 /\ tail \in 0 .. N - 1 /\ 1 \in 0 .. N - 1
    BY SizeAssumption DEF TypeOK
  <1>2. (head + 1) % N = Pos(head, 1)
    BY <1>1, PosRange
  <1>3. Pos(head, 1) = tail <=> Used = N - 1
    BY <1>1, SizeAssumption DEF Pos, Used
  <1> QED
    BY <1>2, <1>3 DEF UnmarkedFull, MarkedNotFull

\* A single character is written as a text of one.
LEMMA ItemIsText ==
  ASSUME TypeOK, NEW c \in Chars, writeItem(c)
  PROVE  buffer' = Written(<<c>>)
  <1>1. head \in 0 .. N - 1 /\ buffer \in [0 .. N -> Items]
    BY DEF TypeOK
  <1>2. (head + Len(<<c>>) - 1) % N = head /\ Len(<<c>>) = 1 /\ <<c>>[1] = c
    <2>1. head + Len(<<c>>) - 1 = head
      BY <1>1
    <2> QED
      BY <1>1, <2>1, ModSmall, SizeAssumption
  <1>3. ASSUME NEW p \in 0 .. N - 1
        PROVE  /\ (p - head) % N < 1 <=> p = head
               /\ p = head => (p - head) % N = 0
    BY <1>1, Difference, SizeAssumption
  <1>4. buffer' = [buffer EXCEPT ![head] = c, ![head + 1] = NUL]
    BY DEF writeItem
  <1>5. ASSUME NEW p \in 0 .. N PROVE buffer'[p] = Written(<<c>>)[p]
    <2>1. Written(<<c>>)[p] = IF p = head + 1 THEN NUL
                              ELSE IF p < N /\ (p - head) % N < 1 THEN <<c>>[((p - head) % N) + 1]
                              ELSE buffer[p]
      BY <1>2 DEF Written
    <2>2. buffer'[p] = IF p = head + 1 THEN NUL ELSE IF p = head THEN c ELSE buffer[p]
      BY <1>1, <1>4, SizeAssumption
    <2>3. CASE p = N
      BY <1>1, <2>1, <2>2, <2>3, SizeAssumption
    <2>4. CASE p \in 0 .. N - 1
      <3>1. CASE p = head + 1
        BY <2>1, <2>2, <3>1
      <3>2. CASE p = head
        <4>1. (p - head) % N = 0 /\ p < N /\ p # head + 1
          BY <1>1, <1>3, <2>4, <3>2, SizeAssumption
        <4> QED
          BY <1>2, <2>1, <2>2, <3>2, <4>1
      <3>3. CASE p # head /\ p # head + 1
        BY <1>3, <2>1, <2>2, <2>4, <3>3
      <3> QED
        BY <3>1, <3>2, <3>3
    <2> QED
      BY <2>3, <2>4, SizeAssumption
  <1>6. buffer' = [p \in 0 .. N |-> buffer'[p]]
    BY <1>1, <1>4
  <1>7. Written(<<c>>) = [p \in 0 .. N |-> Written(<<c>>)[p]]
    BY DEF Written
  <1> QED
    BY <1>5, <1>6, <1>7

LEMMA SuffixIs ==
  ASSUME NEW S, NEW s \in Seq(S), NEW n \in 0 .. Len(s)
  PROVE  /\ SubSeq(s, n + 1, Len(s)) \in Seq(S)
         /\ Len(SubSeq(s, n + 1, Len(s))) = Len(s) - n
         /\ \A i \in 1 .. Len(s) - n : SubSeq(s, n + 1, Len(s))[i] = s[n + i]
  OBVIOUS

LEMMA PrefixIs ==
  ASSUME NEW S, NEW s \in Seq(S), NEW n \in 0 .. Len(s)
  PROVE  /\ SubSeq(s, 1, n) \in Seq(S)
         /\ Len(SubSeq(s, 1, n)) = n
         /\ \A i \in 1 .. n : SubSeq(s, 1, n)[i] = s[i]
  OBVIOUS

\* Moving the tail by n takes the n oldest characters.
LEMMA TakeIs ==
  ASSUME TypeOK, TypeOK', NEW n \in 0 .. Used,
         buffer' = buffer, head' = head, tail' = Pos(tail, n)
  PROVE  Unread' = SubSeq(Unread, n + 1, Len(Unread))
  <1>1. /\ head \in 0 .. N - 1 /\ tail \in 0 .. N - 1
        /\ Used \in 0 .. N - 1 /\ Unread \in Seq(Items) /\ Len(Unread) = Used
        /\ \A i \in 1 .. Used : Unread[i] = buffer[Pos(tail, i - 1)]
    BY UnreadIs DEF TypeOK, UnreadFacts
  <1>2. /\ Unread' \in Seq(Items) /\ Len(Unread') = Used'
        /\ \A i \in 1 .. Used' : Unread'[i] = buffer[Pos(tail', i - 1)]
    <2>1. UnreadFacts'
      BY UnreadIs, PTL
    <2> QED
      BY <2>1 DEF UnreadFacts, Pos
  <1>3. Used' = Used - n
    <2>1. Used' = IF head >= tail' THEN head - tail' ELSE head - tail' + N
      BY DEF Used
    <2>2. n \in 0 .. N - 1 /\ tail' = IF tail + n < N THEN tail + n ELSE tail + n - N
      BY <1>1, SizeAssumption DEF Pos
    <2>3. Used = IF head >= tail THEN head - tail ELSE head - tail + N
      BY DEF Used
    <2>4. CASE tail + n < N
      BY <1>1, <2>1, <2>2, <2>3, <2>4, SizeAssumption
    <2>5. CASE ~(tail + n < N)
      BY <1>1, <2>1, <2>2, <2>3, <2>5, SizeAssumption
    <2> QED
      BY <2>4, <2>5
  <1> DEFINE s == SubSeq(Unread, n + 1, Len(Unread))
  <1>4. /\ s \in Seq(Items) /\ Len(s) = Used - n
        /\ \A i \in 1 .. Used - n : s[i] = Unread[n + i]
    BY <1>1, SuffixIs
  <1>5. ASSUME NEW i \in 1 .. Used - n PROVE Unread'[i] = s[i]
    <2>1. n + i \in 1 .. Used /\ Pos(tail, n + i - 1) = Pos(tail', i - 1)
      BY <1>1, SizeAssumption DEF Pos
    <2>2. Unread[n + i] = buffer[Pos(tail, n + i - 1)]
      BY <1>1, <2>1
    <2>3. Unread'[i] = buffer[Pos(tail', i - 1)]
      BY <1>2, <1>3
    <2>4. s[i] = Unread[n + i]
      BY <1>4
    <2> QED
      BY <2>1, <2>2, <2>3, <2>4
  <1> HIDE DEF s
  <1>6. Unread' = s
    BY <1>2, <1>3, <1>4, <1>5, SameSeq
  <1> QED
    BY <1>6 DEF s

\* What is copied without wrapping is the oldest part of what is unread.
LEMMA CopyIs ==
  ASSUME TypeOK, NEW n \in 0 .. Consumable
  PROVE  /\ n <= Used /\ Copy(tail, n) \in Seq(Items) /\ Len(Copy(tail, n)) = n
         /\ \A i \in 1 .. n : Copy(tail, n)[i] = Unread[i]
  <1>1. /\ head \in 0 .. N - 1 /\ tail \in 0 .. N - 1 /\ buffer \in [0 .. N -> Items]
        /\ Used \in 0 .. N - 1 /\ (head - tail) % N = Used
        /\ \A i \in 1 .. Used : Unread[i] = buffer[Pos(tail, i - 1)]
    BY UnreadIs DEF TypeOK, UnreadFacts
  <1>2. Consumable \in Nat /\ tail + Consumable <= N /\ Consumable <= Used
    BY <1>1, ConsumableRange
  <1>3. n \in Nat /\ n <= Used /\ tail + n - 1 <= N /\ tail \in 0 .. N
    BY <1>1, <1>2, SizeAssumption
  <1>4. Copy(tail, n) \in Seq(Items) /\ Len(Copy(tail, n)) = n
    BY <1>1, <1>3, CopyType
  <1>5. ASSUME NEW i \in 1 .. n PROVE Copy(tail, n)[i] = Unread[i]
    <2>1. i \in 1 .. Used /\ Pos(tail, i - 1) = tail + i - 1
      <3>1. tail + (i - 1) < N /\ i \in 1 .. Used
        BY <1>1, <1>2, <1>3, SizeAssumption
      <3> QED
        BY <1>1, <3>1 DEF Pos
    <2>2. Copy(tail, n)[i] = buffer[tail + i - 1]
      BY DEF Copy
    <2> QED
      BY <1>1, <2>1, <2>2
  <1> QED
    BY <1>3, <1>4, <1>5

-----------------------------------------------------------------------------
(***************************************************************************)
(* The line that consume_line has copied, until it stores the tail.        *)
(***************************************************************************)

\* Unless it is off, the line is the oldest part of what is unread, and the
\* tail will be put behind it.
LineInv ==
  InLine /\ ~line.off =>
    /\ Len(line.text) \in 0 .. Used
    /\ line.next = Pos(tail, Len(line.text)) /\ line.drained = line.next
    /\ \A i \in 1 .. Len(line.text) : line.text[i] = Unread[i]

\* A search that starts before the head ends there, unless the head is at the
\* start of the array.
Terminated == head # 0 => buffer[head] = NUL

\* An interrupt that logs lowers the flag.
FlagInv == at = "empty" /\ will_clear_if_empty => empty

QueueInv == TypeInv /\ Terminated /\ FlagInv /\ LineInv

\* A text that does not overrun is appended, whether or not the loop of
\* write(items) meets the tail.
LEMMA WriteRoom ==
  ASSUME TypeOK, TypeOK', ~MarkedNotFull, NEW t \in Texts, write(t), Used + Len(t) < N
  PROVE  Unread' = Unread \o t /\ tail' = tail
  <1>1. /\ t \in Seq(Chars) /\ Len(t) \in 1 .. N
        /\ head \in 0 .. N - 1 /\ tail \in 0 .. N - 1
        /\ Used \in 0 .. N - 1 /\ (head - tail) % N = Used
    BY TextsAssumption, UnreadIs DEF TypeOK, UnreadFacts
  <1>2. ~maxed
    BY <1>1, SizeAssumption, UnmarkedFullMeans
  <1>3. head + Len(t) \in 0 .. (N + N + N - 1) /\ head + Len(t) + 1 \in 0 .. (N + N + N - 1)
        /\ Len(t) \in 0 .. N - 1
    BY <1>1, SizeAssumption
  <1>4. (head + Len(t)) % N = Pos(head, Len(t)) /\ (head + Len(t) + 1) % N = Reduced(head + Len(t) + 1)
    BY <1>1, <1>3, PosRange, Sum DEF Reduced
  <1>5. Meets(Len(t)) => Reduced(head + Len(t) + 1) = tail
    <2>1. Meets(Len(t)) => Used + Len(t) = N - 1
      <3>1. Meets(Len(t)) => Used + Len(t) >= N - 1
        BY <1>1, MeetsMeans
      <3> QED
        BY <1>1, <3>1, SizeAssumption
    <2>2. Used + Len(t) = N - 1 => Reduced(head + Len(t) + 1) = tail
      BY <1>1, SizeAssumption DEF Used, Reduced
    <2> QED
      BY <2>1, <2>2
  <1>6. tail' = tail /\ head' = Pos(head, Len(t)) /\ buffer' = Written(t)
    BY <1>2, <1>4, <1>5 DEF write
  <1> QED
    BY <1>1, <1>6, WriteFits

LEMMA LineInvWrite ==
  ASSUME QueueInv, TypeInv', NEW t \in Texts, write(t)
  PROVE  LineInv'
  <1> SUFFICES ASSUME InLine', ~line'.off
               PROVE  /\ Len(line'.text) \in 0 .. Used'
                      /\ line'.next = Pos(tail', Len(line'.text)) /\ line'.drained = line'.next
                      /\ \A i \in 1 .. Len(line'.text) : line'.text[i] = Unread'[i]
    BY DEF LineInv, Pos
  <1>1. at' = at
    BY DEF write
  <1>2. /\ line'.text = line.text /\ line'.next = line.next /\ line'.drained = line.drained
        /\ line'.off = (line.off \/ (InLine /\ (Overruns(Len(t)) \/ MarkedNotFull)))
    BY LineWrite DEF QueueInv, TypeInv
  <1>3. InLine /\ ~line.off /\ ~Overruns(Len(t)) /\ ~MarkedNotFull
    BY <1>1, <1>2 DEF InLine
  <1>4. /\ Used \in 0 .. N - 1 /\ (head - tail) % N = Used
        /\ Unread \in Seq(Items) /\ Len(Unread) = Used
        /\ t \in Seq(Items) /\ Len(t) \in 1 .. N
    BY UnreadIs, TextsAssumption, TextType DEF QueueInv, TypeInv, UnreadFacts
  <1>5. Used + Len(t) < N
    BY <1>3, <1>4, SizeAssumption DEF Overruns
  <1>6. Unread' = Unread \o t /\ tail' = tail
    BY <1>3, <1>5, WriteRoom DEF QueueInv, TypeInv
  <1>7. Len(Unread') = Used'
    <2>1. UnreadFacts'
      BY UnreadIs, PTL DEF TypeInv
    <2> QED
      BY <2>1 DEF UnreadFacts
  <1>8. /\ Len(line.text) \in 0 .. Used
        /\ line.next = Pos(tail, Len(line.text)) /\ line.drained = line.next
        /\ \A i \in 1 .. Len(line.text) : line.text[i] = Unread[i]
    BY <1>3 DEF QueueInv, LineInv
  <1>9. /\ Len(Unread \o t) = Used + Len(t)
        /\ \A i \in 1 .. Used : (Unread \o t)[i] = Unread[i]
    <2>1. /\ Len(Unread \o t) = Len(Unread) + Len(t)
          /\ \A i \in 1 .. Len(Unread) + Len(t) :
               (Unread \o t)[i] = IF i <= Len(Unread) THEN Unread[i] ELSE t[i - Len(Unread)]
      BY <1>4, ConcatIs
    <2>2. /\ Len(Unread \o t) = Used + Len(t)
          /\ \A i \in 1 .. Used + Len(t) :
               (Unread \o t)[i] = IF i <= Used THEN Unread[i] ELSE t[i - Used]
      BY <1>4, <2>1, Zenon
    <2> QED
      BY <1>4, <2>2
  <1>10. Used' = Used + Len(t)
    BY <1>6, <1>7, <1>9, Zenon
  <1> QED
    BY <1>2, <1>4, <1>6, <1>8, <1>9, <1>10

\* Unless the unread text ends with the array, a newline found at its start is
\* unread.
LEMMA ExtraUnread ==
  ASSUME TypeOK, Terminated, ~empty, NEW size \in LineSizes, Consumable <= size,
         NEW e \in Null .. Beyond, StrChr(0, e), ~OverEndOff(size, e), Wrapped
  PROVE  Extra(size, e) <= head
  <1>1. /\ head \in 0 .. N - 1 /\ tail \in 0 .. N - 1 /\ Consumable \in Nat
        /\ size \in Nat
    BY ConsumableRange, SizeAssumption DEF TypeOK
  <1>2. CASE e = Null
    BY <1>1, <1>2, SizeAssumption DEF Extra
  <1>3. CASE e # Null /\ head = 0
    <2>1. ~(Consumable < size)
      BY <1>3 DEF OverEndOff, EndsWithArray
    <2>2. size - Consumable = 0
      BY <1>1, <2>1
    <2> QED
      BY <1>1, <1>3, <2>2, SizeAssumption DEF Extra, Lesser, Null, Beyond
  <1>4. CASE e # Null /\ head # 0
    <2>1. buffer[head] = NUL /\ head \in 0 .. N
      BY <1>1, <1>4, SizeAssumption DEF Terminated
    <2>2. e \in 0 .. N /\ e <= head /\ buffer[e] = NL
      BY <1>4, <2>1 DEF StrChr
    <2>3. e # head
      BY <2>1, <2>2, CharsAssumption
    <2> QED
      BY <1>1, <1>4, <2>2, <2>3, SizeAssumption DEF Extra, Lesser
  <1> QED
    BY <1>1, <1>2, <1>3, <1>4

\* A line over the end of the array, character by character.
LEMMA OverEndText ==
  ASSUME TypeOK, ~empty, NEW extra \in Nat, ~Wrapped => extra = 0,
         Copy(tail, Consumable) \in Seq(Items), Len(Copy(tail, Consumable)) = Consumable,
         Copy(0, extra) \in Seq(Items), Len(Copy(0, extra)) = extra
  PROVE  LET text == Copy(tail, Consumable) \o Copy(0, extra)
         IN /\ text \in Seq(Items) /\ Len(text) = Consumable + extra
            /\ Consumable + extra <= Used =>
                 \A i \in 1 .. Consumable + extra : text[i] = Unread[i]
  <1> DEFINE text == Copy(tail, Consumable) \o Copy(0, extra)
  <1>1. /\ head \in 0 .. N - 1 /\ tail \in 0 .. N - 1 /\ tail \in 0 .. N
        /\ Used \in 0 .. N - 1
        /\ \A i \in 1 .. Used : Unread[i] = buffer[Pos(tail, i - 1)]
    BY UnreadIs, SizeAssumption DEF TypeOK, UnreadFacts
  <1>2. /\ text \in Seq(Items) /\ Len(text) = Consumable + extra
        /\ \A i \in 1 .. Consumable + extra :
             text[i] = IF i <= Consumable THEN Copy(tail, Consumable)[i]
                       ELSE Copy(0, extra)[i - Consumable]
    <2>1. Consumable \in Nat /\ extra \in Nat
      BY <1>1, ConsumableRange, SizeAssumption
    <2> DEFINE a == Copy(tail, Consumable)
               b == Copy(0, extra)
    <2>2. a \in Seq(Items) /\ b \in Seq(Items) /\ Len(a) = Consumable /\ Len(b) = extra
      OBVIOUS
    <2>3. text = a \o b
      OBVIOUS
    <2> HIDE DEF a, b, text
    <2>4. /\ a \o b \in Seq(Items) /\ Len(a \o b) = Consumable + extra
          /\ \A i \in 1 .. Consumable + extra :
               (a \o b)[i] = IF i <= Consumable THEN a[i] ELSE b[i - Consumable]
      <3>1. /\ a \o b \in Seq(Items) /\ Len(a \o b) = Len(a) + Len(b)
            /\ \A i \in 1 .. Len(a) + Len(b) :
                 (a \o b)[i] = IF i <= Len(a) THEN a[i] ELSE b[i - Len(a)]
        BY <2>2, ConcatIs
      <3> QED
        BY <2>2, <3>1, Zenon
    <2>5. /\ text \in Seq(Items) /\ Len(text) = Consumable + extra
          /\ \A i \in 1 .. Consumable + extra :
               text[i] = IF i <= Consumable THEN a[i] ELSE b[i - Consumable]
      BY <2>3, <2>4, Zenon
    <2> QED
      BY <2>5, Zenon DEF a, b
  <1>3. Consumable \in Nat /\ (Wrapped => tail + Consumable = N)
    BY <1>1, ConsumableRange
  <1>4. ASSUME Consumable + extra <= Used, NEW i \in 1 .. Consumable + extra
        PROVE  text[i] = Unread[i]
    <2>1. CASE i <= Consumable
      <3>1. Consumable \in 0 .. Consumable /\ i \in 1 .. Consumable
        BY <1>3, <2>1
      <3>2. Copy(tail, Consumable)[i] = Unread[i]
        BY <1>1, <3>1, CopyIs
      <3>3. text[i] = Copy(tail, Consumable)[i]
        BY <1>2, <1>4, <2>1
      <3> QED
        BY <3>2, <3>3, Zenon
    <2>2. CASE ~(i <= Consumable)
      <3>1. Wrapped /\ i - Consumable \in 1 .. extra /\ i \in 1 .. Used
        <4>1. extra \in Nat /\ Used \in Nat /\ i \in 1 .. Consumable + extra
          BY <1>1, <1>4
        <4>2. extra # 0 /\ i - Consumable \in 1 .. extra /\ i \in 1 .. Used
          BY <1>3, <1>4, <2>2, <4>1
        <4> QED
          BY <4>2
      <3>2. Copy(0, extra)[i - Consumable] = buffer[0 + (i - Consumable) - 1]
        BY <3>1 DEF Copy
      <3>3. Pos(tail, i - 1) = 0 + (i - Consumable) - 1
        BY <1>1, <1>3, <2>2, <3>1, SizeAssumption DEF Pos
      <3> QED
        BY <1>1, <1>2, <2>2, <3>1, <3>2, <3>3
    <2> QED
      BY <2>1, <2>2
  <1> HIDE DEF text
  <1>5. Consumable + extra <= Used => \A i \in 1 .. Consumable + extra : text[i] = Unread[i]
    BY <1>4
  <1> QED
    BY <1>2, <1>5, Zenon DEF text

LEMMA LineInvCopy ==
  ASSUME QueueInv, ~empty, NEW size \in LineSizes, lineCopy(size)
  PROVE  LineInv'
  <1>1. UNCHANGED <<buffer, head, tail>>
    BY DEF lineCopy, index
  <1>2. Unread' = Unread /\ Used' = Used
    BY <1>1 DEF Unread, Used
  <1>3. /\ TypeOK /\ head \in 0 .. N - 1 /\ tail \in 0 .. N - 1 /\ tail \in 0 .. N
        /\ Used \in 0 .. N - 1 /\ size \in 0 .. N
    BY UnreadIs, SizeAssumption DEF QueueInv, TypeInv, TypeOK, UnreadFacts
  <1>4. \E next \in 0 .. N - 1, drained \in 0 .. N - 1, text \in Seq(Items), off \in BOOLEAN :
          /\ line' = Line(size, next, drained, text, off)
          /\ ~off => /\ Len(text) \in 0 .. Used
                     /\ next = Pos(tail, Len(text)) /\ drained = next
                     /\ \A i \in 1 .. Len(text) : text[i] = Unread[i]
    <2>1. PICK e \in Null .. Beyond, e2 \in Null .. Beyond :
            /\ StrChr(tail, e) /\ StrChr(0, e2)
            /\ \/ e # Null /\ line' = lineUpTo(size, e)
               \/ e = Null /\ Consumable <= size /\ line' = lineOverEnd(size, e2)
               \/ e = Null /\ Consumable > size /\ line' = lineFull(size)
      BY DEF lineCopy
    <2>2. CASE e # Null /\ line' = lineUpTo(size, e)
      <3>1. e \in tail .. Beyond
        BY <2>1, <2>2, <1>3, StrChrRange
      <3>2. PICK n \in 1 .. size :
              /\ n <= Consumable
              /\ line' = Line(size, (tail + n) % N, (tail + n) % N, Copy(tail, n), FALSE)
              /\ (tail + n) % N \in 0 .. N - 1
        BY <1>3, <2>2, <3>1, UpToType
      <3>3. n \in 0 .. Consumable
        BY <1>3, <3>2, ConsumableRange
      <3>4. /\ n <= Used /\ Copy(tail, n) \in Seq(Items) /\ Len(Copy(tail, n)) = n
            /\ \A i \in 1 .. n : Copy(tail, n)[i] = Unread[i]
        BY <1>3, <3>3, CopyIs
      <3>5. n \in 0 .. Used /\ n \in 0 .. N - 1
        BY <1>3, <3>4, SizeAssumption
      <3>6. (tail + n) % N = Pos(tail, n)
        BY <1>3, <3>5, PosRange
      <3> QED
        BY <3>2, <3>4, <3>5, <3>6
    <2>3. CASE Consumable <= size /\ line' = lineOverEnd(size, e2)
      <3> DEFINE extra == Extra(size, e2)
                 next == IF Wrapped THEN extra % N ELSE head
                 off == OverEndOff(size, e2)
                 text == Copy(tail, Consumable) \o Copy(0, extra)
      <3>1. /\ extra \in 0 .. size - Consumable /\ next \in 0 .. N - 1
            /\ ~Wrapped => extra = 0
            /\ line' = Line(size, next, next, text, off)
            /\ Copy(tail, Consumable) \in Seq(Items) /\ Len(Copy(tail, Consumable)) = Consumable
            /\ Copy(0, extra) \in Seq(Items) /\ Len(Copy(0, extra)) = extra
        BY <1>3, <2>3, OverEndType, Zenon
      <3>2. off \in BOOLEAN
        BY DEF OverEndOff, EndsWithArray
      <3>3. ~off /\ Wrapped => extra <= head
        BY <1>3, <2>1, <2>3, ExtraUnread DEF QueueInv
      <3> HIDE DEF extra, off
      <3>4. extra \in Nat /\ extra \in Int
        BY <1>3, <3>1, ConsumableRange
      <3>5. /\ text \in Seq(Items) /\ Len(text) = Consumable + extra
            /\ Consumable + extra <= Used =>
                 \A i \in 1 .. Consumable + extra : text[i] = Unread[i]
        BY <1>3, <3>1, <3>4, OverEndText, Zenon
      <3>6. ASSUME ~off
            PROVE  Consumable + extra \in 0 .. Used /\ next = Pos(tail, Consumable + extra)
        <4>1. /\ Consumable \in Nat /\ (Wrapped => tail + Consumable = N)
              /\ (~Wrapped => tail + Consumable = head)
          BY <1>3, ConsumableRange
        <4>2. CASE Wrapped
          <5>1. extra % N = extra
            <6>1. extra \in 0 .. N - 1 /\ N \in Nat \ {0}
              BY <1>3, <3>3, <3>4, <3>6, <4>2, SizeAssumption
            <6> QED
              BY <6>1, ModSmall
          <5>2. Used = Consumable + head
            BY <1>3, <4>1, <4>2, SizeAssumption DEF Used, Wrapped, empty
          <5>3. extra <= head
            BY <3>3, <3>6, <4>2
          <5>4. Pos(tail, Consumable + extra) = extra
            BY <1>3, <3>4, <4>1, <4>2, <5>3, SizeAssumption DEF Pos
          <5> QED
            BY <1>3, <3>4, <4>1, <4>2, <5>1, <5>2, <5>3, <5>4
        <4>3. CASE ~Wrapped
          <5>1. extra = 0 /\ Used = Consumable
            BY <1>3, <3>1, <4>1, <4>3, SizeAssumption DEF Used, Wrapped, empty
          <5>2. Pos(tail, Consumable + extra) = head
            BY <1>3, <4>1, <4>3, <5>1, SizeAssumption DEF Pos
          <5> QED
            BY <1>3, <4>1, <4>3, <5>1, <5>2
        <4> QED
          BY <4>2, <4>3
      <3>7. line' = Line(size, next, next, text, off)
        BY <3>1
      <3>8. next \in 0 .. N - 1
        BY <3>1
      <3> HIDE DEF text, next
      <3>9. ~off => /\ Len(text) \in 0 .. Used
                    /\ next = Pos(tail, Len(text)) /\ next = next
                    /\ \A i \in 1 .. Len(text) : text[i] = Unread[i]
        <4> SUFFICES ASSUME ~off
                     PROVE  /\ Len(text) \in 0 .. Used
                            /\ next = Pos(tail, Len(text))
                            /\ \A i \in 1 .. Len(text) : text[i] = Unread[i]
          OBVIOUS
        <4>1. Consumable + extra \in 0 .. Used /\ next = Pos(tail, Consumable + extra)
          BY <3>6
        <4>2. Consumable + extra <= Used
          BY <4>1
        <4> QED
          BY <3>5, <4>1, <4>2, Zenon
      <3> QED
        BY <3>2, <3>5, <3>7, <3>8, <3>9
    <2>4. CASE Consumable > size /\ line' = lineFull(size)
      <3>1. PICK next \in 0 .. N - 1, drained \in 0 .. N - 1, off \in BOOLEAN :
              /\ line' = Line(size, next, drained, Copy(tail, size), off)
              /\ ~off => next = (tail + size) % N /\ drained = next
        BY <1>3, <2>4, FullLineType
      <3>2. size \in 0 .. Consumable
        BY <1>3, <2>4, ConsumableRange
      <3>3. /\ size <= Used /\ Copy(tail, size) \in Seq(Items) /\ Len(Copy(tail, size)) = size
            /\ \A i \in 1 .. size : Copy(tail, size)[i] = Unread[i]
        BY <1>3, <3>2, CopyIs
      <3>4. size \in 0 .. Used /\ size \in 0 .. N - 1
        BY <1>3, <3>3, SizeAssumption
      <3>5. (tail + size) % N = Pos(tail, size)
        BY <1>3, <3>4, PosRange
      <3> QED
        BY <3>1, <3>3, <3>4, <3>5
    <2> QED
      BY <2>1, <2>2, <2>3, <2>4
  <1>5. PICK next \in 0 .. N - 1, drained \in 0 .. N - 1, text \in Seq(Items), off \in BOOLEAN :
          /\ line' = Line(size, next, drained, text, off)
          /\ ~off => /\ Len(text) \in 0 .. Used
                     /\ next = Pos(tail, Len(text)) /\ drained = next
                     /\ \A i \in 1 .. Len(text) : text[i] = Unread[i]
    BY <1>4
  <1>6. /\ line'.text = text /\ line'.next = next /\ line'.drained = drained
        /\ line'.off = off
    BY <1>3, <1>5, LineIsLine
  <1> QED
    BY <1>1, <1>2, <1>5, <1>6, Zenon DEF LineInv, Pos

\* lineTest looks at empty() only for lines that are off already.
LEMMA LineInvTest ==
  ASSUME QueueInv, lineTest
  PROVE  LineInv'
  <1>1. /\ UNCHANGED <<buffer, head, tail>> /\ InLine
        /\ line'.text = line.text /\ line'.off = line.off /\ line'.drained = line.drained
        /\ line'.next = IF empty THEN line.drained ELSE line.next
    BY DEF lineTest, index, QueueInv, TypeInv, LineType, InLine
  <1>2. Unread' = Unread /\ Used' = Used
    BY <1>1 DEF Unread, Used
  <1> QED
    BY <1>1, <1>2, Zenon DEF QueueInv, LineInv, Pos

\* The terminator goes behind the last character, where the head goes.
LEMMA TerminatedWrite ==
  ASSUME TypeOK, NEW t \in Seq(Chars), Len(t) \in 1 .. N,
         buffer' = Written(t), head' = (head + Len(t)) % N
  PROVE  Terminated'
  <1> SUFFICES ASSUME head' # 0 PROVE buffer'[head'] = NUL
    BY DEF Terminated
  <1>1. head \in 0 .. N - 1 /\ head + Len(t) - 1 = head + (Len(t) - 1)
        /\ Len(t) - 1 \in 0 .. N - 1 /\ head + Len(t) \in 0 .. (N + N + N - 1)
    <2>1. head \in 0 .. N - 1
      BY DEF TypeOK
    <2> QED
      BY <2>1, SizeAssumption
  <1>2. (head + Len(t) - 1) % N = Pos(head, Len(t) - 1)
    BY <1>1, PosRange
  <1>3. (head + Len(t)) % N = Reduced(head + Len(t))
    BY <1>1, Sum DEF Reduced
  <1>4. head' = Pos(head, Len(t) - 1) + 1 /\ head' \in 0 .. N
    BY <1>1, <1>3, SizeAssumption DEF Pos, Reduced
  <1> QED
    BY <1>2, <1>4 DEF Written

LEMMA TerminatedStep ==
  ASSUME QueueInv, [Next]_vars
  PROVE  Terminated'
  <1>1. TypeOK /\ Terminated
    BY DEF QueueInv, TypeInv
  <1>2. ASSUME NEW t \in Texts, write(t) PROVE Terminated'
    BY <1>1, <1>2, TextsAssumption, TerminatedWrite DEF write
  <1>3. ASSUME NEW c \in Chars, writeItem(c) PROVE Terminated'
    <2>1. buffer' = Written(<<c>>) /\ <<c>> \in Seq(Chars) /\ Len(<<c>>) = 1
      BY <1>1, <1>3, ItemIsText
    <2>2. head' = (head + 1) % N /\ 1 \in 1 .. N
      BY <1>3, SizeAssumption DEF writeItem
    <2> QED
      BY <1>1, <2>1, <2>2, TerminatedWrite
  <1>4. CASE head' = 0
    BY <1>4 DEF Terminated
  <1>5. CASE UNCHANGED <<buffer, head>>
    BY <1>1, <1>5 DEF Terminated
  <1>6. \/ \E t \in Texts : write(t)
        \/ \E c \in Chars : writeItem(c)
        \/ head' = 0 \/ UNCHANGED <<buffer, head>>
    BY DEF Next, Read, vars, index, clear, clearAsk, clearTest, clearReset, consume,
           consume_block, lineCopy, lineUnmark, lineTest, lineStore
  <1> QED
    BY <1>2, <1>3, <1>4, <1>5, <1>6

LEMMA FlagStep ==
  ASSUME QueueInv, [Next]_vars
  PROVE  FlagInv'
  <1> SUFFICES ASSUME at' = "empty", will_clear_if_empty' PROVE empty'
    BY DEF FlagInv
  <1>1. \/ clearTest
        \/ UNCHANGED <<at, will_clear_if_empty, head, tail>>
    BY DEF Next, Read, vars, index, write, writeItem, clear, clearAsk, clearReset, consume,
           consume_block, lineCopy, lineUnmark, lineTest, lineStore
  <1>2. CASE clearTest
    BY <1>2 DEF clearTest, index, empty
  <1>3. CASE UNCHANGED <<at, will_clear_if_empty, head, tail>>
    BY <1>3 DEF QueueInv, FlagInv, empty
  <1> QED
    BY <1>1, <1>2, <1>3

LEMMA QueueInvStep == QueueInv /\ [Next]_vars => QueueInv'
  <1> SUFFICES ASSUME QueueInv, [Next]_vars PROVE QueueInv'
    OBVIOUS
  <1>1. TypeInv' /\ Terminated' /\ FlagInv'
    BY TypeStep, TerminatedStep, FlagStep DEF QueueInv
  <1>2. CASE ~InLine'
    BY <1>1, <1>2 DEF QueueInv, LineInv
  <1>3. CASE UNCHANGED <<buffer, head, tail, at, line>>
    BY <1>1, <1>3 DEF QueueInv, LineInv, InLine, Used, Unread, Pos
  <1>4. CASE lineUnmark
    <2>1. UNCHANGED <<buffer, head, tail, line>> /\ InLine /\ InLine'
      BY <1>4 DEF lineUnmark, InLine
    <2>2. LineInv'
      BY <2>1 DEF QueueInv, LineInv, Used, Unread, Pos
    <2> QED
      BY <1>1, <2>2 DEF QueueInv
  <1>5. ASSUME InLine', ~UNCHANGED <<buffer, head, tail, at, line>>, ~lineUnmark, ~lineTest
        PROVE  \/ \E t \in Texts : write(t)
               \/ \E size \in LineSizes : ~empty /\ lineCopy(size)
    BY <1>5 DEF Next, Read, vars, InLine, writeItem, clear, clearAsk, clearTest, clearReset,
                consume, consume_block, lineStore
  <1> QED
    BY <1>1, <1>2, <1>3, <1>4, <1>5, LineInvWrite, LineInvCopy, LineInvTest DEF QueueInv

-----------------------------------------------------------------------------
(***************************************************************************)
(* Every step is a step of the queue.                                      *)
(***************************************************************************)

LEMMA QueueDamage ==
  ASSUME TypeOK', damage' = TRUE
  PROVE  Queue!Next
  <1>1. UnreadFacts'
    BY UnreadIs, PTL
  <1>2. Len(Unread') <= N - 1
    BY <1>1, SizeAssumption DEF UnreadFacts
  <1> QED
    BY <1>2 DEF Queue!Next, Queue!Damage

LEMMA NewestAll ==
  ASSUME NEW s, NEW n, Len(s) <= n
  PROVE  Queue!Newest(s, n) = s
  BY DEF Queue!Newest

LEMMA QueueWrite ==
  ASSUME QueueInv, TypeInv', NEW t \in Texts, write(t)
  PROVE  Queue!Next
  <1>1. /\ TypeOK /\ TypeOK' /\ t \in Seq(Chars) /\ Len(t) \in 1 .. N
        /\ head \in 0 .. N - 1 /\ Used \in 0 .. N - 1 /\ (head - tail) % N = Used
        /\ Unread \in Seq(Items) /\ Len(Unread) = Used
    BY TextsAssumption, UnreadIs DEF QueueInv, TypeInv, TypeOK, UnreadFacts
  <1>2. CASE (UnmarkedFull /\ tail # 0) \/ MarkedNotFull
    BY <1>1, <1>2, QueueDamage DEF write
  <1>3. CASE ~(UnmarkedFull /\ tail # 0) /\ ~MarkedNotFull
    <2> SUFFICES Unread' = Queue!Newest(Unread \o t, N - 1)
      <3>1. out' = << >> /\ damage' = FALSE
        BY <1>3 DEF write
      <3> QED
        BY <3>1 DEF Queue!Next, Queue!Promised, Queue!Write
    <2>1. CASE maxed \/ Meets(Len(t))
      <3>1. Used + Len(t) >= N - 1
        <4>1. Meets(Len(t)) => Used + Len(t) >= N - 1
          BY <1>1, MeetsMeans
        <4>2. maxed => Used + Len(t) >= N - 1
          BY <1>1, <1>3, UnmarkedFullMeans, SizeAssumption
        <4> QED
          BY <2>1, <4>1, <4>2
      <3>2. /\ (head + Len(t)) % N = Reduced(head + Len(t))
            /\ (head + Len(t) + 1) % N = Reduced(head + Len(t) + 1)
        <4>1. /\ head + Len(t) \in 0 .. (N + N + N - 1)
              /\ head + Len(t) + 1 \in 0 .. (N + N + N - 1)
          BY <1>1, SizeAssumption
        <4> QED
          BY <4>1, Sum DEF Reduced
      <3>3. /\ buffer' = Written(t) /\ head' = Reduced(head + Len(t))
            /\ tail' = Reduced(head + Len(t) + 1)
        BY <2>1, <3>2 DEF write
      <3> QED
        BY <1>1, <3>1, <3>3, WriteDrops
    <2>2. CASE ~maxed /\ ~Meets(Len(t))
      <3>1. ~(tail # 0 /\ Used = N - 1)
        BY <1>1, <1>3, <2>2, UnmarkedFullMeans
      <3>2. Used + Len(t) < N
        BY <1>1, <2>2, <3>1, MeetsMeans
      <3>3. Unread' = Unread \o t
        BY <1>1, <1>3, <3>2, WriteRoom
      <3>4. Len(Unread \o t) <= N - 1
        <4>1. Len(Unread \o t) = Used + Len(t)
          BY <1>1, TextType, ConcatProperties
        <4> QED
          BY <1>1, <3>2, <4>1, SizeAssumption
      <3> QED
        BY <3>3, <3>4, NewestAll
    <2> QED
      BY <2>1, <2>2
  <1> QED
    BY <1>2, <1>3

LEMMA QueueWriteItem ==
  ASSUME QueueInv, TypeInv', NEW c \in Chars, writeItem(c)
  PROVE  Queue!Next
  <1> DEFINE t == <<c>>
  <1>1. /\ TypeOK /\ TypeOK' /\ head \in 0 .. N - 1 /\ Used \in 0 .. N - 1
        /\ Unread \in Seq(Items) /\ Len(Unread) = Used
    BY UnreadIs DEF QueueInv, TypeInv, TypeOK, UnreadFacts
  <1>2. t \in Seq(Chars) /\ Len(t) = 1
    OBVIOUS
  <1>3. buffer' = Written(t)
    BY <1>1, ItemIsText
  <1> HIDE DEF t
  <1>4. /\ (head + 1) % N = Reduced(head + 1) /\ (head + 2) % N = Reduced(head + 1 + 1)
        /\ Reduced(head + 1) = Pos(head, 1)
    <2>1. head + 1 \in 0 .. (N + N + N - 1) /\ head + 2 \in 0 .. (N + N + N - 1) /\ head + 1 + 1 = head + 2
      BY <1>1, SizeAssumption
    <2>2. (head + 1) % N = Reduced(head + 1) /\ (head + 2) % N = Reduced(head + 1 + 1)
      BY <2>1, Sum DEF Reduced
    <2>3. Reduced(head + 1) = Pos(head, 1)
      BY <1>1, SizeAssumption DEF Reduced, Pos
    <2> QED
      BY <2>2, <2>3
  <1>5. CASE UnmarkedFull \/ MarkedNotFull
    BY <1>1, <1>5, QueueDamage DEF writeItem
  <1>6. CASE ~UnmarkedFull /\ ~MarkedNotFull
    <2> SUFFICES Unread' = Queue!Newest(Unread \o t, N - 1)
      <3>1. out' = << >> /\ damage' = FALSE
        BY <1>6 DEF writeItem
      <3> QED
        BY <3>1 DEF Queue!Next, Queue!Promised, Queue!Write, t
    <2>1. CASE maxed
      <3>1. head' = Reduced(head + Len(t)) /\ tail' = Reduced(head + Len(t) + 1)
        BY <1>2, <1>4, <2>1 DEF writeItem
      <3>2. Used + Len(t) >= N - 1 /\ Len(t) \in 1 .. N
        BY <1>1, <1>2, <1>6, <2>1, UnmarkedFullMeans, SizeAssumption
      <3> QED
        BY <1>1, <1>2, <1>3, <3>1, <3>2, WriteDrops
    <2>2. CASE ~maxed
      <3>1. Used # N - 1
        BY <1>1, <1>6, <2>2, UnmarkedFullMeans
      <3>2. Used + Len(t) < N /\ Len(t) \in 1 .. N
        BY <1>1, <1>2, <3>1, SizeAssumption
      <3>3. head' = Pos(head, Len(t)) /\ tail' = tail
        BY <1>2, <1>4, <2>2 DEF writeItem
      <3>4. Unread' = Unread \o t
        BY <1>1, <1>2, <1>3, <3>2, <3>3, WriteFits
      <3>5. Len(Unread \o t) <= N - 1
        <4>1. Len(Unread \o t) = Used + Len(t)
          BY <1>1, <1>2, TextType, ConcatProperties
        <4> QED
          BY <1>1, <1>2, <3>2, <4>1, SizeAssumption
      <3> QED
        BY <3>4, <3>5, NewestAll
    <2> QED
      BY <2>1, <2>2
  <1> QED
    BY <1>5, <1>6

\* A read that moves the tail behind what it returns takes the oldest text.
LEMMA QueueTake ==
  ASSUME TypeOK, TypeOK', NEW n \in 0 .. Used,
         buffer' = buffer, head' = head, tail' = Pos(tail, n), damage' = FALSE,
         out' \in Seq(Items), Len(out') = n, \A i \in 1 .. n : out'[i] = Unread[i]
  PROVE  Queue!Next
  <1>1. Unread \in Seq(Items) /\ Len(Unread) = Used
    BY UnreadIs DEF UnreadFacts
  <1>2. n \in 0 .. Len(Unread)
    BY <1>1
  <1>3. Unread' = SubSeq(Unread, n + 1, Len(Unread))
    BY TakeIs
  <1>4. out' = SubSeq(Unread, 1, n)
    <2> DEFINE s == SubSeq(Unread, 1, n)
    <2>1. s \in Seq(Items) /\ Len(s) = n /\ \A i \in 1 .. n : s[i] = Unread[i]
      BY <1>1, <1>2, PrefixIs
    <2> HIDE DEF s
    <2>2. out' = s
      BY <2>1, SameSeq
    <2> QED
      BY <2>2 DEF s
  <1> QED
    BY <1>2, <1>3, <1>4, Zenon DEF Queue!Next, Queue!Promised, Queue!Take

LEMMA QueueClear ==
  ASSUME head' = 0, tail' = 0, out' = << >>, damage' = FALSE, TypeOK'
  PROVE  Queue!Next
  <1>1. UnreadFacts'
    BY UnreadIs, PTL
  <1>2. Used' = 0
    BY DEF Used
  <1>3. Unread' = << >>
    BY <1>1, <1>2 DEF UnreadFacts
  <1> QED
    BY <1>3 DEF Queue!Next, Queue!Promised, Queue!Clear

LEMMA QueueSame ==
  ASSUME UNCHANGED <<buffer, head, tail, out>>, damage' = FALSE
  PROVE  Queue!Next
  <1>1. Unread' = Unread
    BY DEF Unread
  <1> QED
    BY <1>1 DEF Queue!Next, Queue!Promised

LEMMA QueueClearAsk ==
  ASSUME QueueInv, TypeInv', clearAsk
  PROVE  Queue!Next
  <1>1. /\ buffer' = buffer /\ head' = head /\ tail' = tail /\ damage' = FALSE
        /\ out' = << >>
    BY DEF clearAsk, index
  <1>2. /\ TypeOK /\ TypeOK' /\ 0 \in 0 .. Used /\ Pos(tail, 0) = tail
    BY UnreadIs, SizeAssumption DEF QueueInv, TypeInv, TypeOK, UnreadFacts, Pos
  <1>3. /\ out' \in Seq(Items) /\ Len(out') = 0 /\ \A i \in 1 .. 0 : out'[i] = Unread[i]
    BY <1>1
  <1> QED
    BY <1>1, <1>2, <1>3, QueueTake

LEMMA QueueClearReset ==
  ASSUME QueueInv, TypeInv', clearReset
  PROVE  Queue!Next
  <1>1. TypeOK /\ TypeOK' /\ UnreadFacts /\ UnreadFacts'
    <2>1. TypeOK /\ TypeOK'
      BY DEF QueueInv, TypeInv
    <2> QED
      BY <2>1, UnreadIs, PTL
  <1>2. CASE ~will_clear_if_empty
    BY <1>1, <1>2, QueueDamage DEF clearReset
  <1>3. CASE will_clear_if_empty
    <2>0. empty
      BY <1>3 DEF clearReset, QueueInv, FlagInv
    <2>1. Used = 0 /\ Used' = 0
      BY <2>0 DEF clearReset, empty, Used, QueueInv, TypeInv, TypeOK
    <2>2. Unread = << >> /\ Unread' = << >>
      BY <1>1, <2>1 DEF UnreadFacts
    <2>3. out' = out /\ damage' = FALSE
      BY <1>3 DEF clearReset
    <2> QED
      BY <2>2, <2>3 DEF Queue!Next, Queue!Promised
  <1> QED
    BY <1>2, <1>3

\* Reading n characters that lie in one piece.
LEMMA QueueRead ==
  ASSUME QueueInv, TypeInv', NEW n \in 0 .. Consumable,
         buffer' = buffer, head' = head, tail' = Pos(tail, n), damage' = FALSE,
         out' = Copy(tail, n)
  PROVE  Queue!Next
  <1>1. TypeOK /\ TypeOK' /\ Used \in 0 .. N - 1 /\ Consumable \in Nat
    BY UnreadIs, ConsumableRange DEF QueueInv, TypeInv, TypeOK, UnreadFacts
  <1>2. /\ n <= Used /\ out' \in Seq(Items) /\ Len(out') = n
        /\ \A i \in 1 .. n : out'[i] = Unread[i]
    BY <1>1, CopyIs
  <1>3. n \in 0 .. Used
    BY <1>1, <1>2
  <1> QED
    BY <1>1, <1>2, <1>3, QueueTake

LEMMA QueueConsume ==
  ASSUME QueueInv, TypeInv', consume
  PROVE  Queue!Next
  <1>1. /\ head \in 0 .. N - 1 /\ tail \in 0 .. N - 1 /\ 1 \in 0 .. N - 1
        /\ Consumable \in Nat /\ (~empty => Consumable >= 1)
    BY ConsumableRange, SizeAssumption DEF QueueInv, TypeInv, TypeOK
  <1>2. CASE empty
    <2>1. Copy(tail, 0) = << >>
      BY DEF Copy
    <2>2. tail' = Pos(tail, 0) /\ 0 \in 0 .. Consumable
      BY <1>1, <1>2, SizeAssumption DEF Pos, consume
    <2> QED
      BY <1>2, <2>1, <2>2, QueueRead DEF consume
  <1>3. CASE ~empty
    <2>1. tail' = Pos(tail, 1) /\ 1 \in 0 .. Consumable
      BY <1>1, <1>3, PosRange DEF consume
    <2> QED
      BY <1>3, <2>1, QueueRead DEF consume
  <1> QED
    BY <1>2, <1>3

LEMMA QueueBlock ==
  ASSUME QueueInv, TypeInv', NEW size \in 1 .. N, consume_block(size)
  PROVE  Queue!Next
  <1>1. /\ head \in 0 .. N - 1 /\ tail \in 0 .. N - 1
        /\ Consumable \in Nat /\ tail + Consumable <= N
        /\ (~Wrapped => tail + Consumable = head)
        /\ (Wrapped => tail + Consumable = N)
    BY ConsumableRange DEF QueueInv, TypeInv, TypeOK
  <1>2. /\ buffer' = buffer /\ head' = head /\ damage' = FALSE
        /\ out' = Copy(tail, Lesser(size, Consumable))
    BY DEF consume_block
  <1>3. CASE size < Consumable
    <2>1. size \in 0 .. Consumable /\ size \in 0 .. N - 1 /\ Lesser(size, Consumable) = size
      BY <1>1, <1>3, SizeAssumption DEF Lesser
    <2>2. tail' = Pos(tail, size)
      BY <1>1, <1>3, <2>1, PosRange DEF consume_block
    <2> QED
      BY <1>2, <2>1, <2>2, QueueRead
  <1>4. CASE ~(size < Consumable)
    <2>1. Consumable \in 0 .. Consumable /\ Lesser(size, Consumable) = Consumable
      BY <1>1, <1>4 DEF Lesser
    <2>2. tail' = IF Wrapped THEN 0 ELSE head
      BY <1>4 DEF consume_block
    <2>3. tail' = Pos(tail, Consumable)
      BY <1>1, <2>2, SizeAssumption DEF Pos
    <2> QED
      BY <1>2, <2>1, <2>3, QueueRead
  <1> QED
    BY <1>3, <1>4

LEMMA QueueLine ==
  ASSUME QueueInv, TypeInv', lineStore
  PROVE  Queue!Next
  <1>1. /\ TypeOK /\ TypeOK' /\ line.off \in BOOLEAN /\ line.text \in Seq(Items)
    BY DEF QueueInv, TypeInv, LineType, TypeOK
  <1>2. CASE line.off
    BY <1>1, <1>2, QueueDamage DEF lineStore
  <1>3. CASE ~line.off
    <2>1. /\ Len(line.text) \in 0 .. Used
          /\ line.next = Pos(tail, Len(line.text))
          /\ \A i \in 1 .. Len(line.text) : line.text[i] = Unread[i]
      BY <1>3 DEF lineStore, QueueInv, LineInv, InLine
    <2>2. /\ buffer' = buffer /\ head' = head /\ tail' = line.next
          /\ damage' = FALSE /\ out' = line.text
      BY <1>1, <1>3 DEF lineStore
    <2> QED
      BY <1>1, <2>1, <2>2, QueueTake
  <1> QED
    BY <1>2, <1>3

LEMMA QueueInit == Init => Queue!Init /\ QueueInv
  <1> SUFFICES ASSUME Init PROVE Queue!Init /\ QueueInv
    OBVIOUS
  <1>1. TypeInv /\ Terminated /\ FlagInv /\ LineInv
    BY TypeInit DEF Init, Terminated, FlagInv, LineInv, InLine
  <1>2. UnreadFacts /\ Used = 0
    BY <1>1, UnreadIs DEF Init, Used, TypeInv
  <1>3. Unread = << >>
    BY <1>2 DEF UnreadFacts
  <1> QED
    BY <1>1, <1>3 DEF Init, Queue!Init, QueueInv

LEMMA QueueStep ==
  QueueInv /\ TypeInv' /\ [Next]_vars => [Queue!Next]_<<Unread, out, damage>>
  <1> SUFFICES ASSUME QueueInv, TypeInv', [Next]_vars
               PROVE  Queue!Next \/ UNCHANGED <<Unread, out, damage>>
    OBVIOUS
  <1>1. ASSUME NEW t \in Texts, write(t) PROVE Queue!Next
    BY <1>1, QueueWrite
  <1>2. ASSUME NEW c \in Chars, writeItem(c) PROVE Queue!Next
    BY <1>2, QueueWriteItem
  <1>3. CASE clear
    BY <1>3, QueueClear DEF clear, TypeInv
  <1>4. CASE clearAsk
    BY <1>4, QueueClearAsk
  <1>5. CASE clearTest
    BY <1>5, QueueSame DEF clearTest, index
  <1>6. CASE clearReset
    BY <1>6, QueueClearReset
  <1>7. CASE consume
    BY <1>7, QueueConsume
  <1>8. ASSUME NEW size \in 1 .. N, consume_block(size) PROVE Queue!Next
    BY <1>8, QueueBlock
  <1>9. ASSUME NEW size \in LineSizes, lineCopy(size) PROVE Queue!Next
    BY <1>9, QueueSame DEF lineCopy, index
  <1>10. CASE lineStore
    BY <1>10, QueueLine
  <1>11. CASE lineUnmark \/ lineTest
    BY <1>11, QueueSame DEF lineUnmark, lineTest, index
  <1>12. CASE UNCHANGED vars
    BY <1>12 DEF vars, Unread
  <1> QED
    BY <1>1, <1>2, <1>3, <1>4, <1>5, <1>6, <1>7, <1>8, <1>9, <1>10, <1>11, <1>12 DEF Next, Read

\* For every size of the buffer, every text that writeF's assertion lets
\* through and every line size, with interrupts logging between the flag, the
\* test and the reset of clear_if_empty and between the copy, the two stores
\* and the test of consume_line, the buffer implements the lossy queue: what is
\* read is the oldest unread text, in order and unchanged, except in steps that
\* meet one of the conditions IsLossyQueue lists.
THEOREM IsAQueue == Spec => IsLossyQueue
  <1>1. QueueInv => TypeInv
    BY DEF QueueInv
  <1> QED
    BY <1>1, QueueInit, QueueInvStep, QueueStep, PTL DEF Spec, IsLossyQueue, Queue!Spec
=============================================================================
