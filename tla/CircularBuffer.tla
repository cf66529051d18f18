--------------------------- MODULE CircularBuffer ---------------------------
(***************************************************************************)
(* CircularBuffer/CircularBuffer.h, instantiated with char as the log      *)
(* buffer of Debugging.cpp.  Interrupt handlers log while the main loop    *)
(* prints: clear_if_empty is split between its flag, its test and its      *)
(* reset, consume_line between what it reads and each of its stores, and   *)
(* an interrupt's write can come in between.  The others, and what         *)
(* consume_line reads up to its first store, are single steps.             *)
(***************************************************************************)
EXTENDS Integers, Sequences

CONSTANTS
  N,          \* fixed_size
  LineSizes,  \* the line_size arguments of consume_line
  Chars,      \* characters of a text, without the terminator
  NL,         \* the newline among them
  NUL,        \* end_item
  Texts       \* the texts writeF is called with

ASSUME SizeAssumption == N \in Nat \ {0, 1} /\ LineSizes \subseteq 1 .. N
ASSUME CharsAssumption == NL \in Chars /\ NUL \notin Chars
\* writeF asserts that a text is shorter than its print buffer, which is
\* shorter than the log buffer.
ASSUME TextsAssumption ==
  \A t \in Texts : t \in Seq(Chars) /\ Len(t) \in 1 .. N

VARIABLES
  buffer, head, tail, maxed,
  will_clear_if_empty,
  at,         \* where the main loop is in clear_if_empty or consume_line
  line,       \* consume_line's copies and what it has put into line
  out,        \* what the last read copied out
  late,       \* history: a text was logged between the two stores of the
              \* last line, and maxed has not been set since
  damage      \* history: the last step met one of the named conditions under
              \* which text is lost or comes back

index == <<head, tail, maxed>>
vars == <<buffer, head, tail, maxed, will_clear_if_empty, at, line, out, late, damage>>

Items == Chars \cup {NUL}

\* text: what was copied; next: tail_copy at the end; drained: tail_copy if
\* the buffer is found empty after maxed was reset.  History: off, the line or
\* a text logged since met a condition under which its tail is wrong; late, a
\* text was logged after maxed was reset.
NoLine == [size |-> 0, next |-> 0, drained |-> 0, text |-> << >>,
           off |-> FALSE, late |-> FALSE]

\* The array is allocated but not initialised.
Init ==
  /\ buffer \in [0 .. N -> Items]
  /\ head = 0 /\ tail = 0 /\ maxed = FALSE
  /\ will_clear_if_empty = FALSE /\ at = "no"
  /\ line = NoLine /\ out = << >> /\ late = FALSE /\ damage = FALSE

empty == head = tail
full == maxed

\* head <= tail && !empty(): the unread text runs over the end of the array.
Wrapped == head <= tail /\ ~empty

\* What can be read without wrapping.
Consumable == (IF Wrapped THEN N ELSE head) - tail

Lesser(a, b) == IF a < b THEN a ELSE b

\* n characters of the array from p on.
Copy(p, n) == [i \in 1 .. n |-> buffer[p + i - 1]]

-----------------------------------------------------------------------------
\* full, but maxed does not say so, and no writer will move the tail.
UnmarkedFull == ~maxed /\ (head + 1) % N = tail

\* maxed says full, but there is room: a writer moves the tail back over text
\* that has been read.
MarkedNotFull == maxed /\ (head + 1) % N # tail

\* write(item)
writeItem(item) ==
  /\ buffer' = [buffer EXCEPT ![head] = item, ![head + 1] = NUL]
  /\ tail' = IF maxed THEN (head + 2) % N ELSE tail
  /\ head' = (head + 1) % N
  /\ maxed' = (head' = tail' - 1)
  /\ will_clear_if_empty' = FALSE /\ out' = << >>
  /\ late' = FALSE /\ damage' = (UnmarkedFull \/ MarkedNotFull)
  /\ UNCHANGED <<at, line>>

\* Slip: the case tail = 0, where tail - 1 is no index, is left out.
Meets_NoZero(count) ==
  \E i \in 0 .. count - 1 : (((head + i) % N) + 1) % N = tail - 1

\* The loop of write(items) meets the tail while it writes count characters.
Meets(count) ==
  \E i \in 0 .. count - 1 :
    LET pos == (head + i) % N
    IN (pos + 1) % N = tail - 1 \/ (tail = 0 /\ pos = N - 1)

\* The main loop is in consume_line.
InLine == at \in {"line", "unmarked", "tested"}

\* count characters more do not fit beside what is unread.
Overruns(count) == ((head - tail) % N) + count >= N

\* The array after write(items): character i+1 lies at (head + i) % N, and
\* the terminator after the last one.
Written(items) ==
  [p \in 0 .. N |->
     IF p = ((head + Len(items) - 1) % N) + 1 THEN NUL
     ELSE IF p < N /\ (p - head) % N < Len(items) THEN items[((p - head) % N) + 1]
     ELSE buffer[p]]

\* write(items), from the main loop or from an interrupt
write(items) ==
  /\ buffer' = Written(items)
  /\ tail' = IF maxed \/ Meets(Len(items)) THEN (head + Len(items) + 1) % N ELSE tail
  /\ head' = (head + Len(items)) % N
  /\ maxed' = (head' = tail' - 1)
  /\ will_clear_if_empty' = FALSE /\ out' = << >>
  /\ late' = FALSE /\ damage' = ((UnmarkedFull /\ tail # 0) \/ MarkedNotFull)
  /\ line' = [line EXCEPT !.off = @ \/ (InLine /\ (Overruns(Len(items)) \/ MarkedNotFull)),
                          !.late = @ \/ at \in {"unmarked", "tested"}]
  /\ UNCHANGED at

clear ==
  /\ head' = 0 /\ tail' = 0 /\ maxed' = FALSE
  /\ buffer' = [buffer EXCEPT ![0] = NUL]
  /\ out' = << >> /\ late' = FALSE /\ damage' = FALSE
  /\ UNCHANGED <<will_clear_if_empty, at, line>>

\* clear_if_empty: set the flag, test, reset.
clearAsk ==
  /\ will_clear_if_empty' = TRUE /\ at' = "asked" /\ out' = << >> /\ damage' = FALSE
  /\ UNCHANGED <<buffer, index, line, late>>

clearTest ==
  /\ at = "asked"
  /\ at' = IF empty /\ will_clear_if_empty THEN "empty" ELSE "no"
  /\ damage' = FALSE
  /\ UNCHANGED <<buffer, index, will_clear_if_empty, line, out, late>>

\* An interrupt that logs after the test, and lowers the flag in vain, loses
\* its text.
clearReset ==
  /\ at = "empty"
  /\ head' = 0 /\ tail' = 0 /\ maxed' = FALSE
  /\ at' = "no"
  /\ late' = FALSE /\ damage' = ~will_clear_if_empty
  /\ UNCHANGED <<buffer, will_clear_if_empty, line, out>>

\* Slip: the tail runs into the extra item.
consume_NoWrap ==
  /\ tail' = IF empty THEN tail ELSE tail + 1
  /\ maxed' = IF empty THEN maxed ELSE FALSE
  /\ out' = IF empty THEN << >> ELSE Copy(tail, 1)
  /\ late' = (empty /\ late) /\ damage' = FALSE
  /\ UNCHANGED <<buffer, head, will_clear_if_empty, at, line>>

consume ==
  /\ tail' = IF empty THEN tail ELSE (tail + 1) % N
  /\ maxed' = IF empty THEN maxed ELSE FALSE
  /\ out' = IF empty THEN << >> ELSE Copy(tail, 1)
  /\ late' = (empty /\ late) /\ damage' = FALSE
  /\ UNCHANGED <<buffer, head, will_clear_if_empty, at, line>>

\* Slip: reading a block leaves the buffer marked as full.
consume_block_KeepsMaxed(size) ==
  /\ tail' = IF size < Consumable THEN (tail + size) % N
             ELSE IF Wrapped THEN 0 ELSE head
  /\ out' = Copy(tail, Lesser(size, Consumable))
  /\ late' = FALSE /\ damage' = FALSE
  /\ UNCHANGED <<buffer, head, maxed, will_clear_if_empty, at, line>>

\* consume_block() and, for size < Consumable, consume_block(block, size)
consume_block(size) ==
  /\ tail' = IF size < Consumable THEN (tail + size) % N
             ELSE IF Wrapped THEN 0 ELSE head
  /\ maxed' = FALSE
  /\ out' = Copy(tail, Lesser(size, Consumable))
  /\ late' = FALSE /\ damage' = FALSE
  /\ UNCHANGED <<buffer, head, will_clear_if_empty, at, line>>

-----------------------------------------------------------------------------
(***************************************************************************)
(* consume_line.                                                           *)
(***************************************************************************)

\* No newline, and a newline somewhere behind the array.
Null == -1
Beyond == N + 1

\* e is a result of strchr(&buffer[p], '\n').  Without a newline or a
\* terminator up to the end of the array the scan runs on into other memory.
StrChr(p, e) ==
  LET stops == {i \in p .. N : buffer[i] \in {NL, NUL}}
  IN IF stops = {} THEN e \in {Null, Beyond}
     ELSE \E i \in stops :
            /\ \A j \in stops : i <= j
            /\ e = IF buffer[i] = NL THEN i ELSE Null

\* What consume_line of a line of size has worked out when it is about to
\* reset maxed.
Line(size, next, drained, text, off) ==
  [size |-> size, next |-> next, drained |-> drained, text |-> text,
   off |-> off, late |-> FALSE]

\* The unread text ends with the array.  Its terminator is in the extra item,
\* so that a search from the start of the array finds newlines already read.
EndsWithArray == Wrapped /\ head = 0

\* Slip: the second part is not cut to the room left in line.
lineOverEnd_Unclamped(size, e2) ==
  LET extra == IF Wrapped /\ e2 # Null THEN Lesser(N, e2 + 1) ELSE 0
      next == IF Wrapped THEN extra % N ELSE head
  IN Line(size, next, next, Copy(tail, Consumable) \o Copy(0, extra),
          EndsWithArray /\ e2 # Null /\ Consumable < size)

\* No newline before a terminator, and all of the block fits into line: go on
\* at the start of the array when the text wraps.
lineOverEnd(size, e2) ==
  LET extra == IF Wrapped /\ e2 # Null THEN Lesser(size - Consumable, e2 + 1)
               ELSE 0
      next == IF Wrapped THEN extra % N ELSE head
  IN Line(size, next, next, Copy(tail, Consumable) \o Copy(0, extra),
          EndsWithArray /\ e2 # Null /\ Consumable < size)

\* No newline, and line is full before the block ends.  A line longer than
\* what lies before the head stores line_size instead of what follows it.
lineFull(size) ==
  IF size <= head
  THEN Line(size, (tail + size) % N, (tail + size) % N, Copy(tail, size), FALSE)
  ELSE Line(size, IF head <= tail + size THEN size ELSE head, head,
            Copy(tail, size), TRUE)

\* A newline at e.
lineUpTo(size, e) ==
  LET n == Lesser(Lesser(size, Consumable), e - tail + 1)
  IN Line(size, (tail + n) % N, (tail + n) % N, Copy(tail, n), FALSE)

\* consume_line up to its first store, on copies of head and tail
lineCopy(size) ==
  /\ \E e \in Null .. Beyond, e2 \in Null .. Beyond :
       /\ StrChr(tail, e) /\ StrChr(0, e2)
       /\ \/ e # Null /\ line' = lineUpTo(size, e)
          \/ e = Null /\ Consumable <= size /\ line' = lineOverEnd(size, e2)
          \/ e = Null /\ Consumable > size /\ line' = lineFull(size)
  /\ at' = "line" /\ damage' = FALSE
  /\ UNCHANGED <<buffer, index, will_clear_if_empty, out, late>>

\* maxed = false
lineUnmark ==
  /\ at = "line" /\ at' = "unmarked"
  /\ maxed' = FALSE /\ late' = FALSE /\ damage' = FALSE
  /\ UNCHANGED <<buffer, head, tail, will_clear_if_empty, line, out>>

\* The last test of empty(), on what interrupts have made of head by now.
lineTest ==
  /\ at = "unmarked" /\ at' = "tested"
  /\ line' = [line EXCEPT !.next = IF empty THEN line.drained ELSE @]
  /\ damage' = FALSE
  /\ UNCHANGED <<buffer, index, will_clear_if_empty, out, late>>

\* tail = tail_copy: a text logged since the copies were taken that has moved
\* the tail is undone, and one that has set maxed leaves it set.
lineStore ==
  /\ at = "tested" /\ at' = "no"
  /\ tail' = line.next /\ line' = NoLine /\ out' = line.text
  /\ late' = line.late /\ damage' = line.off
  /\ UNCHANGED <<buffer, head, maxed, will_clear_if_empty>>

-----------------------------------------------------------------------------
\* What the main loop does with the buffer between its log calls.
\* printAvailableLogging asks for a line of a buffer that is not empty.
Read ==
  /\ at = "no"
  /\ \/ clear \/ clearAsk \/ consume
     \/ \E size \in 1 .. N : consume_block(size)
     \/ \E size \in LineSizes : ~empty /\ lineCopy(size)

Next ==
  \/ \E t \in Texts : write(t)
  \/ \E c \in Chars : at = "no" /\ writeItem(c)
  \/ Read
  \/ clearTest \/ clearReset \/ lineUnmark \/ lineTest \/ lineStore

Spec == Init /\ [][Next]_vars

-----------------------------------------------------------------------------
(***************************************************************************)
(* Properties.                                                             *)
(***************************************************************************)

\* head and tail stay inside the array and nothing is stored behind the extra
\* item, over all the operations, consume_line's jumps of the tail included.
TypeOK ==
  /\ buffer \in [0 .. N -> Items]
  /\ head \in 0 .. N - 1 /\ tail \in 0 .. N - 1
  /\ maxed \in BOOLEAN /\ will_clear_if_empty \in BOOLEAN
  /\ late \in BOOLEAN /\ damage \in BOOLEAN
  /\ at \in {"no", "asked", "empty", "line", "unmarked", "tested"}
  /\ line.next \in 0 .. N - 1 /\ line.text \in Seq(Items)
  /\ out \in Seq(Items)

\* Writers drop the oldest text on the word of maxed alone.  A buffer that says
\* it is full has no room left, whatever was read since, unless an interrupt
\* logged between consume_line's two stores: maxed is reset before the tail is
\* stored, so what that text sets it to outlives the room the tail then makes.
FullMeansFull == full => late \/ (head - tail) % N = N - 1

\* consume_line never writes behind the caller's line, and never returns 0 for
\* a buffer that is not empty: printAvailableLogging reads line[len - 1].
LineFits == InLine => Len(line.text) \in 1 .. line.size

\* The characters from tail to head, oldest first.
Unread == [i \in 1 .. (head - tail) % N |-> buffer[(tail + i - 1) % N]]

Queue == INSTANCE LossyQueue
           WITH queue <- Unread, Capacity <- N - 1

\* The buffer is a first-in first-out queue that drops its oldest characters:
\* what is read is the oldest unread text, unchanged and in order, the
\* terminator and the moving tail never touch unread text, and a text logged
\* while a line is read is kept.  Text is lost, or comes back, only in single
\* steps that meet one of these conditions, each told by its cause: a write to
\* a full buffer that is not marked full, or to one that is marked full with
\* room left; a reset after an interrupt lowered will_clear_if_empty; and the
\* end of a line that filled up before the array ended while less than
\* line_size lay before the head, that found a newline at the start of the
\* array when the unread text ended with it, or during which a text came that
\* did not fit or found the buffer marked full with room left.
IsLossyQueue == Queue!Spec
=============================================================================
