----------------------------- MODULE LossyQueue -----------------------------
(***************************************************************************)
(* What the log buffer promises: a first-in first-out queue of characters  *)
(* that forgets its oldest ones when a text does not fit.                  *)
(***************************************************************************)
EXTENDS Integers, Sequences

CONSTANTS
  Texts,      \* the texts that are logged
  Chars,      \* the characters that are logged one by one
  Capacity    \* how many characters are kept

VARIABLES
  queue,      \* the characters not yet read, oldest first
  out,        \* what the last read returned
  damage      \* the last step kept no promise

\* The last n elements of s, or all of them.
Newest(s, n) == IF Len(s) <= n THEN s ELSE SubSeq(s, Len(s) - n + 1, Len(s))

Init == queue = << >> /\ out = << >> /\ damage = FALSE

Write(text) == queue' = Newest(queue \o text, Capacity) /\ out' = << >>

Take(n) ==
  /\ queue' = SubSeq(queue, n + 1, Len(queue))
  /\ out' = SubSeq(queue, 1, n)

Clear == queue' = << >> /\ out' = << >>

\* A step that may leave anything, without going over the capacity.
Damage == damage' = TRUE /\ Len(queue') <= Capacity

Promised ==
  /\ damage' = FALSE
  /\ \/ \E text \in Texts : Write(text)
     \/ \E c \in Chars : Write(<<c>>)
     \/ \E n \in 0 .. Len(queue) : Take(n)
     \/ Clear
     \/ UNCHANGED <<queue, out>>

Next == Promised \/ Damage

Spec == Init /\ [][Next]_<<queue, out, damage>>
=============================================================================
