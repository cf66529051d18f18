--------------------------- MODULE MainLoopProofs ---------------------------
(***************************************************************************)
(* Proofs about MainLoop, for any width of the clock, set of timers and    *)
(* intervals.                                                              *)
(***************************************************************************)
EXTENDS MainLoop, TLAPS

-----------------------------------------------------------------------------
(***************************************************************************)
(* The unsigned difference of two time stamps.                             *)
(***************************************************************************)

LEMMA ModSmall == ASSUME NEW n \in Nat \ {0}, NEW x \in 0 .. n - 1
                  PROVE  x % n = x
  OBVIOUS

LEMMA ModOnce == ASSUME NEW n \in Nat \ {0}, NEW x \in n .. (n + n - 1)
                 PROVE  x % n = x - n
  OBVIOUS

LEMMA ModNegative == ASSUME NEW n \in Nat \ {0}, NEW x \in -n .. -1
                     PROVE  x % n = x + n
  OBVIOUS

LEMMA Difference ==
  ASSUME NEW a \in 0 .. W - 1, NEW b \in 0 .. W - 1
  PROVE  (a - b) % W = IF a >= b THEN a - b ELSE a - b + W
  <1>1. CASE a >= b
    <2>1. a - b \in 0 .. W - 1
      BY <1>1, WidthAssumption
    <2> QED
      BY <2>1, <1>1, ModSmall, WidthAssumption
  <1>2. CASE a < b
    <2>1. a - b \in -W .. -1
      BY <1>2, WidthAssumption
    <2> QED
      BY <2>1, <1>2, ModNegative, WidthAssumption
  <1> QED
    BY <1>1, <1>2, WidthAssumption

\* The clock wraps to 0.
LEMMA NextTick ==
  ASSUME NEW a \in 0 .. W - 1
  PROVE  (a + 1) % W = IF a = W - 1 THEN 0 ELSE a + 1
  <1>1. CASE a = W - 1
    <2>1. a + 1 \in W .. (W + W - 1)
      BY <1>1, WidthAssumption
    <2> QED
      BY <2>1, <1>1, ModOnce, WidthAssumption
  <1>2. CASE a # W - 1
    <2>1. a + 1 \in 0 .. W - 1
      BY <1>2, WidthAssumption
    <2> QED
      BY <2>1, <1>2, ModSmall, WidthAssumption
  <1> QED
    BY <1>1, <1>2

\* A tick adds at most one to the difference, also where the clock wraps (and
\* takes all of it away where it comes round to b).
LEMMA DifferenceTicks ==
  ASSUME NEW a \in 0 .. W - 1, NEW b \in 0 .. W - 1
  PROVE  /\ (a + 1) % W \in 0 .. W - 1
         /\ (((a + 1) % W) - b) % W <= ((a - b) % W) + 1
  <1>1. (a + 1) % W \in 0 .. W - 1
    BY NextTick, WidthAssumption
  <1>2. (((a + 1) % W) - b) % W
          = IF (a + 1) % W >= b THEN ((a + 1) % W) - b ELSE ((a + 1) % W) - b + W
    BY <1>1, Difference
  <1> QED
    BY <1>1, <1>2, NextTick, Difference, WidthAssumption

-----------------------------------------------------------------------------
(***************************************************************************)
(* The invariant.  NeverEarly compares the time that really passed with    *)
(* what the loop computes from two wrapped stamps, one of which it read    *)
(* earlier in the iteration; the invariant keeps both differences below    *)
(* the time that passed.                                                   *)
(***************************************************************************)

TypeOK ==
  /\ now \in 0 .. W - 1
  /\ loopStart \in 0 .. W - 1
  /\ last \in [Timers -> 0 .. W - 1]
  /\ since \in [Timers -> 0 .. MaxSince]

\* A timer that did not start ahead of the clock, or has run out since.
Settled(t) == Lead[t] = 0 \/ t \in ran

\* The wrapped differences are not above the time since such a timer was set.
\* loopStart is older than last once the timer has been set, until the next
\* iteration reads it again.
StampsBelow ==
  \A t \in Timers : Settled(t) /\ since[t] < MaxSince =>
    /\ (now - last[t]) % W <= since[t]
    /\ pc \in {"send", "timers"} => (loopStart - last[t]) % W <= since[t]

LEMMA StampsInit == Init => TypeOK /\ StampsBelow
  <1> SUFFICES ASSUME Init PROVE TypeOK /\ StampsBelow
    OBVIOUS
  <1> USE DEF Init
  <1>1. TypeOK
    <2>1. \A t \in Timers : (now + Lead[t]) % W \in 0 .. W - 1
      BY WidthAssumption, TimersAssumption
    <2> QED
      BY <2>1, BoundsAssumption, WidthAssumption DEF TypeOK
  <1>2. ASSUME NEW t \in Timers, Settled(t) PROVE (now - last[t]) % W <= since[t]
    <2>1. last[t] = now
      BY <1>2, ModSmall, WidthAssumption DEF Settled
    <2> QED
      BY <2>1, Difference, WidthAssumption
  <1> QED
    BY <1>1, <1>2 DEF StampsBelow

LEMMA StampsTick == TypeOK /\ StampsBelow /\ Tick => TypeOK' /\ StampsBelow'
  <1> SUFFICES ASSUME TypeOK, StampsBelow, Tick PROVE TypeOK' /\ StampsBelow'
    OBVIOUS
  <1> USE DEF Tick, TypeOK
  <1>1. TypeOK'
    BY DifferenceTicks, BoundsAssumption
  <1>2. ASSUME NEW t \in Timers, Settled(t)', since'[t] < MaxSince
        PROVE  /\ (now' - last'[t]) % W <= since'[t]
               /\ pc' \in {"send", "timers"} => (loopStart' - last'[t]) % W <= since'[t]
    <2>1. since[t] < MaxSince /\ since'[t] = since[t] + 1 /\ since[t] \in Nat
      BY <1>2, BoundsAssumption
    <2>2. (now' - last[t]) % W <= ((now - last[t]) % W) + 1
      BY DifferenceTicks
    <2>3. /\ (now - last[t]) % W \in Int /\ (now' - last[t]) % W \in Int
          /\ (loopStart - last[t]) % W \in Int
      BY <1>1, Difference, WidthAssumption
    <2> QED
      BY <1>2, <2>1, <2>2, <2>3 DEF StampsBelow, Settled
  <1> QED
    BY <1>1, <1>2 DEF StampsBelow

LEMMA StampsTimers == TypeOK /\ StampsBelow /\ runTimers => TypeOK' /\ StampsBelow'
  <1> SUFFICES ASSUME TypeOK, StampsBelow, runTimers PROVE TypeOK' /\ StampsBelow'
    OBVIOUS
  <1> USE DEF runTimers, TypeOK
  <1>1. TypeOK'
    BY BoundsAssumption
  <1>2. ASSUME NEW t \in Timers, Settled(t)', since'[t] < MaxSince
        PROVE  (now' - last'[t]) % W <= since'[t]
    <2>1. CASE Due(t)
      <3>1. last'[t] = now /\ now' = now /\ since'[t] = 0
        BY <2>1
      <3> QED
        BY <3>1, Difference, WidthAssumption
    <2>2. CASE ~Due(t)
      BY <1>2, <2>2 DEF StampsBelow, Settled
    <2> QED
      BY <2>1, <2>2
  <1> QED
    BY <1>1, <1>2 DEF StampsBelow

LEMMA StampsOther ==
    TypeOK /\ StampsBelow
    /\ (\/ \E w \in {"pin", "packet"} : activity(w)
        \/ exitPin \/ otherInterrupt \/ leave \/ handlePinActivity \/ sendPackets
        \/ requestNextRssi \/ check \/ wfi \/ afterSleep \/ UNCHANGED vars)
      => TypeOK' /\ StampsBelow'
  <1> SUFFICES ASSUME TypeOK, StampsBelow,
                      \/ \E w \in {"pin", "packet"} : activity(w)
                      \/ exitPin \/ otherInterrupt \/ leave \/ handlePinActivity
                      \/ sendPackets \/ requestNextRssi \/ check \/ wfi \/ afterSleep
                      \/ UNCHANGED vars
               PROVE  TypeOK' /\ StampsBelow'
    OBVIOUS
  <1>1. UNCHANGED clock
    BY DEF clock, vars, activity, exitPin, otherInterrupt, leave, handlePinActivity,
           sendPackets, requestNextRssi, check, wfi, afterSleep
  <1>2. CASE handlePinActivity
    BY <1>1, <1>2 DEF TypeOK, StampsBelow, Settled, handlePinActivity, clock
  <1>3. CASE ~handlePinActivity
    <2>1. loopStart' = loopStart /\ (pc' \in {"send", "timers"} => pc \in {"send", "timers"})
      BY <1>3 DEF vars, activity, exitPin, otherInterrupt, leave, sendPackets,
                  requestNextRssi, check, wfi, afterSleep, Woken
    <2> QED
      BY <1>1, <2>1 DEF TypeOK, StampsBelow, Settled, clock
  <1> QED
    BY <1>2, <1>3

LEMMA StampsStep == TypeOK /\ StampsBelow /\ [Next]_vars => TypeOK' /\ StampsBelow'
  BY StampsTick, StampsTimers, StampsOther DEF Next, Step

LEMMA FiresLate ==
  ASSUME TypeOK, StampsBelow, pc = "timers", NEW t \in Timers, Due(t), Settled(t)
  PROVE  since[t] > Period[t]
  <1>1. (loopStart - last[t]) % W > Period[t]
    BY DEF Due, Elapsed
  <1>2. (loopStart - last[t]) % W \in Int
    BY Difference, WidthAssumption DEF TypeOK
  <1>3. CASE since[t] < MaxSince
    BY <1>1, <1>2, <1>3, TimersAssumption DEF StampsBelow, TypeOK
  <1>4. CASE since[t] = MaxSince
    BY <1>4, BoundsAssumption
  <1> QED
    BY <1>3, <1>4, BoundsAssumption DEF TypeOK

\* For any width of time_us_32(), any timers, intervals and leads: no timer
\* runs out before its interval has passed, but for the first time of one that
\* is initialised ahead of the clock (lastCleanup).
THEOREM PunctualTimers == Spec => NeverEarly
  <1>1. TypeOK /\ StampsBelow /\ [Next]_vars
          => [runTimers => \A t \in Timers :
                Due(t) => since[t] > Period[t] \/ (Lead[t] # 0 /\ t \notin ran)]_vars
    BY FiresLate DEF runTimers, Settled
  <1> QED
    BY <1>1, StampsInit, StampsStep, PTL DEF Spec, NeverEarly
=============================================================================
