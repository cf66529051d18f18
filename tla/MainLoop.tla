------------------------------ MODULE MainLoop ------------------------------
(***************************************************************************)
(* The loop of main.cpp: its 32-bit microsecond timers, and its way to     *)
(* sleep with __wfi once nothing has happened for two seconds.             *)
(*                                                                         *)
(* What the loop works on is reduced to two flags: a pin was pulled down   *)
(* (smoke_seen, life_check), a packet waits in the tracker's queues.  An   *)
(* interrupt handler bumps global_activity and wakes a sleeping processor; *)
(* one that has already been served when __wfi executes does not.          *)
(*                                                                         *)
(* Of the tracker's connections the loop depends on one thing: whether     *)
(* there is a record when the RSSI timer has requestNextRssi start over.   *)
(* It dereferences and increments begin() of the map; of an empty map that *)
(* is undefined, and with libstdc++ the increment never returns.           *)
(***************************************************************************)
EXTENDS Integers

CONSTANTS
  W,             \* 2^32: width of time_us_32()
  Timers,        \* which of the loop's timers the instance follows
  Period,        \* timer -> its interval
  Lead,          \* timer -> how far ahead of the clock it is initialised
  TwoSeconds,    \* two_seconds_in_us
  MaxActivity,   \* bound on global_activity, below its 16-bit wrap
  MaxSince       \* cap of the history variable since

ASSUME WidthAssumption == W \in Nat \ {0} /\ TwoSeconds \in 0 .. W - 1
ASSUME TimersAssumption ==
  Period \in [Timers -> 0 .. W - 1] /\ Lead \in [Timers -> 0 .. W - 1]
ASSUME BoundsAssumption ==
  /\ MaxActivity \in Nat /\ MaxSince \in Nat
  /\ \A t \in Timers : Period[t] < MaxSince

VARIABLES
  now,                  \* time_us_32()
  loopStart,
  last,                 \* timer -> lastAnnounce, lastScan, lastCleanup, ...
  lastSleepOrActivity,
  global_activity,
  last_activity,
  slept,
  keep_running,
  records,              \* the tracker's connections are not empty
  work,                 \* subset of {"pin", "packet"} not dealt with yet
  pc,
  missed,               \* history: work came after the test that led to __wfi
  since,                \* history: timer -> time since it was last set
  ran                   \* history: the timers that have run out before

clock == <<now, last, since, ran>>
vars == <<now, loopStart, last, lastSleepOrActivity, global_activity,
          last_activity, slept, keep_running, records, work, pc, missed,
          since, ran>>

Init ==
  /\ now \in 0 .. W - 1
  /\ loopStart = now
  /\ last = [t \in Timers |-> (now + Lead[t]) % W]
  /\ lastSleepOrActivity = now
  /\ global_activity = 0 /\ last_activity = 0
  /\ slept = FALSE /\ keep_running = TRUE /\ records = FALSE
  /\ work = {} /\ pc = "top" /\ missed = FALSE
  /\ since = [t \in Timers |-> 0] /\ ran = {}

\* Unsigned difference of two time stamps.
Elapsed(from) == (loopStart - from) % W

\* Slip: the deadline is compared instead of the difference.
Due_Deadline(t) == loopStart > (last[t] + Period[t]) % W

Due(t) == Elapsed(last[t]) > Period[t]

\* Slip: only the time without activity is looked at.
CanSleep_TimeOnly == Elapsed(lastSleepOrActivity) > TwoSeconds

\* The condition of the loop around __wfi.
CanSleep ==
  /\ Elapsed(lastSleepOrActivity) > TwoSeconds
  /\ last_activity = global_activity

\* requestNextRssi is due and finds no connection.
HangsAtRssi == "rssi" \in Timers /\ Due("rssi") /\ ~records

-----------------------------------------------------------------------------
(***************************************************************************)
(* Interrupts.                                                             *)
(***************************************************************************)

Tick ==
  /\ now' = (now + 1) % W
  /\ since' = [t \in Timers |-> IF since[t] < MaxSince THEN since[t] + 1 ELSE MaxSince]
  /\ UNCHANGED <<loopStart, last, lastSleepOrActivity, global_activity,
                 last_activity, slept, keep_running, records, work, pc,
                 missed, ran>>

\* Any interrupt ends the __wfi that is executing.
Woken == IF pc = "asleep" THEN "check" ELSE pc

\* gpio_callback for SMOKE_SEEN_PIN and LIFE_CHECK_PIN, or a BTstack callback
\* that queues a packet, which came over a link.
activity(w) ==
  /\ global_activity < MaxActivity
  /\ global_activity' = global_activity + 1
  /\ work' = work \cup {w}
  /\ records' = (records \/ w = "packet")
  /\ pc' = Woken /\ missed' = (pc = "wfi")
  /\ UNCHANGED <<clock, loopStart, lastSleepOrActivity, last_activity, slept,
                 keep_running>>

\* gpio_callback for EXIT_GPIO_PIN
exitPin ==
  /\ global_activity < MaxActivity
  /\ global_activity' = global_activity + 1
  /\ keep_running' = FALSE
  /\ pc' = Woken
  /\ UNCHANGED <<clock, loopStart, lastSleepOrActivity, last_activity, slept,
                 records, work, missed>>

\* An interrupt that runs none of this program's handlers (USB, timer).
otherInterrupt ==
  /\ pc = "asleep"
  /\ pc' = Woken /\ missed' = FALSE
  /\ UNCHANGED <<clock, loopStart, lastSleepOrActivity, global_activity,
                 last_activity, slept, keep_running, records, work>>

-----------------------------------------------------------------------------
(***************************************************************************)
(* The loop.                                                               *)
(***************************************************************************)

leave ==
  /\ pc = "top" /\ ~keep_running
  /\ pc' = "left"
  /\ UNCHANGED <<clock, loopStart, lastSleepOrActivity, global_activity,
                 last_activity, slept, keep_running, records, work, missed>>

\* handlePinActivity turns a pin into a packet, which counts as activity,
\* unless the id of its message is taken.
handlePinActivity ==
  /\ pc = "top" /\ keep_running
  /\ loopStart' = now
  /\ \/ /\ "pin" \in work /\ global_activity < MaxActivity
        /\ work' = {"packet"} /\ global_activity' = global_activity + 1
     \/ /\ work' = work \ {"pin"} /\ UNCHANGED global_activity
  /\ pc' = "send" /\ slept' = FALSE
  /\ UNCHANGED <<clock, lastSleepOrActivity, last_activity, keep_running, records, missed>>

sendPackets ==
  /\ pc = "send"
  /\ work' = work \ {"packet"}
  /\ pc' = "timers"
  /\ UNCHANGED <<clock, loopStart, lastSleepOrActivity, global_activity,
                 last_activity, slept, keep_running, records, missed>>

\* Every timer compares with loopStart and is set to the time after its work; a
\* clean-up, which may come in any iteration if the instance does not follow
\* its timer, may leave the map of connections empty.
runTimers ==
  /\ pc = "timers"
  /\ ~HangsAtRssi
  /\ LET fired == {t \in Timers : Due(t)}
     IN /\ last' = [t \in Timers |-> IF t \in fired THEN now ELSE last[t]]
        /\ since' = [t \in Timers |-> IF t \in fired THEN 0 ELSE since[t]]
        /\ ran' = ran \cup fired
        /\ records' \in IF "cleanup" \in Timers \ fired THEN {records} ELSE {records, FALSE}
  /\ pc' = "check"
  /\ UNCHANGED <<now, loopStart, lastSleepOrActivity, global_activity,
                 last_activity, slept, keep_running, work, missed>>

requestNextRssi ==
  /\ pc = "timers"
  /\ HangsAtRssi
  /\ pc' = "hung"
  /\ UNCHANGED <<clock, loopStart, lastSleepOrActivity, global_activity,
                 last_activity, slept, keep_running, records, work, missed>>

check ==
  /\ pc = "check"
  /\ pc' = IF CanSleep THEN "wfi" ELSE "after"
  /\ UNCHANGED <<clock, loopStart, lastSleepOrActivity, global_activity,
                 last_activity, slept, keep_running, records, work, missed>>

wfi ==
  /\ pc = "wfi"
  /\ pc' = "asleep" /\ slept' = TRUE
  /\ UNCHANGED <<clock, loopStart, lastSleepOrActivity, global_activity,
                 last_activity, keep_running, records, work, missed>>

afterSleep ==
  /\ pc = "after"
  /\ IF slept \/ last_activity # global_activity
     THEN lastSleepOrActivity' = now /\ last_activity' = global_activity
     ELSE UNCHANGED <<lastSleepOrActivity, last_activity>>
  /\ pc' = "top"
  /\ UNCHANGED <<clock, loopStart, global_activity, slept, keep_running, records,
                 work, missed>>

Step ==
  \/ leave \/ handlePinActivity \/ sendPackets \/ runTimers \/ requestNextRssi
  \/ check \/ wfi \/ afterSleep

Next ==
  \/ Tick
  \/ \E w \in {"pin", "packet"} : activity(w)
  \/ exitPin
  \/ otherInterrupt
  \/ Step

Spec == Init /\ [][Next]_vars

\* The processor executes.
FairSpec == Spec /\ WF_vars(Step)

\* The processor executes, and some interrupt always ends a __wfi.
WokenSpec == FairSpec /\ WF_vars(otherInterrupt)

-----------------------------------------------------------------------------
(***************************************************************************)
(* Properties.                                                             *)
(***************************************************************************)

\* No timer of the loop runs out before its interval has really passed, with
\* the 32-bit clock wrapping and loopStart older than the time it is set to.
\* The exception is the first time of a timer that is initialised ahead of the
\* clock: lastCleanup, "five_minutes_in_us; //gives 15mins before first
\* cleanup", is a large unsigned difference behind, so the first clean-up comes
\* in the first iteration.
NeverEarly ==
  [][runTimers => \A t \in Timers :
       Due(t) => since[t] > Period[t] \/ (Lead[t] # 0 /\ t \notin ran)]_vars

\* A pin or a packet that arrives at any point of the loop is dealt with,
\* whatever interrupts come, unless the exit pin ends the loop, requestNextRssi
\* hangs (LifeCheckAnswered), or the processor sleeps on it.  It sleeps only on
\* what came between the test of the loop around __wfi and the __wfi; if an
\* interrupt ends that sleep, the work is dealt with, but none need come.
WorkDone ==
  (work # {}) ~> \/ work = {} \/ ~keep_running \/ pc = "hung"
                 \/ pc = "asleep" /\ missed

\* readme.md: "To tell if a repeater node is functioning you can" join two pins,
\* "which will fire off a message into the network".  A life check is answered.
LifeCheckAnswered == ("pin" \in work) ~> ("pin" \notin work \/ ~keep_running)
=============================================================================
