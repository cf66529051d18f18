----------------------------- MODULE MCMainLoop -----------------------------
(***************************************************************************)
(* Instances of MainLoop for TLC: a six-tick clock instead of 2^32.       *)
(***************************************************************************)
EXTENDS MainLoop

\* The timers are initialised to the current time, but for lastCleanup: five
\* minutes ahead.  All have the same interval here.
MCPeriod == [t \in Timers |-> 2]
MCLead == [t \in Timers |-> IF t = "cleanup" THEN 1 ELSE 0]
=============================================================================
