----------------------------- MODULE MCTracker -----------------------------
(***************************************************************************)
(* Instances of BleConnectionTracker for TLC.                              *)
(***************************************************************************)
EXTENDS BleConnectionTracker

message(k, l, t) == [kind |-> "message", key |-> k, ttl |-> l, ts |-> t]
announcement(k, l, t) == [kind |-> "announce", key |-> k, ttl |-> l, ts |-> t]

\* Two announcements from clocks past the build time, the one not to be passed
\* on: reading the later makes our own announcements stale and the other link
\* old, reading the earlier again sets the clock back.
LinkContents == {announcement(11, 2, 12), announcement(13, 0, 24)}

\* Handle 1 is a link we accepted, handle 2 one we opened.
LinkRoles == [h \in Handles |-> IF h = 1 THEN {"slave"} ELSE {"master"}]

\* A message and an announcement that queue behind one another, from clocks
\* that run behind ours.
AgeContents == {message(10, 3, 1), announcement(13, 1, 0)}

EitherRole == [h \in Handles |-> {"slave", "master"}]

JoinContents == {message(10, 3, 1), announcement(11, 2, 12)}

AllAccepted == [h \in Handles |-> {"slave"}]
=============================================================================
