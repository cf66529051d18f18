------------------------------- MODULE MCMesh -------------------------------
(***************************************************************************)
(* Instances of Mesh for TLC: three repeaters in a row and a phone at the  *)
(* middle one, which opened one of its links and accepted the other.       *)
(***************************************************************************)
EXTENDS Mesh

CONSTANTS a, b, c, phone

Line == {<<b, a>>, <<a, c>>, <<phone, a>>}
Announcement == [type |-> "announce", sender |-> phone, timestamp |-> 1000,
                 ttl |-> 7, name |-> TRUE]
Text == [type |-> "message", sender |-> phone, timestamp |-> 1001, ttl |-> 7,
         name |-> FALSE]
Both == {Announcement, Text}
=============================================================================
