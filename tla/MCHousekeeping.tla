--------------------------- MODULE MCHousekeeping ---------------------------
(***************************************************************************)
(* Instances of Housekeeping for TLC.                                      *)
(***************************************************************************)
EXTENDS Housekeeping
=============================================================================
