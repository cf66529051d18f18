-------------------------------- MODULE MCRaw --------------------------------
(***************************************************************************)
(* Instances of RawPacketQueue for TLC.                                    *)
(***************************************************************************)
EXTENDS RawPacketQueue
=============================================================================
