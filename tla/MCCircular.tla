----------------------------- MODULE MCCircular -----------------------------
(***************************************************************************)
(* Instances of CircularBuffer for TLC: texts with and without a newline,  *)
(* up to the length of the buffer.                                         *)
(***************************************************************************)
EXTENDS CircularBuffer

MCTexts == {<<"a">>, <<"b", "n">>, <<"a", "b", "a">>, <<"b", "n", "a", "n", "b">>}
=============================================================================
