------------------------------- MODULE MCWire -------------------------------
(***************************************************************************)
(* Instances of Wire for TLC.                                              *)
(***************************************************************************)
EXTENDS Wire

CONSTANT MaxBody  \* bound: bytes behind version and type

Bodies(max) == UNION {[1 .. n -> {0, 1}] : n \in 0 .. max}
Starts(version) == {<<version, t>> : t \in {type_announce, type_message}}
MCWires ==
  {s \o b : s \in Starts(1), b \in Bodies(MaxBody)}
    \cup {s \o b : s \in Starts(2), b \in Bodies(MaxBody \div 2)}
    \cup {<< >>, <<1>>, <<0, 1>>, <<3, 1>>, <<1, 3>>}
MCMe == <<1, 4>>
MCTimes == {<<0, 0>>, <<0, 7>>, <<7, 7>>}
MCName == <<6, 2, 6>>
MCContents == {<<1, 2, 3>>, <<0, 1, 2, 3, 4, 5, 6, 7, 7>>}
MCPeerIds == {<<0, 0>>, <<1, 7>>}
=============================================================================
