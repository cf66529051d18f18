CONSTANTS
  Packets = {p}
  Handles = {1, 2, 3}
  Frame = Frame
  End = End
  Dangling = Dangling
SPECIFICATION Spec
INVARIANTS RefsLive WalkAsksAll
