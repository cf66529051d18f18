SPECIFICATION FairSpec
CONSTANTS
  Handles = {1, 2}
  NoHandle = NoHandle
  MaxPackets = 3
INVARIANTS InOrder
PROPERTIES OwnLink Drains AssertHolds
