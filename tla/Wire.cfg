CONSTANTS
  Radix = 8
  Wide = 2
  type_announce = 1
  type_message = 2
  SenderPeerFlag = 1
  Wires <- MCWires
  Me <- MCMe
  Times <- MCTimes
  Name <- MCName
  Contents <- MCContents
  PeerIds <- MCPeerIds
  MaxHops = 3
  MaxBody = 15
SPECIFICATION Spec
INVARIANTS SamePacket KnownAgain
PROPERTY RelayFits
CHECK_DEADLOCK FALSE
