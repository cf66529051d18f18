SPECIFICATION LoopSpec
CONSTANTS
  Addresses = {1, 2}
  Repeaters = {1}
  Randoms = {}
  Offers = {1, 2}
  Handles = {1, 2}
  NoHandle = 0
  Environment = {"readvertise"}
  Nobody = Nobody
PROPERTY NeighboursTried
