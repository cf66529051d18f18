SPECIFICATION FairSpec
CONSTANTS
  Addresses = {1, 2}
  Repeaters = {1}
  Randoms = {}
  Offers = {1}
  Handles = {1, 2}
  NoHandle = 0
  Environment = {"drop", "dropMidway", "quick", "fail"}
  Nobody = Nobody
INVARIANTS ScanWillStop ProgressIsReal
PROPERTY GateReopens
