SPECIFICATION FairSpec
CONSTANTS
  W = 6
  Timers = {"rssi", "cleanup"}
  Period <- MCPeriod
  Lead <- MCLead
  TwoSeconds = 1
  MaxActivity = 2
  MaxSince = 3
PROPERTIES NeverEarly WorkDone
