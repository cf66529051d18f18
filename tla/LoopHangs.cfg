SPECIFICATION WokenSpec
CONSTANTS
  W = 6
  Timers = {"rssi"}
  Period <- MCPeriod
  Lead <- MCLead
  TwoSeconds = 1
  MaxActivity = 2
  MaxSince = 3
PROPERTY LifeCheckAnswered
