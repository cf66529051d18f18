SPECIFICATION Spec
CONSTANTS
  Handles = {1, 2}
  Slots = {1}
  Contents <- LinkContents
  RolesOf <- LinkRoles
  PinTimes = {0}
  Dead = Dead
  NoHandle = NoHandle
  Unset = Unset
  Scale = 2
  StaleAfter = 2
  MessageTimeout = 1
  BuildTime = 3
  IdWrap = 2
  Wrap = 64
  MaxUptime = 0
INVARIANTS TargetedDrained
PROPERTIES NoRedundantSend AnnouncedInTime
