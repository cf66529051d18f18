SPECIFICATION Spec
CONSTANTS
  Handles = {1}
  Slots = {1, 2}
  Contents <- AgeContents
  RolesOf <- EitherRole
  PinTimes = {0}
  Dead = Dead
  NoHandle = NoHandle
  Unset = Unset
  Scale = 2
  StaleAfter = 1
  MessageTimeout = 1
  BuildTime = 3
  IdWrap = 2
  Wrap = 64
  MaxUptime = 2
INVARIANTS TypeOK
PROPERTIES NoRedundantSend
