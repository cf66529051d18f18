CONSTANTS
  a = a
  b = b
  c = c
  phone = phone
  Repeaters = {a, b, c}
  Phones = {phone}
  Links <- Line
  PhonePackets <- Both
  Scale = 10
  build_time_ms = 50
  MESSAGE_TIMEOUT = 5
  Dead = Dead
  Own = Own
  Stray = Stray
  StaleAfter = 50
  Later = {0, 100, 2000}
  Announcers = {a, b}
  MaxWrites = 1
  MaxFlight = 1
  MaxTroubles = 1
SPECIFICATION FairSpec
INVARIANTS CrossesOnce DirectoryLive
PROPERTY FloodsEnd
CHECK_DEADLOCK FALSE
