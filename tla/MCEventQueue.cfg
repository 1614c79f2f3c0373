CONSTANTS
  a = a  b = b  tm = tm
  NULL = NULL
  Events = {e1, e2, e3, e4}
  Tokens = {k1, k2, k3}
  BinLimit = 1
  Triggers = {a, b, tm}
  Programs <- AllPrograms
  StartTime = 4
  StopTags <- MCStopTags
  Delays <- MCDelays
  MaxMicrostep = 2
SYMMETRY Symmetry
SPECIFICATION Spec
INVARIANTS
  EventsAccounted
  TokensAccounted
PROPERTIES
  ImplementsCalendar
  AtTagOnTime
