SPECIFICATION FairSpec
CONSTANTS
  w1 = w1
  w2 = w2
  w3 = w3
  Workers = {w1, w2}
  Timers <- OneShot
  Options <- LongLines
  MinSleep = 1
  Forever = 4
  MaxMicrostep = 9
  MaxReactions = 1
  MaxLevels = 0
  MaxScheduled = 1
  OutsideStops = TRUE
  EarlyTimers = FALSE
PROPERTIES
  StopRequestEnds
  ProgramEnds
