SPECIFICATION Spec
CONSTANTS
  w1 = w1
  w2 = w2
  w3 = w3
  Workers = {w1, w2, w3}
  Timers <- TwoTimers
  Options <- MixedLines
  MinSleep = 1
  Forever = 4
  MaxMicrostep = 9
  MaxReactions = 2
  MaxLevels = 1
  MaxScheduled = 1
  OutsideStops = TRUE
  EarlyTimers = TRUE
SYMMETRY WorkerSymmetry
INVARIANTS
  WorkersConsistent
  NoEventPassed
  NotAhead
  ShutdownAtStopTag
  EndsComplete
  TimersAlive
PROPERTIES
  ImplementsLogicalExecution
