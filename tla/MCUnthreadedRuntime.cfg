SPECIFICATION FairSpec
CONSTANTS
  Timers <- TwoTimers
  Options <- TimeoutLines
  MinSleep = 2
  Forever = 6
  MaxMicrostep = 9
  MaxScheduled = 3
  MaxReactions = 2
  MaxLevels = 1
INVARIANTS
  ShutdownOnce
  EndsComplete
  NoEventPassed
  NotAhead
PROPERTIES
  ImplementsLogicalExecution
  FedProgramEnds
