SPECIFICATION ClockSpec
CONSTANTS
  Callers = {0, 1}
  Cycle = 8
  NsPerTick = 2
  StartTicks = {0}
  MaxTicks = 10
  WaitTimes = {4, 12}
  MaxCalls = 6
INVARIANT
  TimerReadyWhenDue
CHECK_DEADLOCK FALSE
