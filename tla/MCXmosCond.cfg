SPECIFICATION FairSpec
CONSTANTS
  Threads = {0, 1, 2}
  NumSlots = 2
  ChanCapacity = 8
  NumTimers = 2
  WaitOps = {"wait", "timedwait"}
  MaxSends = 3
INVARIANTS
  SlotsConsistent
  NoLostWakeup
PROPERTIES
  SignalReaches
  NotifiedReturns
CHECK_DEADLOCK FALSE
