SPECIFICATION Spec
CONSTANTS
  Threads = {0, 1}
  NumSlots = 3
  ChanCapacity = 8
  NumTimers = 3
  WaitOps = {"timedwait"}
  MaxSends = 4
INVARIANT
  FlaggedSlotHasToken
CHECK_DEADLOCK FALSE
