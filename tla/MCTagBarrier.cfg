CONSTANTS
  Readers = {r1, r2}
  Forever = 3
  MaxMicrostep = 1
  MaxMessages = 3
SPECIFICATION Spec
INVARIANTS
  MessagesInTime
  LateFreezes
  BarrierConsistent
PROPERTIES
  BarrierWaitEnds
