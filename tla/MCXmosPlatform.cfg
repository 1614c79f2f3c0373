SPECIFICATION FairSpec
CONSTANTS
  Hardware = {0, 1, 2, 3}
  Threads = {0, 1, 2}
  Callers = {0, 1, 2, 3}
  NumThreads = 3
  WorkerCounts = {1, 2, 4}
  MaxDepth = 2
  Cycle = 4
  NsPerTick = 10
  StartTicks = {3}
  MaxTicks = 4
  WaitTimes = {}
  MaxCalls = 3
INVARIANTS
  MutualExclusion
  OwnerReadIsSafe
  OutermostUnlockReleases
  ThreadsAccounted
  TimeKept
PROPERTIES
  ImplementsRecursiveLock
  SomeWaiterEnters
