SPECIFICATION LocksSpec
CONSTANTS
  MaxThreads = 3
  BootThreads = 2
  Word = 8
  Horizon = 0
  MaxNest = 1
  Delays = {}
  Lock = {k1, k2}
  NoLock = NoLock
  Smashed = {k1}
  LockMax = 2
INVARIANTS LocksTypeOK MutualExclusion LockMatchesHolders CheckStaysGood
PROPERTIES ImplementsMutex
