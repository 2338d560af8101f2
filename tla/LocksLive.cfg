SPECIFICATION LocksFairSpec
CONSTANTS
  MaxThreads = 2
  BootThreads = 2
  Word = 8
  Horizon = 1
  MaxNest = 1
  Delays <- MCShortDelays
  Lock = {k1}
  NoLock = NoLock
  Smashed = {k1}
  LockMax = 2
PROPERTIES FreeLockIsTaken
