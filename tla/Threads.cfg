SPECIFICATION Spec
CONSTANTS
  MaxThreads = 3
  BootThreads = 2
  Word = 4
  Horizon = 6
  MaxNest = 2
  Delays <- MCDelays
INVARIANTS TypeOK RunsWhoIsReady FlagFollowsSections PauseNotEarly
PROPERTIES NoBypass
