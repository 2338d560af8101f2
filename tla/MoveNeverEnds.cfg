SPECIFICATION FairSpec
CONSTANTS
  Full = 96
  Roll = 1
  Wrap = 16
  MmRoll = 15
  MmAway = 35
  TickMs = 250
  MaxAway = 6
  Programs <- MCSteered
  Places <- MCPlaces
  Headings <- MCHeadings
  Starts <- MCStarts
  Rounds = 5
  GearRounds = 1
  SpinMs = 500
  Turns = {0, 60}
  MaxTurns = 1
PROPERTIES SteeredMovesEnd
CHECK_DEADLOCK FALSE
