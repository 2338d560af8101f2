SPECIFICATION Spec
CONSTANTS
  Thread = {1, 2}
  Nobody = Nobody
  Encoder = {24}
  Base = 2
  Uses <- MCShared
  MaxResets <- MCResets
INVARIANTS ReadsSomeDistance
CHECK_DEADLOCK FALSE
