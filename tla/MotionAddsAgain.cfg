SPECIFICATION MotionSpec
CONSTANTS
  Word = 16
  Goals = {6}
  kp = 20
  ki = 1
  kd = 1
  Reach = 3
  MaxUpdates = 3
INVARIANTS PositionIsCurrent
CHECK_DEADLOCK FALSE
