SPECIFICATION Spec
CONSTANTS
  Nobody = Nobody
INVARIANTS BitstreamArrives
PROPERTIES HaltStops RadioComesBack CallsEnd RoundStartsAndEnds
CHECK_DEADLOCK FALSE
