SPECIFICATION Spec
CONSTANTS
  rf = rf
  p1 = p1
  Thread = {rf, p1}
  Nobody = Nobody
  Rf = rf
  PayloadSize = 2
  FifoSize = 3
  MaxPackets = 1
  MaxChars = 2
INVARIANTS NoneForgotten
CHECK_DEADLOCK FALSE
