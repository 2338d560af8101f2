SPECIFICATION Spec
CONSTANTS
  Raw <- MCRaw
  Installed <- MCInstalled
  MaxRun = 3
  BlockLimit = 6
  Pages = 6
  PageSize = 4
  Extra = 1
INVARIANTS NoRunLost
CHECK_DEADLOCK FALSE
