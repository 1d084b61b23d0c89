SPECIFICATION Spec
CONSTANTS
  ws1 = ws1
  ws2 = ws2
  Key <- MCKey
  WfsId <- MCWfsId
  FIB_SIZE_MIN = 2
  FIB_SIZE_MAX = 4
  TIME_TAGS = 3
  KmallocFails = TRUE
INVARIANTS NodesConserved RoomAfterTrim NoGhosts AgingRuns
SYMMETRY Symmetry
CHECK_DEADLOCK FALSE
