SPECIFICATION Spec
CONSTANTS
  ws1 = ws1
  ws2 = ws2
  Key <- MCKey
  WfsId <- MCWfsId
  FIB_SIZE_MIN = 1
  FIB_SIZE_MAX = 3
  TIME_TAGS = 2
  KmallocFails = FALSE
INVARIANT TimerNotPending
SYMMETRY Symmetry
CHECK_DEADLOCK FALSE
