SPECIFICATION WqSpec
CONSTANTS
  w1 = w1
  w2 = w2
  d1 = d1
  d2 = d2
  Work = {w1, w2}
  Delayed = {w1}
  World = {d1, d2}
  maxDispatch = 2
  NULL = NULL
  UncountPrompt = TRUE
  MaxQueued = 3
INVARIANTS PendingToken Capacity NoStuckWork CancelSync FlushSync 
SYMMETRY Symmetry
CHECK_DEADLOCK FALSE
