SPECIFICATION BertFairSpec
CONSTANTS
  myRequest = myRequest
  module = module
  b1 = b1
  b2 = b2
  Work = {myRequest}
  Delayed = {myRequest}
  World = {module}
  Skb = {b1, b2}
  Burst = 2
  maxDispatch = 3
  NULL = NULL
  UncountPrompt = TRUE
  MaxQueued = 0
INVARIANTS PacketAlive StartsClean OneSender
CHECK_DEADLOCK FALSE
PROPERTIES QueuedRuns StopReturns
