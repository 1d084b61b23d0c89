SPECIFICATION Spec
CONSTANTS
  WFSID_MAX = 2
  myID = 1
  primary = p0
  secondary = p1
  NULL = NULL
  EVBUF_MIN_NUM = 1
  EVBUF_MAX_NUM = 2
  RAPS_ANNOUNCE_INT = 1
  RAPS_PEER_TIMEOUT = 2
  RAPS_SF_INT = 1
  RAPS_NR_INT = 1
  RAPS_NR_COUNT = 1
  KmallocFails = TRUE
  MaxInputs = 5
INVARIANTS TypeOK ActiveChannel StateFollowsChannels AgingActive OneAlert BuffersNotShared
PROPERTIES ImplementsTable
