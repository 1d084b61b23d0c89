SPECIFICATION FairSpec
CONSTANTS
  WFSID_MAX = 2
  myID = 1
  primary = p0
  secondary = p1
  NULL = NULL
  EVBUF_MIN_NUM = 12
  EVBUF_MAX_NUM = 12
  RAPS_ANNOUNCE_INT = 1
  RAPS_PEER_TIMEOUT = 2
  RAPS_SF_INT = 1
  RAPS_NR_INT = 1
  RAPS_NR_COUNT = 1
  KmallocFails = FALSE
  MaxInputs = 5
INVARIANTS ExpiryPending RecoveryNoticed
PROPERTIES PeersForgotten
