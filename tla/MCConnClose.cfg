\* A connection that has closed stops.
SPECIFICATION FairSpec
CONSTANTS
  PTO = 2
  LocalIdle = 7
  PeerIdle = 5
  HANDSHAKE_TIMEOUT = 4
  MaxTime = 15
INVARIANT CloseInv
PROPERTIES CloseRateLimited CloseEnds
CHECK_DEADLOCK FALSE
