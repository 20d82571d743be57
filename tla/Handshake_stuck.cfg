\* One lost datagram is enough when the ServerHello fits in it.
SPECIFICATION FairSpec
CONSTANTS
  CHello = 1
  SHello = 1
  SFlight = 2
  Room = 2
  AmpFactor = 2
  Fudge = 1
  MaxAllow = 4
  MaxNet = 2
  MaxLosses = 1
  MaxEarly = 0
PROPERTY HandshakeNeverStuck
CHECK_DEADLOCK FALSE
