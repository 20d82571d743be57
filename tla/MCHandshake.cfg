\* Two established endpoints with nothing to send stop.
SPECIFICATION FairSpec
CONSTANTS
  CHello = 1
  SHello = 2
  SFlight = 1
  Room = 2
  AmpFactor = 2
  Fudge = 1
  MaxAllow = 4
  MaxNet = 2
  MaxLosses = 1
  MaxEarly = 1
INVARIANTS HandshakeInv 
 
CHECK_DEADLOCK FALSE
