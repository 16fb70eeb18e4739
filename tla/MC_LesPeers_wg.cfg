\* Light-client mode: Stop races a peer whose send on newPeerCh has completed.
CONSTANTS
  p1 = p1
  p2 = p2
  Peer <- MC_Peer
  LightSync = TRUE
SPECIFICATION Spec
INVARIANTS NoHandlerAfterStop
CHECK_DEADLOCK FALSE
