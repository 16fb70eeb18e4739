\* Server mode: Start's loop drains newPeerCh and the server's Stop drains
\* noMorePeers, so Stop goes on while peers are still being accepted.
CONSTANTS
  p1 = p1
  p2 = p2
  Peer <- MC_Peer
  LightSync = FALSE
SPECIFICATION Spec
INVARIANTS NoPeerAfterStop
PROPERTIES StopCompletes
\* Once Stop has returned and every peer is done the manager really stops.
CHECK_DEADLOCK FALSE
