\* Light-client mode: Stop's noMorePeers send is received by the syncer.
CONSTANTS
  p1 = p1
  p2 = p2
  Peer <- MC_Peer
  LightSync = TRUE
SPECIFICATION Spec
INVARIANTS NoPeerAfterStop
PROPERTIES StopCompletes
\* Once Stop has returned and every peer is done the manager really stops.
CHECK_DEADLOCK FALSE
