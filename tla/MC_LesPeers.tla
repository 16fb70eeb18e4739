---------------------------- MODULE MC_LesPeers ----------------------------
(* Two remote peers: enough for one to be serving while the other is still *)
(* starting when Stop runs.                                                *)
EXTENDS LesPeers

CONSTANTS p1, p2

MC_Peer == {p1, p2}

=============================================================================
