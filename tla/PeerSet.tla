------------------------------ MODULE PeerSet ------------------------------
(***************************************************************************)
(* What the light protocol manager promises about its peer set, without   *)
(* the goroutines, the WaitGroup and the channels that implement it: a    *)
(* peer joins only while the set is open, once; it leaves only if it     *)
(* joined; the set is closed once; and the manager is stopped only when   *)
(* the set is closed and empty, after which nothing changes.             *)
(***************************************************************************)
CONSTANT Peer

VARIABLES
  peers,     \* the peers in the set
  closed,    \* the set refuses new peers
  stopped    \* the manager's Stop has returned

vars == <<peers, closed, stopped>>

Init ==
  /\ peers = {}
  /\ closed = FALSE
  /\ stopped = FALSE

Join(p) ==
  /\ ~closed
  /\ p \notin peers
  /\ peers' = peers \cup {p}
  /\ UNCHANGED <<closed, stopped>>

Leave(p) ==
  /\ p \in peers
  /\ peers' = peers \ {p}
  /\ UNCHANGED <<closed, stopped>>

Close ==
  /\ ~closed
  /\ closed' = TRUE
  /\ UNCHANGED <<peers, stopped>>

Stopped ==
  /\ closed
  /\ peers = {}
  /\ ~stopped
  /\ stopped' = TRUE
  /\ UNCHANGED <<peers, closed>>

Next == (\E p \in Peer : Join(p) \/ Leave(p)) \/ Close \/ Stopped

Spec == Init /\ [][Next]_vars

=============================================================================
