------------------------------ MODULE LesPeers ------------------------------
(***************************************************************************)
(* Peer lifecycle of the light protocol manager (les/handler.go): the p2p  *)
(* Run callback offers each new peer on newPeerCh or gives up when         *)
(* quitSync is closed; an accepted peer is counted in the WaitGroup,       *)
(* handshakes, registers in the peer set and serves messages until its    *)
(* connection fails; Stop quits the loop that reads newPeerCh, closes      *)
(* quitSync and the peer set, then waits on the WaitGroup.                 *)
(*                                                                         *)
(* The loop that receives newPeerCh is the syncer in light-client mode     *)
(* (it also receives noMorePeers and then returns) and, in server mode,   *)
(* the goroutine of Start that drains newPeerCh and receives nothing else; *)
(* there the server's Stop (les/server.go, not in this snapshot) drains    *)
(* noMorePeers in a goroutine of its own before it calls pm.Stop.          *)
(***************************************************************************)
EXTENDS Integers, FiniteSets

CONSTANTS
  Peer,       \* remote peers that connect
  LightSync   \* pm.lightSync: light client (TRUE) or server (FALSE)

ASSUME PeerAssumption == IsFiniteSet(Peer)
ASSUME LightSyncAssumption == LightSync \in BOOLEAN

VARIABLES
  peerPc,       \* where each peer's Run goroutine is
  wg,           \* the counter of pm.wg
  registered,   \* peers in pm.peers
  disconnected, \* peers whose connection pm.peers.Close() has closed
  loopUp,       \* the goroutine reading newPeerCh is running
  stopPc,       \* where Stop is
  quitClosed,   \* pm.quitSync is closed
  setClosed     \* pm.peers is closed

vars == <<peerPc, wg, registered, disconnected, loopUp, stopPc, quitClosed,
          setClosed>>

PeerPcs == {"absent", "offer", "accepted", "handshake", "serving", "done"}
StopPcs == {"running", "noMore", "quit", "close", "wait", "stopped"}

TypeOK ==
  /\ peerPc \in [Peer -> PeerPcs]
  /\ wg \in Nat
  /\ registered \subseteq Peer
  /\ disconnected \subseteq Peer
  /\ loopUp \in BOOLEAN
  /\ stopPc \in StopPcs
  /\ quitClosed \in BOOLEAN
  /\ setClosed \in BOOLEAN

(* After Start: the loop reading newPeerCh runs, nothing is connected.    *)
Init ==
  /\ peerPc = [p \in Peer |-> "absent"]
  /\ wg = 0
  /\ registered = {}
  /\ disconnected = {}
  /\ loopUp = TRUE
  /\ stopPc = "running"
  /\ quitClosed = FALSE
  /\ setClosed = FALSE

-----------------------------------------------------------------------------
(* The p2p server runs the protocol for a newly connected peer.            *)
Connect(p) ==
  /\ peerPc[p] = "absent"
  /\ peerPc' = [peerPc EXCEPT ![p] = "offer"]
  /\ UNCHANGED <<wg, registered, disconnected, loopUp, stopPc, quitClosed, setClosed>>

(* Run: case manager.newPeerCh <- peer, received by the loop (lines       *)
(* 171-172; Start 221-230).                                                *)
Accept(p) ==
  /\ peerPc[p] = "offer"
  /\ loopUp
  /\ peerPc' = [peerPc EXCEPT ![p] = "accepted"]
  /\ UNCHANGED <<wg, registered, disconnected, loopUp, stopPc, quitClosed, setClosed>>

(* Run: case <-manager.quitSync: return p2p.DiscQuitting (180-184).        *)
Quit(p) ==
  /\ peerPc[p] = "offer"
  /\ quitClosed
  /\ peerPc' = [peerPc EXCEPT ![p] = "done"]
  /\ UNCHANGED <<wg, registered, disconnected, loopUp, stopPc, quitClosed, setClosed>>

(* Run: manager.wg.Add(1) after the send, then handle(peer) (173-175).     *)
WgAdd(p) ==
  /\ peerPc[p] = "accepted"
  /\ wg' = wg + 1
  /\ peerPc' = [peerPc EXCEPT ![p] = "handshake"]
  /\ UNCHANGED <<registered, disconnected, loopUp, stopPc, quitClosed, setClosed>>

(* handle: the handshake fails (or times out) and handle returns; the     *)
(* deferred wg.Done() of Run runs (262-270).                               *)
HandshakeFail(p) ==
  /\ peerPc[p] = "handshake"
  /\ wg' = wg - 1
  /\ peerPc' = [peerPc EXCEPT ![p] = "done"]
  /\ UNCHANGED <<registered, disconnected, loopUp, stopPc, quitClosed, setClosed>>

(* Mutant: a peer set that still takes registrations after Close.        *)
RegisterIgnoringClosed(p) ==
  /\ peerPc[p] = "handshake"
  /\ registered' = registered \cup {p}
  /\ peerPc' = [peerPc EXCEPT ![p] = "serving"]
  /\ UNCHANGED <<wg, disconnected, loopUp, stopPc, quitClosed, setClosed>>

(* handle: after a good handshake, pm.peers.Register(p); it fails once the *)
(* peer set is closed, and handle returns (271-278).                       *)
Register(p) ==
  /\ peerPc[p] = "handshake"
  /\ \/ /\ setClosed
        /\ wg' = wg - 1
        /\ peerPc' = [peerPc EXCEPT ![p] = "done"]
        /\ UNCHANGED registered
     \/ /\ ~setClosed
        /\ registered' = registered \cup {p}
        /\ peerPc' = [peerPc EXCEPT ![p] = "serving"]
        /\ UNCHANGED wg
  /\ UNCHANGED <<disconnected, loopUp, stopPc, quitClosed, setClosed>>

(* handle's loop: handleMsg returns an error (a read error once the        *)
(* connection is closed, or a protocol violation of the remote); the       *)
(* deferred removePeer unregisters the peer, then wg.Done() (279-284,      *)
(* 313-319).                                                               *)
HandlerExit(p) ==
  /\ peerPc[p] = "serving"
  /\ registered' = registered \ {p}
  /\ wg' = wg - 1
  /\ peerPc' = [peerPc EXCEPT ![p] = "done"]
  /\ UNCHANGED <<disconnected, loopUp, stopPc, quitClosed, setClosed>>

(* Stop is called (node shutdown).                                         *)
StopCalled ==
  /\ stopPc = "running"
  /\ stopPc' = "noMore"
  /\ UNCHANGED <<peerPc, wg, registered, disconnected, loopUp, quitClosed, setClosed>>

(* Stop: pm.noMorePeers <- struct{}{} (239); the unbuffered send completes *)
(* when its receiver takes it. In light-client mode that is the syncer,    *)
(* which then returns and stops reading newPeerCh. In server mode it is   *)
(* the goroutine the caller, LesServer.Stop, starts to drain noMorePeers   *)
(* before it calls pm.Stop; Start's loop draining newPeerCh keeps running. *)
StopNoMorePeers ==
  /\ stopPc = "noMore"
  /\ \/ LightSync /\ loopUp /\ loopUp' = FALSE
     \/ ~LightSync /\ UNCHANGED loopUp
  /\ stopPc' = "quit"
  /\ UNCHANGED <<peerPc, wg, registered, disconnected, quitClosed, setClosed>>

(* Stop: close(pm.quitSync) (241).                                         *)
StopQuit ==
  /\ stopPc = "quit"
  /\ quitClosed' = TRUE
  /\ stopPc' = "close"
  /\ UNCHANGED <<peerPc, wg, registered, disconnected, loopUp, setClosed>>

(* Mutant: a Close that marks the set closed but leaves connections open. *)
StopClosePeersKeepConns ==
  /\ stopPc = "close"
  /\ setClosed' = TRUE
  /\ stopPc' = "wait"
  /\ UNCHANGED <<peerPc, wg, registered, disconnected, loopUp, quitClosed>>

(* Stop: pm.peers.Close() (247): every registered peer is disconnected and *)
(* later registrations fail.                                               *)
StopClosePeers ==
  /\ stopPc = "close"
  /\ setClosed' = TRUE
  /\ disconnected' = disconnected \cup registered
  /\ stopPc' = "wait"
  /\ UNCHANGED <<peerPc, wg, registered, loopUp, quitClosed>>

(* Stop: pm.wg.Wait() returns when the counter is zero (250).              *)
StopWait ==
  /\ stopPc = "wait"
  /\ wg = 0
  /\ stopPc' = "stopped"
  /\ UNCHANGED <<peerPc, wg, registered, disconnected, loopUp, quitClosed, setClosed>>

Next ==
  \/ \E p \in Peer :
       \/ Connect(p) \/ Accept(p) \/ Quit(p) \/ WgAdd(p)
       \/ HandshakeFail(p) \/ Register(p) \/ HandlerExit(p)
  \/ StopCalled \/ StopNoMorePeers \/ StopQuit \/ StopClosePeers \/ StopWait

(* Goroutines are scheduled; a handshake ends (it has a timeout); a closed *)
(* connection makes the next read fail. A remote peer need not connect,   *)
(* nor misbehave, and Stop need not be called.                             *)
Fairness ==
  /\ \A p \in Peer :
       /\ WF_vars(Accept(p)) /\ WF_vars(Quit(p)) /\ WF_vars(WgAdd(p))
       /\ WF_vars(HandshakeFail(p) \/ Register(p))
       /\ WF_vars(p \in disconnected /\ HandlerExit(p))
  /\ WF_vars(StopNoMorePeers) /\ WF_vars(StopQuit) /\ WF_vars(StopClosePeers)
  /\ WF_vars(StopWait)

Spec == Init /\ [][Next]_vars /\ Fairness

-----------------------------------------------------------------------------
(* Once Stop has been called it returns: the syncer takes noMorePeers, the *)
(* closed peer set makes every handler return and the WaitGroup drains.    *)
StopCompletes == (stopPc # "running") ~> (stopPc = "stopped")

(* When Stop has returned no peer is left in the peer set: every           *)
(* registered handler was disconnected, unregistered itself and was waited *)
(* for, and a handler that was still starting could not register.          *)
NoPeerAfterStop == stopPc = "stopped" => registered = {}

(* The manager implements the abstract peer set of PeerSet: pm.peers is  *)
(* the set, its Close is the close, and the return of Stop is the stop.  *)
PS == INSTANCE PeerSet WITH peers <- registered, closed <- setClosed,
                            stopped <- (stopPc = "stopped")

(* Every behaviour of the manager is one of the abstract peer set: a peer *)
(* registers only before pm.peers.Close() and only once, and Stop returns *)
(* only when the set is closed and empty, however handshakes, handler    *)
(* exits and Stop's steps interleave.                                      *)
ImplementsPeerSet == PS!Spec

(* When Stop has returned no handler goroutine of this manager is still    *)
(* running: pm.wg.Wait() is meant to wait for every accepted peer.         *)
NoHandlerAfterStop ==
  stopPc = "stopped" => \A p \in Peer : peerPc[p] \notin {"accepted", "handshake", "serving"}

=============================================================================
