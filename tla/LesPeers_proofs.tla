-------------------------- MODULE LesPeers_proofs --------------------------
(***************************************************************************)
(* Proofs about the peer lifecycle of the light protocol manager           *)
(* (les/handler.go): the type invariant, and that no peer is left in the  *)
(* peer set once Stop has returned, for every finite set of peers, in     *)
(* light-client and in server mode.                                        *)
(***************************************************************************)
EXTENDS LesPeers, FiniteSetTheorems, TLAPS

(* The peers whose Run goroutine has done wg.Add(1) and not yet returned: *)
(* the ones handle is running for.                                          *)
Active == {p \in Peer : peerPc[p] \in {"handshake", "serving"}}

(* The peers handle has registered and not yet removed.                    *)
Serving == {p \in Peer : peerPc[p] = "serving"}

(* The inductive invariant behind NoPeerAfterStop. The WaitGroup counts    *)
(* exactly the running handlers, the peer set holds exactly the serving   *)
(* ones, and the set is closed before Stop waits: so when wg.Wait returns  *)
(* no handler is serving, and none can register afterwards.                *)
IInv ==
  /\ TypeOK
  /\ wg = Cardinality(Active)
  /\ registered = Serving
  /\ stopPc \in {"wait", "stopped"} => setClosed
  /\ NoPeerAfterStop

(* Every set of peers is finite and has a natural number of elements.    *)
LEMMA PeerSetsFinite ==
  ASSUME NEW S \in SUBSET Peer
  PROVE  IsFiniteSet(S) /\ Cardinality(S) \in Nat
BY PeerAssumption, FS_Subset, FS_CardinalityType

(* A peer entering handle adds one to the running handlers.               *)
LEMMA ActiveAdd ==
  ASSUME NEW p \in Peer, p \notin Active,
         Active' = Active \cup {p}
  PROVE  Cardinality(Active') = Cardinality(Active) + 1
<1>1. IsFiniteSet(Active)
  BY PeerSetsFinite DEF Active
<1>2. QED
  BY <1>1, FS_AddElement

(* A peer whose handle returns removes one from the running handlers.     *)
LEMMA ActiveRemove ==
  ASSUME NEW p \in Peer, p \in Active,
         Active' = Active \ {p}
  PROVE  Cardinality(Active') = Cardinality(Active) - 1
<1>1. IsFiniteSet(Active)
  BY PeerSetsFinite DEF Active
<1>2. QED
  BY <1>1, FS_RemoveElement

(* The state after Start satisfies the invariant.                          *)
LEMMA IInvInit == Init => IInv
<1> SUFFICES ASSUME Init PROVE IInv
  OBVIOUS
<1>1. Active = {} /\ Serving = {}
  BY DEF Init, Active, Serving
<1>2. QED
  BY <1>1, FS_EmptySet DEF Init, IInv, TypeOK, PeerPcs, StopPcs, NoPeerAfterStop

(* The steps of one peer's Run goroutine keep the invariant.               *)
LEMMA PeerStep ==
  ASSUME IInv, NEW p \in Peer,
         Connect(p) \/ Accept(p) \/ Quit(p) \/ WgAdd(p)
           \/ HandshakeFail(p) \/ Register(p) \/ HandlerExit(p)
  PROVE  IInv'
<1> USE DEF IInv, TypeOK, PeerPcs
<1>1. CASE Connect(p) \/ Accept(p) \/ Quit(p)
  <2>1. Active' = Active /\ Serving' = Serving
    BY <1>1 DEF Connect, Accept, Quit, Active, Serving
  <2>2. QED
    BY <1>1, <2>1 DEF Connect, Accept, Quit, NoPeerAfterStop
<1>2. CASE WgAdd(p)
  <2>1. p \notin Active /\ Active' = Active \cup {p} /\ Serving' = Serving
    BY <1>2 DEF WgAdd, Active, Serving
  <2>2. wg' = Cardinality(Active')
    BY <1>2, <2>1, ActiveAdd DEF WgAdd
  <2>3. QED
    BY <1>2, <2>1, <2>2 DEF WgAdd, NoPeerAfterStop
<1>3. CASE HandshakeFail(p) \/ (Register(p) /\ setClosed)
  <2>1. peerPc[p] = "handshake" /\ peerPc' = [peerPc EXCEPT ![p] = "done"]
        /\ wg' = wg - 1 /\ registered' = registered
    BY <1>3 DEF HandshakeFail, Register
  <2>2. p \in Active /\ Active' = Active \ {p} /\ Serving' = Serving
    BY <2>1 DEF Active, Serving
  <2>3. wg' = Cardinality(Active') /\ wg' \in Nat
    BY <2>1, <2>2, ActiveRemove, PeerSetsFinite DEF Active
  <2>4. QED
    BY <1>3, <2>1, <2>2, <2>3 DEF HandshakeFail, Register, NoPeerAfterStop
<1>4. CASE Register(p) /\ ~setClosed
  <2>1. peerPc[p] = "handshake" /\ peerPc' = [peerPc EXCEPT ![p] = "serving"]
        /\ wg' = wg /\ registered' = registered \cup {p}
    BY <1>4 DEF Register
  <2>2. Active' = Active /\ Serving' = Serving \cup {p}
    BY <2>1 DEF Active, Serving
  <2>3. stopPc \notin {"wait", "stopped"}
    BY <1>4
  <2>4. QED
    BY <1>4, <2>1, <2>2, <2>3 DEF Register, NoPeerAfterStop
<1>5. CASE HandlerExit(p)
  <2>1. peerPc[p] = "serving" /\ peerPc' = [peerPc EXCEPT ![p] = "done"]
        /\ wg' = wg - 1 /\ registered' = registered \ {p}
    BY <1>5 DEF HandlerExit
  <2>2. p \in Active /\ Active' = Active \ {p} /\ Serving' = Serving \ {p}
    BY <2>1 DEF Active, Serving
  <2>3. wg' = Cardinality(Active') /\ wg' \in Nat
    BY <2>1, <2>2, ActiveRemove, PeerSetsFinite DEF Active
  <2>4. QED
    BY <1>5, <2>1, <2>2, <2>3 DEF HandlerExit, NoPeerAfterStop
<1>6. QED
  BY <1>1, <1>2, <1>3, <1>4, <1>5 DEF Register

(* The steps of Stop keep the invariant; wg.Wait returns only when no     *)
(* handler runs, so none is serving.                                        *)
LEMMA StopStep ==
  ASSUME IInv,
         StopCalled \/ StopNoMorePeers \/ StopQuit \/ StopClosePeers \/ StopWait
  PROVE  IInv'
<1> USE DEF IInv, TypeOK, StopPcs
<1>1. UNCHANGED <<peerPc, wg, registered>>
  BY DEF StopCalled, StopNoMorePeers, StopQuit, StopClosePeers, StopWait
<1>2. Active' = Active /\ Serving' = Serving
  BY <1>1 DEF Active, Serving
<1>3. CASE StopWait
  <2>1. Cardinality(Active) = 0 /\ IsFiniteSet(Active)
    BY <1>3, PeerSetsFinite DEF StopWait, Active
  <2>2. Serving = {}
    BY <2>1, FS_EmptySet DEF Active, Serving
  <2>3. QED
    BY <1>1, <1>2, <1>3, <2>2 DEF StopWait, NoPeerAfterStop
<1>4. QED
  BY <1>1, <1>2, <1>3 DEF StopCalled, StopNoMorePeers, StopQuit, StopClosePeers,
     NoPeerAfterStop

(* Every step of the manager, its peers and Stop keeps the invariant.      *)
LEMMA IInvStep == IInv /\ [Next]_vars => IInv'
<1> SUFFICES ASSUME IInv, [Next]_vars PROVE IInv'
  OBVIOUS
<1>1. CASE \E p \in Peer :
             \/ Connect(p) \/ Accept(p) \/ Quit(p) \/ WgAdd(p)
             \/ HandshakeFail(p) \/ Register(p) \/ HandlerExit(p)
  BY <1>1, PeerStep
<1>2. CASE StopCalled \/ StopNoMorePeers \/ StopQuit \/ StopClosePeers \/ StopWait
  BY <1>2, StopStep
<1>3. CASE UNCHANGED vars
  <2>1. Active' = Active /\ Serving' = Serving
    BY <1>3 DEF vars, Active, Serving
  <2>2. QED
    BY <1>3, <2>1 DEF vars, IInv, TypeOK, NoPeerAfterStop
<1>4. QED
  BY <1>1, <1>2, <1>3 DEF Next

(* The manager's variables keep their types through every interleaving of *)
(* peers and Stop.                                                          *)
THEOREM TypeCorrect == Spec => []TypeOK
<1>1. IInv => TypeOK
  BY DEF IInv
<1>2. QED
  BY <1>1, IInvInit, IInvStep, PTL DEF Spec

(* When Stop has returned the peer set is empty, in light-client and in   *)
(* server mode, however many peers were handshaking, serving or still     *)
(* offering themselves when it was called.                                 *)
THEOREM NoPeerAfterStopHolds == Spec => []NoPeerAfterStop
<1>1. IInv => NoPeerAfterStop
  BY DEF IInv
<1>2. QED
  BY <1>1, IInvInit, IInvStep, PTL DEF Spec

-----------------------------------------------------------------------------
(* The refinement of PeerSet. Its invariant adds to IInv the converse of  *)
(* its last conjunct: the peer set is closed only from the moment Stop    *)
(* waits, so the close of pm.peers happens once.                          *)
RInv == IInv /\ (setClosed => stopPc \in {"wait", "stopped"})

(* After Start the set is open.                                            *)
LEMMA RInvInit == Init => RInv
BY IInvInit DEF Init, RInv

(* Only Stop's close step closes the set, and Stop never goes back.       *)
LEMMA RInvStep == RInv /\ [Next]_vars => RInv'
<1> SUFFICES ASSUME RInv, [Next]_vars PROVE RInv'
  OBVIOUS
<1>1. IInv'
  BY IInvStep DEF RInv
<1>2. setClosed' => stopPc' \in {"wait", "stopped"}
  BY DEF RInv, Next, Connect, Accept, Quit, WgAdd, HandshakeFail, Register,
         HandlerExit, StopCalled, StopNoMorePeers, StopQuit, StopClosePeers,
         StopWait, vars
<1>3. QED
  BY <1>1, <1>2 DEF RInv

(* When wg.Wait returns no peer is registered.                             *)
LEMMA EmptyAtWait ==
  ASSUME IInv, wg = 0
  PROVE  registered = {}
<1>1. Cardinality(Active) = 0 /\ IsFiniteSet(Active)
  BY PeerSetsFinite DEF IInv, Active
<1>2. Active = {}
  BY <1>1, FS_EmptySet
<1>3. QED
  BY <1>2 DEF IInv, Active, Serving

(* Each step of the manager is a step of PeerSet or leaves the set, its   *)
(* closed flag and the stopped flag alone.                                 *)
LEMMA RefineStep == RInv /\ [Next]_vars => [PS!Next]_PS!vars
<1> SUFFICES ASSUME RInv, [Next]_vars PROVE [PS!Next]_PS!vars
  OBVIOUS
<1> USE DEF PS!vars
<1>1. CASE \E p \in Peer : Connect(p) \/ Accept(p) \/ Quit(p) \/ WgAdd(p)
                             \/ HandshakeFail(p)
  BY <1>1 DEF Connect, Accept, Quit, WgAdd, HandshakeFail
<1>2. CASE \E p \in Peer : Register(p)
  <2>1. PICK p \in Peer : Register(p)
    BY <1>2
  <2>2. CASE setClosed
    BY <2>1, <2>2 DEF Register
  <2>3. CASE ~setClosed
    <3>1. p \notin registered
      BY <2>1 DEF Register, RInv, IInv, Serving
    <3>2. PS!Join(p)
      BY <2>1, <2>3, <3>1 DEF Register, PS!Join
    <3>3. QED
      BY <3>2 DEF PS!Next
  <2>4. QED
    BY <2>2, <2>3
<1>3. CASE \E p \in Peer : HandlerExit(p)
  <2>1. PICK p \in Peer : HandlerExit(p)
    BY <1>3
  <2>2. p \in registered
    BY <2>1 DEF HandlerExit, RInv, IInv, Serving
  <2>3. PS!Leave(p)
    BY <2>1, <2>2 DEF HandlerExit, PS!Leave
  <2>4. QED
    BY <2>3 DEF PS!Next
<1>4. CASE StopCalled \/ StopNoMorePeers \/ StopQuit
  BY <1>4 DEF StopCalled, StopNoMorePeers, StopQuit
<1>5. CASE StopClosePeers
  <2>1. PS!Close
    BY <1>5 DEF StopClosePeers, RInv, PS!Close
  <2>2. QED
    BY <2>1 DEF PS!Next
<1>6. CASE StopWait
  <2>1. registered = {} /\ setClosed
    BY <1>6, EmptyAtWait DEF StopWait, RInv, IInv
  <2>2. PS!Stopped
    BY <1>6, <2>1 DEF StopWait, PS!Stopped
  <2>3. QED
    BY <2>2 DEF PS!Next
<1>7. CASE UNCHANGED vars
  BY <1>7 DEF vars
<1>8. QED
  BY <1>1, <1>2, <1>3, <1>4, <1>5, <1>6, <1>7 DEF Next

(* The manager implements the abstract peer set, in light-client and      *)
(* server mode, for every finite set of peers: a peer registers only      *)
(* before pm.peers.Close() and once, the set is closed once, and Stop     *)
(* returns only when it is closed and empty.                               *)
THEOREM ImplementsPeerSetHolds == Spec => ImplementsPeerSet
<1>1. Init => PS!Init
  BY DEF Init, PS!Init
<1>2. QED
  BY <1>1, RInvInit, RInvStep, RefineStep, PTL DEF Spec, ImplementsPeerSet, PS!Spec

=============================================================================
