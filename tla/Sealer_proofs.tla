--------------------------- MODULE Sealer_proofs ---------------------------
(***************************************************************************)
(* Proofs about the sealer of consensus/bgmash/sealer.go: the type         *)
(* invariant, and that Seal never returns or restarts while a miner of its *)
(* round runs, for every number of CPUs, thread settings and bounds.      *)
(***************************************************************************)
EXTENDS Sealer, TLAPS

(* The initial state of the engine is well typed.                         *)
LEMMA TypeInit == Init => TypeOK
<1> SUFFICES ASSUME Init PROVE TypeOK
  OBVIOUS
<1>1. calls \in 0 .. MaxCalls /\ updates \in 0 .. MaxUpdates
  BY BoundsAssumption DEF Init
<1>2. QED
  BY <1>1, ThreadsAssumption, Zenon DEF Init, TypeOK, SealPcs, MinerPcs

(* Every step of the engine keeps the variables in their types.            *)
LEMMA TypeStep == TypeOK /\ [Next]_vars => TypeOK'
<1> SUFFICES ASSUME TypeOK, [Next]_vars PROVE TypeOK'
  OBVIOUS
<1>1. CASE Call
  <2>1. calls' \in 0 .. MaxCalls
    BY <1>1, BoundsAssumption DEF Call, TypeOK
  <2>2. QED
    BY <1>1, <2>1, Zenon DEF Call, TypeOK, SealPcs
<1>2. CASE CloseStop
  BY <1>2 DEF CloseStop, TypeOK
<1>3. CASE SealFake
  BY <1>3 DEF SealFake, TypeOK, SealPcs
<1>4. CASE SealLock
  BY <1>4 DEF SealLock, TypeOK, SealPcs
<1>5. CASE SealSpawn
  BY <1>5 DEF SealSpawn, TypeOK, SealPcs, MinerPcs
<1>6. CASE SealStop
  BY <1>6 DEF SealStop, TypeOK, SealPcs
<1>7. CASE \E i \in Miner : SealFound(i)
  BY <1>7 DEF SealFound, TypeOK, SealPcs, MinerPcs
<1>8. CASE \E t \in ThreadSettings : SetThreads(t)
  <2>1. updates' \in 0 .. MaxUpdates
    BY <1>8, BoundsAssumption DEF SetThreads, TypeOK
  <2>2. QED
    BY <1>8, <2>1, Zenon DEF SetThreads, TypeOK, SealPcs
<1>9. CASE SealJoin
  BY <1>9 DEF SealJoin, TypeOK, SealPcs
<1>10. CASE SealRejoin
  BY <1>10 DEF SealRejoin, TypeOK, SealPcs
<1>11. CASE \E i \in Miner : MinerAbort(i) \/ MinerFind(i) \/ MinerDiscard(i)
  BY <1>11 DEF MinerAbort, MinerFind, MinerDiscard, TypeOK, MinerPcs
<1>12. CASE UNCHANGED vars
  BY <1>12 DEF vars, TypeOK
<1>13. QED
  BY <1>1, <1>2, <1>3, <1>4, <1>5, <1>6, <1>7, <1>8, <1>9, <1>10, <1>11, <1>12 DEF Next

(* Every step of Seal, of its miners, of the caller and of SetThreads keeps *)
(* the variables in their types.                                           *)
THEOREM TypeCorrect == Spec => []TypeOK
  BY TypeInit, TypeStep, PTL DEF Spec

(* The inductive invariant: the type invariant and JoinedWhenOutside.      *)
(* JoinedWhenOutside is inductive as it stands: a miner moves only from     *)
(* "search" or "found", which no miner is in while Seal is idle or about   *)
(* to lock; Seal leaves "join" and "rejoin" only once pend.Wait has seen   *)
(* every miner exit.                                                       *)
IInv == TypeOK /\ JoinedWhenOutside

(* No step of the miners starts or wakes a miner while all have exited.    *)
LEMMA MinersStayExited ==
  ASSUME IInv, NEW i \in Miner, MinerAbort(i) \/ MinerFind(i) \/ MinerDiscard(i)
  PROVE  sealPc \notin {"idle", "start"}
BY DEF IInv, JoinedWhenOutside, AllExited, MinerAbort, MinerFind, MinerDiscard

(* Seal returns and restarts only after pend.Wait has joined every miner   *)
(* of its round: no miner goroutine runs while Seal is idle or restarting. *)
THEOREM JoinedWhenOutsideHolds == Spec => []JoinedWhenOutside
<1>1. Init => IInv
  BY TypeInit DEF Init, IInv, JoinedWhenOutside, AllExited,
     TypeOK, SealPcs, MinerPcs
<1>2. IInv /\ [Next]_vars => IInv'
  <2> SUFFICES ASSUME IInv, [Next]_vars PROVE IInv'
    OBVIOUS
  <2>0. TypeOK'
    BY TypeStep DEF IInv
  <2> USE DEF IInv, JoinedWhenOutside
  <2>1. CASE Call
    BY <2>0, <2>1 DEF Call, AllExited
  <2>2. CASE CloseStop
    BY <2>0, <2>2 DEF CloseStop, AllExited
  <2>3. CASE SealFake
    BY <2>0, <2>3 DEF SealFake, AllExited
  <2>4. CASE SealLock
    BY <2>0, <2>4 DEF SealLock, AllExited
  <2>5. CASE SealSpawn
    BY <2>0, <2>5 DEF SealSpawn
  <2>6. CASE SealStop
    BY <2>0, <2>6 DEF SealStop
  <2>7. CASE \E i \in Miner : SealFound(i)
    BY <2>0, <2>7 DEF SealFound
  <2>8. CASE \E t \in ThreadSettings : SetThreads(t)
    BY <2>0, <2>8 DEF SetThreads, AllExited
  <2>9. CASE SealJoin
    BY <2>0, <2>9 DEF SealJoin, AllExited
  <2>10. CASE SealRejoin
    BY <2>0, <2>10 DEF SealRejoin, AllExited
  <2>11. CASE \E i \in Miner : MinerAbort(i) \/ MinerFind(i) \/ MinerDiscard(i)
    <3>1. PICK i \in Miner : MinerAbort(i) \/ MinerFind(i) \/ MinerDiscard(i)
      BY <2>11
    <3>2. sealPc \notin {"idle", "start"} /\ sealPc' = sealPc
      BY <3>1, MinersStayExited DEF MinerAbort, MinerFind, MinerDiscard
    <3>3. QED
      BY <2>0, <3>2
  <2>12. CASE UNCHANGED vars
    BY <2>0, <2>12 DEF vars, AllExited
  <2>13. QED
    BY <2>1, <2>2, <2>3, <2>4, <2>5, <2>6, <2>7, <2>8, <2>9, <2>10, <2>11, <2>12 DEF Next
<1>3. QED
  BY <1>1, <1>2, PTL DEF Spec, IInv

=============================================================================
