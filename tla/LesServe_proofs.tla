-------------------------- MODULE LesServe_proofs --------------------------
(***************************************************************************)
(* Proofs about handleMsg (les/handler.go): the type invariant, the       *)
(* flow-control contract with reject's cap at BufLimit, for every cost     *)
(* table, and the response-error limit of a light client.                  *)
(***************************************************************************)
EXTENDS LesServe, TLAPS

(* The initial connection is well typed.                                   *)
LEMMA TypeInit == Init => TypeOK
BY CostAssumption DEF Init, TypeOK, ExitErrs

(* The cases of handleMsg: a protocol error, a response, an announcement, *)
(* or a request, which is dropped or admitted.                            *)
LEMMA HandleShapes ==
  ASSUME NEW c \in Codes, NEW n \in Counts,
         NEW d \in BOOLEAN, NEW big \in BOOLEAN, NEW ok \in BOOLEAN, NEW sig \in BOOLEAN,
         HandleMsg(c, n, d, big, ok, sig)
  PROVE  \/ Drop("protocol") \/ ReceiveOdr(d, ok) \/ ReceiveResponse(d) \/ Announce(d, sig)
         \/ c \in Requests /\ ~Reject(c, n) /\ \E reply \in BOOLEAN : Process(c, n, reply)
BY Zenon DEF HandleMsg, ServeData, ServeTx, Serve, Requests

(* A message that is not an admitted request leaves the flow-control    *)
(* state alone and keeps the types of the client-side state.             *)
LEMMA OtherCases ==
  ASSUME TypeOK, NEW d \in BOOLEAN, NEW ok \in BOOLEAN, NEW sig \in BOOLEAN,
         \/ Drop("protocol") \/ ReceiveOdr(d, ok) \/ ReceiveResponse(d)
         \/ Announce(d, sig)
  PROVE  /\ UNCHANGED <<role, announceType, buf, charged, recharged, replies>>
         /\ open' \in BOOLEAN /\ exitErr' \in ExitErrs /\ responseErrors' \in Nat
         /\ refused' \in Nat
<1>1. CASE Deliver(ok)
  <2>1. responseErrors' \in Nat /\ refused' \in Nat
    BY <1>1 DEF Deliver, Keep, TypeOK
  <2>2. QED
    BY <1>1, <2>1 DEF Deliver, Keep, TypeOK, ExitErrs
<1>2. CASE Drop("protocol") \/ Keep
  BY <1>2 DEF Drop, Keep, TypeOK, ExitErrs
<1>3. QED
  BY <1>1, <1>2 DEF ReceiveOdr, ReceiveResponse, Announce

(* A message either leaves the flow-control state alone or processes an  *)
(* admitted request.                                                       *)
LEMMA HandleCases ==
  ASSUME TypeOK, NEW c \in Codes, NEW n \in Counts,
         NEW d \in BOOLEAN, NEW big \in BOOLEAN, NEW ok \in BOOLEAN, NEW sig \in BOOLEAN,
         HandleMsg(c, n, d, big, ok, sig)
  PROVE  /\ msgs' = msgs + 1
         /\ \/ /\ UNCHANGED <<role, announceType, buf, charged, recharged, replies>>
               /\ open' \in BOOLEAN /\ exitErr' \in ExitErrs /\ responseErrors' \in Nat
               /\ refused' \in Nat
            \/ c \in Requests /\ ~Reject(c, n) /\ \E reply \in BOOLEAN : Process(c, n, reply)
<1>1. \/ Drop("protocol") \/ ReceiveOdr(d, ok) \/ ReceiveResponse(d) \/ Announce(d, sig)
      \/ c \in Requests /\ ~Reject(c, n) /\ \E reply \in BOOLEAN : Process(c, n, reply)
  BY HandleShapes
<1>2. QED
  BY <1>1, OtherCases DEF HandleMsg

(* The cost of a request is a natural number.                              *)
LEMMA CostNat ==
  ASSUME NEW c \in Requests, NEW n \in Counts
  PROVE  Cost(c, n) \in Nat
BY CostAssumption DEF Cost

(* Serving, refusing and recharging keep the types.                        *)
LEMMA TypeStep == TypeOK /\ [Next]_vars => TypeOK'
<1> SUFFICES ASSUME TypeOK, [Next]_vars PROVE TypeOK'
  OBVIOUS
<1>1. CASE \E c \in Codes, n \in Counts, d, big, ok, sig \in BOOLEAN :
             HandleMsg(c, n, d, big, ok, sig)
  <2>1. PICK c \in Codes, n \in Counts, d, big, ok, sig \in BOOLEAN :
             HandleMsg(c, n, d, big, ok, sig)
    BY <1>1
  <2>2. msgs' \in 0 .. MaxMsgs
    BY <2>1, CostAssumption DEF HandleMsg, TypeOK
  <2>3. CASE /\ UNCHANGED <<role, announceType, buf, charged, recharged, replies>>
             /\ open' \in BOOLEAN /\ exitErr' \in ExitErrs /\ responseErrors' \in Nat
             /\ refused' \in Nat
    BY <2>2, <2>3 DEF TypeOK
  <2>4. CASE c \in Requests /\ ~Reject(c, n) /\ \E reply \in BOOLEAN : Process(c, n, reply)
    BY <2>2, <2>4, CostNat DEF Process, TypeOK
  <2>5. QED
    BY <2>1, <2>3, <2>4, HandleCases
<1>2. CASE \E r \in Recharges : Recharge(r)
  BY <1>2, CostAssumption DEF Recharge, TypeOK
<1>3. CASE UNCHANGED vars
  BY <1>3 DEF vars, TypeOK
<1>4. QED
  BY <1>1, <1>2, <1>3 DEF Next

(* The variables keep their types on every connection.                     *)
THEOREM TypeCorrect == Spec => []TypeOK
BY TypeInit, TypeStep, PTL DEF Spec

-----------------------------------------------------------------------------
(* A request costs no more than the same request at its count limit.      *)
LEMMA CostMono ==
  ASSUME NEW c \in Requests, NEW n \in Nat, n <= MaxCnt[c]
  PROVE  Cost(c, n) <= Cost(c, MaxCnt[c])
<1>1. MaxCnt[c] \in Nat /\ BaseCost[c] \in Nat /\ ReqCost[c] \in Nat
  BY CostAssumption
<1>2. n * ReqCost[c] <= MaxCnt[c] * ReqCost[c]
  BY <1>1
<1>3. QED
  BY <1>1, <1>2 DEF Cost

(* The buffer is overdrawn by at most the excess of one request at its    *)
(* count limit over BufLimit.                                              *)
Overdraft ==
  buf >= 0 \/ \E c \in Requests : buf >= BufLimit - Cost(c, MaxCnt[c])

(* The inductive invariant: the buffer holds exactly the limit plus what  *)
(* recharged minus what was charged, it never exceeds the limit, and its   *)
(* overdraft is bounded. A request whose cost reject caps is admitted only *)
(* on a full buffer, and an overdrawn buffer admits nothing, since a       *)
(* capped cost is never negative.                                          *)
IInv ==
  /\ TypeOK
  /\ buf = BufLimit + recharged - charged
  /\ buf <= BufLimit
  /\ Overdraft

(* A fresh connection starts with a full buffer.                          *)
LEMMA IInvInit == Init => IInv
BY TypeInit, CostAssumption DEF Init, IInv, Overdraft

(* An admitted request keeps the buffer within the limit and its          *)
(* overdraft bounded.                                                      *)
LEMMA AdmitKeeps ==
  ASSUME IInv, TypeOK', NEW c \in Requests, NEW n \in Counts, ~Reject(c, n),
         NEW reply \in BOOLEAN, Process(c, n, reply)
  PROVE  IInv'
<1>1. n \in Nat /\ n <= MaxCnt[c] /\ Cost(c, n) \in Nat /\ Cost(c, MaxCnt[c]) \in Nat
  BY CostAssumption, CostNat DEF Reject, Cost
<1>3. buf' = buf - Cost(c, n) /\ charged' = charged + Cost(c, n)
      /\ recharged' = recharged
  BY DEF Process
<1>4. buf \in Int /\ charged \in Nat /\ recharged \in Nat /\ BufLimit \in Nat
  BY CostAssumption DEF IInv, TypeOK
<1>2. (IF Cost(c, n) > BufLimit THEN BufLimit ELSE Cost(c, n)) <= buf
  <2>1. ~((IF Cost(c, n) > BufLimit THEN BufLimit ELSE Cost(c, n)) > buf)
    BY Zenon DEF Reject
  <2>2. QED
    BY <1>1, <1>4, <2>1
<1>5. buf' = BufLimit + recharged' - charged' /\ buf' <= BufLimit
  BY <1>1, <1>3, <1>4 DEF IInv
<1>6. Overdraft'
  <2>1. CASE Cost(c, n) <= BufLimit
    BY <1>1, <1>2, <1>3, <1>4, <2>1 DEF Overdraft
  <2>2. CASE Cost(c, n) > BufLimit
    <3>1. buf = BufLimit
      BY <1>1, <1>2, <1>4, <2>2 DEF IInv
    <3>2. buf' >= BufLimit - Cost(c, MaxCnt[c])
      BY <1>1, <1>3, <1>4, <3>1, CostMono
    <3>3. QED
      BY <3>2 DEF Overdraft
  <2>3. QED
    BY <1>1, <1>4, <2>1, <2>2
<1>8. QED
  BY <1>5, <1>6 DEF IInv

(* A recharge raises the buffer towards the limit and not past it.         *)
LEMMA RechargeKeeps ==
  ASSUME IInv, NEW r \in Recharges, Recharge(r)
  PROVE  IInv'
<1>1. r \in Nat /\ buf \in Int /\ recharged \in Nat /\ charged \in Nat /\ BufLimit \in Nat
  BY CostAssumption DEF IInv, TypeOK
<1>2. /\ buf' = IF buf + r > BufLimit THEN BufLimit ELSE buf + r
      /\ recharged' = recharged + (buf' - buf)
      /\ charged' = charged /\ buf < BufLimit
  BY DEF Recharge
<1>3. buf' >= buf /\ buf' <= BufLimit /\ buf' = BufLimit + recharged' - charged'
  BY <1>1, <1>2 DEF IInv
<1>4. Overdraft'
  <2>1. CASE buf >= 0
    BY <1>1, <1>3, <2>1 DEF Overdraft
  <2>2. CASE ~(buf >= 0)
    <3>1. PICK c \in Requests : buf >= BufLimit - Cost(c, MaxCnt[c])
      BY <2>2 DEF IInv, Overdraft
    <3>2. Cost(c, MaxCnt[c]) \in Nat
      BY CostAssumption DEF Cost
    <3>3. QED
      BY <1>1, <1>3, <3>1, <3>2 DEF Overdraft
  <2>3. QED
    BY <2>1, <2>2
<1>5. TypeOK'
  BY <1>1, <1>2, <1>3 DEF Recharge, IInv, TypeOK
<1>6. QED
  BY <1>3, <1>4, <1>5 DEF IInv

(* Every message and every recharge keeps the invariant.                   *)
LEMMA IInvStep == IInv /\ [Next]_vars => IInv'
<1> SUFFICES ASSUME IInv, [Next]_vars PROVE IInv'
  OBVIOUS
<1>0. TypeOK'
  BY TypeStep DEF IInv
<1>1. CASE \E c \in Codes, n \in Counts, d, big, ok, sig \in BOOLEAN :
             HandleMsg(c, n, d, big, ok, sig)
  <2>1. PICK c \in Codes, n \in Counts, d, big, ok, sig \in BOOLEAN :
             HandleMsg(c, n, d, big, ok, sig)
    BY <1>1
  <2>2. CASE UNCHANGED <<role, announceType, buf, charged, recharged, replies>>
    BY <1>0, <2>2 DEF IInv, Overdraft
  <2>3. CASE c \in Requests /\ ~Reject(c, n) /\ \E reply \in BOOLEAN : Process(c, n, reply)
    BY <1>0, <2>3, AdmitKeeps
  <2>4. QED
    BY <2>1, <2>2, <2>3, HandleCases DEF IInv
<1>2. CASE \E r \in Recharges : Recharge(r)
  BY <1>2, RechargeKeeps
<1>3. CASE UNCHANGED vars
  BY <1>0, <1>3 DEF vars, IInv, Overdraft
<1>4. QED
  BY <1>1, <1>2, <1>3 DEF Next

(* The flow-control contract, for every cost table: a client is never     *)
(* charged more than what its buffer recharged plus BufLimit, or plus the  *)
(* cost of one request at its count limit when reject's cap let such a    *)
(* request through, whatever it sends.                                     *)
THEOREM FlowControlBoundHolds == Spec => []FlowControlBound
<1>1. IInv => FlowControlBound
  <2> SUFFICES ASSUME IInv PROVE FlowControlBound
    OBVIOUS
  <2>1. buf \in Int /\ charged \in Nat /\ recharged \in Nat /\ BufLimit \in Nat
        /\ buf = BufLimit + recharged - charged
    BY CostAssumption DEF IInv, TypeOK
  <2>2. CASE buf >= 0
    BY <2>1, <2>2 DEF FlowControlBound
  <2>3. CASE ~(buf >= 0)
    <3>1. PICK c \in Requests : buf >= BufLimit - Cost(c, MaxCnt[c])
      BY <2>3 DEF IInv, Overdraft
    <3>2. Cost(c, MaxCnt[c]) \in Nat
      BY CostAssumption DEF Cost
    <3>3. QED
      BY <2>1, <3>1, <3>2 DEF FlowControlBound
  <2>4. QED
    BY <2>2, <2>3
<1>2. QED
  BY <1>1, IInvStep, IInvInit, PTL DEF Spec

-----------------------------------------------------------------------------
(* The response-error limit is inductive with the types and the fact that *)
(* p.responseErrors counts every refusal of the connection: the count     *)
(* moves only on an open connection, by one, and the step that takes it   *)
(* past the limit is the one that closes the connection.                  *)
EInv ==
  /\ TypeOK
  /\ open = (exitErr = "none")
  /\ refused = responseErrors
  /\ ResponseErrorLimit

(* A fresh connection has no response errors.                              *)
LEMMA EInvInit == Init => EInv
<1> SUFFICES ASSUME Init PROVE EInv
  OBVIOUS
<1>1. TypeOK
  BY TypeInit
<1>2. open = (exitErr = "none")
  BY Zenon DEF Init
<1>3. refused = responseErrors /\ ResponseErrorLimit
  BY CostAssumption DEF Init, ResponseErrorLimit
<1>4. QED
  BY <1>1, <1>2, <1>3 DEF EInv

(* A refused response keeps the limit: it either stays within it or is   *)
(* the one refusal past it, which drops the server.                        *)
LEMMA DeliverKeepsLimit ==
  ASSUME EInv, open, NEW ok \in BOOLEAN, Deliver(ok)
  PROVE  /\ open' = (exitErr' = "none")
         /\ refused' = responseErrors' /\ ResponseErrorLimit'
<1>1. CASE ok
  <2>1. UNCHANGED <<open, exitErr, refused, responseErrors>>
    BY <1>1 DEF Deliver, Keep
  <2>2. QED
    BY <2>1 DEF EInv, ResponseErrorLimit
<1>2. CASE ~ok
  <2>1. responseErrors \in Nat /\ responseErrors <= MaxResponseErrors
        /\ MaxResponseErrors \in Nat /\ refused = responseErrors
    BY CostAssumption DEF EInv, TypeOK, ResponseErrorLimit
  <2>2. responseErrors' = responseErrors + 1 /\ refused' = refused + 1
    BY <1>2 DEF Deliver, Keep
  <2>3. CASE responseErrors' > MaxResponseErrors
    <3>1. responseErrors' = MaxResponseErrors + 1 /\ refused' = responseErrors'
      BY <2>1, <2>2, <2>3
    <3>2. open' = FALSE /\ exitErr' = "delivery"
      BY <1>2, <2>3 DEF Deliver, Keep
    <3>3. QED
      BY <3>1, <3>2 DEF ResponseErrorLimit
  <2>4. CASE ~(responseErrors' > MaxResponseErrors)
    <3>1. refused' <= MaxResponseErrors /\ refused' = responseErrors'
      BY <2>1, <2>2, <2>4
    <3>2. open' = open /\ exitErr' = exitErr
      BY <1>2, <2>4 DEF Deliver, Keep
    <3>3. exitErr = "none"
      BY Zenon DEF EInv
    <3>4. QED
      BY <3>1, <3>2, <3>3 DEF ResponseErrorLimit
  <2>5. QED
    BY <2>3, <2>4
<1>3. QED
  BY <1>1, <1>2

(* A message that drops the peer, or changes nothing of the delivery      *)
(* state, keeps the limit.                                                 *)
LEMMA QuietKeepsLimit ==
  ASSUME EInv, open,
         \/ Drop("protocol")
         \/ UNCHANGED <<open, exitErr, refused, responseErrors>>
  PROVE  /\ open' = (exitErr' = "none")
         /\ refused' = responseErrors' /\ ResponseErrorLimit'
<1>1. CASE Drop("protocol")
  <2>1. open' = FALSE /\ exitErr' = "protocol" /\ UNCHANGED <<refused, responseErrors>>
    BY <1>1 DEF Drop
  <2>2. QED
    BY <2>1 DEF EInv, ResponseErrorLimit
<1>2. CASE UNCHANGED <<open, exitErr, refused, responseErrors>>
  BY <1>2 DEF EInv, ResponseErrorLimit
<1>3. QED
  BY <1>1, <1>2

(* Every message and every recharge keeps the limit.                       *)
LEMMA EInvStep == EInv /\ [Next]_vars => EInv'
<1> SUFFICES ASSUME EInv, [Next]_vars PROVE EInv'
  OBVIOUS
<1>0. TypeOK'
  BY TypeStep DEF EInv
<1>1. CASE \E c \in Codes, n \in Counts, d, big, ok, sig \in BOOLEAN :
             HandleMsg(c, n, d, big, ok, sig)
  <2>1. PICK c \in Codes, n \in Counts, d, big, ok, sig \in BOOLEAN :
             HandleMsg(c, n, d, big, ok, sig)
    BY <1>1
  <2>2. open
    BY <2>1 DEF HandleMsg
  <2>3. CASE Drop("protocol") \/ ReceiveResponse(d) \/ Announce(d, sig)
        \/ (role = "server" /\ Drop("protocol")) \/ (role = "client" /\ ~d /\ Drop("protocol"))
    <3>1. \/ Drop("protocol")
          \/ UNCHANGED <<open, exitErr, refused, responseErrors>>
      BY <2>3 DEF Keep, ReceiveResponse, Announce
    <3>2. QED
      BY <1>0, <2>2, <3>1, QuietKeepsLimit DEF EInv
  <2>4. CASE role = "client" /\ d /\ Deliver(ok)
    BY <1>0, <2>2, <2>4, DeliverKeepsLimit DEF EInv
  <2>5. CASE c \in Requests /\ ~Reject(c, n) /\ \E reply \in BOOLEAN : Process(c, n, reply)
    <3>1. UNCHANGED <<open, exitErr, refused, responseErrors>>
      BY <2>5 DEF Process
    <3>2. QED
      BY <1>0, <2>2, <3>1, QuietKeepsLimit DEF EInv
  <2>6. QED
    BY <2>1, <2>3, <2>4, <2>5, HandleShapes DEF ReceiveOdr
<1>2. CASE \E r \in Recharges : Recharge(r)
  <2>1. UNCHANGED <<open, exitErr, refused, responseErrors>>
    BY <1>2 DEF Recharge
  <2>2. QED
    BY <1>0, <2>1 DEF EInv, ResponseErrorLimit
<1>3. CASE UNCHANGED vars
  BY <1>0, <1>3 DEF vars, EInv, ResponseErrorLimit
<1>4. QED
  BY <1>1, <1>2, <1>3 DEF Next

(* A light client drops its server exactly at the refusal that takes the  *)
(* responses refused over the whole connection past maxResponseErrors,    *)
(* and not before, however far apart the refusals are, for every limit    *)
(* and every mix of responses, announcements and requests.               *)
THEOREM ResponseErrorLimitHolds == Spec => []ResponseErrorLimit
<1>1. EInv => ResponseErrorLimit
  BY DEF EInv
<1>2. QED
  BY <1>1, EInvInit, EInvStep, PTL DEF Spec

=============================================================================
