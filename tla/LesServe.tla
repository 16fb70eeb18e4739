------------------------------ MODULE LesServe ------------------------------
(***************************************************************************)
(* One connection of a light-protocol node as handleMsg (les/handler.go)  *)
(* processes it, message after message, on the peer's handler goroutine.  *)
(* The node is either a server reading a light client (p.fcClient set,    *)
(* pm.odr and pm.downloader nil) or a light client reading its server     *)
(* (p.fcClient nil, pm.odr, pm.downloader and pm.fetcher set). On a       *)
(* server a request is admitted by reject against the flow-control buffer *)
(* it keeps for the client, served, charged with RequestProcessed and     *)
(* answered. On a client every request is rejected, and a response is    *)
(* credited to the server's flow control (GotReply) and, for the ODR      *)
(* responses, handed to the retriever; a response the retriever refuses  *)
(* counts in p.responseErrors, which is never reset. Any error return of  *)
(* handleMsg drops the peer.                                               *)
(*                                                                         *)
(* The flow-control nodes (les/flowcontrol) and the retriever are not     *)
(* part of this snapshot: the buffer is a number that RequestProcessed    *)
(* lowers by the cost it is given and that recharges over time up to      *)
(* BufLimit, and whether the retriever accepts a response is an input.    *)
(* The content of a message is abstracted to its code, its request count, *)
(* whether it decodes and whether its signature checks; GetBlockHeaders   *)
(* is the module LesHeaders.                                               *)
(***************************************************************************)
EXTENDS Integers

CONSTANTS
  MaxCnt,       \* MaxCnt[c]: the per-message limit reject is given for request c
  BaseCost,     \* BaseCost[c]: costs.baseCost of p.fcCosts[c]
  ReqCost,      \* ReqCost[c]: costs.reqCost of p.fcCosts[c]
  BufLimit,     \* pm.server.defParams.BufLimit
  Recharges,    \* amounts the buffer may recharge by in one tick
  Counts,       \* request counts a client may send
  MaxResponseErrors, \* maxResponseErrors
  MaxMsgs       \* bound: messages read from the connection

(* The request codes of reqList (line 322) other than GetBlockHeaders.    *)
DataRequests == {"GetBlockBodies", "GetCode", "GetReceipts", "GetProofsV1",
                 "GetProofsV2", "GetHeaderProofs", "GetHelperTrieProofs"}
TxRequests == {"SendTx", "SendTxV2", "GetTxStatus"}
Requests == DataRequests \cup TxRequests
(* The responses a client hands to the retriever (deliverMsg is set).     *)
OdrResponses == {"BlockBodies", "Code", "Receipts", "ProofsV1", "ProofsV2",
                 "HeaderProofs", "HelperTrieProofs"}
(* The responses that go to the fetcher, the downloader or nowhere.      *)
OtherResponses == {"BlockHeaders", "TxStatus"}
(* "Other": a status message or an unknown code.                         *)
Codes == Requests \cup OdrResponses \cup OtherResponses \cup {"Announce", "Other"}

Roles == {"server", "client"}
(* p.requestAnnounceType, as the handshake agreed it.                     *)
AnnounceTypes == {"none", "simple", "signed"}
(* What handleMsg returned: nothing yet, a protocol error, or the         *)
(* retriever's error once the response errors pass the limit.            *)
ExitErrs == {"none", "protocol", "delivery"}

ASSUME CostAssumption ==
  /\ MaxCnt \in [Requests -> Nat] /\ BaseCost \in [Requests -> Nat]
  /\ ReqCost \in [Requests -> Nat]
  /\ BufLimit \in Nat /\ Recharges \subseteq Nat /\ Counts \subseteq Nat
  /\ MaxResponseErrors \in Nat /\ MaxMsgs \in Nat

VARIABLES
  role,           \* this node serves the peer or is its light client
  announceType,   \* p.requestAnnounceType
  open,           \* the connection is up: handleMsg has returned no error
  exitErr,        \* the error handleMsg returned
  buf,            \* the buffer value the server's fcClient holds for the peer
  charged,        \* total cost RequestProcessed was given
  recharged,      \* total the buffer recharged by
  replies,        \* replies sent to the peer
  responseErrors, \* p.responseErrors
  refused,        \* history: responses the retriever refused on this connection
  msgs            \* messages read

vars == <<role, announceType, open, exitErr, buf, charged, recharged, replies,
          responseErrors, refused, msgs>>

TypeOK ==
  /\ role \in Roles /\ announceType \in AnnounceTypes
  /\ open \in BOOLEAN /\ exitErr \in ExitErrs
  /\ buf \in Int
  /\ charged \in Nat /\ recharged \in Nat
  /\ replies \in Nat /\ responseErrors \in Nat /\ refused \in Nat
  /\ msgs \in 0 .. MaxMsgs

Init ==
  /\ role \in Roles /\ announceType \in AnnounceTypes
  /\ open = TRUE /\ exitErr = "none"
  /\ buf = BufLimit
  /\ charged = 0 /\ recharged = 0
  /\ replies = 0 /\ responseErrors = 0 /\ refused = 0
  /\ msgs = 0

-----------------------------------------------------------------------------
(* costs.baseCost + reqCnt*costs.reqCost, the cost of a request.          *)
Cost(c, n) == BaseCost[c] + n * ReqCost[c]

(* Mutant: the buffer value left out of the admission check.              *)
RejectIgnoringBuffer(c, n) == role = "client" \/ n > MaxCnt[c]

(* reject (lines 335-350): no fcClient (this node is a client), more than *)
(* the limit, or a cost, capped at BufLimit, above the buffer value        *)
(* AcceptRequest reports.                                                  *)
Reject(c, n) ==
  \/ role = "client"
  \/ n > MaxCnt[c]
  \/ (IF Cost(c, n) > BufLimit THEN BufLimit ELSE Cost(c, n)) > buf

(* handleMsg returns error e: the peer is dropped.                        *)
Drop(e) ==
  /\ open' = FALSE
  /\ exitErr' = e
  /\ UNCHANGED <<role, announceType, buf, charged, recharged, replies, responseErrors,
                 refused>>

(* handleMsg returns nil with nothing of the model changed.               *)
Keep == UNCHANGED <<role, announceType, open, exitErr, buf, charged, recharged,
                    replies, responseErrors, refused>>

(* A request is served: RequestProcessed is charged the uncapped cost and *)
(* a reply is sent if the request case sends one.                          *)
Process(c, n, reply) ==
  /\ buf' = buf - Cost(c, n)
  /\ charged' = charged + Cost(c, n)
  /\ replies' = IF reply THEN replies + 1 ELSE replies
  /\ UNCHANGED <<role, announceType, open, exitErr, recharged, responseErrors,
                 refused>>

(* The pattern of every request case, as GetBlockBodiesMsg has it (lines   *)
(* 496-527): decode, reject, serve, RequestProcessed, reply.               *)
Serve(c, n, decodes, reply) ==
  \/ /\ ~decodes \/ Reject(c, n)
     /\ Drop("protocol")
  \/ /\ decodes /\ ~Reject(c, n)
     /\ Process(c, n, reply)

(* GetBlockBodies, GetCode, GetReceipts, GetProofs (V1, V2), GetHeaderProofs *)
(* and GetHelperTrieProofs (lines 496-931): the data is read from the      *)
(* database and always sent back.                                           *)
ServeData(c, n, decodes) == Serve(c, n, decodes, TRUE)

(* SendTx, SendTxV2 and GetTxStatus (lines 974-1048): SendTxMsg adds the  *)
(* transactions and sends no reply; the other two reply with their status. *)
(* Without a transaction pool the request is an error, as reject is.      *)
ServeTx(c, n, decodes) == Serve(c, n, decodes, c # "SendTx")

(* Mutant: the error count reset by every response the retriever takes.  *)
DeliverResetOnSuccess(delivered) ==
  \/ /\ delivered
     /\ responseErrors' = 0
     /\ UNCHANGED <<role, announceType, open, exitErr, buf, charged, recharged,
                    replies, refused>>
  \/ /\ ~delivered
     /\ responseErrors' = responseErrors + 1
     /\ refused' = refused + 1
     /\ IF responseErrors' > MaxResponseErrors
          THEN open' = FALSE /\ exitErr' = "delivery"
          ELSE UNCHANGED <<open, exitErr>>
     /\ UNCHANGED <<role, announceType, buf, charged, recharged, replies>>

(* The end of handleMsg (lines 1069-1078): the retriever takes the        *)
(* response or refuses it; each refusal counts, and the one that takes    *)
(* the count past maxResponseErrors is returned as the error.             *)
Deliver(delivered) ==
  \/ delivered /\ Keep
  \/ /\ ~delivered
     /\ responseErrors' = responseErrors + 1
     /\ refused' = refused + 1
     /\ IF responseErrors' > MaxResponseErrors
          THEN open' = FALSE /\ exitErr' = "delivery"
          ELSE UNCHANGED <<open, exitErr>>
     /\ UNCHANGED <<role, announceType, buf, charged, recharged, replies>>

(* BlockBodies, Code, Receipts, ProofsV1, ProofsV2, HeaderProofs and      *)
(* HelperTrieProofs (lines 529-973): unexpected without pm.odr, then      *)
(* decode, GotReply, and deliverMsg for the retriever.                     *)
ReceiveOdr(decodes, delivered) ==
  \/ role = "server" /\ Drop("protocol")
  \/ role = "client" /\ ~decodes /\ Drop("protocol")
  \/ role = "client" /\ decodes /\ Deliver(delivered)

(* BlockHeaders (lines 472-495) and TxStatus (lines 1050-1063): unexpected *)
(* without pm.downloader or pm.odr, then decode and GotReply; a header     *)
(* delivery error is only logged.                                          *)
ReceiveResponse(decodes) ==
  \/ role = "server" /\ Drop("protocol")
  \/ role = "client" /\ ~decodes /\ Drop("protocol")
  \/ role = "client" /\ decodes /\ Keep

(* AnnounceMsg (lines 367-390): unexpected unless announcements were      *)
(* requested, then decode, the signature check if they were requested     *)
(* signed, and fetcher.announce.                                           *)
Announce(decodes, sigOK) ==
  \/ announceType = "none" /\ Drop("protocol")
  \/ announceType # "none" /\ ~decodes /\ Drop("protocol")
  \/ announceType = "signed" /\ decodes /\ ~sigOK /\ Drop("protocol")
  \/ /\ announceType # "none" /\ decodes
     /\ announceType = "simple" \/ sigOK
     /\ Keep

(* handleMsg reads one message of code c and count n (lines 326-1081): an *)
(* oversized message (ProtocolMaxMsgSize, line 352), a status message or  *)
(* an unknown code is an error; the rest go to their case.                *)
HandleMsg(c, n, decodes, tooLarge, delivered, sigOK) ==
  /\ open
  /\ msgs < MaxMsgs
  /\ msgs' = msgs + 1
  /\ \/ /\ tooLarge \/ c = "Other"
        /\ Drop("protocol")
     \/ /\ ~tooLarge /\ c \in DataRequests
        /\ ServeData(c, n, decodes)
     \/ /\ ~tooLarge /\ c \in TxRequests
        /\ ServeTx(c, n, decodes)
     \/ /\ ~tooLarge /\ c \in OdrResponses
        /\ ReceiveOdr(decodes, delivered)
     \/ /\ ~tooLarge /\ c \in OtherResponses
        /\ ReceiveResponse(decodes)
     \/ /\ ~tooLarge /\ c = "Announce"
        /\ Announce(decodes, sigOK)

(* The server's fcClient buffer recharges with time, up to BufLimit.      *)
Recharge(r) ==
  /\ open
  /\ role = "server"
  /\ buf < BufLimit
  /\ LET nb == IF buf + r > BufLimit THEN BufLimit ELSE buf + r
     IN  /\ buf' = nb
         /\ recharged' = recharged + (nb - buf)
  /\ UNCHANGED <<role, announceType, open, exitErr, charged, replies,
                 responseErrors, refused, msgs>>

Next ==
  \/ \E c \in Codes, n \in Counts, d, big, ok, sig \in BOOLEAN :
       HandleMsg(c, n, d, big, ok, sig)
  \/ \E r \in Recharges : Recharge(r)

Spec == Init /\ [][Next]_vars

-----------------------------------------------------------------------------
(* The flow-control contract as reject's cap at BufLimit leaves it: the  *)
(* work a server does for a client, as the costs RequestProcessed is       *)
(* charged, never exceeds what the buffer recharged plus BufLimit, or plus *)
(* the cost of one request at its count limit when that is larger. A      *)
(* request costing more than BufLimit is admitted only on a full buffer,   *)
(* and the overdraft it leaves refuses every request until it recharges.  *)
FlowControlBound ==
  \/ charged <= BufLimit + recharged
  \/ \E c \in Requests : charged <= recharged + Cost(c, MaxCnt[c])

(* A light client keeps its server while at most maxResponseErrors of the *)
(* responses it handed to the retriever were refused over the whole      *)
(* connection, and drops it at exactly the next refusal: refusals spread   *)
(* out between accepted responses add up, as p.responseErrors is never    *)
(* reset (lines 1069-1078).                                                *)
ResponseErrorLimit ==
  /\ open => refused <= MaxResponseErrors
  /\ exitErr = "delivery" => refused = MaxResponseErrors + 1

=============================================================================
