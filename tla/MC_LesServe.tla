----------------------------- MODULE MC_LesServe -----------------------------
(* A three-unit buffer and limits of two items per request. A data request *)
(* costs one plus two per item, so one at its limit (five) costs more than *)
(* the buffer holds and meets reject's cap; a transaction request costs    *)
(* one plus one per item and never does.                                    *)
EXTENDS LesServe

MC_MaxCnt == [c \in Requests |-> 2]
MC_BaseCost == [c \in Requests |-> 1]
MC_ReqCost == [c \in Requests |-> IF c \in DataRequests THEN 2 ELSE 1]
=============================================================================
