\* Data requests at their limit cost more than BufLimit; the rest fit in it.
CONSTANTS
  MaxCnt <- MC_MaxCnt
  BaseCost <- MC_BaseCost
  ReqCost <- MC_ReqCost
  BufLimit = 3
  Recharges = {1, 2}
  Counts = {0, 1, 2, 3}
  MaxResponseErrors = 1
  MaxMsgs = 4
SPECIFICATION Spec
INVARIANTS
  
  ResponseErrorLimit
\* A dropped peer reads no more messages, and the bound ends every run.
CHECK_DEADLOCK FALSE
