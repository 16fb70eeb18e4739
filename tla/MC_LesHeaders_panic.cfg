CONSTANTS
  W = 3
  Tip = 4
  s2 = s2
  zero = zero
  unk = unk
  Side <- s2
  SideNum = 2
  Zero <- zero
  Unk <- unk
  MaxHeaderFetch = 2
  Queries <- MC_Queries
SPECIFICATION Spec
INVARIANTS NoPanic
\* A panic in the serving goroutine ends the process.
CHECK_DEADLOCK FALSE
