CONSTANTS
  Node <- MC_Node
  Child <- MC_Child
  Root = 1
  BatchSizes = {0, 1, 2}
  MaxCrashes = 1
SPECIFICATION Spec
INVARIANTS
  PrefixClosed
  NoDuplicateRequest
  MissingCounts
PROPERTIES
  Completes
\* A finished sync has nothing left to do: the sync loop ends there.
CHECK_DEADLOCK FALSE
