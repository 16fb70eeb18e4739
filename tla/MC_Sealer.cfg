CONSTANTS
  NumCPU <- MC_NumCPU
  ThreadSettings <- MC_ThreadSettings
  InitThreads = 0
  MaxCalls = 2
  MaxUpdates = 2
  NoBlock = NoBlock
SPECIFICATION Spec
INVARIANTS
  JoinedWhenOutside
PROPERTIES
  ReturnsAfterStop
\* The caller makes MaxCalls Seal calls and then stops mining: the final
\* idle state is a real end of the run.
CHECK_DEADLOCK FALSE
