CONSTANTS
  NumCPU <- MC_NumCPU
  ThreadSettings <- MC_ThreadSettings
  InitThreads = 0
  MaxCalls = 1
  MaxUpdates = 1
  NoBlock = NoBlock
SPECIFICATION Spec
INVARIANT ThreadChangeTakesEffect
CHECK_DEADLOCK FALSE
