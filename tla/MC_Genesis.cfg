CONSTANTS
  gM = gM
  gA = gA
  gB = gB
  gN = gN
  hM = hM
  hA = hA
  hB = hB
  hN = hN
  cD = cD
  cA = cA
  noCfg = noCfg
  nil = nil
  Genesis <- MC_Genesis
  Default <- gM
  GHash <- MC_GHash
  GConfig <- MC_GConfig
  GNumber <- MC_GNumber
  Config = {cD, cA}
  NoConfig <- noCfg
  Nil <- nil
  ForkAt = 2
  CanFail = TRUE
  MaxStarts = 3
  MaxCrashes = 1
  MaxHeight = 2
SPECIFICATION Spec
INVARIANTS RunsOnRequestedGenesis ConfigPresentWhenRunning
PROPERTIES GenesisStable
\* The bounded operator stops starting the node.
CHECK_DEADLOCK FALSE
