SPECIFICATION FlowFairSpec
CONSTANTS
  Firmwares = {"FEL", "SRV", "UPDATE_COOL"}
  MaxBoots = 4
  MaxFaults = 2
CHECK_DEADLOCK FALSE
INVARIANT FlowTypeOK
INVARIANT ExitZeroMeansImage
INVARIANT BackInFesMode
PROPERTY WaitEnds
