SPECIFICATION FairSpec
CONSTANTS
  Ops <- MCAllOps
  Lens = {4}
  Args = {addr}
  ZeroArg = zero
  MaxCalls = 2
  MaxFaults = 1
PROPERTY CallReturns
