SPECIFICATION Spec
CONSTANTS
  Ops <- MCFesOps
  Lens = {4}
  Args = {addr}
  ZeroArg = zero
  MaxCalls = 3
  MaxFaults = 1
INVARIANT FesZeroMeansDone
