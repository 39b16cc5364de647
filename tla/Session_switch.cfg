SPECIFICATION Spec
CONSTANTS
  Ops <- MCSwitchOps
  Lens = {4}
  Args = {addr}
  ZeroArg = zero
  MaxCalls = 3
  MaxFaults = 0
INVARIANT SwitchDelivered
