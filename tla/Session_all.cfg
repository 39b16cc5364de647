SPECIFICATION Spec
CONSTANTS
  Ops <- MCAllOps
  Lens = {8, 13}
  Args = {addr}
  ZeroArg = zero
  MaxCalls = 3
  MaxFaults = 1
INVARIANTS TypeOK InStep HonestSuccess ModeIsCurrent Resynced
