SPECIFICATION FairSpec
CONSTANTS
  Ctxs = {c1}
  ArchsOf = {"arm32", "riscv"}
  InitArchs = {"arm32", "riscv", "aarch64"}
  Words = {w1, w2}
  Values = {v1, v2}
  NULL = NULL
  MaxCalls = 3
  MaxFaults = 1
INVARIANT TypeOK
INVARIANT ReadlTrue
INVARIANT WordsExact
PROPERTY HangsOnForeignOnly
PROPERTY Returns
