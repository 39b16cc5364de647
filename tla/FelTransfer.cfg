SPECIFICATION FairSpec
CONSTANTS
  Word = 16
  ChunkMax = 4
  Requests <- MCRequests
INVARIANTS TypeOK CallbackAccounts NoOverlap
PROPERTIES ImplementsRange Returns
