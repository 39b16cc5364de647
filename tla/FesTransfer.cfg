SPECIFICATION FairSpec
CONSTANTS
  Word = 16
  ChunkMax = 4
  SectorSize = 2
  Requests <- MCRequests
INVARIANTS TypeOK FinishMarksTheEnd NoOverlap
PROPERTIES ImplementsRange Returns
