SPECIFICATION FairSpec
CONSTANTS
  Programs = {TRUE, FALSE}
  Cmds <- MCAllCmds
  Bases = {0, 5, 7}
  Lengths = {0, 1, 2, 3, 5, 6}
  Word = 8
  Chunk = 2
  FileFaults = TRUE
CHECK_DEADLOCK FALSE
INVARIANT TypeOK
INVARIANT ExitTellsMoved
INVARIANT Released
PROPERTY Ends
