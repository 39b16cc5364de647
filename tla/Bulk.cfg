SPECIFICATION FairSpec
CONSTANTS
  Backends = {TRUE, FALSE}
  Dirs = {"send", "recv"}
  Lens = {1, 3, 4, 6, 7}
  MaxChunk = 3
  MaxEmpties = 2
  Falters = TRUE
PROPERTY PipeSpec
PROPERTY Returns
