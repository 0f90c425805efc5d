SPECIFICATION FairSpec
CONSTANTS
  Peers = {c, s}
  Client = c
  Frags = {c}
  Invalid = {c}
  MaxOps <- ClientOneCall
  MayCut = TRUE
PROPERTIES CloseCompletes ParkedWriteResumes
CHECK_DEADLOCK FALSE
