SPECIFICATION Spec
CONSTANTS
  Peers = {c, s}
  Client = c
  Frags = {c}
  Invalid = {s}
  MaxOps <- ClientTwoCalls
  MayCut = FALSE
INVARIANTS OneWriter PeersUnderstand NothingAfterClose
CHECK_DEADLOCK FALSE
