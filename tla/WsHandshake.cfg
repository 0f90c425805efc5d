SPECIFICATION HandshakeSpec
CONSTANTS
  MaxBits = 2
  MaxSessions = 2
  MaxChunks = 3
INVARIANTS CompressionAgreed DistancesReach
CHECK_DEADLOCK FALSE
