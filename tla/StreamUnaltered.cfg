SPECIFICATION Spec
CONSTANTS
  MaxPayload = 2
  PeerMax = 2
  InitialAck = 2
  FdCap = 1
  Delayed <- Both
  Total <- Bytes_3_0
  Breakable = FALSE
  Closers <- End
INVARIANT ForwardsUnaltered
CHECK_DEADLOCK FALSE
