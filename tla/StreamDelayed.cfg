SPECIFICATION Spec
CONSTANTS
  MaxPayload = 2
  PeerMax = 2
  InitialAck = 1
  FdCap = 1
  Delayed <- Both
  Total <- Bytes_3_1
  Breakable = TRUE
  Closers <- End
INVARIANT TypeOK
INVARIANT NothingLostWhileOpen
INVARIANT CreditConserved
INVARIANT ReceiveWindow
INVARIANT GracefulDrain
INVARIANT NoOrphan
PROPERTY IsByteStream
CHECK_DEADLOCK FALSE
