INIT RegistryInit
NEXT RegistryNext
CONSTANTS
  MaxPlugs = 1
  MaxRequests = 0
  MaxPackets = 0
  StartDetached = FALSE
INVARIANT EntryIsAlive
CHECK_DEADLOCK FALSE
