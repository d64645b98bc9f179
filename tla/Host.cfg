SPECIFICATION HostSpec
CONSTANTS
  MaxPlugs = 2
  MaxRequests = 2
  MaxPackets = 2
  StartDetached = FALSE
INVARIANT HostTypeOK
INVARIANT ServerIsConsistent
INVARIANT DevicesAreFound
 
INVARIANT BlocksInOrder
INVARIANT PatchIsExact
INVARIANT OneServer
INVARIANT UsbIsAlive
INVARIANT UsbIsFramed
INVARIANT CommandsAreTrue
CHECK_DEADLOCK FALSE
