SPECIFICATION Spec
CONSTANTS
  MaxPlugs = 2
  MaxRequests = 2
  MaxPackets = 2
  StartDetached = TRUE
INVARIANT DetachReleases
CHECK_DEADLOCK FALSE
