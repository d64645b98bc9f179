SPECIFICATION Spec
PROPERTY AllDelivered
PROPERTY CloseIsMutual
PROPERTY TransportGoesOn
PROPERTY WakeupsArrive
PROPERTY ThreadsEnd
PROPERTY CommandsReturn
CHECK_DEADLOCK FALSE
