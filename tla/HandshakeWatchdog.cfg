SPECIFICATION Spec
CONSTANTS
  Keys = 1
  Confs <- KnownKey
  MaxConnects = 2
  MaxId = 4
  Tokens = 4
INVARIANT NotRunningWithClients
CHECK_DEADLOCK FALSE
