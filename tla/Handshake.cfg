SPECIFICATION Spec
CONSTANTS
  Keys = 2
  Confs <- AllKinds
  MaxConnects = 2
  MaxId = 4
  Tokens = 6
INVARIANT TypeOK
INVARIANT OnlineTogether
INVARIANT ArmedOnlyWithoutClients
PROPERTY OfflineIsReported
PROPERTY ConnectsOnce
PROPERTY WaitIsAnswered
PROPERTY BothOnline
CHECK_DEADLOCK FALSE
