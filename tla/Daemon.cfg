SPECIFICATION DeviceSpec
CONSTANTS
  UserFds = {1, 2}
  TimedFds = {2}
  WriteFds = {1}
  MaxId = 4
  MaxFn = 2
INVARIANT DeviceTypeOK
INVARIANT LoopIsSound
INVARIANT PacketsAddUp
INVARIANT ShellFlows
INVARIANT FilesArrive
INVARIANT ProcessesAreKnown
INVARIANT WirelessIsOrderly
CHECK_DEADLOCK FALSE
