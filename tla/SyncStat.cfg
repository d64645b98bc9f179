INIT StatInit
NEXT StatNext
CONSTANTS
  UserFds = {1}
  TimedFds = {}
  WriteFds = {}
  MaxId = 2
  MaxFn = 0
INVARIANT StatReadsStat
CHECK_DEADLOCK FALSE
