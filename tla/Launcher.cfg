SPECIFICATION FairSpec
CONSTANTS
  Zones = {z1, z2}
  Pids = {p1, p2}
  ProcError = ProcError
  Deleted = Deleted
  KillFailLimit = 1
  MaxRequests = 3
CHECK_DEADLOCK FALSE
INVARIANTS
  TypeOK
  OneProcess
  CountUntilGiveUp
  StatusCurrent
PROPERTIES
  StopIsFinal
  StopCompletes
  DeadZoneRestarts
