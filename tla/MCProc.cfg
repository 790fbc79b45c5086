SPECIFICATION FairSpec
CONSTANTS
  NPROC = 3
  MaxPid = 5
  KillPids = {0, 1, 3}
CHECK_DEADLOCK FALSE
INVARIANTS
  ParentAlive
  StackInUse
  KilledOnRequest
PROPERTIES
  WaitReturns
