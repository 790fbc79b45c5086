SPECIFICATION Spec
CONSTANTS
  NPROC = 3
  NCPU = 2
  Limits <- MCLimits
  Naps <- MCNaps
  Workloads <- MCWorkloads
  Entries = {1, 3}
  TickMod = 3
  MaxTicks = 3
  MaxSwitches = 3
CHECK_DEADLOCK FALSE
INVARIANTS
  UserTicksCapped
  PauseKept
  ReportSound
PROPERTIES
  PauseLasts
