SPECIFICATION Spec
CONSTANTS
  NINODES = 3
  NBLOCKS = 4
  BSIZE = 3
  NDIRECT = 1
  NINDIRECT = 1
  Procs = {"p1", "p2"}
  NoProc = "nobody"
  GROUP = 2
  Calls <- MCCalls
  Writes = {4}
INVARIANTS
  Consistent
  OrphansHeld
  LocksGranted
