SPECIFICATION Spec
CONSTANTS
  NINODES = 2
  NBLOCKS = 5
  BSIZE = 3
  NDIRECT = 1
  NINDIRECT = 1
  Procs = {"p1", "p2"}
  NoProc = "nobody"
  GROUP = 4
  Calls <- MCOrphanCalls
  Writes = {4}
INVARIANT OrphansFreed
