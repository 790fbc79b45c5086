SPECIFICATION Spec
CONSTANTS
  NUM = 4
  IdxMod = 4
  NBUF = 3
  LOGSIZE = 1
  Blocks = {k1, k2, k3, k4}
  NoBlock = none
  Procs = {p1, p2}
  NoProc = nobody
SYMMETRY Symmetric
INVARIANTS
  BuffersShared
  ListLinked
  CacheCoherent
