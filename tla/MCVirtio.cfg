SPECIFICATION VirtioSpec
CONSTANTS
  NUM = 8
  IdxMod = 16
  NBUF = 3
  Blocks = {k1}
  NoBlock = none
  Procs = {p1, p2, p3}
SYMMETRY Symmetric
VIEW View
INVARIANTS
  ChainsDisjoint
  RequestsTracked
  WaitersServed
