SPECIFICATION FairSpec
CONSTANTS
  Procs = {p1, p2, p3}
  Blocks = {b1, b2}
  Values = {v0, v1}
  InitValue = v0
  Nil = Nil
  MAXOPBLOCKS = 2
  LOGBLOCKS = 4
  OpBlocks = 2
INVARIANTS
  CommitIsQuiescent
PROPERTIES
  CallsAreAtomic
  SleepersWoken
