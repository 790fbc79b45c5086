SPECIFICATION Spec
CONSTANTS
  NPAGE = 13
  NPROC = 2
  PGSIZE = 2
  LEVELS = 2
  NPTE = 3
  U64 = 64
  USERSTACK = 1
  Programs <- MCPrograms
  MAXARG = 2
  Argvs <- MCArgvs
  Grows <- MCGrows
  Accesses = {0, 3, 20}
INVARIANTS
  SpacesSound
  PagesAccounted
PROPERTIES
  MemoryKept
  ForkCopies
