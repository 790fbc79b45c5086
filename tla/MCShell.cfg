SPECIFICATION FairSpec
CONSTANTS
  NPROC = 5
  NFILE = 4
  NOFILE = 4
  NPIPE = 1
  PIPESIZE = 2
  CountMod = 4
  Bytes = {1, 2}
  MaxKills = 1
  MAXARGS = 3
  Words <- MCWords
  Program <- MCProgram
  Lines <- MCLines
  RunLines <- MCRunLines
CHECK_DEADLOCK FALSE
INVARIANTS
  FilesAccounted
  ParserAgrees
  RingIsFifo
  ExecInherits
PROPERTIES
  LineEnds
