SPECIFICATION FairSpec
CONSTANTS
  NPROC = 4
  CPUs = {c1, c2}
  NoCpu = NoCpu
INVARIANTS
  SleepMutex
  NoSleeperForgotten
  OneCpuPerProcess
PROPERTIES
  SleeperWoken
