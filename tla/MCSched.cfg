SPECIFICATION FairSpec
CONSTANTS
  NPROC = 2
  NCPU = 2
  CPU_BUDGET_WINDOW_TICKS = 1
  ECO_SKIP_INTERVAL = 2
  Limits = {1}
  TickMod = 3
  MaxCalls = 2
INVARIANTS
  NoOverdraft
  BudgetUnlessStale
PROPERTIES
  RunnableRuns
