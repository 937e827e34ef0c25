SPECIFICATION FairSpec
CONSTANTS
  Deliveries = {d1, d2, d3}
  NumHooks = 2
  NumWorkers = 2
  NumConnections = 2
  Concurrency = 1
INVARIANTS
  TypeOK
  TeardownOrder
  CleanExitDrains
  ExitCodeMeaning
  RejectsBeforeWorkers
  FatalCleanupOnce
PROPERTIES
  ShutdownTerminates
  ImplementsContract
\* the process really ends
CHECK_DEADLOCK FALSE
