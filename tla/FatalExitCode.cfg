\* A signal's flow and an uncaught error's flow in the same process.
SPECIFICATION FairSpec
CONSTANTS
  Deliveries = {d1, d2}
  NumHooks = 1
  NumWorkers = 1
  NumConnections = 1
  Concurrency = 1
INVARIANT FatalExitsNonZero
CHECK_DEADLOCK FALSE
