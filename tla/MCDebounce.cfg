SPECIFICATION FairSpec
CONSTANTS
  NumCalls = 3
  Ids = {digest}
  None = None
  digest = digest
  Requests <- MCRequests
  Second = 2
  Latency = 1
  LastCall = 3
  MaxTime = 7
INVARIANTS
  OneUndueJob
  JoinedAreAnswered
  PlainCallsKept
PROPERTIES
  JoinWindow
  EveryCallRuns
\* the behaviours are bounded by MaxTime
CHECK_DEADLOCK FALSE
