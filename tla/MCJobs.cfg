SPECIFICATION FairSpec
CONSTANTS
  service = service
  other = other
  None = None
  Jobs = {service, other}
  Kinds <- MCKinds
  OldClass = {other}
  NewClass = {service}
  Processes = {p1, p2}
  MaxAttempts = 2
  MaxStalls = 1
INVARIANTS
  TypeOK
  CompletedHasRun
  FailedForAReason
  CallsBounded
PROPERTIES
  SettledNotCalledAgain
  ImplementsContract
\* all jobs may be settled for good
CHECK_DEADLOCK FALSE
