\* A server, a test and a command line process of one application.
SPECIFICATION Spec
CONSTANTS
  Roles = {"server", "test", "cli"}
  Confs <- MCConfs
  MaxInits = 2
  None = None
  MaxCalls = 2
  Requests <- MCRequests
  Minute = 60000
  InitialFiles <- MCInitialFiles
INVARIANTS
  TypeOK
  NeverHalfConfigured
  ImportsResolve
  SilentMeansPatched
PROPERTIES
  TestsRaiseMismatches
  UrgentFirst
  NeverEarly
  PatchedOnce
