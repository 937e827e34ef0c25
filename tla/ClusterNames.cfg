SPECIFICATION Spec
CONSTANTS
  default = default
  named = named
  user = user
  digest = digest
  welcome = welcome
  hourly = hourly
  None = None
  Jobs = {user, digest, welcome, hourly}
  Order <- MCOrder
  QueueOf <- MCQueueOf
  ClassOf <- MCClassOf
  Spawns <- MCSpawns
  Scheduled = {hourly}
  Clusterings = {{default}}
  Parallel = FALSE
  MaxAttempts = 2
PROPERTY NamedQueueWorkedOff
