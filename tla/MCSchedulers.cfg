SPECIFICATION Spec
CONSTANTS
  digest = digest
  cleanup = cleanup
  hourly = hourly
  daily = daily
  default = default
  slow = slow
  None = None
  Processes = {p1, p2, p3}
  NumVersions = 3
  Declared <- MCDeclared
INVARIANT LastVersionScheduled
