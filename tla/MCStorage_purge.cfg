SPECIFICATION Spec
CONSTANTS
  a = a
  b = b
  r1 = r1
  r2 = r2
  r3 = r3
  None = None
  Contents = {a, b}
  MaxFiles = 3
  Requests = {r1, r2, r3}
  RequestJobs <- AllJobs
  MaxFaults = 1
  Content0 = a
PROPERTIES
  PurgesOnlyUnreferenced
CHECK_DEADLOCK FALSE
