SPECIFICATION Spec
CONSTANTS
  u1 = u1
  u2 = u2
  r1 = r1
  r2 = r2
  r3 = r3
  Users = {u1, u2}
  Requests = {r1, r2, r3}
  None = None
  Creator = u1
  Members0 <- U1AndU2
  RequestJobs <- AllJobs
  MaxFaults = 1
INVARIANTS
  TypeOK
  TablesInStep
  DirectStays
  NoDeadlock
PROPERTIES
  ImplementsAtomicRoster
SYMMETRY RequestSymmetry
CHECK_DEADLOCK FALSE
