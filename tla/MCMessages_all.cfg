SPECIFICATION Spec
CONSTANTS
  u1 = u1
  u2 = u2
  u3 = u3
  c1 = c1
  c2 = c2
  r1 = r1
  r2 = r2
  r3 = r3
  bob = bob
  ann = ann
  None = None
  Users = {u1, u2, u3}
  Chats = {c1, c2}
  Requests = {r1, r2, r3}
  Owner <- Owners
  Channels = {c2}
  Admins = {}
  Name <- TwoBobs
  Members0 <- AllIn
  Said0 <- TwoSaid
  RequestJobs <- AllJobs
  Comings <- U2Comes
  Mutings <- U1Muted
  MaxMessages = 3
  PageSize = 1
  MaxFaults = 1
INVARIANTS
  TypeOK
  NothingDangles
  BarredStayOut
  DeletedStaysUntold
  PagesAreComplete
  AnsweredIsMentioned
SYMMETRY RequestSymmetry
CHECK_DEADLOCK FALSE
