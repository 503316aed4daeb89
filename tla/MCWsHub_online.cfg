SPECIFICATION Spec
CONSTANTS
  u1 = u1
  u2 = u2
  c1 = c1
  c2 = c2
  m1 = m1
  s1 = s1
  s2 = s2
  s3 = s3
  r1 = r1
  Users = {u1, u2}
  Chats = {c1}
  Messages = {m1}
  Sessions = {s1, s2, s3}
  Requests = {}
  None = None
  SessionUser <- TwoDevices
  ShardOf <- SharedShard
  ChatKind <- Group
  Owner <- OwnedByU1
  Admins <- Nothing
  Members0 <- Everyone
  SmallGroupLimit = 2
  SessionJobs <- Nothing
  RequestJobs <- Nothing
  Joins <- Nothing
  Mutes <- Nothing
  MaxSeq = 3
  MaxFaults = 0
  MaxRestarts = 0
INVARIANTS
  OnlineWhileConnected
CHECK_DEADLOCK FALSE
