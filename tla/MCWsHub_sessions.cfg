SPECIFICATION Spec
CONSTANTS
  u1 = u1
  u2 = u2
  c1 = c1
  c2 = c2
  m1 = m1
  s1 = s1
  s2 = s2
  s3 = s3
  r1 = r1
  Users = {u1, u2}
  Chats = {c1, c2}
  Messages = {m1}
  Sessions = {s1, s2, s3}
  Requests = {r1}
  None = None
  SessionUser <- TwoDevices
  ShardOf <- SharedShard
  ChatKind <- ChannelAndGroup
  Owner <- OwnedByU1
  Admins <- Nothing
  Members0 <- U2Alone
  SmallGroupLimit = 1
  SessionJobs <- SyncsAndReads
  RequestJobs <- PostOrKick
  Joins <- Nothing
  Mutes <- Nothing
  MaxSeq = 2
  MaxFaults = 1
  MaxRestarts = 1
INVARIANTS
  TypeOK
  RegistryPointsAtOpenSession
  PresenceFollowsRegistry
PROPERTIES
  ImplementsEventStream
CHECK_DEADLOCK FALSE
