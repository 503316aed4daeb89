SPECIFICATION Spec
CONSTANTS
  u1 = u1
  u2 = u2
  p1 = p1
  p2 = p2
  r1 = r1
  r2 = r2
  r3 = r3
  None = None
  Users = {u1, u2}
  Passwords = {p1, p2}
  Requests = {r1, r2, r3}
  RequestJobs <- AllJobs
  Password0 <- OnlyU1
  Holders0 <- OneToken
  Avatars0 <- TwoAvatars
  MaxTokens = 4
  MaxAvatars = 3
  MaxFaults = 1
INVARIANTS
  TypeOK
  KnewThePassword
  ExchangedOnce
  SessionSurvives
  OnePrimary
  NobodyStuck
SYMMETRY RequestSymmetry
CHECK_DEADLOCK FALSE
