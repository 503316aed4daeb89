SPECIFICATION Spec
CONSTANTS
  u1 = u1
  u2 = u2
  nobody = nobody
  r1 = r1
  r2 = r2
  r3 = r3
  None = None
  Users = {u1, u2}
  Ids = {u1, u2, nobody}
  Requests = {r1, r2, r3}
  RequestJobs <- AllJobs
  MaxChats = 3
  MaxFaults = 1
INVARIANTS
  TypeOK
  ContactsAreAsAnswered
  OneDirectChat
  DirectChatsArePairs
PROPERTIES
  BlockStays
SYMMETRY RequestSymmetry
CHECK_DEADLOCK FALSE
