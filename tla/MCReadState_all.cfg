SPECIFICATION Spec
CONSTANTS
  u1 = u1
  u2 = u2
  c1 = c1
  c2 = c2
  Users = {u1, u2}
  Creator = u1
  Count = 2
  Calls = {c1, c2}
  Requests <- AllRequests
  SmallGroup = 2
  MaxOthers = 1
  Stored0 <- First
INVARIANTS
  TypeOK
  NoDanglingReads
  AnsweredIsRecorded
  PositionIsWhatWasSaid
PROPERTIES
  FirstReadStays
  UnreadIsNewAndLive
SYMMETRY CallSymmetry
CHECK_DEADLOCK FALSE
