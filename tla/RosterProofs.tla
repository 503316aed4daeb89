---------------------------- MODULE RosterProofs ----------------------------
(***************************************************************************)
(* Theorems about Roster for any users, requests, participants and kinds   *)
(* of request: its type invariant, that transactions never deadlock, never *)
(* all wait and run out, that a direct chat keeps its participants, that   *)
(* membership changes atomically and only by those the owner lets, and     *)
(* that the two tables stay in step.                                       *)
(***************************************************************************)
EXTENDS Roster, TLAPS

P == "chat_participants"
M == "chat_members"

----------------------------------------------------------------------------
\* Types

RowsType ==
  /\ rows \in [Tables -> [Users -> Row]]
  /\ \A t \in Tables, u \in Users :
       rows[t][u].tx = None <=> rows[t][u].is \in {"in", "out"}

CourseType ==
  /\ pc \in [Requests -> Pcs]
  /\ job \in [Requests -> Jobs \cup {None}]
  /\ \A r \in Requests : job[r] = None <=> pc[r] = "idle"

LEMMA TypeParts ==
  TypeOK <=> /\ RowsType /\ CourseType
             /\ isDirect \in BOOLEAN /\ perms \in [Users -> SUBSET Perms]
             /\ muted \subseteq Users /\ faults \in Nat /\ contended \subseteq Users
BY DEF TypeOK, RowsType, CourseType

LEMMA TypePartsNext ==
  /\ RowsType' /\ CourseType'
  /\ isDirect' \in BOOLEAN /\ perms' \in [Users -> SUBSET Perms]
  /\ muted' \subseteq Users /\ faults' \in Nat /\ contended' \subseteq Users
  => TypeOK'
BY DEF TypeOK, RowsType, CourseType

LEMMA JobOf ==
  ASSUME CourseType, NEW r \in Requests, pc[r] # "idle"
  PROVE  /\ job[r] \in Jobs /\ job[r] # None
         /\ job[r].op \in Ops /\ job[r].by \in Users /\ job[r].user \in Users
         /\ job[r].perms \in SUBSET Perms
<1>1. job[r] \in Jobs /\ job[r] # None
  BY RosterAssumption DEF CourseType
<1> QED BY <1>1 DEF Jobs

LEMMA TableType == \A j, p : TableOf(j, p) \in Tables
BY DEF TableOf, Tables

LEMMA RowTypes ==
  /\ \A w \in {"in", "out"} : Rest(w) \in Row
  /\ \A row \in Row, r \in Requests :
       Inserted(row, r) \in Row /\ Deleted(row, r) \in Row
  /\ \A row \in Row, r \in Requests, done \in BOOLEAN : Ended(row, r, done) \in Row
BY DEF Rest, Row, Inserted, Deleted, Ended

\* One row changes.
LEMMA SetRowType ==
  ASSUME RowsType, NEW t \in Tables, NEW u \in Users, NEW new \in Row,
         new.tx = None <=> new.is \in {"in", "out"},
         rows' = [rows EXCEPT ![t][u] = new]
  PROVE  RowsType'
BY DEF RowsType

LEMMA EndType ==
  ASSUME RowsType, NEW r \in Requests, NEW done \in BOOLEAN, rows' = AllEnded(r, done)
  PROVE  RowsType'
<1>1. \A t \in Tables, u \in Users :
        /\ rows[t][u] \in Row
        /\ Ended(rows[t][u], r, done) \in Row
        /\ rows'[t][u] = Ended(rows[t][u], r, done)
  BY RowTypes DEF RowsType, AllEnded
<1>2. rows' \in [Tables -> [Users -> Row]]
  BY <1>1 DEF AllEnded
<1>3. ASSUME NEW t \in Tables, NEW u \in Users
      PROVE  rows'[t][u].tx = None <=> rows'[t][u].is \in {"in", "out"}
  BY <1>1, <1>3, RosterAssumption DEF RowsType, Ended, Rest, Row
<1> QED BY <1>2, <1>3 DEF RowsType

LEMMA GotoType ==
  ASSUME CourseType, NEW r \in Requests, pc[r] # "idle",
         NEW there \in Pcs \ {"idle"}, Goto(r, there), job' = job
  PROVE  CourseType'
BY DEF CourseType, Goto

LEMMA AfterMetaType ==
  \A j \in Jobs : AfterMeta(j) \in Pcs \ {"idle", "meta", "reply"}
BY DEF AfterMeta, Jobs, Ops, Pcs

LEMMA InitType == Init => TypeOK
<1> SUFFICES ASSUME Init PROVE TypeOK
  OBVIOUS
<1>1. RowsType
  BY RowTypes DEF Init, RowsType, Rest
<1>2. CourseType
  BY DEF Init, CourseType, Pcs
<1> QED BY <1>1, <1>2, TypeParts DEF Init

LEMMA ExecuteType ==
  ASSUME RowsType, CourseType, NEW r \in Requests, pc[r] # "idle", NEW p \in Places,
         NEW new \in Row, new.tx = None <=> new.is \in {"in", "out"}, Execute(r, p, new)
  PROVE  RowsType' /\ CourseType'
<1>1. RowsType'
  BY JobOf, TableType, SetRowType DEF Execute
<1>2. CourseType'
  BY GotoType DEF Execute, AfterStatement, Places, Pcs
<1> QED BY <1>1, <1>2

LEMMA CommitType ==
  ASSUME RowsType, CourseType, NEW x \in Requests, Commit(x)
  PROVE  RowsType' /\ CourseType'
<1>1. RowsType'
  BY EndType DEF Commit
<1>2. pc' \in [Requests -> Pcs]
  BY DEF Commit, CourseType, Pcs
<1>3. ASSUME NEW r \in Requests PROVE pc'[r] = "idle" <=> pc[r] = "idle"
  BY <1>3 DEF Commit, WaitsFor, Waiting
<1> QED BY <1>1, <1>2, <1>3 DEF Commit, CourseType

LEMMA HandlerType ==
  ASSUME TypeOK, NEW r \in Requests,
         Begin(r) \/ Progress(r) \/ Fail(r), contended' = contended \cup Contended'
  PROVE  TypeOK'
<1>0. /\ RowsType /\ CourseType
      /\ isDirect \in BOOLEAN /\ perms \in [Users -> SUBSET Perms]
      /\ muted \subseteq Users /\ faults \in Nat
  BY TypeParts
<1>c. contended' \subseteq Users
  BY TypeParts DEF Contended
<1>j. ASSUME pc[r] # "idle"
      PROVE  /\ job[r] \in Jobs /\ job[r].op \in Ops /\ job[r].user \in Users
             /\ job[r].perms \in SUBSET Perms
  BY <1>0, <1>j, JobOf
<1>r. ASSUME pc[r] # "idle", NEW p
      PROVE  /\ rows[TableOf(job[r], p)][job[r].user] \in Row
             /\ rows[TableOf(job[r], p)][job[r].user].tx = None
                  <=> rows[TableOf(job[r], p)][job[r].user].is \in {"in", "out"}
  BY <1>0, <1>j, <1>r, TableType DEF RowsType
<1>q. ASSUME rows' = rows PROVE RowsType'
  BY <1>0, <1>q DEF RowsType
<1>1. CASE Begin(r)
  <2>1. CourseType'
    BY <1>0, <1>1, RosterAssumption DEF Begin, CourseType, Goto, Pcs
  <2> QED BY <1>0, <1>1, <1>c, <1>q, <2>1, TypePartsNext DEF Begin
<1>2. CASE FetchMeta(r)
  <2>1. CourseType'
    BY <1>0, <1>2, <1>j, AfterMetaType, GotoType DEF FetchMeta
  <2> QED BY <1>0, <1>2, <1>c, <1>q, <2>1, TypePartsNext DEF FetchMeta
<1>3. CASE LoadPerms(r)
  <2>1. CourseType'
    BY <1>0, <1>3, GotoType DEF LoadPerms, Pcs
  <2> QED BY <1>0, <1>3, <1>c, <1>q, <2>1, TypePartsNext DEF LoadPerms
<1>4. CASE EnsureMember(r)
  <2>1. CourseType'
    BY <1>0, <1>4, GotoType DEF EnsureMember, Pcs
  <2> QED BY <1>0, <1>4, <1>c, <1>q, <2>1, TypePartsNext DEF EnsureMember
<1>5. ASSUME NEW p \in Places, Insert(r, p) PROVE TypeOK'
  <2> DEFINE row == rows[TableOf(job[r], p)][job[r].user]
  <2>1. pc[r] # "idle"
    BY <1>5 DEF Insert, Places
  <2>2. row \in Row /\ (row.tx = None <=> row.is \in {"in", "out"})
    BY <1>r, <2>1
  <2>3. Inserted(row, r) \in Row
    BY <2>2, RowTypes
  <2>4. Inserted(row, r).tx = None <=> Inserted(row, r).is \in {"in", "out"}
    BY <2>2, RosterAssumption DEF Inserted
  <2>5. Execute(r, p, Inserted(row, r))
    BY <1>5 DEF Insert
  <2> HIDE DEF row
  <2>6. RowsType' /\ CourseType'
    BY <1>0, <2>1, <2>3, <2>4, <2>5, ExecuteType
  <2> QED BY <1>0, <1>c, <2>5, <2>6, TypePartsNext DEF Execute
<1>6. ASSUME NEW p \in Places, Delete(r, p) \/ Unblock(r, p) PROVE TypeOK'
  <2> DEFINE row == rows[TableOf(job[r], p)][job[r].user]
  <2>1. pc[r] # "idle"
    BY <1>6 DEF Delete, Unblock, Places, Waiting
  <2>2. row \in Row /\ (row.tx = None <=> row.is \in {"in", "out"})
    BY <1>r, <2>1
  <2>3. Deleted(row, r) \in Row
    BY <2>2, RowTypes
  <2>4. Deleted(row, r).tx = None <=> Deleted(row, r).is \in {"in", "out"}
    BY <2>2, RosterAssumption DEF Deleted
  <2>5. Execute(r, p, Deleted(row, r))
    BY <1>6 DEF Delete, Unblock
  <2> HIDE DEF row
  <2>6. RowsType' /\ CourseType'
    BY <1>0, <2>1, <2>3, <2>4, <2>5, ExecuteType
  <2> QED BY <1>0, <1>c, <2>5, <2>6, TypePartsNext DEF Execute
<1>7. ASSUME NEW p \in Places, Block(r, p) PROVE TypeOK'
  <2>1. CourseType'
    BY <1>0, <1>7, GotoType DEF Block, Waiting, Places, Pcs
  <2> QED BY <1>0, <1>7, <1>c, <1>q, <2>1, TypePartsNext DEF Block
<1>8. CASE Commit(r)
  BY <1>0, <1>8, <1>c, CommitType, TypePartsNext DEF Commit
<1>9. CASE WritePerms(r) \/ WriteMute(r)
  <2>1. CourseType'
    BY <1>0, <1>9, GotoType DEF WritePerms, WriteMute, Pcs
  <2>2. pc[r] # "idle"
    BY <1>9 DEF WritePerms, WriteMute
  <2>3. perms' \in [Users -> SUBSET Perms] /\ muted' \subseteq Users
    BY <1>0, <1>9, <1>j, <2>2 DEF WritePerms, WriteMute, Granted
  <2> QED BY <1>0, <1>9, <1>c, <1>q, <2>1, <2>3, TypePartsNext DEF WritePerms, WriteMute
<1>10. CASE WriteNote(r)
  <2>1. CourseType'
    BY <1>0, <1>10, GotoType DEF WriteNote, Pcs
  <2>2. RowsType'
    <3>1. pc[r] # "idle" /\ M \in Tables
      BY <1>10 DEF WriteNote, Tables, M
    <3>2. Rest("in") \in Row /\ Rest("in").tx = None /\ Rest("in").is = "in"
      BY RowTypes DEF Rest
    <3>3. rows' = [rows EXCEPT ![M][job[r].user] = Rest("in")]
      BY <1>10 DEF WriteNote, M
    <3> HIDE DEF M
    <3> QED BY <1>0, <1>j, <3>1, <3>2, <3>3, SetRowType
  <2> QED BY <1>0, <1>10, <1>c, <2>1, <2>2, TypePartsNext DEF WriteNote
<1>11. CASE Reply(r)
  <2>1. CourseType'
    BY <1>0, <1>11, GotoType DEF Reply, Pcs
  <2> QED BY <1>0, <1>11, <1>c, <1>q, <2>1, TypePartsNext DEF Reply
<1>12. CASE Fail(r)
  <2>1. CourseType'
    BY <1>0, <1>12, GotoType DEF Fail, Pcs
  <2>2. RowsType'
    BY <1>0, <1>12, EndType DEF Fail
  <2>3. faults' \in Nat
    BY <1>0, <1>12 DEF Fail
  <2> QED BY <1>0, <1>12, <1>c, <2>1, <2>2, <2>3, TypePartsNext DEF Fail
<1> QED
  BY <1>1, <1>2, <1>3, <1>4, <1>5, <1>6, <1>7, <1>8, <1>9, <1>10, <1>11, <1>12
     DEF Progress

LEMMA NextType == TypeOK /\ [Next]_vars => TypeOK'
<1> SUFFICES ASSUME TypeOK, [Next]_vars PROVE TypeOK'
  OBVIOUS
<1>1. CASE Next
  BY <1>1, HandlerType DEF Next
<1>2. CASE UNCHANGED vars
  BY <1>2 DEF TypeOK, vars
<1> QED BY <1>1, <1>2

(***************************************************************************)
(* The type invariant of chats.rs's rows, permissions and requests.        *)
(***************************************************************************)
THEOREM TypeCorrect == Spec => []TypeOK
<1>1. Init => TypeOK
  BY InitType
<1>2. TypeOK /\ [Next]_vars => TypeOK'
  BY NextType
<1> QED BY <1>1, <1>2, PTL DEF Spec

----------------------------------------------------------------------------
\* Locks

\* What a request does where it is.
CourseFits ==
  \A r \in Requests :
    /\ pc[r] = "perms" => job[r].op \in {"add", "remove", "mute", "unmute"}
    /\ pc[r] = "member" => job[r].op \in {"promote", "note"}
    /\ pc[r] = "write" => job[r].op \in {"promote", "demote", "mute", "unmute", "note"}
    /\ pc[r] \in {"first", "second", "commit"} => job[r].op \in {"add", "remove", "leave"}
    /\ pc[r] \in {"firstWait", "secondWait"} => job[r].op \in {"remove", "leave"}

\* Who may hold a row of table t.
Holders(t) == IF t = P THEN {"second", "secondWait", "commit"} ELSE {"commit"}

LockedBy(row, t, u, x) ==
  /\ job[x].user = u
  /\ pc[x] \in Holders(t)
  /\ row.is = IF job[x].op = "add" THEN "joining" ELSE "leaving"

Locks ==
  \A t \in Tables, u \in Users :
    rows[t][u].tx # None => LockedBy(rows[t][u], t, u, rows[t][u].tx)

LockInv == CourseFits /\ Locks

LEMMA TxIsRequest ==
  ASSUME TypeOK, NEW t \in Tables, NEW u \in Users
  PROVE  /\ rows[t][u] \in Row
         /\ rows[t][u].tx \in Requests \cup {None}
         /\ rows[t][u].tx = None <=> rows[t][u].is \in {"in", "out"}
BY DEF TypeOK, Row

LEMMA CourseStep ==
  ASSUME TypeOK, CourseFits, NEW r \in Requests, Progress(r)
  PROVE  CourseFits'
<1>0. CourseType
  BY TypeParts
<1> USE DEF CourseFits
<1>1. CASE FetchMeta(r)
  <2>1. job[r].op \in Ops
    BY <1>0, <1>1, JobOf DEF FetchMeta
  <2> QED BY <1>0, <1>1, <2>1 DEF FetchMeta, Goto, AfterMeta, CourseType, Ops
<1>2. CASE LoadPerms(r)
  BY <1>0, <1>2 DEF LoadPerms, Goto, CourseType
<1>3. CASE EnsureMember(r)
  BY <1>0, <1>3 DEF EnsureMember, Goto, CourseType
<1>4. ASSUME NEW p \in Places, Insert(r, p) \/ Delete(r, p) \/ Block(r, p) \/ Unblock(r, p)
      PROVE  CourseFits'
  BY <1>0, <1>4 DEF Insert, Delete, Block, Unblock, Execute, Goto, AfterStatement,
                    Waiting, Places, CourseType
<1>5. CASE Commit(r)
  BY <1>0, <1>5 DEF Commit, WaitsFor, Waiting, CourseType
<1>6. CASE WritePerms(r) \/ WriteMute(r) \/ WriteNote(r) \/ Reply(r)
  BY <1>0, <1>6 DEF WritePerms, WriteMute, WriteNote, Reply, Goto, CourseType
<1> QED BY <1>1, <1>2, <1>3, <1>4, <1>5, <1>6 DEF Progress

\* A request that is not inside its transaction holds no row.
LEMMA HoldsNothing ==
  ASSUME Locks, NEW r \in Requests, pc[r] \notin {"second", "secondWait", "commit"},
         NEW t \in Tables, NEW u \in Users
  PROVE  rows[t][u].tx # r
BY RosterAssumption DEF Locks, LockedBy, Holders

\* ... and before its second statement none of chat_members.
LEMMA HoldsNoMember ==
  ASSUME Locks, NEW r \in Requests, pc[r] # "commit", NEW u \in Users
  PROVE  rows[M][u].tx # r
BY RosterAssumption DEF Locks, LockedBy, Holders, M, P, Tables

\* A step that leaves the rows alone.
LEMMA QuietLocks ==
  ASSUME TypeOK, Locks, NEW r \in Requests, NEW there, Goto(r, there), rows' = rows,
         \A x \in Requests \ {r} : job'[x] = job[x],
         pc[r] \in {"second", "secondWait", "commit"}
           => pc[r] = "second" /\ there = "secondWait" /\ job' = job
  PROVE  Locks'
<1> SUFFICES ASSUME NEW t \in Tables, NEW u \in Users, rows[t][u].tx # None
             PROVE  LockedBy(rows[t][u], t, u, rows[t][u].tx)'
  BY DEF Locks
<1> DEFINE x == rows[t][u].tx
<1>1. x \in Requests /\ LockedBy(rows[t][u], t, u, x)
  BY TxIsRequest DEF Locks
<1>2. CASE x # r
  BY <1>1, <1>2 DEF LockedBy, Goto, TypeOK
<1>3. CASE x = r
  <2>1. pc[r] = "second" /\ there = "secondWait" /\ job' = job
    BY <1>1, <1>3, HoldsNothing
  <2> QED BY <1>1, <1>3, <2>1 DEF LockedBy, Goto, TypeOK, Holders
<1> QED BY <1>2, <1>3

LEMMA ExecuteLocks ==
  ASSUME TypeOK, CourseFits, Locks, NEW r \in Requests, NEW p \in Places,
         pc[r] \in {p, Waiting(p)}, NEW new,
         LET row == rows[TableOf(job[r], p)][job[r].user]
         IN  \/ new = row /\ row.tx # r
             \/ new.tx = r /\ new.is = IF job[r].op = "add" THEN "joining" ELSE "leaving",
         Execute(r, p, new)
  PROVE  Locks'
<1>0. /\ CourseType /\ pc[r] # "idle" /\ pc[r] # "commit"
  BY TypeParts DEF Places, Waiting
<1>1. job[r].user \in Users
  BY <1>0, JobOf
<1> SUFFICES ASSUME NEW t \in Tables, NEW u \in Users, rows'[t][u].tx # None
             PROVE  LockedBy(rows[t][u], t, u, rows[t][u].tx)'
  BY DEF Locks
<1>2. /\ job' = job /\ pc'[r] = AfterStatement(p)
      /\ \A x \in Requests \ {r} : pc'[x] = pc[x]
      /\ rows' = [rows EXCEPT ![TableOf(job[r], p)][job[r].user] = new]
  BY <1>0 DEF Execute, Goto, CourseType
<1>3. CASE rows'[t][u] # rows[t][u]
  <2>1. t = TableOf(job[r], p) /\ u = job[r].user /\ rows'[t][u] = new /\ new # rows[t][u]
    BY <1>1, <1>2, <1>3 DEF TypeOK
  <2>2. new.tx = r /\ new.is = IF job[r].op = "add" THEN "joining" ELSE "leaving"
    BY <2>1
  <2>3. pc'[r] \in Holders(t)
    BY <1>2, <2>1 DEF Holders, TableOf, AfterStatement, Places, P
  <2> QED BY <1>2, <2>1, <2>2, <2>3 DEF LockedBy, Holders
<1>4. CASE rows'[t][u] = rows[t][u]
  <2>1. rows[t][u].tx \in Requests /\ LockedBy(rows[t][u], t, u, rows[t][u].tx)
    BY <1>4, TxIsRequest DEF Locks
  <2>2. CASE rows[t][u].tx # r
    BY <1>2, <1>4, <2>1, <2>2 DEF LockedBy, Holders
  <2>3. CASE rows[t][u].tx = r
    <3>1. pc[r] \in {"second", "secondWait"} /\ p = "second" /\ t = P
      BY <1>0, <2>1, <2>3 DEF LockedBy, Holders, Places, Waiting
    <3> QED BY <1>2, <1>4, <2>1, <2>3, <3>1 DEF LockedBy, Holders, AfterStatement
  <2> QED BY <2>2, <2>3
<1> QED BY <1>3, <1>4

\* A transaction ends, and those that waited for it may go on.
LEMMA EndLocks ==
  ASSUME TypeOK, Locks, NEW r \in Requests, NEW done \in BOOLEAN,
         rows' = AllEnded(r, done), job' = job,
         \A x \in Requests \ {r} :
           \/ pc'[x] = pc[x]
           \/ pc[x] = "firstWait" /\ pc'[x] = "second"
           \/ pc[x] = "secondWait" /\ pc'[x] = "commit"
  PROVE  Locks'
<1> SUFFICES ASSUME NEW t \in Tables, NEW u \in Users, rows'[t][u].tx # None
             PROVE  LockedBy(rows[t][u], t, u, rows[t][u].tx)'
  BY DEF Locks
<1>1. rows'[t][u] = Ended(rows[t][u], r, done)
  BY DEF AllEnded
<1>2. rows[t][u].tx # r /\ rows'[t][u] = rows[t][u]
  BY <1>1 DEF Ended, Rest
<1>3. rows[t][u].tx \in Requests /\ LockedBy(rows[t][u], t, u, rows[t][u].tx)
  BY <1>2, TxIsRequest DEF Locks
<1> QED BY <1>2, <1>3 DEF LockedBy, Holders

LEMMA LockStep ==
  ASSUME TypeOK, LockInv, NEW r \in Requests, Begin(r) \/ Progress(r) \/ Fail(r)
  PROVE  LockInv'
<1>0. CourseFits /\ Locks /\ CourseType
  BY TypeParts DEF LockInv
<1>c. CourseFits'
  <2>1. CASE Begin(r)
    BY <1>0, <2>1 DEF CourseFits, Begin, Goto, CourseType
  <2>2. CASE Fail(r)
    BY <1>0, <2>2 DEF CourseFits, Fail, Goto, CourseType
  <2> QED BY <1>0, <2>1, <2>2, CourseStep
<1>l. Locks'
  <2>1. CASE Begin(r)
    <3>1. \A x \in Requests \ {r} : job'[x] = job[x]
      BY <1>0, <2>1 DEF Begin, CourseType
    <3> QED BY <1>0, <2>1, <3>1, QuietLocks DEF Begin
  <2>2. CASE FetchMeta(r)
    BY <1>0, <2>2, QuietLocks DEF FetchMeta
  <2>3. CASE LoadPerms(r)
    BY <1>0, <2>3, QuietLocks DEF LoadPerms
  <2>4. CASE EnsureMember(r)
    BY <1>0, <2>4, QuietLocks DEF EnsureMember
  <2>5. ASSUME NEW p \in Places, Insert(r, p) PROVE Locks'
    <3> DEFINE row == rows[TableOf(job[r], p)][job[r].user]
    <3>1. pc[r] = p /\ job[r].op = "add" /\ ~InsertWaits(row) /\ pc[r] # "idle"
      BY <2>5 DEF Insert, Places
    <3>2. row.is # "out" => row.tx # r
      BY <1>0, <3>1, JobOf, TableType, TxIsRequest, RosterAssumption DEF InsertWaits, Row
    <3> QED BY <1>0, <2>5, <3>1, <3>2, ExecuteLocks DEF Insert, Inserted
  <2>6. ASSUME NEW p \in Places, Delete(r, p) \/ Unblock(r, p) PROVE Locks'
    <3> DEFINE row == rows[TableOf(job[r], p)][job[r].user]
    <3>1. /\ pc[r] \in {p, Waiting(p)} /\ pc[r] # "idle" /\ job[r].op \in {"remove", "leave"}
      BY <1>0, <2>6 DEF Delete, Unblock, Places, Waiting, CourseFits
    <3>2. row.is # "leaving"
      BY <2>6 DEF Delete, Unblock, DeleteWaits
    <3>3. row.tx # r
      BY <1>0, <3>1, <3>2, JobOf, TableType, RosterAssumption DEF Locks, LockedBy
    <3>4. Execute(r, p, Deleted(row, r))
      BY <2>6 DEF Delete, Unblock
    <3> HIDE DEF row
    <3>5. \/ Deleted(row, r) = row /\ row.tx # r
          \/ Deleted(row, r).tx = r /\ Deleted(row, r).is = "leaving"
      BY <3>3 DEF Deleted
    <3> QED BY <1>0, <3>1, <3>4, <3>5, ExecuteLocks DEF row
  <2>7. ASSUME NEW p \in Places, Block(r, p) PROVE Locks'
    BY <1>0, <2>7, QuietLocks DEF Block, Places, Waiting
  <2>8. CASE Commit(r)
    <3>1. \A x \in Requests \ {r} :
             \/ pc'[x] = pc[x]
             \/ pc[x] = "firstWait" /\ pc'[x] = "second"
             \/ pc[x] = "secondWait" /\ pc'[x] = "commit"
      BY <2>8 DEF Commit, WaitsFor, Waiting
    <3> QED BY <1>0, <2>8, <3>1, EndLocks DEF Commit
  <2>9. CASE WritePerms(r) \/ WriteMute(r)
    BY <1>0, <2>9, QuietLocks DEF WritePerms, WriteMute
  <2>10. CASE WriteNote(r)
    <3> DEFINE row == rows[M][job[r].user]
    <3>1. pc[r] = "write" /\ ~InsertWaits(row)
      BY <2>10 DEF WriteNote, M
    <3>2. rows' = [rows EXCEPT ![M][job[r].user] = Rest("in")] /\ job' = job /\ Goto(r, "reply")
      BY <2>10 DEF WriteNote, M
    <3> SUFFICES ASSUME NEW t \in Tables, NEW u \in Users, rows'[t][u].tx # None
                 PROVE  LockedBy(rows[t][u], t, u, rows[t][u].tx)'
      BY DEF Locks
    <3>3. rows'[t][u] = rows[t][u]
      BY <3>2 DEF Rest, TypeOK
    <3>4. rows[t][u].tx \in Requests /\ LockedBy(rows[t][u], t, u, rows[t][u].tx)
      BY <1>0, <3>3, TxIsRequest DEF Locks
    <3>5. rows[t][u].tx # r
      BY <1>0, <3>1, HoldsNothing
    <3> QED BY <1>0, <3>2, <3>3, <3>4, <3>5 DEF LockedBy, Goto, CourseType
  <2>11. CASE Reply(r)
    BY <1>0, <2>11, QuietLocks DEF Reply
  <2>12. CASE Fail(r)
    BY <1>0, <2>12, EndLocks DEF Fail, Goto, CourseType
  <2> QED
    BY <2>1, <2>2, <2>3, <2>4, <2>5, <2>6, <2>7, <2>8, <2>9, <2>10, <2>11, <2>12 DEF Progress
<1> QED BY <1>c, <1>l DEF LockInv

LEMMA InitLocks == Init => LockInv
BY DEF Init, LockInv, CourseFits, Locks, Rest

LEMMA NextLocks == TypeOK /\ LockInv /\ [Next]_vars => LockInv'
<1> SUFFICES ASSUME TypeOK, LockInv, [Next]_vars PROVE LockInv'
  OBVIOUS
<1>1. CASE Next
  BY <1>1, LockStep DEF Next
<1>2. CASE UNCHANGED vars
  BY <1>2 DEF LockInv, CourseFits, Locks, LockedBy, vars
<1> QED BY <1>1, <1>2

THEOREM LocksHeld == Spec => [](TypeOK /\ LockInv)
<1>1. Init => TypeOK /\ LockInv
  BY InitType, InitLocks
<1>2. TypeOK /\ LockInv /\ [Next]_vars => (TypeOK /\ LockInv)'
  BY NextType, NextLocks
<1> QED BY <1>1, <1>2, PTL DEF Spec

----------------------------------------------------------------------------
\* No deadlock

\* How far a request is in its transaction.
Depth(r) ==
  IF pc[r] = "commit" THEN 2 ELSE IF pc[r] \in {"second", "secondWait"} THEN 1 ELSE 0

LEMMA BlockedIsShallower ==
  ASSUME TypeOK, LockInv, NEW r \in Requests, NEW x \in Requests, Blocked(r, x)
  PROVE  Depth(r) < Depth(x)
<1>0. CourseType /\ CourseFits /\ Locks
  BY TypeParts DEF LockInv
<1>1. CASE pc[r] = "write" /\ rows[M][job[r].user].tx = x
  <2>1. job[r].user \in Users /\ M \in Tables
    BY <1>0, <1>1, JobOf DEF M, Tables
  <2>2. pc[x] \in Holders(M)
    BY <1>0, <1>1, <2>1, RosterAssumption DEF Locks, LockedBy
  <2> QED BY <1>1, <2>2 DEF Holders, Depth, M, P
<1>2. ASSUME NEW p \in Places, pc[r] \in {p, Waiting(p)},
             rows[TableOf(job[r], p)][job[r].user].tx = x
      PROVE  Depth(r) < Depth(x)
  <2>1. job[r].user \in Users /\ TableOf(job[r], p) \in Tables
    BY <1>0, <1>2, JobOf, TableType DEF Places, Waiting
  <2>2. pc[x] \in Holders(TableOf(job[r], p))
    BY <1>0, <1>2, <2>1, RosterAssumption DEF Locks, LockedBy
  <2> QED BY <1>2, <2>2 DEF Holders, Depth, TableOf, Places, Waiting, P
<1> QED BY <1>1, <1>2 DEF Blocked, M

(***************************************************************************)
(* However many transactions wait for one another, they never do so in a   *)
(* circle: whoever waits is less deep in its transaction than the one it   *)
(* waits for (chats.rs lines 184-201, 366-379, 475-488).                   *)
(***************************************************************************)
THEOREM DeadlockFree == Spec => []NoDeadlock
<1>1. ASSUME TypeOK, LockInv PROVE NoDeadlock
  <2> SUFFICES ASSUME NEW R \in (SUBSET Requests) \ {{}}
               PROVE  \E r \in R : \A x \in R : ~Blocked(r, x)
    BY DEF NoDeadlock
  <2>1. PICK r \in R : \A x \in R : Depth(x) <= Depth(r)
    <3>1. CASE \E r \in R : Depth(r) = 2
      BY <3>1 DEF Depth
    <3>2. CASE (\A r \in R : Depth(r) # 2) /\ \E r \in R : Depth(r) = 1
      BY <3>2 DEF Depth
    <3>3. CASE \A r \in R : Depth(r) # 2 /\ Depth(r) # 1
      <4>1. \A x \in R : Depth(x) = 0
        BY <3>3 DEF Depth
      <4>2. R # {}
        OBVIOUS
      <4> QED BY <4>1, <4>2
    <3> QED BY <3>1, <3>2, <3>3
  <2>2. \A x \in R : Depth(x) \in 0..2
    BY DEF Depth
  <2> QED BY <1>1, <2>1, <2>2, BlockedIsShallower
<1> QED BY <1>1, LocksHeld, PTL

----------------------------------------------------------------------------
\* Somebody can always go on

\* The row that a request works on, or waits for, at this place.
RowAt(r, p) == rows[TableOf(job[r], p)][job[r].user]

\* Whoever waits has a row to wait for: whoever deletes it wakes all of them.
WaitedFor ==
  \A r \in Requests, p \in Places :
    pc[r] = Waiting(p) => RowAt(r, p).is \in {"in", "leaving"}

\* A step that leaves the rows alone and lets r wait for nothing, or for a row
\* that is going.
LEMMA QuietWaits ==
  ASSUME TypeOK, WaitedFor, NEW r \in Requests, NEW there, Goto(r, there), rows' = rows,
         \A x \in Requests \ {r} : job'[x] = job[x],
         \A p \in Places : there = Waiting(p) => RowAt(r, p).is = "leaving" /\ job' = job
  PROVE  WaitedFor'
BY DEF WaitedFor, RowAt, TableOf, Goto, TypeOK

\* r changes one row, and no row that is there goes.
LEMMA ChangeWaits ==
  ASSUME TypeOK, WaitedFor, NEW r \in Requests, NEW t \in Tables, NEW new,
         job[r].user \in Users, rows' = [rows EXCEPT ![t][job[r].user] = new],
         rows[t][job[r].user].is \in {"in", "leaving"} => new.is \in {"in", "leaving"},
         NEW there \in Pcs \ {"firstWait", "secondWait"}, Goto(r, there), job' = job
  PROVE  WaitedFor'
<1> SUFFICES ASSUME NEW x \in Requests, NEW p \in Places, pc'[x] = Waiting(p)
             PROVE  RowAt(x, p)'.is \in {"in", "leaving"}
  BY DEF WaitedFor
<1>0. CourseType
  BY TypeParts
<1>1. x # r /\ pc[x] = Waiting(p) /\ pc[x] # "idle"
  BY <1>0 DEF Goto, CourseType, Waiting, Places
<1>2. job[x].user \in Users /\ TableOf(job[x], p) \in Tables
  BY <1>0, <1>1, JobOf, TableType
<1>3. RowAt(x, p).is \in {"in", "leaving"}
  BY <1>1 DEF WaitedFor
<1>4. RowAt(x, p)' = rows'[TableOf(job[x], p)][job[x].user]
  BY DEF RowAt, TableOf
<1> QED BY <1>2, <1>3, <1>4 DEF RowAt, TypeOK

LEMMA WaitStep ==
  ASSUME TypeOK, LockInv, WaitedFor, NEW r \in Requests, Begin(r) \/ Progress(r) \/ Fail(r)
  PROVE  WaitedFor'
<1>0. CourseType /\ CourseFits /\ RowsType
  BY TypeParts DEF LockInv
<1>1. CASE Begin(r)
  <2>1. \A x \in Requests \ {r} : job'[x] = job[x]
    BY <1>0, <1>1 DEF Begin, CourseType
  <2> QED BY <1>1, <2>1, QuietWaits DEF Begin, Waiting
<1>2. CASE FetchMeta(r)
  <2>1. AfterMeta(job[r]) \notin {"firstWait", "secondWait"}
    <3>1. job[r].op \in Ops
      BY <1>0, <1>2, JobOf DEF FetchMeta
    <3> QED BY <3>1 DEF AfterMeta, Ops
  <2> QED BY <1>2, <2>1, QuietWaits DEF FetchMeta, Waiting
<1>3. CASE LoadPerms(r) \/ EnsureMember(r)
  <2>1. PICK there \in {"first", "write", "done"} : Goto(r, there)
    BY <1>3 DEF LoadPerms, EnsureMember
  <2>2. rows' = rows /\ job' = job
    BY <1>3 DEF LoadPerms, EnsureMember
  <2> QED BY <2>1, <2>2, QuietWaits DEF Waiting
<1>4. ASSUME NEW p \in Places, NEW new, Execute(r, p, new), pc[r] # "idle",
             RowAt(r, p).is \in {"in", "leaving"} => new.is \in {"in", "leaving"}
      PROVE  WaitedFor'
  <2>1. job[r].user \in Users /\ TableOf(job[r], p) \in Tables
    BY <1>0, <1>4, JobOf, TableType
  <2>2. AfterStatement(p) \in Pcs \ {"firstWait", "secondWait"}
    BY DEF AfterStatement, Pcs
  <2> QED BY <1>4, <2>1, <2>2, ChangeWaits DEF Execute, RowAt
<1>5. ASSUME NEW p \in Places, Insert(r, p) PROVE WaitedFor'
  BY <1>4, <1>5 DEF Insert, Inserted, RowAt, Places
<1>6. ASSUME NEW p \in Places, Delete(r, p) \/ Unblock(r, p) PROVE WaitedFor'
  BY <1>4, <1>6 DEF Delete, Unblock, Deleted, RowAt, Places, Waiting
<1>7. ASSUME NEW p \in Places, Block(r, p) PROVE WaitedFor'
  <2>1. RowAt(r, p).is = "leaving"
    BY <1>7 DEF Block, DeleteWaits, RowAt
  <2>2. \A q \in Places : Waiting(p) = Waiting(q) => q = p
    BY DEF Waiting, Places
  <2> QED BY <1>7, <2>1, <2>2, QuietWaits DEF Block
<1>8. CASE Commit(r)
  <2> SUFFICES ASSUME NEW x \in Requests, NEW p \in Places, pc'[x] = Waiting(p)
               PROVE  RowAt(x, p)'.is \in {"in", "leaving"}
    BY DEF WaitedFor
  <2>1. pc[x] = Waiting(p) /\ ~WaitsFor(x, r, p) /\ pc[x] # "idle"
    BY <1>8 DEF Commit, Waiting, Places
  <2>2. /\ job[x].user \in Users /\ TableOf(job[x], p) \in Tables
        /\ RowAt(x, p).is \in {"in", "leaving"}
    BY <1>0, <2>1, JobOf, TableType DEF WaitedFor
  <2>3. RowAt(x, p)' = Ended(RowAt(x, p), r, TRUE)
    BY <1>8, <2>2 DEF Commit, AllEnded, RowAt, TableOf
  <2>4. RowAt(x, p) \in Row /\ (RowAt(x, p).tx = None <=> RowAt(x, p).is = "in")
    BY <2>2, TxIsRequest DEF RowAt
  <2>5. RowAt(x, p).tx # r
    BY <2>1, <2>2, <2>4, RosterAssumption DEF WaitsFor, RowAt, Row
  <2> QED BY <2>2, <2>3, <2>5 DEF Ended
<1>9. CASE WritePerms(r) \/ WriteMute(r)
  BY <1>9, QuietWaits DEF WritePerms, WriteMute, Waiting
<1>10. CASE WriteNote(r)
  <2>1. job[r].user \in Users /\ M \in Tables
    BY <1>0, <1>10, JobOf DEF WriteNote, M, Tables
  <2>2. rows' = [rows EXCEPT ![M][job[r].user] = Rest("in")] /\ Goto(r, "reply") /\ job' = job
    BY <1>10 DEF WriteNote, M
  <2> HIDE DEF M
  <2> QED BY <2>1, <2>2, ChangeWaits DEF Rest, Pcs
<1>11. CASE Reply(r)
  BY <1>11, QuietWaits DEF Reply, Waiting
<1>12. CASE Fail(r)
  <2> SUFFICES ASSUME NEW x \in Requests, NEW p \in Places, pc'[x] = Waiting(p)
               PROVE  RowAt(x, p)'.is \in {"in", "leaving"}
    BY DEF WaitedFor
  <2>1. pc[x] = Waiting(p) /\ pc[x] # "idle"
    BY <1>0, <1>12 DEF Fail, Goto, CourseType, Waiting, Places
  <2>2. /\ job[x].user \in Users /\ TableOf(job[x], p) \in Tables
        /\ RowAt(x, p).is \in {"in", "leaving"}
    BY <1>0, <2>1, JobOf, TableType DEF WaitedFor
  <2>3. RowAt(x, p)' = Ended(RowAt(x, p), r, FALSE)
    BY <1>12, <2>2 DEF Fail, AllEnded, RowAt, TableOf
  <2> QED BY <2>2, <2>3 DEF Ended, Rest
<1> QED
  BY <1>1, <1>2, <1>3, <1>5, <1>6, <1>7, <1>8, <1>9, <1>10, <1>11, <1>12 DEF Progress

LEMMA WaitedAlways == Spec => []WaitedFor
<1>1. Init => WaitedFor
  BY DEF Init, WaitedFor, Waiting
<1>2. TypeOK /\ LockInv /\ WaitedFor /\ [Next]_vars => WaitedFor'
  <2> SUFFICES ASSUME TypeOK, LockInv, WaitedFor, [Next]_vars PROVE WaitedFor'
    OBVIOUS
  <2>1. CASE Next
    BY <2>1, WaitStep DEF Next
  <2>2. CASE UNCHANGED vars
    BY <2>2 DEF WaitedFor, RowAt, TableOf, vars
  <2> QED BY <2>1, <2>2
<1> QED BY <1>1, <1>2, LocksHeld, PTL DEF Spec

Running(r) == pc[r] \notin {"idle", "done"}

\* ENABLED Progress(r), by the guards of its actions.
CanGo(r) ==
  \/ pc[r] \in {"meta", "perms", "member", "commit", "reply"}
  \/ \E p \in Places :
       \/ pc[r] = p /\ (job[r].op = "add" => ~InsertWaits(RowAt(r, p)))
       \/ pc[r] = Waiting(p) /\ RowAt(r, p).is = "in"
  \/ pc[r] = "write" /\ (job[r].op = "note" => ~InsertWaits(rows[M][job[r].user]))

(***************************************************************************)
(* The requests about one chat never all wait: while any of them runs, one *)
(* of them can execute its next statement, without any of the others       *)
(* failing first.  It is what DeadlockFree is for, and needs also that no  *)
(* DELETE is left waiting for a row that is already gone.                  *)
(***************************************************************************)
THEOREM SomebodyGoesOn ==
  Spec => []((\E r \in Requests : Running(r)) => \E r \in Requests : Running(r) /\ CanGo(r))
<1>1. ASSUME TypeOK, LockInv, WaitedFor, NoDeadlock, NEW y \in Requests, Running(y)
      PROVE  \E r \in Requests : Running(r) /\ CanGo(r)
  <2>0. CourseType /\ CourseFits /\ Locks
    BY <1>1, TypeParts DEF LockInv
  <2> DEFINE R == {r \in Requests : Running(r)}
  <2>1. PICK r \in R : \A x \in R : ~Blocked(r, x)
    BY <1>1 DEF NoDeadlock
  <2>2. job[r].user \in Users /\ \A p : TableOf(job[r], p) \in Tables
    BY <2>0, JobOf, TableType DEF Running
  <2>3. ASSUME NEW t \in Tables, rows[t][job[r].user].is \in {"joining", "leaving"}
        PROVE  rows[t][job[r].user].tx \in R
    <3> DEFINE x == rows[t][job[r].user].tx
    <3>1. x \in Requests
      BY <1>1, <2>2, <2>3, TxIsRequest
    <3>2. pc[x] \in Holders(t)
      BY <2>0, <2>2, <3>1, RosterAssumption DEF Locks, LockedBy
    <3> QED BY <3>1, <3>2 DEF Holders, Running
  <2>4. ASSUME NEW p \in Places, pc[r] \in {p, Waiting(p)} PROVE CanGo(r)
    <3>1. RowAt(r, p).is \notin {"joining", "leaving"}
      BY <2>1, <2>2, <2>3, <2>4 DEF Blocked, RowAt
    <3>2. CASE pc[r] = p
      BY <3>1, <3>2 DEF CanGo, InsertWaits
    <3>3. CASE pc[r] = Waiting(p)
      BY <1>1, <3>1, <3>3 DEF CanGo, WaitedFor
    <3> QED BY <2>4, <3>2, <3>3
  <2>5. ASSUME pc[r] = "write" PROVE CanGo(r)
    <3>1. CASE job[r].op = "note"
      BY <2>1, <2>2, <2>3, <2>5, <3>1 DEF CanGo, Blocked, InsertWaits, M, Tables
    <3> QED BY <2>5, <3>1 DEF CanGo
  <2>6. \/ pc[r] \in {"meta", "perms", "member", "commit", "reply", "write"}
        \/ \E p \in Places : pc[r] \in {p, Waiting(p)}
    BY <2>0 DEF CourseType, Pcs, Running, Places, Waiting
  <2>7. CanGo(r)
    BY <2>4, <2>5, <2>6 DEF CanGo
  <2> QED BY <2>7
<1>2. TypeOK /\ LockInv /\ WaitedFor /\ NoDeadlock
      => ((\E r \in Requests : Running(r)) => \E r \in Requests : Running(r) /\ CanGo(r))
  BY <1>1
<1> QED BY <1>2, LocksHeld, WaitedAlways, DeadlockFree, PTL

\* An upper bound on the turns the handler of r still takes.
TurnsLeft(r) ==
  CASE pc[r] = "idle" -> 9
    [] pc[r] = "meta" -> 8
    [] pc[r] \in {"perms", "member"} -> 7
    [] pc[r] = "first" -> 6
    [] pc[r] = "firstWait" -> 5
    [] pc[r] = "second" -> 4
    [] pc[r] = "secondWait" -> 3
    [] pc[r] \in {"commit", "write"} -> 2
    [] pc[r] = "reply" -> 1
    [] pc[r] = "done" -> 0

\* One request comes nearer its end, and none is thrown back.
Advances ==
  /\ \A x \in Requests : TurnsLeft(x)' <= TurnsLeft(x)
  /\ \E r \in Requests : TurnsLeft(r)' < TurnsLeft(r)

LEMMA AdvanceStep ==
  ASSUME TypeOK, CourseType', NEW r \in Requests, Begin(r) \/ Progress(r) \/ Fail(r)
  PROVE  Advances
<1>0. CourseType
  BY TypeParts
<1>1. ASSUME NEW x \in Requests PROVE TurnsLeft(x) \in 0..9 /\ TurnsLeft(x)' \in 0..9
  <2>1. pc[x] \in Pcs /\ pc'[x] \in Pcs
    BY <1>0 DEF CourseType
  <2> QED BY <2>1 DEF Pcs, TurnsLeft
<1>g. ASSUME NEW there, Goto(r, there),
             pc'[r] = there => TurnsLeft(r)' < TurnsLeft(r)
      PROVE  Advances
  <2>1. pc'[r] = there /\ \A x \in Requests \ {r} : pc'[x] = pc[x]
    BY <1>0, <1>g DEF Goto, CourseType
  <2>2. \A x \in Requests \ {r} : TurnsLeft(x)' = TurnsLeft(x)
    BY <2>1 DEF TurnsLeft
  <2> QED BY <1>1, <1>g, <2>1, <2>2 DEF Advances
<1>2. CASE FetchMeta(r)
  <2>1. AfterMeta(job[r]) \in {"perms", "member", "first", "write", "done"}
    <3>1. job[r].op \in Ops
      BY <1>0, <1>2, JobOf DEF FetchMeta
    <3> QED BY <3>1 DEF AfterMeta, Ops
  <2> QED BY <1>2, <1>g, <2>1 DEF FetchMeta, TurnsLeft
<1>3. ASSUME NEW p \in Places, Insert(r, p) \/ Delete(r, p) \/ Block(r, p) \/ Unblock(r, p)
      PROVE  Advances
  <2>1. \/ pc[r] \in {p, Waiting(p)} /\ Goto(r, AfterStatement(p))
        \/ pc[r] = p /\ Goto(r, Waiting(p))
    BY <1>3 DEF Insert, Delete, Block, Unblock, Execute
  <2> QED BY <1>g, <2>1 DEF Places, Waiting, AfterStatement, TurnsLeft
<1>4. CASE Commit(r)
  <2>1. pc[r] = "commit" /\ pc'[r] = "reply"
    BY <1>0, <1>4 DEF Commit
  <2>2. ASSUME NEW x \in Requests PROVE TurnsLeft(x)' <= TurnsLeft(x)
    <3>1. \/ pc'[x] = pc[x]
          \/ pc[x] = "commit" /\ pc'[x] = "reply"
          \/ pc[x] = "firstWait" /\ pc'[x] = "second"
          \/ pc[x] = "secondWait" /\ pc'[x] = "commit"
      BY <1>4, <2>1 DEF Commit, WaitsFor, Waiting
    <3>2. CASE pc'[x] = pc[x]
      <4>1. TurnsLeft(x)' = TurnsLeft(x)
        BY <3>2 DEF TurnsLeft
      <4> QED BY <1>1, <4>1
    <3>3. CASE pc[x] = "commit" /\ pc'[x] = "reply"
      BY <3>3 DEF TurnsLeft
    <3>4. CASE pc[x] = "firstWait" /\ pc'[x] = "second"
      BY <3>4 DEF TurnsLeft
    <3>5. CASE pc[x] = "secondWait" /\ pc'[x] = "commit"
      BY <3>5 DEF TurnsLeft
    <3> QED BY <3>1, <3>2, <3>3, <3>4, <3>5
  <2>3. TurnsLeft(r)' < TurnsLeft(r)
    BY <2>1 DEF TurnsLeft
  <2> QED BY <2>2, <2>3 DEF Advances
<1>5. CASE Begin(r) \/ LoadPerms(r) \/ EnsureMember(r)
  BY <1>5, <1>g DEF Begin, LoadPerms, EnsureMember, TurnsLeft
<1>6. CASE WritePerms(r) \/ WriteMute(r) \/ WriteNote(r) \/ Reply(r)
  BY <1>6, <1>g DEF WritePerms, WriteMute, WriteNote, Reply, TurnsLeft
<1>7. CASE Fail(r)
  <2>1. TurnsLeft(r) # 0
    <3>1. pc[r] \in Pcs \ {"idle", "done"}
      BY <1>0, <1>7 DEF Fail, CourseType
    <3> QED BY <3>1 DEF Pcs, TurnsLeft
  <2>2. TurnsLeft(r) > 0
    BY <1>1, <2>1
  <2>3. pc'[r] = "done" => TurnsLeft(r)' = 0
    BY DEF TurnsLeft
  <2> QED BY <1>7, <1>g, <2>2, <2>3 DEF Fail
<1> QED BY <1>2, <1>3, <1>4, <1>5, <1>6, <1>7 DEF Progress

(***************************************************************************)
(* Every step brings one request nearer its end and throws none back: no   *)
(* handler starts a transaction again, neither when it has waited for a    *)
(* row nor when another one failed, so a request takes at most nine steps. *)
(* With SomebodyGoesOn: as long as handlers go on, all requests end, and   *)
(* there is no livelock (chats.rs lines 184-201, 366-380, 474-488).        *)
(***************************************************************************)
THEOREM RequestsRunOut == Spec => [][Advances]_vars
<1>1. TypeOK /\ TypeOK' /\ [Next]_vars => [Advances]_vars
  <2> SUFFICES ASSUME TypeOK, TypeOK', Next PROVE Advances
    OBVIOUS
  <2>1. CourseType'
    BY DEF TypeOK, CourseType
  <2> QED BY <2>1, AdvanceStep DEF Next
<1> QED BY <1>1, TypeCorrect, PTL DEF Spec

----------------------------------------------------------------------------
\* Direct chats

NothingChanges ==
  isDirect =>
    /\ Participants = Members0
    /\ \A u \in Users : perms[u] = {}
    /\ \A r \in Requests :
         /\ pc[r] \notin {"first", "firstWait", "second", "secondWait", "commit"}
         /\ pc[r] \in {"member", "write"} => job[r].op = "note"

LEMMA DirectStep ==
  ASSUME TypeOK, LockInv, NothingChanges, NEW r \in Requests, Begin(r) \/ Progress(r) \/ Fail(r)
  PROVE  NothingChanges'
<1>0. CourseType
  BY TypeParts
<1>d. isDirect' = isDirect
  BY DEF Begin, Progress, Fail, FetchMeta, LoadPerms, EnsureMember, Insert, Delete, Block,
         Unblock, Execute, Commit, WritePerms, WriteMute, WriteNote, Reply
<1> SUFFICES ASSUME isDirect
             PROVE  /\ Participants' = Participants
                    /\ perms' = perms
                    /\ pc'[r] \notin {"first", "firstWait", "second", "secondWait", "commit"}
                    /\ pc'[r] \in {"member", "write"} => job'[r].op = "note"
                    /\ \A x \in Requests \ {r} : pc'[x] = pc[x] /\ job'[x] = job[x]
  BY <1>d DEF NothingChanges
<1>1. /\ pc[r] \notin {"first", "firstWait", "second", "secondWait", "commit"}
      /\ pc[r] \in {"member", "write"} => job[r].op = "note"
      /\ \A u \in Users : perms[u] = {}
  BY DEF NothingChanges
<1>p. ASSUME rows'[P] = rows[P] PROVE Participants' = Participants
  BY <1>p DEF Participants, Visible, P
<1>2. CASE Begin(r)
  BY <1>0, <1>2, <1>p DEF Begin, Goto, CourseType
<1>3. CASE FetchMeta(r)
  <2>1. job[r].op \in Ops
    BY <1>0, <1>3, JobOf DEF FetchMeta
  <2> QED BY <1>0, <1>3, <1>p, <2>1 DEF FetchMeta, Goto, AfterMeta, IsOwner, CourseType, Ops
<1>4. CASE LoadPerms(r)
  <2>1. job[r].by \in Users
    BY <1>0, <1>4, JobOf DEF LoadPerms
  <2>2. ~Allowed(job[r])
    BY <1>1, <2>1 DEF Allowed, IsOwner
  <2> QED BY <1>0, <1>4, <1>p, <2>2 DEF LoadPerms, Goto, CourseType
<1>5. CASE EnsureMember(r)
  BY <1>0, <1>1, <1>5, <1>p DEF EnsureMember, Goto, CourseType
<1>6. CASE WritePerms(r) \/ WriteMute(r) \/ Reply(r)
  BY <1>0, <1>1, <1>6, <1>p DEF WritePerms, WriteMute, Reply, Goto, CourseType
<1>7. CASE WriteNote(r)
  <2>1. rows'[P] = rows[P]
    BY <1>7 DEF WriteNote, TypeOK, P, Tables
  <2> QED BY <1>0, <1>1, <1>7, <1>p, <2>1 DEF WriteNote, Goto, CourseType
<1>8. CASE Fail(r)
  <2>1. ASSUME NEW u \in Users PROVE rows'[P][u] = rows[P][u]
    <3>1. rows'[P][u] = Ended(rows[P][u], r, FALSE)
      BY <1>8 DEF Fail, AllEnded, P, Tables
    <3>2. rows[P][u].tx # r
      BY <1>1, HoldsNothing DEF LockInv, P, Tables
    <3> QED BY <3>1, <3>2 DEF Ended
  <2>2. Participants' = Participants
    BY <2>1 DEF Participants, Visible, P
  <2> QED BY <1>0, <1>8, <2>2 DEF Fail, Goto, CourseType
<1>9. ~\E p \in Places : Insert(r, p) \/ Delete(r, p) \/ Block(r, p) \/ Unblock(r, p)
  BY <1>1 DEF Insert, Delete, Block, Unblock, Places, Waiting
<1>10. ~Commit(r)
  BY <1>1 DEF Commit
<1> QED BY <1>2, <1>3, <1>4, <1>5, <1>6, <1>7, <1>8, <1>9, <1>10 DEF Progress

(***************************************************************************)
(* A direct chat keeps its two participants and never has an admin:        *)
(* owner_id is NULL there, so every request that could change either is    *)
(* refused before it writes (chats.rs lines 178-182, 287-290, 361-365,     *)
(* 468-474).                                                               *)
(***************************************************************************)
THEOREM DirectChatsStay == Spec => []DirectStays
<1>1. Init => NothingChanges
  <2> SUFFICES ASSUME Init PROVE NothingChanges
    OBVIOUS
  <2>1. Participants = Members0
    BY RosterAssumption DEF Init, Participants, Visible, Rest, Tables
  <2> QED BY <2>1 DEF Init, NothingChanges
<1>2. TypeOK /\ LockInv /\ NothingChanges /\ [Next]_vars => NothingChanges'
  <2> SUFFICES ASSUME TypeOK, LockInv, NothingChanges, [Next]_vars PROVE NothingChanges'
    OBVIOUS
  <2>1. CASE Next
    BY <2>1, DirectStep DEF Next
  <2>2. CASE UNCHANGED vars
    BY <2>2 DEF NothingChanges, Participants, Visible, vars
  <2> QED BY <2>1, <2>2
<1>3. NothingChanges => DirectStays
  BY DEF NothingChanges, DirectStays
<1> QED BY <1>1, <1>2, <1>3, LocksHeld, PTL DEF Spec

----------------------------------------------------------------------------
\* Who changes a chat

VARIABLE held  \* history: request -> permissions its user has had since it began

Watching ==
  held' = [r \in Requests |->
             IF job'[r] = None THEN {}
             ELSE perms'[job'[r].by] \cup (IF job[r] = None THEN {} ELSE held[r])]

\* Every behaviour of Roster, with its history.
WatchedSpec == Init /\ held = [r \in Requests |-> {}] /\ [][Next /\ Watching]_<<vars, held>>

\* Who may make the request, by what its handler looks at.
Entitled(r) ==
  LET j == job[r]
  IN  /\ j.op = "add" => IsOwner(j.by) \/ "invite" \in held[r]
      /\ j.op \in {"remove", "mute", "unmute"} => IsOwner(j.by) \/ "manage" \in held[r]
      /\ j.op = "leave" => ~isDirect /\ j.by # Creator
      /\ j.op \in {"promote", "demote"} => IsOwner(j.by)

AtWork == {"first", "firstWait", "second", "secondWait", "commit", "write"}

\* The request has passed every check there is on who makes it.
Admitted(r) == pc[r] \in AtWork \/ (pc[r] = "member" /\ job[r].op = "promote")

EntitledInv ==
  /\ \A r \in Requests : job[r] # None => perms[job[r].by] \subseteq held[r]
  /\ \A r \in Requests : Admitted(r) => Entitled(r)

LEMMA KindStays ==
  ASSUME NEW r \in Requests, Begin(r) \/ Progress(r) \/ Fail(r)
  PROVE  isDirect' = isDirect
BY DEF Begin, Progress, Fail, FetchMeta, LoadPerms, EnsureMember, Insert, Delete, Block,
       Unblock, Execute, Commit, WritePerms, WriteMute, WriteNote, Reply

LEMMA EntitledStep ==
  ASSUME TypeOK, LockInv, EntitledInv, Watching, NEW r \in Requests,
         Begin(r) \/ Progress(r) \/ Fail(r)
  PROVE  EntitledInv'
<1>0. CourseType /\ CourseFits /\ None \notin Jobs
  BY TypeParts, RosterAssumption DEF LockInv, Jobs
<1>h. \A x \in Requests : job'[x] # None => perms'[job'[x].by] \subseteq held'[x]
  BY DEF Watching
<1>e. ASSUME NEW x \in Requests, job'[x] = job[x], job[x] # None, Entitled(x)
      PROVE  Entitled(x)'
  <2>1. held[x] \subseteq held'[x]
    BY <1>e DEF Watching
  <2>2. isDirect' = isDirect
    BY KindStays
  <2> QED BY <1>e, <2>1, <2>2 DEF Entitled, IsOwner
<1>g. ASSUME \A x \in Requests : Admitted(x)' => job'[x] = job[x] /\ job[x] # None /\ Entitled(x)
      PROVE  EntitledInv'
  BY <1>e, <1>g, <1>h DEF EntitledInv
<1>s. ASSUME NEW there, Goto(r, there), job' = job, pc[r] # "idle",
             \/ there \notin AtWork /\ (there = "member" => job[r].op # "promote")
             \/ Entitled(r)
      PROVE  EntitledInv'
  <2>1. ASSUME NEW x \in Requests, Admitted(x)' PROVE job[x] # None /\ Entitled(x)
    <3>1. pc'[x] = IF x = r THEN there ELSE pc[x]
      BY <1>0, <1>s DEF Goto, CourseType
    <3>2. pc[x] # "idle"
      BY <1>s, <2>1, <3>1 DEF Admitted, AtWork
    <3> QED BY <1>0, <1>s, <2>1, <3>1, <3>2 DEF Admitted, EntitledInv, CourseType
  <2> QED BY <1>g, <1>s, <2>1
<1>1. CASE Begin(r)
  <2>1. /\ \A x \in Requests \ {r} : job'[x] = job[x] /\ pc'[x] = pc[x]
        /\ pc'[r] = "meta"
    BY <1>0, <1>1 DEF Begin, Goto, CourseType
  <2>2. \A x \in Requests : Admitted(x)' => job'[x] = job[x] /\ job[x] # None /\ Entitled(x)
    BY <1>0, <2>1 DEF Admitted, AtWork, EntitledInv, CourseType
  <2> QED BY <1>g, <2>2
<1>2. CASE FetchMeta(r)
  <2>1. job[r].op \in Ops
    BY <1>0, <1>2, JobOf DEF FetchMeta
  <2>2. Goto(r, AfterMeta(job[r])) /\ job' = job /\ pc[r] # "idle"
    BY <1>2 DEF FetchMeta
  <2>3. \/ AfterMeta(job[r]) \notin AtWork
           /\ (AfterMeta(job[r]) = "member" => job[r].op # "promote")
        \/ Entitled(r)
    BY <2>1 DEF AfterMeta, AtWork, Entitled, IsOwner, Ops
  <2> QED BY <1>s, <2>2, <2>3
<1>3. CASE LoadPerms(r)
  <2>1. /\ job[r].op \in {"add", "remove", "mute", "unmute"} /\ job' = job
        /\ pc[r] # "idle" /\ job[r] # None
    BY <1>0, <1>3 DEF LoadPerms, CourseFits, CourseType
  <2>2. Allowed(job[r]) => Entitled(r)
    BY <2>1 DEF Allowed, Entitled, EntitledInv
  <2>3. \/ Allowed(job[r]) /\ (Goto(r, "first") \/ Goto(r, "write"))
        \/ Goto(r, "done")
    BY <1>3 DEF LoadPerms
  <2> QED BY <1>s, <2>1, <2>2, <2>3 DEF AtWork
<1>4. CASE EnsureMember(r)
  <2>1. job[r].op \in {"promote", "note"} /\ pc[r] = "member"
    BY <1>0, <1>4 DEF EnsureMember, CourseFits
  <2>2. Entitled(r)
    BY <2>1 DEF EntitledInv, Admitted, Entitled
  <2>3. job' = job /\ \E there : Goto(r, there)
    BY <1>4 DEF EnsureMember
  <2> QED BY <1>s, <2>1, <2>2, <2>3
<1>5. ASSUME NEW p \in Places, Insert(r, p) \/ Delete(r, p) \/ Block(r, p) \/ Unblock(r, p)
      PROVE  EntitledInv'
  <2>1. pc[r] \in AtWork
    BY <1>5 DEF Insert, Delete, Block, Unblock, Places, Waiting, AtWork
  <2>2. Entitled(r) /\ pc[r] # "idle"
    BY <2>1 DEF EntitledInv, Admitted, AtWork
  <2>3. job' = job /\ \E there : Goto(r, there)
    BY <1>5 DEF Insert, Delete, Block, Unblock, Execute
  <2> QED BY <1>s, <2>2, <2>3
<1>6. CASE Commit(r)
  <2>1. ASSUME NEW x \in Requests, Admitted(x)' PROVE job[x] # None /\ Entitled(x)
    <3>1. pc'[x] = pc[x] \/ pc'[x] = "reply" \/ pc[x] \in AtWork
      BY <1>6 DEF Commit, WaitsFor, Waiting, AtWork
    <3>2. job' = job
      BY <1>6 DEF Commit
    <3>3. Admitted(x)
      BY <2>1, <3>1, <3>2 DEF Admitted, AtWork
    <3> QED BY <1>0, <3>3 DEF Admitted, AtWork, EntitledInv, CourseType
  <2> QED BY <1>6, <1>g, <2>1 DEF Commit
<1>7. CASE WritePerms(r) \/ WriteMute(r) \/ WriteNote(r) \/ Reply(r) \/ Fail(r)
  <2>1. job' = job /\ pc[r] # "idle" /\ (Goto(r, "reply") \/ Goto(r, "done"))
    BY <1>7 DEF WritePerms, WriteMute, WriteNote, Reply, Fail
  <2> QED BY <1>s, <2>1 DEF AtWork
<1> QED BY <1>1, <1>2, <1>3, <1>4, <1>5, <1>6, <1>7 DEF Progress

\* What Roster never does it does not do when it is watched.
LEMMA WatchedIsRoster == WatchedSpec => Spec
<1>1. [Next /\ Watching]_<<vars, held>> => [Next]_vars
  OBVIOUS
<1> QED BY <1>1, PTL DEF WatchedSpec, Spec

LEMMA EntitledAlways == WatchedSpec => []EntitledInv
<1>1. Init => EntitledInv
  BY DEF Init, EntitledInv, Admitted, AtWork
<1>2. TypeOK /\ LockInv /\ EntitledInv /\ [Next /\ Watching]_<<vars, held>> => EntitledInv'
  <2> SUFFICES ASSUME TypeOK, LockInv, EntitledInv, [Next /\ Watching]_<<vars, held>>
               PROVE  EntitledInv'
    OBVIOUS
  <2>1. CASE Next /\ Watching
    BY <2>1, EntitledStep DEF Next
  <2>2. CASE UNCHANGED <<vars, held>>
    BY <2>2 DEF EntitledInv, Admitted, Entitled, IsOwner, vars
  <2> QED BY <2>1, <2>2
<1> QED BY <1>1, <1>2, WatchedIsRoster, LocksHeld, PTL DEF WatchedSpec

\* What a committed transaction makes of the participants.
WithEffect(j) ==
  IF j.op = "add" THEN Participants \cup {j.user} ELSE Participants \ {j.user}

LEMMA VisibleRows ==
  ASSUME \A u \in Users : rows'[P][u].is \in {"in", "leaving"} <=> rows[P][u].is \in {"in", "leaving"}
  PROVE  Participants' = Participants
BY DEF Participants, Visible, P

\* Only the commit of a transaction is seen by others.
LEMMA OnlyCommitsShow ==
  ASSUME TypeOK, LockInv, NEW r \in Requests, Begin(r) \/ Progress(r) \/ Fail(r)
  PROVE  \/ Participants' = Participants
         \/ Commit(r) /\ Participants' = WithEffect(job[r])
<1>0. CourseType /\ CourseFits /\ Locks /\ P \in Tables
  BY TypeParts DEF LockInv, P, Tables
<1>x. ASSUME NEW p \in Places, NEW new, Execute(r, p, new), pc[r] # "idle",
             LET row == rows[TableOf(job[r], p)][job[r].user]
             IN  new.is \in {"in", "leaving"} <=> row.is \in {"in", "leaving"}
      PROVE  Participants' = Participants
  <2>1. job[r].user \in Users /\ TableOf(job[r], p) \in Tables
    BY <1>0, <1>x, JobOf, TableType
  <2> QED BY <1>0, <1>x, <2>1, VisibleRows DEF Execute, TypeOK
<1>1. ASSUME NEW p \in Places, Insert(r, p) PROVE Participants' = Participants
  BY <1>1, <1>x DEF Insert, Inserted, Places
<1>2. ASSUME NEW p \in Places, Delete(r, p) \/ Unblock(r, p) PROVE Participants' = Participants
  BY <1>2, <1>x DEF Delete, Unblock, Deleted, Places, Waiting
<1>3. CASE Commit(r)
  <2>1. job[r].user \in Users /\ job[r].op \in {"add", "remove", "leave"} /\ r # None
    BY <1>0, <1>3, JobOf, RosterAssumption DEF Commit, CourseFits
  <2>2. \A u \in Users : rows'[P][u] = Ended(rows[P][u], r, TRUE)
    BY <1>0, <1>3 DEF Commit, AllEnded
  <2>3. \A u \in Users : rows[P][u].tx = r
          => u = job[r].user /\ rows[P][u].is = IF job[r].op = "add" THEN "joining" ELSE "leaving"
    BY <1>0, <2>1 DEF Locks, LockedBy
  <2>4. \A u \in Users \ {job[r].user} : rows'[P][u] = rows[P][u]
    BY <2>2, <2>3 DEF Ended
  <2>5. CASE rows[P][job[r].user].tx # r
    BY <2>1, <2>2, <2>4, <2>5, VisibleRows DEF Ended
  <2>6. CASE rows[P][job[r].user].tx = r
    <3>1. rows'[P][job[r].user].is = IF job[r].op = "add" THEN "in" ELSE "out"
      BY <2>1, <2>2, <2>3, <2>6 DEF Ended, Rest
    <3> QED BY <1>3, <2>1, <2>4, <3>1 DEF WithEffect, Participants, Visible, P
  <2> QED BY <2>5, <2>6
<1>4. CASE Fail(r)
  <2>1. \A u \in Users : rows'[P][u] = Ended(rows[P][u], r, FALSE)
    BY <1>0, <1>4 DEF Fail, AllEnded
  <2>2. \A u \in Users : rows[P][u].tx = r => rows[P][u].is \in {"joining", "leaving"}
    BY <1>0, RosterAssumption DEF Locks, LockedBy
  <2> QED BY <2>1, <2>2, VisibleRows DEF Ended, Rest
<1>5. CASE WriteNote(r)
  <2>1. rows'[P] = rows[P]
    BY <1>5 DEF WriteNote, TypeOK, P, Tables
  <2> QED BY <2>1, VisibleRows
<1>6. CASE \/ Begin(r) \/ FetchMeta(r) \/ LoadPerms(r) \/ EnsureMember(r)
           \/ WritePerms(r) \/ WriteMute(r) \/ Reply(r)
           \/ \E p \in Places : Block(r, p)
  BY <1>6, VisibleRows DEF Begin, FetchMeta, LoadPerms, EnsureMember, WritePerms, WriteMute,
                           Reply, Block
<1> QED BY <1>1, <1>2, <1>3, <1>4, <1>5, <1>6 DEF Progress

\* What a step changes, it changes for someone who may.
Authorised ==
  /\ Participants' # Participants =>
       \E r \in Requests : /\ pc[r] = "commit" /\ Entitled(r)
                           /\ Participants' = WithEffect(job[r])
  /\ perms' # perms =>
       \E r \in Requests : /\ pc[r] = "write" /\ IsOwner(job[r].by)
                           /\ \A u \in Users \ {job[r].user} : perms'[u] = perms[u]
  /\ muted' # muted =>
       \E r \in Requests : /\ pc[r] = "write" /\ Entitled(r) /\ job[r].op \in {"mute", "unmute"}
                           /\ muted' \in {muted \cup {job[r].user}, muted \ {job[r].user}}

LEMMA AuthorisedStep ==
  ASSUME TypeOK, LockInv, EntitledInv, NEW r \in Requests,
         Begin(r) \/ Progress(r) \/ Fail(r)
  PROVE  Authorised
<1>1. \A x \in Requests : pc[x] \in AtWork => Entitled(x)
  BY DEF EntitledInv, Admitted
<1>2. Participants' = Participants
      \/ (pc[r] = "commit" /\ Entitled(r) /\ Participants' = WithEffect(job[r]))
  BY <1>1, OnlyCommitsShow DEF Commit, AtWork
<1>3. CASE WritePerms(r)
  <2>1. Entitled(r) /\ job[r].op \in {"promote", "demote"} /\ pc[r] = "write"
    BY <1>1, <1>3 DEF WritePerms, AtWork
  <2>2. IsOwner(job[r].by) /\ \A u \in Users \ {job[r].user} : perms'[u] = perms[u]
    BY <1>3, <2>1 DEF Entitled, WritePerms, TypeOK
  <2>3. muted' = muted
    BY <1>3 DEF WritePerms
  <2> QED BY <1>2, <2>1, <2>2, <2>3 DEF Authorised
<1>4. CASE WriteMute(r)
  <2>1. Entitled(r) /\ job[r].op \in {"mute", "unmute"} /\ pc[r] = "write"
    BY <1>1, <1>4 DEF WriteMute, AtWork
  <2>2. /\ perms' = perms
        /\ muted' \in {muted \cup {job[r].user}, muted \ {job[r].user}}
    BY <1>4 DEF WriteMute
  <2> QED BY <1>2, <2>1, <2>2 DEF Authorised
<1>5. CASE ~WritePerms(r) /\ ~WriteMute(r)
  <2>1. perms' = perms /\ muted' = muted
    BY <1>5 DEF Begin, Progress, Fail, FetchMeta, LoadPerms, EnsureMember, Insert, Delete,
                Block, Unblock, Execute, Commit, WriteNote, Reply
  <2> QED BY <1>2, <2>1 DEF Authorised
<1> QED BY <1>3, <1>4, <1>5

(***************************************************************************)
(* Nobody does to a chat what they were at no time entitled to since they  *)
(* asked, in whatever order requests interleave and fail.  Participants    *)
(* change by the commit of one transaction, for one user, made by the      *)
(* owner, by an admin who had that permission at some time since the       *)
(* request began, or by who leaves; mutes likewise; and permissions by the *)
(* owner alone.  The permission may be gone by then, and no more is true   *)
(* (chats.rs lines 178-182, 287-290, 361-365, 468-474).                    *)
(***************************************************************************)
THEOREM ChangesAreAuthorised == WatchedSpec => [][Authorised]_<<vars, held>>
<1>1. TypeOK /\ LockInv /\ EntitledInv /\ [Next /\ Watching]_<<vars, held>>
        => [Authorised]_<<vars, held>>
  <2> SUFFICES ASSUME TypeOK, LockInv, EntitledInv, Next PROVE Authorised
    OBVIOUS
  <2> QED BY AuthorisedStep DEF Next
<1> QED BY <1>1, WatchedIsRoster, LocksHeld, EntitledAlways, PTL DEF WatchedSpec

----------------------------------------------------------------------------
\* Membership changes atomically

Stages == [r \in Requests |-> Stage(r)]
AimsOf == [r \in Requests |-> Aim(r)]

\* The row of chat_participants that r is about.
OwnRow(r) == rows[P][job[r].user]

\* Only r's own turn and the end of a transaction it waits for change its stage.
LEMMA SameStage ==
  ASSUME TypeOK, NEW x \in Requests, pc'[x] = pc[x], job'[x] = job[x],
         pc[x] # "idle" => (OwnRow(x).tx = x <=> OwnRow(x)'.tx = x)
  PROVE  Stage(x)' = Stage(x)
BY DEF Stage, OwnRow, P

\* r alone moves, without a change of chat_participants.
LEMMA QuietStages ==
  ASSUME TypeOK, NEW r \in Requests, NEW there, Goto(r, there), job' = job,
         rows'[P] = rows[P]
  PROVE  /\ Participants' = Participants /\ AimsOf' = AimsOf
         /\ Stages' = [Stages EXCEPT ![r] = Stage(r)']
<1>1. \A x \in Requests \ {r} : Stage(x)' = Stage(x)
  BY SameStage DEF OwnRow, Goto, TypeOK
<1> QED BY <1>1 DEF Stages, AimsOf, Aim, Participants, Visible, P

\* A turn that leaves the stage of r as it was, or answers.
LEMMA QuietTurn ==
  ASSUME TypeOK, NEW r \in Requests, NEW there, Goto(r, there), job' = job,
         rows'[P] = rows[P],
         \/ Stage(r)' = Stage(r)
         \/ Stage(r) \in {"open", "applied"} /\ Stage(r)' = "closed"
  PROVE  [Atomic!Next]_(Atomic!vars)
<1>1. /\ Participants' = Participants /\ AimsOf' = AimsOf
      /\ Stages' = [Stages EXCEPT ![r] = Stage(r)']
  BY QuietStages
<1>2. CASE Stage(r)' = Stage(r)
  <2>1. Stages' = Stages
    BY <1>1, <1>2 DEF Stages
  <2> QED BY <1>1, <2>1 DEF Atomic!vars, Stages, AimsOf
<1>3. CASE Stage(r) \in {"open", "applied"} /\ Stage(r)' = "closed"
  <2>1. Atomic!Close(r)
    BY <1>1, <1>3 DEF Atomic!Close, Stages, AimsOf
  <2> QED BY <2>1 DEF Atomic!Next
<1> QED BY <1>2, <1>3

LEMMA AimOf ==
  ASSUME TypeOK, NEW r \in Requests, pc[r] # "idle"
  PROVE  AimsOf[r] = [effect |-> Effect(job[r].op), user |-> job[r].user]
BY TypeParts, JobOf DEF AimsOf, Aim

\* r executes a statement on chat_participants.
LEMMA FirstStatement ==
  ASSUME TypeOK, LockInv, NEW r \in Requests, pc[r] \in {"first", "firstWait"},
         NEW new, Execute(r, "first", new), TableOf(job[r], "first") = P,
         \/ /\ new = OwnRow(r)
            /\ \/ job[r].op = "add" /\ new.is = "in"
               \/ job[r].op \in {"remove", "leave"} /\ new.is \notin {"in", "leaving"}
         \/ /\ new.tx = r /\ OwnRow(r).tx = None
            /\ OwnRow(r).is \in {"in", "leaving"} <=> new.is \in {"in", "leaving"}
  PROVE  [Atomic!Next]_(Atomic!vars)
<1>0. CourseType /\ Locks
  BY TypeParts DEF LockInv
<1>1. job[r].user \in Users /\ P \in Tables
  BY <1>0, JobOf DEF P, Tables
<1>2. /\ job' = job /\ pc' = [pc EXCEPT ![r] = "second"]
      /\ rows' = [rows EXCEPT ![P][job[r].user] = new]
  BY DEF Execute, Goto, AfterStatement
<1>3. /\ OwnRow(r)' = new
      /\ \A u \in Users \ {job[r].user} : rows'[P][u] = rows[P][u]
  BY <1>1, <1>2 DEF OwnRow, TypeOK
<1>4. Participants' = Participants /\ AimsOf' = AimsOf
  <2>1. \A u \in Users : rows'[P][u].is \in {"in", "leaving"} <=> rows[P][u].is \in {"in", "leaving"}
    BY <1>2, <1>3 DEF OwnRow
  <2> QED BY <1>2, <2>1, VisibleRows DEF AimsOf, Aim
<1>5. \A x \in Requests \ {r} : Stage(x)' = Stage(x)
  <2> SUFFICES ASSUME NEW x \in Requests \ {r}, pc[x] # "idle"
               PROVE  OwnRow(x).tx = x <=> OwnRow(x)'.tx = x
    BY <1>2, SameStage DEF TypeOK
  <2>1. job[x].user \in Users
    BY <1>0, JobOf
  <2> QED BY <1>2, <1>3, <2>1, RosterAssumption DEF OwnRow
<1>6. Stage(r) = "open" /\ Stage(r)' = IF new.tx = r THEN "open" ELSE "applied"
  BY <1>2, <1>3 DEF Stage, OwnRow, P, TypeOK
<1>7. CASE new.tx = r
  <2>1. Stages' = Stages
    BY <1>5, <1>6, <1>7 DEF Stages
  <2> QED BY <1>4, <2>1 DEF Atomic!vars, Stages, AimsOf
<1>8. CASE new.tx # r
  <2>1. Stages' = [Stages EXCEPT ![r] = "applied"]
    BY <1>5, <1>6, <1>8 DEF Stages
  <2>2. Stages[r] = "open"
    BY <1>6 DEF Stages
  <2>3. AimsOf[r] = [effect |-> Effect(job[r].op), user |-> job[r].user]
    BY AimOf
  <2>4. job[r].user \in Participants <=> new.is \in {"in", "leaving"}
    BY <1>1, <1>8 DEF Participants, Visible, OwnRow, P
  <2>5. CASE job[r].op = "add"
    <3>1. job[r].user \in Participants
      BY <1>8, <2>4, <2>5
    <3>2. Atomic!Join(r)
      BY <1>4, <2>1, <2>2, <2>3, <2>5, <3>1 DEF Atomic!Join, Effect, Stages, AimsOf
    <3> QED BY <3>2 DEF Atomic!Next
  <2>6. CASE job[r].op \in {"remove", "leave"}
    <3>1. job[r].user \notin Participants
      BY <1>8, <2>4, <2>6
    <3>2. Atomic!Drop(job[r].user, {r})
      <4>1. Stages' = [x \in Requests |-> IF x \in {r} THEN "applied" ELSE Stages[x]]
        BY <2>1 DEF Stages
      <4>2. AimsOf[r] = [effect |-> "drop", user |-> job[r].user]
        BY <2>3, <2>6 DEF Effect
      <4>3. Participants' = Participants \ {job[r].user}
        BY <1>4, <3>1
      <4> QED BY <1>4, <2>2, <4>1, <4>2, <4>3 DEF Atomic!Drop, Stages, AimsOf
    <3>3. {r} \in (SUBSET Requests) \ {{}}
      OBVIOUS
    <3> QED BY <1>1, <3>2, <3>3 DEF Atomic!Next
  <2> QED BY <1>8, <2>5, <2>6
<1> QED BY <1>7, <1>8

\* ... and the end of its transaction.
LEMMA CommitMaps ==
  ASSUME TypeOK, LockInv, NEW r \in Requests, Commit(r)
  PROVE  [Atomic!Next]_(Atomic!vars)
<1>0. CourseType /\ CourseFits /\ Locks
  BY TypeParts DEF LockInv
<1> DEFINE u == job[r].user
           W == {x \in Requests : WaitsFor(x, r, "first")}
<1>1. pc[r] = "commit" /\ u \in Users /\ P \in Tables /\ job[r].op \in {"add", "remove", "leave"}
  BY <1>0, JobOf DEF Commit, CourseFits, P, Tables
<1>2. /\ job' = job /\ AimsOf' = AimsOf
      /\ \A v \in Users : rows'[P][v] = Ended(rows[P][v], r, TRUE)
  BY DEF Commit, AllEnded, AimsOf, Aim, P, Tables
<1>3. \A v \in Users \ {u} : rows[P][v].tx # r /\ rows'[P][v] = rows[P][v]
  BY <1>0, <1>1, <1>2, RosterAssumption DEF Locks, LockedBy, Ended
<1>4. OwnRow(r).tx = r => OwnRow(r).is = IF job[r].op = "add" THEN "joining" ELSE "leaving"
  BY <1>0, <1>1, RosterAssumption DEF Locks, LockedBy, OwnRow
<1>5. \A x \in Requests \ {r} :
        (pc[x] # "idle" => (OwnRow(x).tx = x <=> OwnRow(x)'.tx = x))
  BY <1>0, <1>2, JobOf, RosterAssumption DEF OwnRow, Ended, Rest
<1>6. ASSUME NEW x \in Requests \ {r}, x \notin W PROVE Stage(x)' = Stage(x)
  <2>1. CASE pc'[x] = pc[x]
    BY <1>2, <1>5, <2>1, SameStage
  <2>2. CASE pc'[x] # pc[x]
    <3>1. pc[x] = "secondWait" /\ pc'[x] = "commit"
      BY <1>6, <2>2 DEF Commit, WaitsFor, Waiting
    <3> QED BY <1>2, <1>5, <3>1 DEF Stage, OwnRow, P
  <2> QED BY <2>1, <2>2
<1>7. Stage(r)' = "applied" /\ Stage(r) = IF OwnRow(r).tx = r THEN "open" ELSE "applied"
  BY <1>1, <1>2 DEF Stage, OwnRow, P, Commit, Effect, TypeOK
<1>8. CASE OwnRow(r).tx # r
  <2>1. \A v \in Users : rows'[P][v] = rows[P][v]
    BY <1>2, <1>3, <1>8 DEF OwnRow, Ended
  <2>2. ASSUME NEW x \in W PROVE FALSE
    <3>1. pc[x] = "firstWait" /\ rows[TableOf(job[x], "first")][job[x].user] = [is |-> "leaving", tx |-> r]
      BY DEF WaitsFor, Waiting
    <3>2. job[x].user \in Users /\ rows[P][job[x].user].tx = r
      BY <1>0, <3>1, JobOf DEF TableOf, P
    <3> QED BY <1>3, <1>8, <3>2 DEF OwnRow
  <2>3. Stages' = Stages
    BY <1>6, <1>7, <1>8, <2>2 DEF Stages
  <2>4. Participants' = Participants
    BY <2>1, VisibleRows
  <2> QED BY <1>2, <2>3, <2>4 DEF Atomic!vars, Stages, AimsOf
<1>9. CASE OwnRow(r).tx = r /\ job[r].op = "add"
  <2>1. OwnRow(r).is = "joining" /\ rows'[P][u].is = "in"
    BY <1>1, <1>2, <1>4, <1>9 DEF OwnRow, Ended, Rest
  <2>2. ASSUME NEW x \in W PROVE FALSE
    <3>1. pc[x] = "firstWait" /\ rows[TableOf(job[x], "first")][job[x].user] = [is |-> "leaving", tx |-> r]
      BY DEF WaitsFor, Waiting
    <3>2. job[x].user \in Users /\ rows[P][job[x].user] = [is |-> "leaving", tx |-> r]
      BY <1>0, <3>1, JobOf DEF TableOf, P
    <3>3. job[x].user = u
      BY <1>3, <3>2
    <3> QED BY <2>1, <3>2, <3>3 DEF OwnRow
  <2>3. Stages' = [Stages EXCEPT ![r] = "applied"] /\ Stages[r] = "open"
    BY <1>6, <1>7, <1>9, <2>2 DEF Stages
  <2>4. Participants' = Participants \cup {u}
    BY <1>1, <1>3, <2>1 DEF Participants, Visible, P
  <2>5. AimsOf[r] = [effect |-> "join", user |-> u]
    BY <1>1, <1>9, AimOf DEF Effect
  <2>6. Atomic!Join(r)
    BY <1>2, <2>3, <2>4, <2>5 DEF Atomic!Join, Stages, AimsOf
  <2> QED BY <2>6 DEF Atomic!Next
<1>10. CASE OwnRow(r).tx = r /\ job[r].op # "add"
  <2> DEFINE R == W \cup {r}
  <2>1. OwnRow(r).is = "leaving" /\ rows'[P][u] = Rest("out")
    BY <1>1, <1>2, <1>4, <1>10 DEF OwnRow, Ended
  <2>2. ASSUME NEW x \in W
        PROVE  /\ AimsOf[x] = [effect |-> "drop", user |-> u]
               /\ Stage(x) = "open" /\ Stage(x)' = "applied"
    <3>1. pc[x] = "firstWait" /\ rows[TableOf(job[x], "first")][job[x].user] = [is |-> "leaving", tx |-> r]
      BY DEF WaitsFor, Waiting
    <3>2. job[x].user \in Users /\ rows[P][job[x].user] = [is |-> "leaving", tx |-> r]
      BY <1>0, <3>1, JobOf DEF TableOf, P
    <3>3. job[x].user = u
      BY <1>3, <3>2
    <3>4. job[x].op \in {"remove", "leave"}
      BY <1>0, <3>1 DEF CourseFits
    <3>5. AimsOf[x] = [effect |-> "drop", user |-> u]
      BY <3>1, <3>3, <3>4, AimOf DEF Effect
    <3>6. pc'[x] = "second"
      BY <1>1, <3>1 DEF Commit
    <3>7. OwnRow(x)'.tx = None
      BY <1>2, <2>1, <3>3 DEF OwnRow, Rest
    <3> QED BY <1>2, <3>1, <3>5, <3>6, <3>7, RosterAssumption DEF Stage, OwnRow, P
  <2>3. AimsOf[r] = [effect |-> "drop", user |-> u]
    BY <1>1, <1>10, AimOf DEF Effect
  <2>4. \A x \in R : Stages[x] = "open" /\ AimsOf[x] = [effect |-> "drop", user |-> u]
    BY <1>7, <1>10, <2>2, <2>3 DEF Stages
  <2>5. Stages' = [x \in Requests |-> IF x \in R THEN "applied" ELSE Stages[x]]
    BY <1>6, <1>7, <2>2 DEF Stages
  <2>6. Participants' = Participants \ {u}
    BY <1>1, <1>3, <2>1 DEF Participants, Visible, P, Rest
  <2>7. R \in (SUBSET Requests) \ {{}}
    OBVIOUS
  <2> HIDE DEF R
  <2>8. Atomic!Drop(u, R)
    BY <1>2, <2>4, <2>5, <2>6 DEF Atomic!Drop, Stages, AimsOf
  <2> QED BY <1>1, <2>7, <2>8 DEF Atomic!Next
<1> QED BY <1>8, <1>9, <1>10

LEMMA HandlerMaps ==
  ASSUME TypeOK, LockInv, NEW r \in Requests, Begin(r) \/ Progress(r) \/ Fail(r)
  PROVE  [Atomic!Next]_(Atomic!vars)
<1>0. CourseType /\ CourseFits /\ Locks
  BY TypeParts DEF LockInv
<1>1. CASE Begin(r)
  <2>1. PICK j \in RequestJobs : job' = [job EXCEPT ![r] = j]
    BY <1>1 DEF Begin
  <2>2. j \in Jobs /\ j.op \in Ops /\ j.user \in Users
    BY <2>1, RosterAssumption DEF Jobs
  <2>3. /\ pc[r] = "idle" /\ pc' = [pc EXCEPT ![r] = "meta"] /\ rows' = rows
    BY <1>1 DEF Begin, Goto
  <2>4. \A x \in Requests \ {r} : Stage(x)' = Stage(x) /\ Aim(x)' = Aim(x)
    BY <1>0, <2>1, <2>3, SameStage DEF CourseType, Aim, OwnRow
  <2>5. Stage(r) = "idle" /\ Stage(r)' = "open"
    BY <1>0, <2>3 DEF Stage, CourseType
  <2>6. Aim(r)' = [effect |-> Effect(j.op), user |-> j.user]
    BY <1>0, <2>1, <2>2, RosterAssumption DEF Aim, CourseType
  <2>7. [effect |-> Effect(j.op), user |-> j.user] \in Atomic!Aims
    BY <2>2 DEF Atomic!Aims, Effect
  <2>8. /\ Stages[r] = "idle" /\ Stages' = [Stages EXCEPT ![r] = "open"]
        /\ AimsOf' = [AimsOf EXCEPT ![r] = [effect |-> Effect(j.op), user |-> j.user]]
    BY <2>4, <2>5, <2>6 DEF Stages, AimsOf
  <2>9. Participants' = Participants
    BY <2>3 DEF Participants, Visible
  <2>10. Atomic!Open(r)
    BY <2>7, <2>8, <2>9 DEF Atomic!Open, Stages, AimsOf
  <2> QED BY <2>10 DEF Atomic!Next
<1>2. CASE FetchMeta(r)
  <2>1. AfterMeta(job[r]) \in Pcs \ {"idle", "meta", "reply"} /\ pc[r] = "meta"
    BY <1>0, <1>2, JobOf, AfterMetaType DEF FetchMeta
  <2>2. AfterMeta(job[r]) \notin {"second", "secondWait", "commit"}
    BY <1>0, <2>1, JobOf DEF AfterMeta, Ops
  <2>3. Stage(r) = "open" /\ Stage(r)' \in {"open", "closed"}
    BY <1>0, <1>2, <2>1, <2>2 DEF FetchMeta, Stage, Goto, CourseType
  <2> QED BY <1>2, <2>3, QuietTurn DEF FetchMeta
<1>3. CASE LoadPerms(r)
  <2>1. Stage(r) = "open" /\ Stage(r)' \in {"open", "closed"}
    BY <1>0, <1>3 DEF LoadPerms, Stage, Goto, CourseType
  <2> QED BY <1>3, <2>1, QuietTurn DEF LoadPerms
<1>4. CASE EnsureMember(r)
  <2>1. Stage(r) = "open" /\ Stage(r)' \in {"open", "closed"}
    BY <1>0, <1>4 DEF EnsureMember, Stage, Goto, CourseType
  <2> QED BY <1>4, <2>1, QuietTurn DEF EnsureMember
<1>5. ASSUME Insert(r, "first") PROVE [Atomic!Next]_(Atomic!vars)
  <2>1. /\ pc[r] = "first" /\ job[r].op = "add" /\ TableOf(job[r], "first") = P
        /\ ~InsertWaits(OwnRow(r)) /\ Execute(r, "first", Inserted(OwnRow(r), r))
    BY <1>5 DEF Insert, OwnRow, TableOf, P
  <2>2. OwnRow(r) \in Row /\ (OwnRow(r).tx = None <=> OwnRow(r).is \in {"in", "out"})
    BY <1>0, <2>1, JobOf, TxIsRequest DEF OwnRow, P, Tables
  <2>3. OwnRow(r).is \in {"in", "out"} /\ OwnRow(r).tx = None
    BY <2>1, <2>2 DEF InsertWaits, Row
  <2> QED BY <2>1, <2>3, FirstStatement DEF Inserted
<1>6. ASSUME Delete(r, "first") \/ Unblock(r, "first") PROVE [Atomic!Next]_(Atomic!vars)
  <2>1. /\ pc[r] \in {"first", "firstWait"} /\ TableOf(job[r], "first") = P
        /\ OwnRow(r).is # "leaving" /\ Execute(r, "first", Deleted(OwnRow(r), r))
    BY <1>6 DEF Delete, Unblock, DeleteWaits, OwnRow, TableOf, P, Waiting
  <2>2. job[r].op \in {"remove", "leave"}
    BY <1>0, <1>6 DEF Delete, Unblock, Waiting, CourseFits
  <2>3. OwnRow(r) \in Row /\ (OwnRow(r).tx = None <=> OwnRow(r).is \in {"in", "out"})
    BY <1>0, <2>1, JobOf, TxIsRequest DEF OwnRow, P, Tables
  <2> QED BY <2>1, <2>2, <2>3, FirstStatement DEF Deleted
<1>7. ASSUME Insert(r, "second") \/ Delete(r, "second") \/ Unblock(r, "second")
      PROVE  [Atomic!Next]_(Atomic!vars)
  <2>1. PICK new : /\ pc[r] \in {"second", "secondWait"} /\ Goto(r, "commit") /\ job' = job
                   /\ rows' = [rows EXCEPT ![M][job[r].user] = new]
    BY <1>7 DEF Insert, Delete, Unblock, Execute, AfterStatement, TableOf, Waiting, M
  <2>2. rows'[P] = rows[P]
    BY <2>1 DEF P, M, Tables, TypeOK
  <2>3. Stage(r)' = Stage(r)
    BY <1>0, <2>1, <2>2 DEF Stage, Goto, CourseType, P
  <2> QED BY <2>1, <2>2, <2>3, QuietTurn
<1>8. ASSUME NEW p \in Places, Block(r, p) PROVE [Atomic!Next]_(Atomic!vars)
  <2>1. Stage(r)' = Stage(r)
    BY <1>0, <1>8 DEF Block, Stage, Goto, CourseType, Places, Waiting
  <2> QED BY <1>8, <2>1, QuietTurn DEF Block
<1>9. CASE WritePerms(r) \/ WriteMute(r)
  <2>1. Stage(r) = "open" /\ Stage(r)' = "open"
    BY <1>0, <1>9 DEF WritePerms, WriteMute, Stage, Goto, CourseType, Effect
  <2> QED BY <1>9, <2>1, QuietTurn DEF WritePerms, WriteMute
<1>10. CASE WriteNote(r)
  <2>1. rows'[P] = rows[P]
    BY <1>10 DEF WriteNote, TypeOK, P, Tables
  <2>2. Stage(r) = "open" /\ Stage(r)' = "open"
    BY <1>0, <1>10 DEF WriteNote, Stage, Goto, CourseType, Effect
  <2> QED BY <1>10, <2>1, <2>2, QuietTurn DEF WriteNote
<1>11. CASE Reply(r)
  <2>1. Stage(r) \in {"open", "applied"} /\ Stage(r)' = "closed"
    BY <1>0, <1>11 DEF Reply, Stage, Goto, CourseType
  <2> QED BY <1>11, <2>1, QuietTurn DEF Reply
<1>12. CASE Fail(r)
  <2>1. /\ pc[r] \notin {"idle", "done"} /\ job' = job /\ pc' = [pc EXCEPT ![r] = "done"]
        /\ \A u \in Users : rows'[P][u] = Ended(rows[P][u], r, FALSE)
    BY <1>12 DEF Fail, Goto, AllEnded, P, Tables
  <2>2. Participants' = Participants
    <3>1. ASSUME NEW u \in Users
          PROVE  rows'[P][u].is \in {"in", "leaving"} <=> rows[P][u].is \in {"in", "leaving"}
      <4>1. rows[P][u].tx = r => rows[P][u].is \in {"joining", "leaving"}
        BY <1>0, RosterAssumption DEF Locks, LockedBy, P, Tables
      <4> QED BY <2>1, <4>1 DEF Ended, Rest
    <3> QED BY <3>1, VisibleRows
  <2>3. Stage(r) \in {"open", "applied"} /\ Stage(r)' = "closed"
    BY <1>0, <2>1 DEF Stage, CourseType
  <2>4. ASSUME NEW x \in Requests \ {r} PROVE Stage(x)' = Stage(x)
    <3>1. pc[x] # "idle" => (OwnRow(x).tx = x <=> OwnRow(x)'.tx = x)
      BY <1>0, <2>1, JobOf, RosterAssumption DEF OwnRow, Ended, Rest
    <3> QED BY <1>0, <2>1, <3>1, SameStage DEF CourseType
  <2>5. Atomic!Close(r)
    BY <2>1, <2>2, <2>3, <2>4 DEF Atomic!Close, Aim
  <2> QED BY <2>5 DEF Atomic!Next
<1> QED
  BY <1>1, <1>2, <1>3, <1>4, <1>5, <1>6, <1>7, <1>8, <1>9, <1>10, <1>11, <1>12, CommitMaps
     DEF Progress, Places

(***************************************************************************)
(* Each add, remove and leave changes chat_participants at one instant     *)
(* between its start and its end, or not at all, however the statements of *)
(* any number of transactions interleave, wait and fail.                   *)
(***************************************************************************)
THEOREM RosterIsAtomic == Spec => ImplementsAtomicRoster
<1>1. Init => Atomic!Init
  <2> SUFFICES ASSUME Init PROVE Atomic!Init
    OBVIOUS
  <2>1. Participants \in SUBSET Users
    BY DEF Participants, Visible
  <2>2. \A r \in Requests : Stage(r) = "idle" /\ Aim(r) = None
    BY DEF Init, Stage, Aim
  <2> QED BY <2>1, <2>2 DEF Atomic!Init
<1>2. TypeOK /\ LockInv /\ [Next]_vars => [Atomic!Next]_(Atomic!vars)
  <2> SUFFICES ASSUME TypeOK, LockInv, [Next]_vars PROVE [Atomic!Next]_(Atomic!vars)
    OBVIOUS
  <2>1. CASE Next
    BY <2>1, HandlerMaps DEF Next
  <2>2. CASE UNCHANGED vars
    BY <2>2 DEF vars, Atomic!vars, Participants, Visible, Stage, Aim
  <2> QED BY <2>1, <2>2
<1> QED BY <1>1, <1>2, LocksHeld, PTL DEF Spec, ImplementsAtomicRoster, Atomic!Spec

----------------------------------------------------------------------------
\* The tables stay in step

Even(u) == rows[P][u] = rows[M][u] /\ rows[P][u].tx = None

\* How the two rows of u compare while r, alone, works on them.
Halfway(r, u) ==
  /\ pc[r] \in {"first", "firstWait"} => Even(u)
  /\ pc[r] = "write" => Even(u) /\ rows[P][u].is = "in"
  /\ pc[r] \in {"second", "secondWait"} =>
       /\ rows[M][u] = Ended(rows[P][u], r, FALSE)
       /\ rows[P][u].tx \in {None, r}
       /\ rows[P][u].is \in IF job[r].op = "add" THEN {"in", "joining"} ELSE {"out", "leaving"}
  /\ pc[r] = "commit" => rows[M][u] = rows[P][u] /\ rows[P][u].tx \in {None, r}

EvenAt(u) ==
  /\ \A r \in Requests : WorksOn(r, u) => Halfway(r, u)
  /\ (~\E r \in Requests : WorksOn(r, u)) => Even(u)

EvenInv ==
  /\ Contended \subseteq contended
  /\ \A u \in Users \ contended : EvenAt(u)

\* Whoever holds a row of u works on u.
LEMMA HolderWorks ==
  ASSUME TypeOK, LockInv, NEW t \in Tables, NEW u \in Users, rows[t][u].tx # None
  PROVE  WorksOn(rows[t][u].tx, u)
<1>1. rows[t][u].tx \in Requests /\ LockedBy(rows[t][u], t, u, rows[t][u].tx)
  BY TxIsRequest DEF LockInv, Locks
<1>2. pc[rows[t][u].tx] \in {"second", "secondWait", "commit"}
  BY <1>1 DEF LockedBy, Holders
<1> QED BY <1>1, <1>2, TypeParts, JobOf DEF WorksOn, LockedBy

\* What a handler leaves alone: the others, and the rows of users it does not
\* work on.
LEMMA OthersAlone ==
  ASSUME TypeOK, LockInv, NEW r \in Requests, Begin(r) \/ Progress(r) \/ Fail(r), NEW u \in Users
  PROVE  /\ \A x \in Requests \ {r} : job'[x] = job[x] /\ (WorksOn(x, u)' <=> WorksOn(x, u))
         /\ ~WorksOn(r, u) =>
              /\ rows'[P][u] = rows[P][u] /\ rows'[M][u] = rows[M][u]
              /\ \A x \in Requests \ {r} : WorksOn(x, u) => pc'[x] = pc[x]
<1>0. CourseType /\ CourseFits /\ P \in Tables /\ M \in Tables
  BY TypeParts DEF LockInv, P, M, Tables
<1>e. ASSUME NEW done \in BOOLEAN, rows' = AllEnded(r, done), ~WorksOn(r, u)
      PROVE  rows'[P][u] = rows[P][u] /\ rows'[M][u] = rows[M][u]
  BY <1>0, <1>e, HolderWorks, RosterAssumption DEF AllEnded, Ended
<1>1. CASE Commit(r)
  <2>1. ASSUME NEW x \in Requests \ {r}, pc'[x] # pc[x]
        PROVE  /\ WorksOn(x, u) <=> WorksOn(r, u)
               /\ WorksOn(x, u)' <=> WorksOn(x, u)
    <3>1. PICK p \in Places : WaitsFor(x, r, p)
      BY <1>1, <2>1 DEF Commit, Places
    <3>2. job[x].user \in Users /\ rows[TableOf(job[x], p)][job[x].user].tx = r
      BY <1>0, <3>1, JobOf DEF WaitsFor, Waiting, Places
    <3>3. WorksOn(r, job[x].user)
      BY <3>2, HolderWorks, TableType, RosterAssumption
    <3>4. WorksOn(x, u) <=> job[x].user = u
      BY <1>0, <3>1, JobOf DEF WaitsFor, Waiting, Places, WorksOn
    <3>5. WorksOn(x, u)' <=> job[x].user = u
      BY <1>0, <1>1, <2>1, <3>1, JobOf DEF Commit, WaitsFor, Waiting, Places, WorksOn
    <3> QED BY <3>3, <3>4, <3>5 DEF WorksOn
  <2>2. \A x \in Requests \ {r} : pc'[x] = pc[x] => (WorksOn(x, u)' <=> WorksOn(x, u))
    BY <1>1 DEF Commit, WorksOn
  <2> QED BY <1>1, <1>e, <2>1, <2>2 DEF Commit
<1>2. CASE ~Commit(r)
  <2>1. \A x \in Requests \ {r} : pc'[x] = pc[x] /\ job'[x] = job[x]
    BY <1>0, <1>2 DEF Begin, Progress, Fail, FetchMeta, LoadPerms, EnsureMember, Insert, Delete,
         Block, Unblock, Execute, WritePerms, WriteMute, WriteNote, Reply, Goto, CourseType
  <2>2. ASSUME ~WorksOn(r, u) PROVE rows'[P][u] = rows[P][u] /\ rows'[M][u] = rows[M][u]
    <3>1. CASE Fail(r)
      BY <1>e, <2>2, <3>1 DEF Fail
    <3>2. ASSUME NEW p \in Places, Insert(r, p) \/ Delete(r, p) \/ Unblock(r, p)
          PROVE  rows'[P][u] = rows[P][u] /\ rows'[M][u] = rows[M][u]
      <4>1. job[r].user # u
        BY <1>0, <2>2, <3>2, JobOf DEF Insert, Delete, Unblock, Places, Waiting, WorksOn
      <4>2. PICK new : rows' = [rows EXCEPT ![TableOf(job[r], p)][job[r].user] = new]
        BY <3>2 DEF Insert, Delete, Unblock, Execute
      <4> QED BY <1>0, <4>1, <4>2, TableType DEF TypeOK
    <3>3. CASE WriteNote(r)
      <4>1. job[r].user # u
        BY <1>0, <2>2, <3>3, JobOf DEF WriteNote, WorksOn
      <4> QED BY <1>0, <3>3, <4>1 DEF WriteNote, TypeOK
    <3>4. CASE ~Fail(r) /\ ~WriteNote(r)
               /\ \A p \in Places : ~(Insert(r, p) \/ Delete(r, p) \/ Unblock(r, p))
      <4>1. rows' = rows
        BY <1>2, <3>4 DEF Begin, Progress, FetchMeta, LoadPerms, EnsureMember, Block, WritePerms, WriteMute, Reply
      <4> QED BY <4>1
    <3> QED BY <3>1, <3>2, <3>3, <3>4
  <2> QED BY <2>1, <2>2 DEF WorksOn
<1> QED BY <1>1, <1>2

\* r, alone, works on the rows of u, before or after its turn.
LEMMA SoloStep ==
  ASSUME TypeOK, LockInv, NEW r \in Requests, Begin(r) \/ Progress(r) \/ Fail(r),
         NEW u \in Users, WorksOn(r, u) \/ WorksOn(r, u)', EvenAt(u),
         \A x \in Requests \ {r} : ~WorksOn(x, u)
  PROVE  /\ WorksOn(r, u)' => Halfway(r, u)'
         /\ ~WorksOn(r, u)' => Even(u)'
<1>0. CourseType /\ CourseFits /\ P \in Tables /\ M \in Tables /\ P # M
  BY TypeParts DEF LockInv, P, M, Tables
<1>1. WorksOn(r, u) => Halfway(r, u)
  BY DEF EvenAt
<1>2. ~WorksOn(r, u) => Even(u)
  BY DEF EvenAt
<1>t. /\ rows[P][u] \in Row /\ (rows[P][u].tx = None <=> rows[P][u].is \in {"in", "out"})
      /\ rows[M][u] \in Row /\ (rows[M][u].tx = None <=> rows[M][u].is \in {"in", "out"})
  BY <1>0, TxIsRequest
<1>3. CASE ~WorksOn(r, u)
  <2>1. Even(u)' /\ Even(u)
    BY <1>2, <1>3, OthersAlone DEF Even
  <2>2. WorksOn(r, u)'
    BY <1>3
  <2>3. ~Commit(r) /\ ~Fail(r) /\ ~Begin(r) /\ ~Reply(r)
    BY <1>0, <1>3, <2>2 DEF Commit, Fail, Begin, Reply, WorksOn, Goto, CourseType
  <2>4. pc[r] \notin {"first", "firstWait", "second", "secondWait"}
    <3>1. ASSUME pc[r] \in {"first", "firstWait", "second", "secondWait"} PROVE FALSE
      <4>1. PICK p \in Places : Insert(r, p) \/ Delete(r, p) \/ Block(r, p) \/ Unblock(r, p)
        BY <2>3, <3>1 DEF Progress, FetchMeta, LoadPerms, EnsureMember, WritePerms, WriteMute, WriteNote
      <4>2. job' = job
        BY <4>1 DEF Insert, Delete, Block, Unblock, Execute
      <4> QED BY <1>0, <1>3, <2>2, <3>1, <4>2, JobOf DEF WorksOn
    <3> QED BY <3>1
  <2>5. FetchMeta(r) \/ LoadPerms(r) \/ EnsureMember(r) \/ WritePerms(r) \/ WriteMute(r) \/ WriteNote(r)
    BY <2>3, <2>4 DEF Progress, Insert, Delete, Block, Unblock, Places, Waiting
  <2>6. CASE FetchMeta(r)
    <3>1. pc'[r] \in {"first"} \cup (IF job[r].op = "note" THEN {} ELSE {"write"})
      BY <1>0, <2>2, <2>6, JobOf DEF FetchMeta, Goto, AfterMeta, CourseType, WorksOn, Ops
    <3> QED BY <1>0, <2>1, <2>2, <2>6, <3>1 DEF FetchMeta, WorksOn, Halfway
  <2>7. CASE LoadPerms(r)
    BY <1>0, <2>1, <2>2, <2>7 DEF LoadPerms, WorksOn, Halfway, Goto, CourseType, CourseFits
  <2>8. CASE EnsureMember(r)
    <3>1. pc'[r] = "write" /\ u \in Participants /\ rows' = rows
      BY <1>0, <2>2, <2>8 DEF EnsureMember, WorksOn, Goto, CourseType
    <3>2. rows[P][u].is = "in"
      BY <1>t, <2>1, <3>1 DEF Even, Participants, Visible, P
    <3> QED BY <2>1, <3>1, <3>2 DEF Halfway
  <2>9. CASE WritePerms(r) \/ WriteMute(r) \/ WriteNote(r)
    BY <1>0, <2>2, <2>9 DEF WritePerms, WriteMute, WriteNote, WorksOn, Goto, CourseType
  <2> QED BY <2>5, <2>6, <2>7, <2>8, <2>9
<1>4. CASE WorksOn(r, u)
  <2>1. /\ job[r].user = u /\ Halfway(r, u) /\ pc[r] # "idle"
        /\ pc[r] \in {"first", "firstWait", "second", "secondWait", "commit", "write"}
        /\ pc[r] = "write" => job[r].op = "note"
    BY <1>1, <1>4 DEF WorksOn
  <2>2. ASSUME NEW p \in Places, pc[r] \in {p, Waiting(p)}, NEW new, Execute(r, p, new),
               rows[TableOf(job[r], p)][u].tx = None => new = IF job[r].op = "add"
                 THEN Inserted(rows[TableOf(job[r], p)][u], r)
                 ELSE Deleted(rows[TableOf(job[r], p)][u], r)
        PROVE  WorksOn(r, u)' /\ Halfway(r, u)'
    <3>1. /\ job' = job /\ pc'[r] = AfterStatement(p)
          /\ rows' = [rows EXCEPT ![TableOf(job[r], p)][u] = new]
      BY <1>0, <2>1, <2>2 DEF Execute, Goto, CourseType
    <3>2. CASE p = "first"
      <4>1. /\ rows'[P][u] = new /\ rows'[M][u] = rows[M][u] /\ pc'[r] = "second"
            /\ rows[P][u] = rows[M][u] /\ rows[P][u].is \in {"in", "out"} /\ rows[P][u].tx = None
            /\ new = IF job[r].op = "add" THEN Inserted(rows[P][u], r) ELSE Deleted(rows[P][u], r)
        BY <1>0, <1>t, <2>1, <2>2, <3>1, <3>2
           DEF TableOf, Waiting, Halfway, Even, AfterStatement, P, M, TypeOK
      <4>2. rows[P][u] = Rest(rows[P][u].is)
        BY <1>t, <4>1 DEF Row, Rest
      <4>3. WorksOn(r, u)'
        BY <1>4, <3>1, <4>1 DEF WorksOn
      <4> QED BY <3>1, <4>1, <4>2, <4>3, RosterAssumption
                 DEF Halfway, Inserted, Deleted, Ended, Rest
    <3>3. CASE p = "second"
      <4>1. /\ rows'[M][u] = new /\ rows'[P][u] = rows[P][u] /\ pc'[r] = "commit"
            /\ rows[M][u] = Ended(rows[P][u], r, FALSE) /\ rows[P][u].tx \in {None, r}
            /\ rows[P][u].is \in IF job[r].op = "add" THEN {"in", "joining"} ELSE {"out", "leaving"}
        BY <1>0, <2>1, <3>1, <3>3, <2>2
           DEF TableOf, Waiting, Halfway, AfterStatement, P, M, TypeOK
      <4>2. rows[M][u].tx = None
        BY <1>t, <4>1, RosterAssumption DEF Ended, Rest
      <4>3. new = IF job[r].op = "add" THEN Inserted(rows[M][u], r) ELSE Deleted(rows[M][u], r)
        BY <2>2, <3>3, <4>2 DEF TableOf, M
      <4>4. WorksOn(r, u)'
        BY <1>4, <3>1, <4>1 DEF WorksOn
      <4>5. rows[P][u] = [is |-> rows[P][u].is, tx |-> rows[P][u].tx]
        BY <1>t DEF Row
      <4>6. new = rows[P][u]
        BY <1>t, <4>1, <4>3, <4>5, RosterAssumption DEF Inserted, Deleted, Ended, Rest
      <4> QED BY <4>1, <4>4, <4>6 DEF Halfway
    <3> QED BY <3>2, <3>3 DEF Places
  <2>3. ASSUME NEW p \in Places, Insert(r, p) PROVE WorksOn(r, u)' /\ Halfway(r, u)'
    BY <2>1, <2>2, <2>3 DEF Insert
  <2>4. ASSUME NEW p \in Places, Delete(r, p) \/ Unblock(r, p)
        PROVE  WorksOn(r, u)' /\ Halfway(r, u)'
    <3>1. job[r].op # "add"
      BY <1>0, <2>4 DEF Delete, Unblock, CourseFits, Waiting, Places
    <3> QED BY <2>1, <2>2, <2>4, <3>1 DEF Delete, Unblock
  <2>5. ASSUME NEW p \in Places, Block(r, p) PROVE WorksOn(r, u)' /\ Halfway(r, u)'
    <3>1. pc'[r] = Waiting(p) /\ pc[r] = p /\ rows' = rows /\ job' = job
      BY <1>0, <2>5 DEF Block, Goto, CourseType
    <3> QED BY <1>4, <2>1, <3>1 DEF Halfway, Even, WorksOn, Waiting, Places
  <2>6. ASSUME NEW done \in BOOLEAN, rows' = AllEnded(r, done), pc'[r] \in {"reply", "done"},
               pc[r] = "commit" \/ ~done
        PROVE  ~WorksOn(r, u)' /\ Even(u)'
    <3>1. rows'[P][u] = Ended(rows[P][u], r, done) /\ rows'[M][u] = Ended(rows[M][u], r, done)
      BY <1>0, <2>6 DEF AllEnded
    <3>2. CASE pc[r] \in {"first", "firstWait", "write"}
      BY <2>1, <2>6, <3>1, <3>2, RosterAssumption DEF Halfway, Even, Ended, WorksOn
    <3>3. CASE pc[r] \in {"second", "secondWait"}
      BY <2>1, <2>6, <3>1, <3>3, RosterAssumption DEF Halfway, Even, Ended, Rest, WorksOn
    <3>4. CASE pc[r] = "commit"
      BY <2>1, <2>6, <3>1, <3>4, RosterAssumption DEF Halfway, Even, Ended, Rest, WorksOn
    <3> QED BY <2>1, <3>2, <3>3, <3>4
  <2>7. CASE Commit(r)
    <3>1. rows' = AllEnded(r, TRUE) /\ pc'[r] = "reply" /\ pc[r] = "commit"
      BY <2>7 DEF Commit
    <3> QED BY <2>6, <3>1
  <2>8. CASE Fail(r)
    <3>1. rows' = AllEnded(r, FALSE) /\ pc'[r] = "done"
      BY <1>0, <2>8 DEF Fail, Goto, CourseType
    <3> QED BY <2>6, <3>1
  <2>9. CASE WriteNote(r)
    <3>1. Even(u) /\ rows[P][u].is = "in" /\ pc'[r] = "reply"
      BY <1>0, <2>1, <2>9 DEF WriteNote, Halfway, Goto, CourseType
    <3>2. rows'[P][u] = rows[P][u] /\ rows'[M][u] = Rest("in")
      BY <1>0, <2>1, <2>9 DEF WriteNote, P, M, TypeOK
    <3>3. rows[P][u] = Rest("in")
      BY <1>t, <3>1 DEF Even, Row, Rest
    <3> QED BY <3>1, <3>2, <3>3 DEF Even, WorksOn, Rest
  <2> QED
    BY <2>1, <2>3, <2>4, <2>5, <2>7, <2>8, <2>9
       DEF Progress, Begin, FetchMeta, LoadPerms, EnsureMember, WritePerms, WriteMute, Reply
<1> QED BY <1>3, <1>4

LEMMA EvenStep ==
  ASSUME TypeOK, LockInv, EvenInv, NEW r \in Requests, Begin(r) \/ Progress(r) \/ Fail(r),
         contended' = contended \cup Contended'
  PROVE  EvenInv'
<1>1. Contended' \subseteq contended'
  OBVIOUS
<1> SUFFICES ASSUME NEW u \in Users \ contended' PROVE EvenAt(u)'
  BY <1>1 DEF EvenInv
<1>2. /\ u \notin contended /\ u \notin Contended /\ u \notin Contended' /\ EvenAt(u)
  BY DEF EvenInv
<1>3. \A x, y \in Requests : WorksOn(x, u) /\ WorksOn(y, u) => x = y
  BY <1>2 DEF Contended
<1>4. \A x, y \in Requests : WorksOn(x, u)' /\ WorksOn(y, u)' => x = y
  BY <1>2 DEF Contended
<1>5. /\ \A x \in Requests \ {r} : job'[x] = job[x] /\ (WorksOn(x, u)' <=> WorksOn(x, u))
      /\ ~WorksOn(r, u) =>
           /\ rows'[P][u] = rows[P][u] /\ rows'[M][u] = rows[M][u]
           /\ \A x \in Requests \ {r} : WorksOn(x, u) => pc'[x] = pc[x]
  BY OthersAlone
<1>6. CASE WorksOn(r, u) \/ WorksOn(r, u)'
  <2>1. \A x \in Requests \ {r} : ~WorksOn(x, u) /\ ~WorksOn(x, u)'
    BY <1>3, <1>4, <1>5, <1>6
  <2>2. /\ WorksOn(r, u)' => Halfway(r, u)'
        /\ ~WorksOn(r, u)' => Even(u)'
    BY <1>2, <1>6, <2>1, SoloStep
  <2> QED BY <2>1, <2>2 DEF EvenAt
<1>7. CASE ~WorksOn(r, u) /\ ~WorksOn(r, u)'
  <2>1. ASSUME NEW x \in Requests, WorksOn(x, u)' PROVE Halfway(x, u)'
    <3>1. x # r /\ WorksOn(x, u) /\ Halfway(x, u)
      BY <1>2, <1>5, <1>7, <2>1 DEF EvenAt
    <3>2. pc'[x] = pc[x] /\ job'[x] = job[x] /\ rows'[P][u] = rows[P][u] /\ rows'[M][u] = rows[M][u]
      BY <1>5, <1>7, <3>1
    <3> QED BY <3>1, <3>2 DEF Halfway, Even
  <2>2. ASSUME ~\E x \in Requests : WorksOn(x, u)' PROVE Even(u)'
    <3>1. ~\E x \in Requests : WorksOn(x, u)
      BY <1>5, <1>7, <2>2
    <3> QED BY <1>2, <1>5, <1>7, <3>1 DEF EvenAt, Even
  <2> QED BY <2>1, <2>2 DEF EvenAt
<1> QED BY <1>6, <1>7

(***************************************************************************)
(* For any number of requests, failures included: a user on whose rows no  *)
(* two requests ever worked at once is in chat_participants exactly when   *)
(* in chat_members (chats.rs lines 184-201, 366-379, 475-488, members.rs   *)
(* lines 80-84).                                                           *)
(***************************************************************************)
THEOREM TablesStayInStep == Spec => []TablesInStep
<1>1. Init => EvenInv
  <2> SUFFICES ASSUME Init PROVE EvenInv
    OBVIOUS
  <2>1. \A r \in Requests, u \in Users : ~WorksOn(r, u)
    BY DEF Init, WorksOn
  <2>2. \A u \in Users : Even(u)
    BY DEF Init, Even, Rest, P, M, Tables
  <2> QED BY <2>1, <2>2 DEF EvenInv, EvenAt, Contended
<1>2. TypeOK /\ LockInv /\ EvenInv /\ [Next]_vars => EvenInv'
  <2> SUFFICES ASSUME TypeOK, LockInv, EvenInv, [Next]_vars PROVE EvenInv'
    OBVIOUS
  <2>1. CASE Next
    BY <2>1, EvenStep DEF Next
  <2>2. CASE UNCHANGED vars
    <3>1. \A r \in Requests, u \in Users :
             /\ WorksOn(r, u)' <=> WorksOn(r, u)
             /\ Halfway(r, u)' <=> Halfway(r, u)
             /\ Even(u)' <=> Even(u)
      BY <2>2 DEF vars, WorksOn, Halfway, Even
    <3>2. Contended' = Contended /\ contended' = contended
      BY <2>2, <3>1 DEF vars, Contended
    <3>3. ASSUME NEW u \in Users, EvenAt(u) PROVE EvenAt(u)'
      <4>1. ASSUME NEW r \in Requests, WorksOn(r, u)' PROVE Halfway(r, u)'
        BY <3>1, <3>3, <4>1 DEF EvenAt
      <4>2. ASSUME ~\E r \in Requests : WorksOn(r, u)' PROVE Even(u)'
        <5>1. ~\E r \in Requests : WorksOn(r, u)
          BY <3>1, <4>2
        <5>2. Even(u)
          BY <3>3, <5>1 DEF EvenAt
        <5> QED BY <2>2, <5>2 DEF vars, Even
      <4> QED BY <4>1, <4>2 DEF EvenAt
    <3> QED BY <3>2, <3>3 DEF EvenInv
  <2> QED BY <2>1, <2>2
<1>3. EvenInv => TablesInStep
  BY DEF EvenInv, EvenAt, Even, TablesInStep, Participants, Visible, P, M
<1> QED BY <1>1, <1>2, <1>3, LocksHeld, PTL DEF Spec
=============================================================================
