-------------------------- MODULE ReadStateProofs --------------------------
(***************************************************************************)
(* Proofs about ReadState, for any users, messages and requests.           *)
(*                                                                         *)
(* Inv adds to NoDanglingReads only that the tables are functions on       *)
(* messages and users: a statement writes a receipt or a position only for *)
(* a message that is stored, and the one action that takes messages away   *)
(* also empties what refers to them. Typed adds the course of each call    *)
(* and types; Written, which receipts a call has written so far; SeatInv,  *)
(* that the position of a user whose calls never met is where the last of  *)
(* them, or the one under way, has put it.                                 *)
(***************************************************************************)
EXTENDS ReadState, FiniteSetTheorems, TLAPS

Shape ==
  /\ msg = [m \in Messages |-> msg[m]]
  /\ views = [m \in Messages |-> views[m]]
  /\ firstRead = [m \in Messages |-> firstRead[m]]
  /\ readAt = [m \in Messages |-> readAt[m]]
  /\ \A m \in Messages : readAt[m] = [u \in Users |-> readAt[m][u]]
  /\ lastRead = [u \in Users |-> lastRead[u]]

Inv == Shape /\ NoDanglingReads

\* What Inv is about.
data == <<msg, views, firstRead, readAt, lastRead, rowOf>>

\* A step that leaves the tables alone keeps Inv.
LEMMA DataUnchanged == Inv /\ UNCHANGED data => Inv'
  BY DEF Inv, Shape, NoDanglingReads, Stored, data

\* The receipts of a stored message may change in any way.
LEMMA RecordedKeeps ==
  ASSUME Inv, NEW c \in Calls, NEW m \in Stored, Recorded(c, m),
         UNCHANGED <<msg, rowOf, lastRead>>
  PROVE  Inv'
  <1>1. CASE ctx[c].store = "views" /\ views' = [views EXCEPT ![m] = @ + 1]
             /\ UNCHANGED <<firstRead, readAt>>
    BY <1>1 DEF Inv, Shape, NoDanglingReads, Stored
  <1>2. CASE ctx[c].store = "agg"
             /\ firstRead' = [firstRead EXCEPT ![m] = FirstRead(@, ctx[c].now)]
             /\ UNCHANGED <<views, readAt>>
    BY <1>2 DEF Inv, Shape, NoDanglingReads, Stored
  <1>3. CASE ctx[c].store = "small"
             /\ readAt' = [readAt EXCEPT ![m][User(c)] = ctx[c].now]
             /\ UNCHANGED <<views, firstRead>>
    <2>1. \A n \in Messages \ {m} : readAt'[n] = readAt[n]
      BY <1>3 DEF Inv, Shape
    <2>2. \A n \in Messages : readAt'[n] = [u \in Users |-> readAt'[n][u]]
      BY <1>3 DEF Inv, Shape
    <2>3. readAt' = [n \in Messages |-> readAt'[n]]
      BY <1>3 DEF Inv, Shape
    <2>4. m \in Messages /\ Stored' = Stored
      BY DEF Stored
    <2>5. Shape'
      BY <1>3, <2>2, <2>3 DEF Inv, Shape
    <2>6. NoDanglingReads'
      <3>1. \A n \in Messages \ Stored :
              views'[n] = 0 /\ firstRead'[n] = Null /\ \A u \in Users : readAt'[n][u] = Null
        BY <1>3, <2>1, <2>4 DEF Inv, NoDanglingReads
      <3> QED
        BY <2>4, <3>1 DEF Inv, NoDanglingReads
    <2> QED
      BY <2>5, <2>6 DEF Inv
  <1> QED
    BY <1>1, <1>2, <1>3 DEF Recorded

\* A position may move to a stored message.
LEMMA MovedKeeps ==
  ASSUME Inv, NEW u, NEW m \in Stored, lastRead' = [lastRead EXCEPT ![u] = m],
         rowOf' = rowOf \cup {u}, UNCHANGED <<msg, views, firstRead, readAt>>
  PROVE  Inv'
  BY DEF Inv, Shape, NoDanglingReads, Stored

\* DELETE FROM messages, with its cascades, leaves nothing behind.
LEMMA ClearKeeps ==
  ASSUME Inv, NEW c \in Calls, Clear(c)
  PROVE  Inv'
  <1>1. Stored' = {}
    BY DEF Clear, Stored
  <1>2. \A m \in Messages :
          /\ m \in Stored => views'[m] = 0 /\ firstRead'[m] = Null
          /\ m \notin Stored => views'[m] = views[m] /\ firstRead'[m] = firstRead[m]
          /\ \A u \in Users : readAt'[m][u] = IF m \in Stored THEN Null ELSE readAt[m][u]
    BY DEF Clear, Wiped, Stored
  <1>3. Shape'
    BY DEF Clear, Wiped, Shape, Stored
  <1>4. NoDanglingReads'
    BY <1>1, <1>2 DEF Inv, NoDanglingReads, Clear
  <1> QED
    BY <1>3, <1>4 DEF Inv

LEMMA InvInit == Init => Inv
  <1> SUFFICES ASSUME Init PROVE Inv
    OBVIOUS
  <1>1. Stored0 \subseteq Stored
    BY ReadAssumption DEF Init, Stored
  <1>2. Shape
    BY DEF Init, Shape
  <1>3. NoDanglingReads
    BY <1>1 DEF Init, NoDanglingReads, Null
  <1> QED
    BY <1>2, <1>3 DEF Inv

\* One case for each action of a call.
LEMMA CallKeeps ==
  ASSUME Inv, NEW c \in Calls,
         Begin(c) \/ Check(c) \/ ReadBulk(c) \/ UpdateLastRead(c)
           \/ UnreadCount(c) \/ Clear(c) \/ Reply(c) \/ Fail(c)
  PROVE  Inv'
  <1>1. CASE Begin(c) \/ Check(c) \/ CountParticipants(c) \/ FindNewest(c) \/ ReadCurrent(c)
    BY <1>1, DataUnchanged
       DEF data, Begin, Check, CountParticipants, FindNewest, ReadCurrent, Unchanged, tables, chat
  <1>2. CASE RecordNext(c)
    <2>1. CASE Ids(c)[ctx[c].at] \in Stored /\ Recorded(c, Ids(c)[ctx[c].at])
      BY <1>2, <2>1, RecordedKeeps DEF RecordNext, chat
    <2>2. CASE UNCHANGED tables
      BY <1>2, <2>2, DataUnchanged DEF data, RecordNext, tables, chat
    <2> QED
      BY <1>2, <2>1, <2>2 DEF RecordNext
  <1>3. CASE Upsert(c)
    <2>1. CASE ctx[c].target \in Stored /\ lastRead' = [lastRead EXCEPT ![User(c)] = ctx[c].target]
               /\ rowOf' = rowOf \cup {User(c)}
      BY <1>3, <2>1, MovedKeeps DEF Upsert, tables, chat
    <2>2. CASE UNCHANGED <<lastRead, rowOf>>
      BY <1>3, <2>2, DataUnchanged DEF data, Upsert, tables, chat
    <2> QED
      BY <1>3, <2>1, <2>2 DEF Upsert
  <1>4. CASE UpdateLastRead(c)
    <2>1. CASE User(c) \in rowOf /\ Ids(c)[1] \in Stored
               /\ lastRead' = [lastRead EXCEPT ![User(c)] = Ids(c)[1]]
      <3>1. rowOf' = rowOf \cup {User(c)}
        BY <1>4, <2>1 DEF UpdateLastRead
      <3> QED
        BY <1>4, <2>1, <3>1, MovedKeeps DEF UpdateLastRead, tables, chat
    <2>2. CASE UNCHANGED lastRead
      BY <1>4, <2>2, DataUnchanged DEF data, UpdateLastRead, tables, chat
    <2> QED
      BY <1>4, <2>1, <2>2 DEF UpdateLastRead
  <1>5. CASE UnreadCount(c) \/ Reply(c) \/ Fail(c)
    BY <1>5, DataUnchanged
       DEF data, UnreadCount, ReadPosition, CountUnread, Reply, Fail, Unchanged, tables, chat
  <1>6. CASE Clear(c)
    BY <1>6, ClearKeeps
  <1> QED
    BY <1>1, <1>2, <1>3, <1>4, <1>5, <1>6 DEF ReadBulk

\* What happens around the calls.
LEMMA AroundKeeps ==
  ASSUME Inv,
         \/ \E m \in Messages : StoreMessage(m) \/ DeleteMessage(m)
         \/ \E u \in Users : Leave(u) \/ Join(u)
         \/ Crowd \/ PurgeReads
  PROVE  Inv'
  <1>1. CASE \E m \in Messages : StoreMessage(m) \/ DeleteMessage(m)
    <2>1. PICK m \in Messages : StoreMessage(m) \/ DeleteMessage(m)
      BY <1>1
    <2>2. Stored \subseteq Stored' /\ msg' = [n \in Messages |-> msg'[n]]
      BY <2>1 DEF StoreMessage, DeleteMessage, Stored, Inv, Shape
    <2>3. UNCHANGED <<views, firstRead, readAt, lastRead, rowOf>>
      BY <2>1 DEF StoreMessage, DeleteMessage, tables
    <2> QED
      BY <2>2, <2>3 DEF Inv, Shape, NoDanglingReads
  <1>2. CASE \E u \in Users : Leave(u)
    <2>1. PICK u \in Users : Leave(u)
      BY <1>2
    <2>2. UNCHANGED <<msg, views, firstRead, readAt>> /\ Stored' = Stored
      BY <2>1 DEF Leave, tables, Stored
    <2> QED
      BY <2>1, <2>2 DEF Leave, Inv, Shape, NoDanglingReads
  <1>3. CASE \E u \in Users : Join(u)
    <2>1. PICK u \in Users : Join(u)
      BY <1>3
    <2>2. UNCHANGED <<msg, views, firstRead, readAt, lastRead>> /\ Stored' = Stored
      BY <2>1 DEF Join, tables, Stored
    <2> QED
      BY <2>1, <2>2 DEF Join, Inv, Shape, NoDanglingReads
  <1>4. CASE Crowd
    BY <1>4, DataUnchanged DEF Crowd, data, tables
  <1>5. CASE PurgeReads
    <2>1. PICK t \in 1..clock : readAt' = [m \in Messages |-> [u \in Users |->
            IF readAt[m][u] <= t THEN Null ELSE readAt[m][u]]]
      BY <1>5 DEF PurgeReads
    <2>2. UNCHANGED <<msg, views, firstRead, lastRead, rowOf>> /\ Stored' = Stored
      BY <1>5 DEF PurgeReads, chat, Stored
    <2>3. \A m \in Messages, u \in Users : readAt[m][u] = Null => readAt'[m][u] = Null
      BY <2>1
    <2>4. Shape'
      BY <2>1, <2>2 DEF Shape, Inv
    <2> QED
      BY <2>2, <2>3, <2>4 DEF Inv, NoDanglingReads
  <1> QED
    BY <1>1, <1>2, <1>3, <1>4, <1>5

LEMMA InvNext == Inv /\ [Next]_vars => Inv'
  <1> SUFFICES ASSUME Inv, [Next]_vars PROVE Inv'
    OBVIOUS
  <1>1. CASE UNCHANGED vars
    BY <1>1, DataUnchanged DEF vars, data, chat, tables
  <1>2. CASE Next
    BY <1>2, CallKeeps, AroundKeeps DEF Next
  <1> QED
    BY <1>1, <1>2

LEMMA InvAlways == Spec => []Inv
  BY InvInit, InvNext, PTL DEF Spec

(***************************************************************************)
(* No receipt and no position outlives its message, whatever statements of *)
(* read_bulk, mark_as_read, clear_messages and the others interleave       *)
(* (messages.rs lines 223-281, chats.rs lines 510-514).                    *)
(***************************************************************************)
THEOREM NothingDangles == Spec => []NoDanglingReads
  <1>1. Inv => NoDanglingReads
    BY DEF Inv
  <1> QED
    BY <1>1, InvAlways, PTL

\* Only a receipt and clear_messages touch first_read_at.
Kept ==
  \A m \in Messages : firstRead[m] # Null /\ m \in Stored' => firstRead'[m] = firstRead[m]

LEMMA KeptNext == Inv /\ [Next]_vars => Kept
  <1> SUFFICES ASSUME Inv, [Next]_vars PROVE Kept
    OBVIOUS
  <1>1. CASE UNCHANGED firstRead
    BY <1>1 DEF Kept
  <1>2. ASSUME NEW c \in Calls, RecordNext(c)
        PROVE  Kept
    <2>1. CASE UNCHANGED tables
      BY <2>1, <1>1 DEF tables
    <2>2. CASE Recorded(c, Ids(c)[ctx[c].at])
      BY <2>2, <1>1 DEF Recorded, FirstRead, Kept, Inv, Shape
    <2> QED
      BY <1>2, <2>1, <2>2 DEF RecordNext
  <1>3. ASSUME NEW c \in Calls, Clear(c)
        PROVE  Kept
    BY <1>3 DEF Clear, Stored, Kept
  <1>4. ASSUME NEW c \in Calls,
               \/ Begin(c) \/ Check(c) \/ CountParticipants(c) \/ FindNewest(c) \/ ReadCurrent(c)
               \/ Upsert(c) \/ UpdateLastRead(c) \/ UnreadCount(c) \/ Reply(c) \/ Fail(c)
        PROVE  Kept
    BY <1>4, <1>1
       DEF Begin, Check, CountParticipants, FindNewest, ReadCurrent, Upsert, UpdateLastRead,
           UnreadCount, ReadPosition, CountUnread, Reply, Fail, Unchanged, tables
  <1>5. CASE \/ \E m \in Messages : StoreMessage(m) \/ DeleteMessage(m)
             \/ \E u \in Users : Leave(u) \/ Join(u)
             \/ Crowd \/ PurgeReads
    BY <1>5, <1>1 DEF StoreMessage, DeleteMessage, Leave, Join, Crowd, PurgeReads, tables
  <1>6. CASE UNCHANGED vars
    BY <1>6, <1>1 DEF vars, tables
  <1> QED
    BY <1>2, <1>3, <1>4, <1>5, <1>6 DEF Next, ReadBulk

(***************************************************************************)
(* first_read_at, once set, stays while the message is stored, whichever   *)
(* readers come later or at the same time (messages.rs line 234).          *)
(***************************************************************************)
THEOREM FirstReadIsFinal == Spec => FirstReadStays
  <1>1. Inv /\ [Next]_vars => [Kept]_vars
    BY KeptNext
  <1>2. [][Kept]_vars => FirstReadStays
    BY PTL DEF FirstReadStays, Kept
  <1> QED
    BY <1>1, <1>2, InvAlways, PTL DEF Spec

----------------------------------------------------------------------------
\* Types, and the course of every call

Ctxs == [at : Nat, now : Nat, store : {"none", "views", "agg", "small"},
         target : Messages \cup {Null}, pos : Messages \cup {Null}, unread : Nat]

\* A call that writes the receipts of its batch or has written them.
Batch(p, q) == p \in {"record", "current", "upsert"} \/ (p = "reply" /\ q.op = "read_bulk")

\* What a call at p does, and what it remembers.
Good(p, q, k) ==
  /\ p \in Pcs /\ k \in Ctxs
  /\ q \in IF p \notin {"idle", "done"} THEN Requests ELSE {Nothing}
  /\ p \in {"idle", "check", "count", "update", "position", "clear", "done"} => k = Fresh
  /\ p \in {"record", "unread"} => k.target = Null
  /\ p \in {"current", "upsert"} => k.target \in Messages
  /\ p = "reply" /\ q.op \notin {"read_bulk", "mark_as_read"} => k.target = Null
  /\ p \in {"count", "record", "current", "upsert"} => q.op = "read_bulk"
  /\ p = "update" => q.op = "mark_as_read"
  /\ p \in {"position", "unread"} => q.op = "unread_count"
  /\ p = "clear" => q.op = "clear_messages"
  /\ Batch(p, q) => k.now # 0 /\ k.store # "none" /\ k.at # 0
  /\ Batch(p, q) /\ p # "record" => k.at > Len(q.ids)

Course ==
  /\ pc \in [Calls -> Pcs] /\ ctx \in [Calls -> Ctxs]
  /\ call = [c \in Calls |-> call[c]]
  /\ \A c \in Calls : Good(pc[c], call[c], ctx[c])

Data ==
  /\ kind \in {"direct", "group", "channel"}
  /\ part \subseteq Users /\ rowOf \subseteq Users /\ unsure \subseteq Users
  /\ others \in Nat /\ clock \in Nat
  /\ msg \in [Messages -> {"none", "live", "deleted", "cleared"}]
  /\ views \in [Messages -> Nat]
  /\ firstRead \in [Messages -> Nat]
  /\ readAt \in [Messages -> [Users -> Nat]]
  /\ lastRead \in [Users -> Messages \cup {Null}]
  /\ said \in [Users -> Messages \cup {Null}]

LEMMA TypedIsTypeOK == Course /\ Data => TypeOK
  BY DEF Course, Data, TypeOK, Good, Running, Ctxs

LEMMA RequestTypes ==
  /\ \A q \in Requests : q.op \in Ops /\ q.user \in Users /\ q.ids \in Seq(Messages)
  /\ \A q \in Requests : q.op = "mark_as_read" => q.ids[1] \in Messages
  /\ Null \notin Messages /\ Messages \subseteq Nat /\ Nothing.user \in Users
  <1>1. \A q \in Requests : q.op \in Ops /\ q.user \in Users /\ q.ids \in Seq(Messages)
    BY ReadAssumption
  <1>2. \A q \in Requests : q.op = "mark_as_read" => Len(q.ids) = 1
    BY ReadAssumption
  <1> QED
    BY <1>1, <1>2, ReadAssumption DEF Messages, Null, Nothing

\* What a call has in hand.
LEMMA CallTypes ==
  ASSUME Course, NEW c \in Calls
  PROVE  /\ ctx[c] \in Ctxs /\ User(c) \in Users
         /\ Running(c) => call[c] \in Requests /\ Ids(c) \in Seq(Messages) /\ call[c].op \in Ops
         /\ ~Running(c) => call[c] = Nothing /\ ctx[c] = Fresh
  BY RequestTypes DEF Course, Good, Running, User, Ids

Same(x) == pc'[x] = pc[x] /\ call'[x] = call[x] /\ ctx'[x] = ctx[x]

LEMMA CourseStep ==
  ASSUME Course, NEW c \in Calls, NEW p, NEW q, NEW k, Good(p, q, k),
         pc' = [pc EXCEPT ![c] = p], call' = [call EXCEPT ![c] = q], ctx' = [ctx EXCEPT ![c] = k]
  PROVE  Course' /\ \A x \in Calls \ {c} : Same(x)
  BY DEF Course, Same, Good

LEMMA EndCourse ==
  ASSUME Course, NEW c \in Calls, End(c)
  PROVE  Course' /\ \A x \in Calls \ {c} : Same(x)
  <1>1. Good("done", Nothing, Fresh)
    BY DEF Good, Fresh, Ctxs, Pcs, Batch
  <1> QED
    BY <1>1, CourseStep DEF End

LEMMA MoveCourse ==
  ASSUME Course, NEW c \in Calls, NEW p, NEW k, Goto(c, p), ctx' = [ctx EXCEPT ![c] = k],
         Good(p, call[c], k)
  PROVE  Course' /\ \A x \in Calls \ {c} : Same(x)
  <1>1. call' = [call EXCEPT ![c] = call[c]]
    BY DEF Course, Goto
  <1> QED
    BY <1>1, CourseStep DEF Goto

LEMMA StayCourse ==
  ASSUME Course, NEW c \in Calls, NEW p, Goto(c, p), UNCHANGED ctx, Good(p, call[c], ctx[c])
  PROVE  Course' /\ \A x \in Calls \ {c} : Same(x)
  <1>1. ctx' = [ctx EXCEPT ![c] = ctx[c]]
    BY DEF Course
  <1> QED
    BY <1>1, MoveCourse

\* A set of messages that is not empty has a newest one.
LEMMA NewestIs ==
  ASSUME NEW S \in SUBSET Messages, S # {}
  PROVE  Newest(S) \in S
  <1> DEFINE Above(m) == {k \in Messages : k > m}
             T == {Above(m) : m \in S}
  <1>1. Messages \subseteq Nat /\ IsFiniteSet(Messages)
    BY ReadAssumption, FS_Interval DEF Messages
  <1>2. T \subseteq SUBSET Messages /\ T # {}
    OBVIOUS
  <1>3. IsWellFoundedOn(StrictSubsetOrdering(Messages), SUBSET Messages)
    BY <1>1, FS_StrictSubsetOrderingWellFounded, FS_FiniteSubsetsOfFinite
  <1>4. \E A \in T : \A B \in T : <<B, A>> \notin StrictSubsetOrdering(Messages)
    <2> HIDE DEF T
    <2> QED
      BY <1>2, <1>3, WFMin
  <1>5. PICK m \in S : \A n \in S : <<Above(n), Above(m)>> \notin StrictSubsetOrdering(Messages)
    BY <1>4
  <1>6. ASSUME NEW n \in S
        PROVE  n <= m
    <2>1. SUFFICES ASSUME n > m PROVE FALSE
      BY <1>1
    <2>2. n \in Nat /\ m \in Nat /\ n \in Messages
      BY <1>1
    <2>3. \A k \in Nat : k > n => k > m
      BY <2>1, <2>2
    <2>4. Above(n) \subseteq Above(m) /\ n \in Above(m) /\ n \notin Above(n)
      <3>1. \A k \in Messages : k > n => k > m
        BY <1>1, <2>3
      <3>2. n > m /\ ~(n > n)
        BY <2>1, <2>2
      <3> QED
        BY <2>2, <3>1, <3>2
    <2> QED
      BY <1>2, <1>5, <2>4 DEF StrictSubsetOrdering
  <1> QED
    BY <1>6 DEF Newest

LEMMA ReadBulkCourse ==
  ASSUME Course, Data, NEW c \in Calls, ReadBulk(c)
  PROVE  Course' /\ \A x \in Calls \ {c} : Same(x)
  <1>1. /\ Good(pc[c], call[c], ctx[c]) /\ ctx[c] \in Ctxs /\ DOMAIN ctx = Calls
        /\ ctx \in [Calls -> Ctxs] /\ clock \in Nat
    BY DEF Course, Data
  <1>2. CASE CountParticipants(c)
    <2> DEFINE now == clock + 1
               store == Store(Cardinality(part) + others)
               k == [[ctx[c] EXCEPT !.now = now] EXCEPT !.store = store]
    <2>1. now \in Nat /\ now # 0
      BY <1>1
    <2>2. store \in {"views", "agg", "small"}
      BY DEF Store
    <2>3. /\ Goto(c, "record") /\ pc[c] = "count"
          /\ ctx' = [ctx EXCEPT ![c].now = now, ![c].store = store]
      BY <1>2 DEF CountParticipants
    <2> HIDE DEF now, store
    <2>4. ctx' = [ctx EXCEPT ![c] = k]
      BY <1>1, <2>3
    <2>5. k \in Ctxs /\ k.now = now /\ k.store = store /\ k.target = ctx[c].target /\ k.at = ctx[c].at
      BY <1>1, <2>1, <2>2 DEF Ctxs
    <2>6. ctx[c] = Fresh /\ call[c] \in Requests /\ call[c].op = "read_bulk"
      BY <1>1, <2>3 DEF Good
    <2> HIDE DEF k
    <2>7. Good("record", call[c], k)
      BY <2>1, <2>2, <2>5, <2>6 DEF Good, Pcs, Batch, Fresh
    <2> QED
      BY <2>3, <2>4, <2>7, MoveCourse
  <1>3. CASE RecordNext(c)
    <2>1. CASE End(c)
      BY <2>1, EndCourse
    <2>2. CASE ctx' = [ctx EXCEPT ![c].at = ctx[c].at + 1] /\ Goto(c, "record")
      <3> DEFINE k == [ctx[c] EXCEPT !.at = ctx[c].at + 1]
      <3>1. Good("record", call[c], k)
        <4>1. pc[c] = "record"
          BY <1>3 DEF RecordNext
        <4>2. /\ k \in Ctxs /\ k.at = ctx[c].at + 1 /\ ctx[c].at \in Nat
              /\ k.now = ctx[c].now /\ k.store = ctx[c].store /\ k.target = ctx[c].target
          BY <1>1 DEF Ctxs
        <4> HIDE DEF k
        <4> QED
          BY <1>1, <4>1, <4>2 DEF Good, Batch
      <3>2. ctx' = [ctx EXCEPT ![c] = k]
        BY <2>2
      <3> HIDE DEF k
      <3> QED
        BY <2>2, <3>1, <3>2, MoveCourse
    <2> QED
      BY <1>3, <2>1, <2>2 DEF RecordNext
  <1>4. CASE FindNewest(c)
    <2> DEFINE S == Named(c) \cap Stored
    <2>1. CASE S # {} /\ ctx' = [ctx EXCEPT ![c].target = Newest(S)] /\ Goto(c, "current")
      <3> DEFINE k == [ctx[c] EXCEPT !.target = Newest(S)]
      <3>1. Newest(S) \in Messages
        BY <2>1, NewestIs DEF Stored
      <3> HIDE DEF S
      <3>2. Good("current", call[c], k)
        BY <1>1, <1>4, <3>1 DEF FindNewest, Ids, Good, Ctxs, Pcs, Batch
      <3>3. ctx' = [ctx EXCEPT ![c] = k]
        BY <2>1
      <3> HIDE DEF k
      <3> QED
        BY <2>1, <3>2, <3>3, MoveCourse
    <2>2. CASE Goto(c, "reply") /\ UNCHANGED ctx
      <3>1. Good("reply", call[c], ctx[c])
        BY <1>1, <1>4 DEF FindNewest, Ids, Good, Pcs, Batch
      <3> QED
        BY <2>2, <3>1, StayCourse
    <2> QED
      BY <1>4, <2>1, <2>2 DEF FindNewest
  <1>5. CASE ReadCurrent(c)
    <2>1. CASE End(c)
      BY <2>1, EndCourse
    <2>2. CASE UNCHANGED ctx /\ \E p \in {"upsert", "reply"} : Goto(c, p)
      <3>1. Good("upsert", call[c], ctx[c]) /\ Good("reply", call[c], ctx[c])
        BY <1>1, <1>5 DEF ReadCurrent, Good, Pcs, Batch
      <3> QED
        BY <2>2, <3>1, StayCourse
    <2> QED
      BY <1>5, <2>1, <2>2 DEF ReadCurrent
  <1>6. CASE Upsert(c)
    <2>1. CASE End(c)
      BY <2>1, EndCourse
    <2>2. CASE UNCHANGED ctx /\ Goto(c, "reply")
      <3>1. Good("reply", call[c], ctx[c])
        BY <1>1, <1>6 DEF Upsert, Good, Pcs, Batch
      <3> QED
        BY <2>2, <3>1, StayCourse
    <2> QED
      BY <1>6, <2>1, <2>2 DEF Upsert
  <1> QED
    BY <1>2, <1>3, <1>4, <1>5, <1>6 DEF ReadBulk

LEMMA CallCourse ==
  ASSUME Course, Data, NEW c \in Calls,
         Begin(c) \/ Check(c) \/ ReadBulk(c) \/ UpdateLastRead(c)
           \/ UnreadCount(c) \/ Clear(c) \/ Reply(c) \/ Fail(c)
  PROVE  Course' /\ \A x \in Calls \ {c} : Same(x)
  <1>1. /\ Good(pc[c], call[c], ctx[c]) /\ ctx[c] \in Ctxs /\ DOMAIN ctx = Calls
        /\ ctx \in [Calls -> Ctxs] /\ lastRead \in [Users -> Messages \cup {Null}]
    BY DEF Course, Data
  <1>2. CASE Begin(c)
    <2>1. PICK q \in Requests : call' = [call EXCEPT ![c] = q]
      BY <1>2 DEF Begin
    <2>2. Good("check", q, ctx[c])
      BY <1>1, <1>2, RequestTypes DEF Begin, Good, Pcs, Batch
    <2>3. pc' = [pc EXCEPT ![c] = "check"] /\ ctx' = [ctx EXCEPT ![c] = ctx[c]]
      BY <1>1, <1>2 DEF Begin
    <2> QED
      BY <2>1, <2>2, <2>3, CourseStep
  <1>3. CASE Check(c)
    <2>1. CASE End(c)
      BY <2>1, EndCourse
    <2>2. CASE Goto(c, AfterCheck(call[c].op)) /\ UNCHANGED ctx
      <3>1. call[c] \in Requests /\ call[c].op \in Ops /\ ctx[c] = Fresh
        BY <1>1, <1>3, RequestTypes DEF Check, Good
      <3>2. Good(AfterCheck(call[c].op), call[c], ctx[c])
        BY <1>1, <3>1 DEF Good, AfterCheck, Ops, Pcs, Batch
      <3> QED
        BY <2>2, <3>2, StayCourse
    <2> QED
      BY <1>3, <2>1, <2>2 DEF Check
  <1>4. CASE UpdateLastRead(c)
    <2>1. CASE End(c)
      BY <2>1, EndCourse
    <2>2. CASE Goto(c, "reply") /\ UNCHANGED ctx
      <3>1. Good("reply", call[c], ctx[c])
        BY <1>1, <1>4 DEF UpdateLastRead, Good, Pcs, Batch
      <3> QED
        BY <2>2, <3>1, StayCourse
    <2>3. CASE Goto(c, "reply") /\ ctx' = [ctx EXCEPT ![c].target = Ids(c)[1]]
      <3> DEFINE k == [ctx[c] EXCEPT !.target = Ids(c)[1]]
      <3>1. Ids(c)[1] \in Messages
        BY <1>1, <1>4, RequestTypes DEF UpdateLastRead, Good, Ids
      <3>2. Good("reply", call[c], k)
        BY <1>1, <1>4, <3>1 DEF UpdateLastRead, Good, Ctxs, Pcs, Batch
      <3>3. ctx' = [ctx EXCEPT ![c] = k]
        BY <2>3
      <3> HIDE DEF k
      <3> QED
        BY <2>3, <3>2, <3>3, MoveCourse
    <2> QED
      BY <1>4, <2>1, <2>2, <2>3 DEF UpdateLastRead
  <1>5. CASE ReadPosition(c)
    <2> DEFINE k == [ctx[c] EXCEPT !.pos = lastRead[User(c)]]
    <2>1. lastRead[User(c)] \in Messages \cup {Null}
      BY <1>1, CallTypes
    <2>2. Good("unread", call[c], k)
      BY <1>1, <1>5, <2>1 DEF ReadPosition, Good, Ctxs, Pcs, Batch, Fresh
    <2>3. ctx' = [ctx EXCEPT ![c] = k] /\ Goto(c, "unread")
      BY <1>5 DEF ReadPosition
    <2> HIDE DEF k
    <2> QED
      BY <2>2, <2>3, MoveCourse
  <1>6. CASE CountUnread(c)
    <2> DEFINE n == Cardinality(Unread(ctx[c].pos))
               k == [ctx[c] EXCEPT !.unread = n]
    <2>1. n \in Nat
      <3>1. IsFiniteSet(Messages) /\ Unread(ctx[c].pos) \subseteq Messages
        BY ReadAssumption, FS_Interval DEF Messages, Unread, Stored
      <3> QED
        BY <3>1, FS_Subset, FS_CardinalityType
    <2>2. ctx' = [ctx EXCEPT ![c] = k] /\ Goto(c, "reply")
      BY <1>6 DEF CountUnread
    <2> HIDE DEF n
    <2>3. Good("reply", call[c], k)
      BY <1>1, <1>6, <2>1 DEF CountUnread, Good, Ctxs, Pcs, Batch
    <2> HIDE DEF k
    <2> QED
      BY <2>2, <2>3, MoveCourse
  <1>7. CASE Clear(c)
    <2>1. Good("reply", call[c], ctx[c]) /\ Goto(c, "reply") /\ UNCHANGED ctx
      BY <1>1, <1>7 DEF Clear, Good, Pcs, Batch, Fresh
    <2> QED
      BY <2>1, StayCourse
  <1>8. CASE Reply(c) \/ Fail(c)
    BY <1>8, EndCourse DEF Reply, Fail
  <1> QED
    BY <1>2, <1>3, <1>4, <1>5, <1>6, <1>7, <1>8, ReadBulkCourse DEF UnreadCount

Typed == Course /\ Data /\ Inv

Around ==
  \/ \E m \in Messages : StoreMessage(m) \/ DeleteMessage(m)
  \/ \E u \in Users : Leave(u) \/ Join(u)
  \/ Crowd \/ PurgeReads

LEMMA AroundCourse ==
  ASSUME Course, Around
  PROVE  Course' /\ \A x \in Calls : Same(x)
  <1>1. UNCHANGED <<pc, call, ctx>>
    BY DEF Around, StoreMessage, DeleteMessage, Leave, Join, Crowd, PurgeReads
  <1> QED
    BY <1>1 DEF Course, Same

LEMMA RecordedData ==
  ASSUME Course, Data, NEW c \in Calls, RecordNext(c)
  PROVE  /\ views' \in [Messages -> Nat] /\ firstRead' \in [Messages -> Nat]
         /\ readAt' \in [Messages -> [Users -> Nat]]
  <1>1. /\ views \in [Messages -> Nat] /\ firstRead \in [Messages -> Nat]
        /\ readAt \in [Messages -> [Users -> Nat]]
    BY DEF Data
  <1>2. ctx[c].now \in Nat /\ User(c) \in Users
    BY CallTypes DEF Ctxs
  <1>3. CASE UNCHANGED tables
    BY <1>1, <1>3 DEF tables
  <1>4. CASE Ids(c)[ctx[c].at] \in Stored /\ Recorded(c, Ids(c)[ctx[c].at])
    <2> DEFINE m == Ids(c)[ctx[c].at]
    <2>1. m \in Messages
      BY <1>4 DEF Stored
    <2>2. Recorded(c, m)
      BY <1>4
    <2> HIDE DEF m
    <2>3. CASE views' = [views EXCEPT ![m] = @ + 1] /\ UNCHANGED <<firstRead, readAt>>
      BY <1>1, <2>1, <2>3
    <2>4. CASE firstRead' = [firstRead EXCEPT ![m] = FirstRead(@, ctx[c].now)]
               /\ UNCHANGED <<views, readAt>>
      BY <1>1, <1>2, <2>1, <2>4 DEF FirstRead
    <2>5. CASE readAt' = [readAt EXCEPT ![m][User(c)] = ctx[c].now] /\ UNCHANGED <<views, firstRead>>
      <3>1. readAt[m] \in [Users -> Nat]
        BY <1>1, <2>1
      <3>2. [readAt[m] EXCEPT ![User(c)] = ctx[c].now] \in [Users -> Nat]
        BY <1>2, <3>1
      <3>3. readAt' = [readAt EXCEPT ![m] = [readAt[m] EXCEPT ![User(c)] = ctx[c].now]]
        BY <1>1, <2>1, <2>5
      <3> QED
        BY <1>1, <2>1, <2>5, <3>2, <3>3
    <2> QED
      BY <2>2, <2>3, <2>4, <2>5 DEF Recorded
  <1> QED
    BY <1>3, <1>4 DEF RecordNext

LEMMA CallData ==
  ASSUME Course, Data, NEW c \in Calls,
         Begin(c) \/ Check(c) \/ ReadBulk(c) \/ UpdateLastRead(c)
           \/ UnreadCount(c) \/ Clear(c) \/ Reply(c) \/ Fail(c)
  PROVE  Data'
  <1>1. /\ User(c) \in Users /\ ctx[c].target \in Messages \cup {Null}
        /\ Null \in Messages \cup {Null}
    BY CallTypes DEF Ctxs
  <1>2. CASE Begin(c)
    BY <1>2, RequestTypes DEF Begin, Data, chat, tables
  <1>3. CASE Check(c) \/ FindNewest(c) \/ ReadCurrent(c) \/ UnreadCount(c)
    BY <1>3 DEF Check, FindNewest, ReadCurrent, UnreadCount, ReadPosition, CountUnread,
                Unchanged, Data, chat, tables
  <1>4. CASE CountParticipants(c)
    BY <1>4 DEF CountParticipants, Data, chat, tables
  <1>5. CASE RecordNext(c)
    BY <1>5, RecordedData DEF RecordNext, Data, chat
  <1>6. CASE Upsert(c)
    <2>1. /\ lastRead' \in [Users -> Messages \cup {Null}] /\ rowOf' \subseteq Users
          /\ UNCHANGED <<chat, tables, clock, said, unsure>>
      BY <1>1, <1>6 DEF Upsert, Data, Stored
    <2> QED
      BY <2>1 DEF Data, chat, tables
  <1>7. CASE UpdateLastRead(c)
    <2>1. /\ lastRead' \in [Users -> Messages \cup {Null}]
          /\ UNCHANGED <<chat, tables, rowOf, clock, said, unsure>>
      BY <1>1, <1>7 DEF UpdateLastRead, Data, Stored
    <2> QED
      BY <2>1 DEF Data, chat, tables
  <1>8. CASE Clear(c)
    <2>1. /\ views' \in [Messages -> Nat] /\ firstRead' \in [Messages -> Nat]
          /\ readAt' \in [Messages -> [Users -> Nat]]
      BY <1>8 DEF Clear, Wiped, Data, Null
    <2>2. msg' \in [Messages -> {"none", "live", "deleted", "cleared"}]
      BY <1>8 DEF Clear, Data
    <2> QED
      BY <1>8, <2>1, <2>2 DEF Clear, Data
  <1>9. CASE Reply(c)
    <2>1. said[User(c)] \in Messages \cup {Null}
      BY <1>1 DEF Data
    <2>2. Told(c) \in Messages \cup {Null}
      BY <1>1, <2>1 DEF Told, Stored
    <2> QED
      BY <1>9, <2>2 DEF Reply, Data, chat, tables
  <1>10. CASE Fail(c)
    BY <1>1, <1>10 DEF Fail, Unchanged, Data, chat, tables
  <1> QED
    BY <1>2, <1>3, <1>4, <1>5, <1>6, <1>7, <1>8, <1>9, <1>10 DEF ReadBulk

LEMMA AroundData ==
  ASSUME Data, Around
  PROVE  Data'
  <1>1. CASE \E m \in Messages : StoreMessage(m) \/ DeleteMessage(m)
    BY <1>1 DEF StoreMessage, DeleteMessage, Data, tables
  <1>2. CASE \E u \in Users : Leave(u) \/ Join(u)
    BY <1>2 DEF Leave, Join, Data, tables
  <1>3. CASE Crowd
    BY <1>3, ReadAssumption DEF Crowd, Data, tables
  <1>4. CASE PurgeReads
    <2>1. PICK t \in 1..clock : readAt' = [m \in Messages |-> [u \in Users |->
            IF readAt[m][u] <= t THEN Null ELSE readAt[m][u]]]
      BY <1>4 DEF PurgeReads
    <2>2. readAt' \in [Messages -> [Users -> Nat]]
      BY <2>1 DEF Data, Null
    <2> QED
      BY <1>4, <2>2 DEF PurgeReads, Data, chat
  <1> QED
    BY <1>1, <1>2, <1>3, <1>4 DEF Around

LEMMA TypedInit == Init => Typed
  <1> SUFFICES ASSUME Init PROVE Typed
    OBVIOUS
  <1>1. Course
    <2>1. Good("idle", Nothing, Fresh)
      BY DEF Good, Fresh, Ctxs, Pcs, Batch
    <2>2. Fresh \in Ctxs /\ "idle" \in Pcs
      BY <2>1 DEF Good
    <2> QED
      BY <2>1, <2>2 DEF Init, Course
  <1>2. Data
    BY ReadAssumption DEF Init, Data, Null
  <1> QED
    BY <1>1, <1>2, InvInit DEF Typed

LEMMA TypedNext == Typed /\ [Next]_vars => Typed'
  <1> SUFFICES ASSUME Typed, [Next]_vars PROVE Typed'
    OBVIOUS
  <1>1. Inv'
    BY InvNext DEF Typed
  <1>2. CASE UNCHANGED vars
    BY <1>1, <1>2 DEF Typed, Course, Data, vars, chat, tables
  <1>3. CASE Next
    BY <1>1, <1>3, CallCourse, CallData, AroundCourse, AroundData DEF Typed, Next, Around
  <1> QED
    BY <1>2, <1>3

\* TypeOK in every behaviour: every variable has its type, and a call that is
\* over remembers nothing.
THEOREM TypesHold == Spec => []TypeOK
  <1>1. Spec => []Typed
    BY TypedInit, TypedNext, PTL DEF Spec
  <1>2. Typed => TypeOK
    BY TypedIsTypeOK DEF Typed
  <1> QED
    BY <1>1, <1>2, PTL

----------------------------------------------------------------------------
\* Receipts

\* The receipt of a batch for message m, in the table the call chose.
Receipt(c, m) ==
  /\ ctx[c].store = "views" => views[m] # 0
  /\ ctx[c].store = "agg" => firstRead[m] # Null
  /\ ctx[c].store = "small" => readAt[m][User(c)] # Null

\* What the call has gone through is recorded, unless it has been cleared.
Written(c) ==
  Batch(pc[c], call[c]) =>
    \A i \in 1..Len(call[c].ids) :
      i < ctx[c].at =>
        LET m == call[c].ids[i]
        IN  msg[m] # "none" /\ (m \in Stored => Receipt(c, m))

RecordInv == Typed /\ \A c \in Calls : Written(c)

LEMMA RecordInvAnswers == RecordInv => AnsweredIsRecorded
  <1> SUFFICES ASSUME RecordInv, NEW c \in Calls, pc[c] = "reply", call[c].op = "read_bulk",
                      NEW m \in Named(c) \cap Stored
               PROVE  CASE ctx[c].store = "views" -> views[m] > 0
                        [] ctx[c].store = "agg" -> firstRead[m] # Null
                        [] ctx[c].store = "small" -> readAt[m][User(c)] # Null
    BY DEF AnsweredIsRecorded
  <1>1. /\ Good(pc[c], call[c], ctx[c]) /\ Written(c) /\ Batch(pc[c], call[c])
        /\ views \in [Messages -> Nat] /\ m \in Messages
    BY DEF RecordInv, Typed, Course, Data, Batch, Stored
  <1>2. ctx[c].at > Len(call[c].ids) /\ ctx[c].at \in Nat /\ call[c].ids \in Seq(Messages)
        /\ ctx[c].store \in {"views", "agg", "small"}
    BY <1>1, CallTypes, RequestTypes DEF Good, Ctxs, Running, Ids, RecordInv, Typed
  <1>3. PICK i \in 1..Len(call[c].ids) : m = call[c].ids[i]
    BY DEF Named, Ids
  <1>4. Receipt(c, m)
    BY <1>1, <1>2, <1>3 DEF Written
  <1>5. CASE ctx[c].store = "views"
    BY <1>1, <1>4, <1>5 DEF Receipt
  <1>6. CASE ctx[c].store = "agg"
    BY <1>4, <1>6 DEF Receipt
  <1>7. CASE ctx[c].store = "small"
    BY <1>4, <1>7 DEF Receipt
  <1> QED
    BY <1>2, <1>5, <1>6, <1>7

\* No message comes back, and no receipt goes before its message.
MessagesGoOn ==
  \A m \in Messages :
    msg[m] # "none" => msg'[m] # "none" /\ (m \in Stored' => m \in Stored)

ReceiptsStay ==
  \A m \in Stored' :
    m \in Stored =>
      /\ views[m] # 0 => views'[m] # 0
      /\ firstRead[m] # Null => firstRead'[m] # Null
      /\ \A u \in Users : readAt[m][u] # Null => readAt'[m][u] # Null

LEMMA SameWritten ==
  ASSUME Typed, NEW x \in Calls, Same(x), MessagesGoOn, ReceiptsStay, Written(x)
  PROVE  Written(x)'
  <1> SUFFICES ASSUME Batch(pc[x], call[x]), NEW i \in 1..Len(call[x].ids), i < ctx[x].at
               PROVE  /\ msg'[call[x].ids[i]] # "none"
                      /\ call[x].ids[i] \in Stored' => Receipt(x, call[x].ids[i])'
    BY DEF Same, Written
  <1>1. call[x].ids[i] \in Messages /\ User(x) \in Users
    BY CallTypes DEF Batch, Running, Ids, Typed
  <1>2. msg[call[x].ids[i]] # "none" /\ (call[x].ids[i] \in Stored => Receipt(x, call[x].ids[i]))
    BY DEF Written
  <1> QED
    BY <1>1, <1>2 DEF Same, MessagesGoOn, ReceiptsStay, Receipt, User

\* A step that leaves messages and receipts alone.
LEMMA NothingWritten ==
  ASSUME UNCHANGED <<msg, tables>>
  PROVE  MessagesGoOn /\ ReceiptsStay
  BY DEF MessagesGoOn, ReceiptsStay, Stored, tables

\* The call that records next.
LEMMA RecordWritten ==
  ASSUME RecordInv, NEW c \in Calls, RecordNext(c)
  PROVE  Written(c)' /\ MessagesGoOn /\ ReceiptsStay
  <1>1. /\ Good(pc[c], call[c], ctx[c]) /\ pc[c] = "record" /\ UNCHANGED msg
        /\ pc \in [Calls -> Pcs] /\ DOMAIN ctx = Calls /\ call = [x \in Calls |-> call[x]]
        /\ views \in [Messages -> Nat] /\ firstRead \in [Messages -> Nat]
        /\ readAt \in [Messages -> [Users -> Nat]] /\ User(c) \in Users
        /\ call[c].ids \in Seq(Messages) /\ ctx[c].at \in Nat \ {0} /\ ctx[c].at <= Len(call[c].ids)
        /\ Written(c) /\ ctx[c].now \in Nat \ {0} /\ ctx[c].store # "none" /\ ctx[c] \in Ctxs
    <2>1. pc[c] = "record" /\ UNCHANGED msg /\ ctx[c].at <= Len(call[c].ids)
      BY DEF RecordNext, chat, Ids
    <2>2. Good(pc[c], call[c], ctx[c]) /\ ctx[c] \in Ctxs /\ Written(c) /\ Batch(pc[c], call[c])
      BY <2>1 DEF RecordInv, Typed, Course, Batch
    <2> QED
      BY <2>1, <2>2, CallTypes DEF RecordInv, Typed, Course, Data, Good, Ctxs, Running, Ids
  <1>2. CASE End(c) /\ UNCHANGED tables
    <2>1. pc'[c] = "done"
      BY <1>1, <1>2 DEF End
    <2> QED
      BY <1>1, <1>2, <2>1, NothingWritten DEF Written, Batch
  <1>3. CASE /\ Ids(c)[ctx[c].at] \in Stored /\ Recorded(c, Ids(c)[ctx[c].at])
             /\ ctx' = [ctx EXCEPT ![c].at = ctx[c].at + 1] /\ Goto(c, "record")
    <2>1. PICK m \in Messages :
            /\ m \in Stored /\ Recorded(c, m) /\ msg[m] # "none"
            /\ m = call[c].ids[ctx[c].at]
      BY <1>3 DEF Stored, Ids
    <2>2. /\ call' = call /\ pc'[c] = "record" /\ ctx'[c].at = ctx[c].at + 1
          /\ ctx'[c].store = ctx[c].store
      BY <1>1, <1>3 DEF Goto, Ctxs
    <2>3. Receipt(c, m)' /\ ReceiptsStay
      <3>1. User(c)' = User(c)
        BY <2>2 DEF User
      <3>2. CASE ctx[c].store = "views" /\ views' = [views EXCEPT ![m] = @ + 1]
                 /\ UNCHANGED <<firstRead, readAt>>
        <4>1. \A n \in Messages : views'[n] = IF n = m THEN views[n] + 1 ELSE views[n]
          BY <1>1, <2>1, <3>2
        <4>2. views'[m] # 0 /\ \A n \in Messages : views[n] # 0 => views'[n] # 0
          <5>1. \A k \in Nat : k + 1 # 0
            OBVIOUS
          <5>2. \A n \in Messages : views[n] \in Nat
            BY <1>1
          <5> QED
            BY <4>1, <5>1, <5>2
        <4>3. Receipt(c, m)'
          BY <2>2, <3>2, <4>2 DEF Receipt
        <4> QED
          BY <3>2, <4>2, <4>3 DEF ReceiptsStay, Stored
      <3>3. CASE ctx[c].store = "agg" /\ firstRead' = [firstRead EXCEPT ![m] = FirstRead(@, ctx[c].now)]
                 /\ UNCHANGED <<views, readAt>>
        <4>1. \A n \in Messages :
                firstRead'[n] = IF n = m THEN FirstRead(firstRead[n], ctx[c].now) ELSE firstRead[n]
          BY <1>1, <2>1, <3>3
        <4>2. firstRead'[m] # Null /\ \A n \in Messages : firstRead[n] # Null => firstRead'[n] # Null
          BY <1>1, <2>1, <4>1 DEF FirstRead, Null
        <4>3. Receipt(c, m)'
          BY <2>2, <3>3, <4>2 DEF Receipt
        <4> QED
          BY <3>3, <4>2, <4>3 DEF ReceiptsStay, Stored
      <3>4. CASE ctx[c].store = "small" /\ readAt' = [readAt EXCEPT ![m][User(c)] = ctx[c].now]
                 /\ UNCHANGED <<views, firstRead>>
        <4>1. \A n \in Messages, u \in Users :
                readAt'[n][u] = IF n = m /\ u = User(c) THEN ctx[c].now ELSE readAt[n][u]
          BY <1>1, <2>1, <3>4
        <4>2. readAt'[m][User(c)] # Null
          BY <1>1, <2>1, <4>1 DEF Null
        <4>3. \A n \in Messages, u \in Users : readAt[n][u] # Null => readAt'[n][u] # Null
          BY <1>1, <4>1 DEF Null
        <4>4. Receipt(c, m)'
          BY <2>2, <3>1, <3>4, <4>2 DEF Receipt
        <4> QED
          BY <3>4, <4>3, <4>4 DEF ReceiptsStay, Stored
      <3> QED
        BY <2>1, <3>2, <3>3, <3>4 DEF Recorded
    <2>4. MessagesGoOn
      BY <1>1 DEF MessagesGoOn, Stored
    <2>5. Written(c)'
      <3> SUFFICES ASSUME NEW i \in 1..Len(call[c].ids), i < ctx[c].at + 1
                   PROVE  /\ msg'[call[c].ids[i]] # "none"
                          /\ call[c].ids[i] \in Stored' => Receipt(c, call[c].ids[i])'
        BY <2>2 DEF Written
      <3>1. CASE i = ctx[c].at
        <4>1. call[c].ids[i] = m
          BY <2>1, <3>1
        <4>2. msg'[m] # "none"
          BY <1>1, <2>1
        <4> QED
          BY <2>2, <2>3, <4>1, <4>2
      <3>2. CASE i < ctx[c].at
        <4>1. call[c].ids[i] \in Messages
          BY <1>1
        <4>2. msg[call[c].ids[i]] # "none" /\ (call[c].ids[i] \in Stored => Receipt(c, call[c].ids[i]))
          BY <1>1, <3>2 DEF Written, Batch
        <4> QED
          BY <1>1, <2>2, <2>3, <4>1, <4>2 DEF Receipt, ReceiptsStay, Stored, User
      <3> QED
        BY <1>1, <3>1, <3>2
    <2> QED
      BY <2>3, <2>4, <2>5
  <1> QED
    BY <1>2, <1>3 DEF RecordNext

\* The other steps of a call: what it has recorded stays, or it has nothing to
\* record, yet or any more.
LEMMA OtherWritten ==
  ASSUME RecordInv, NEW c \in Calls,
         \/ Begin(c) \/ Check(c) \/ CountParticipants(c) \/ FindNewest(c) \/ ReadCurrent(c)
         \/ Upsert(c) \/ UpdateLastRead(c) \/ UnreadCount(c) \/ Clear(c) \/ Reply(c) \/ Fail(c)
  PROVE  Written(c)' /\ MessagesGoOn /\ ReceiptsStay
  <1>1. /\ Good(pc[c], call[c], ctx[c]) /\ ctx[c] \in Ctxs /\ Written(c)
        /\ pc \in [Calls -> Pcs] /\ ctx \in [Calls -> Ctxs] /\ call = [x \in Calls |-> call[x]]
    BY DEF RecordInv, Typed, Course
  <1>2. CASE Begin(c) \/ Check(c) \/ UnreadCount(c) \/ Reply(c) \/ Fail(c) \/ UpdateLastRead(c)
    <2>1. ~Batch(pc'[c], call'[c])
      <3>1. CASE Begin(c) \/ Reply(c) \/ Fail(c)
        BY <1>1, <3>1 DEF Begin, Reply, Fail, End, Batch
      <3>2. CASE Check(c)
        <4>1. pc'[c] = "done" \/ pc'[c] = AfterCheck(call[c].op)
          BY <1>1, <3>2 DEF Check, End, Goto
        <4>2. call[c].op \in Ops
          BY <1>1, <3>2, RequestTypes DEF Check, Good
        <4> QED
          BY <4>1, <4>2 DEF AfterCheck, Ops, Batch
      <3>3. CASE UnreadCount(c) \/ UpdateLastRead(c)
        BY <1>1, <3>3
           DEF UnreadCount, ReadPosition, CountUnread, UpdateLastRead, End, Goto, Good, Batch
      <3> QED
        BY <1>2, <3>1, <3>2, <3>3
    <2>2. UNCHANGED <<msg, tables>>
      BY <1>2 DEF Begin, Check, UnreadCount, ReadPosition, CountUnread, Reply, Fail, UpdateLastRead,
                  Unchanged, chat
    <2> QED
      BY <2>1, <2>2, NothingWritten DEF Written
  <1>3. CASE CountParticipants(c)
    <2>1. UNCHANGED <<msg, tables, call>> /\ ctx'[c].at = 1 /\ pc'[c] = "record"
      <3>1. ctx[c] = Fresh /\ ctx'[c].at = ctx[c].at
        BY <1>1, <1>3 DEF CountParticipants, Good, Ctxs
      <3> QED
        BY <1>1, <1>3, <3>1 DEF CountParticipants, Fresh, chat, Goto
    <2> QED
      BY <2>1, NothingWritten DEF Written
  <1>4. CASE FindNewest(c) \/ ReadCurrent(c) \/ Upsert(c)
    <2>1. UNCHANGED <<msg, tables>>
      BY <1>4 DEF FindNewest, ReadCurrent, Upsert, Unchanged, chat
    <2>2. CASE End(c)
      <3>1. pc'[c] = "done"
        BY <1>1, <2>2 DEF End
      <3> QED
        BY <2>1, <3>1, NothingWritten DEF Written, Batch
    <2>3. CASE ~End(c)
      <3>1. /\ call' = call /\ ctx'[c].at = ctx[c].at /\ ctx'[c].store = ctx[c].store
            /\ Batch(pc[c], call[c])
        BY <1>1, <1>4, <2>3 DEF FindNewest, ReadCurrent, Upsert, Goto, Batch, Ctxs
      <3>2. Written(c)'
        BY <1>1, <2>1, <3>1 DEF Written, Receipt, Stored, User, tables
      <3> QED
        BY <2>1, <3>2, NothingWritten
    <2> QED
      BY <2>2, <2>3
  <1>5. CASE Clear(c)
    <2>1. Stored' = {} /\ \A m \in Messages : msg[m] # "none" => msg'[m] # "none"
      BY <1>5 DEF Clear, Stored, RecordInv, Typed, Data
    <2>2. pc'[c] = "reply" /\ call'[c].op = "clear_messages"
      BY <1>1, <1>5 DEF Clear, Goto, Good
    <2> QED
      BY <2>1, <2>2 DEF Written, Batch, MessagesGoOn, ReceiptsStay
  <1> QED
    BY <1>2, <1>3, <1>4, <1>5

LEMMA AroundWritten ==
  ASSUME RecordInv, Around
  PROVE  \A c \in Calls : Written(c)'
  <1>1. \A c \in Calls : Same(c) /\ Written(c)
    BY AroundCourse DEF RecordInv, Typed
  <1>2. CASE PurgeReads
    <2>1. \A c \in Calls : ~Batch(pc[c], call[c])
      BY <1>2 DEF PurgeReads, Running, Batch
    <2> QED
      BY <1>1, <2>1 DEF Same, Written
  <1>3. CASE ~PurgeReads
    <2>1. UNCHANGED tables
      BY <1>3 DEF Around, StoreMessage, DeleteMessage, Leave, Join, Crowd
    <2>2. MessagesGoOn
      BY <1>3 DEF Around, StoreMessage, DeleteMessage, Leave, Join, Crowd, RecordInv, Typed, Data,
                  MessagesGoOn, Stored
    <2> QED
      BY <1>1, <2>1, <2>2, SameWritten DEF ReceiptsStay, tables, RecordInv
  <1> QED
    BY <1>2, <1>3

LEMMA RecordInvNext == RecordInv /\ [Next]_vars => RecordInv'
  <1> SUFFICES ASSUME RecordInv, [Next]_vars PROVE RecordInv'
    OBVIOUS
  <1>1. Typed'
    BY TypedNext DEF RecordInv
  <1>2. CASE UNCHANGED vars
    BY <1>1, <1>2 DEF RecordInv, Written, Receipt, Stored, User, vars, chat, tables
  <1>3. ASSUME NEW c \in Calls,
               Begin(c) \/ Check(c) \/ ReadBulk(c) \/ UpdateLastRead(c)
                 \/ UnreadCount(c) \/ Clear(c) \/ Reply(c) \/ Fail(c)
        PROVE  \A x \in Calls : Written(x)'
    <2>1. Written(c)' /\ MessagesGoOn /\ ReceiptsStay
      BY <1>3, RecordWritten, OtherWritten DEF ReadBulk
    <2>2. \A x \in Calls \ {c} : Same(x)
      BY <1>3, CallCourse DEF RecordInv, Typed
    <2> QED
      BY <2>1, <2>2, SameWritten DEF RecordInv
  <1>4. CASE Next
    BY <1>1, <1>3, <1>4, AroundWritten DEF Next, Around, RecordInv
  <1> QED
    BY <1>2, <1>4

(***************************************************************************)
(* AnsweredIsRecorded in every behaviour: a read_bulk that is about to     *)
(* answer 200 has left a receipt for each message of its batch that is     *)
(* still there, for batches of any length, with repeated messages, and     *)
(* whatever is cleared or purged meanwhile (messages.rs lines 214-251).    *)
(***************************************************************************)
THEOREM AnswersAreRecorded == Spec => []AnsweredIsRecorded
  <1>1. Init => RecordInv
    BY TypedInit DEF RecordInv, Init, Written, Batch
  <1>2. Spec => []RecordInv
    BY <1>1, RecordInvNext, PTL DEF Spec
  <1> QED
    BY <1>2, RecordInvAnswers, PTL

----------------------------------------------------------------------------
\* Positions

\* A call under way that moves u's position.
Busy(c) == Running(c) /\ Moves(c)
Mine(c, u) == Busy(c) /\ User(c) = u

\* Where a call that moves the position has brought it.
Brought(c) ==
  /\ pc[c] # "reply" => lastRead[User(c)] = said[User(c)]
  /\ pc[c] = "reply" => lastRead[User(c)] = Told(c)
  /\ pc[c] = "upsert" => ctx[c].target > lastRead[User(c)]

\* What holds of a user until two calls overlap or an answer is lost.
Seat(u) ==
  u \notin unsure =>
    /\ \A c, d \in Calls : Mine(c, u) /\ Mine(d, u) => c = d
    /\ \A c \in Calls : Mine(c, u) => Brought(c)
    /\ (\A c \in Calls : ~Mine(c, u)) => lastRead[u] = said[u]

\* A target has been seen in the chat.
Looked(c) == ctx[c].target # Null => msg[ctx[c].target] # "none"

SeatInv ==
  /\ Typed
  /\ \A c \in Calls : Looked(c)
  /\ \A u \in Users : Seat(u)

\* No message comes back, and none comes up under a call that has seen it.
TargetsStay == \A m \in Messages : msg[m] # "none" => msg'[m] # "none" /\ (m \in Stored' <=> m \in Stored)

LEMMA SameBrought ==
  ASSUME SeatInv, NEW x \in Calls, Same(x), TargetsStay, Brought(x),
         lastRead'[User(x)] = lastRead[User(x)], said'[User(x)] = said[User(x)]
  PROVE  Brought(x)'
  <1>1. User(x)' = User(x)
    BY DEF Same, User
  <1>2. ctx[x].target \in Stored' <=> ctx[x].target \in Stored
    <2>1. ctx[x].target = Null \/ ctx[x].target \in Messages
      BY CallTypes DEF SeatInv, Typed, Ctxs
    <2>2. Null \notin Stored /\ Null \notin Stored'
      BY RequestTypes DEF Stored
    <2> QED
      BY <2>1, <2>2 DEF SeatInv, Looked, TargetsStay
  <1>3. Told(x)' = Told(x)
    BY <1>1, <1>2 DEF Same, Told
  <1> QED
    BY <1>1, <1>3 DEF Same, Brought

\* What the step of a call does to the position of its user.
Went(c) ==
  \/ User(c) \in unsure'
  \/ Busy(c) /\ Busy(c)' /\ Brought(c)'
  \/ Busy(c) /\ ~Busy(c)' /\ lastRead'[User(c)] = said'[User(c)]
  \/ ~Busy(c) /\ lastRead'[User(c)] = lastRead[User(c)] /\ said'[User(c)] = said[User(c)]

LEMMA StepSeat ==
  ASSUME SeatInv, NEW c \in Calls, Running(c), \A x \in Calls \ {c} : Same(x),
         call'[c] = call[c] \/ ~Running(c)', unsure \subseteq unsure', TargetsStay,
         \A u \in Users \ {User(c)} : lastRead'[u] = lastRead[u] /\ said'[u] = said[u],
         Went(c)
  PROVE  \A u \in Users : Seat(u)'
  <1> SUFFICES ASSUME NEW u \in Users, u \notin unsure'
               PROVE  /\ \A x, y \in Calls : Mine(x, u)' /\ Mine(y, u)' => x = y
                      /\ \A x \in Calls : Mine(x, u)' => Brought(x)'
                      /\ (\A x \in Calls : ~Mine(x, u)') => lastRead'[u] = said'[u]
    BY DEF Seat
  <1>1. /\ \A x, y \in Calls : Mine(x, u) /\ Mine(y, u) => x = y
        /\ \A x \in Calls : Mine(x, u) => Brought(x)
        /\ (\A x \in Calls : ~Mine(x, u)) => lastRead[u] = said[u]
    BY DEF SeatInv, Seat
  <1>2. /\ \A x \in Calls \ {c} : Mine(x, u)' <=> Mine(x, u)
        /\ Mine(c, u)' => Mine(c, u)
    BY DEF Same, Mine, Busy, Running, Moves, User
  <1>3. \A x, y \in Calls : Mine(x, u)' /\ Mine(y, u)' => x = y
    BY <1>1, <1>2
  <1>4. CASE lastRead'[u] = lastRead[u] /\ said'[u] = said[u] /\ ~Mine(c, u)
    <2>1. \A x \in Calls : Mine(x, u)' => Brought(x)'
      <3> SUFFICES ASSUME NEW x \in Calls, Mine(x, u)' PROVE Brought(x)'
        OBVIOUS
      <3>1. Mine(x, u) /\ Same(x) /\ User(x) = u /\ Brought(x)
        BY <1>1, <1>2, <1>4 DEF Mine
      <3> QED
        BY <1>4, <3>1, SameBrought
    <2> QED
      BY <1>1, <1>2, <1>3, <1>4, <2>1
  <1>5. CASE Mine(c, u)
    <2>1. \A x \in Calls \ {c} : ~Mine(x, u)'
      BY <1>1, <1>2, <1>5
    <2>2. User(c) = u /\ Busy(c)
      BY <1>5 DEF Mine
    <2>3. CASE Busy(c)' /\ Brought(c)'
      <3>1. Mine(c, u)'
        BY <2>2, <2>3 DEF Mine, Busy, User
      <3> QED
        BY <1>3, <2>1, <2>3, <3>1
    <2>4. CASE ~Busy(c)' /\ lastRead'[u] = said'[u]
      <3>1. ~Mine(c, u)'
        BY <2>4 DEF Mine
      <3> QED
        BY <1>3, <2>1, <2>4, <3>1
    <2> QED
      BY <2>2, <2>3, <2>4 DEF Went
  <1>6. CASE ~Mine(c, u) /\ User(c) = u
    BY <1>4, <1>6 DEF Went, Mine
  <1>7. CASE User(c) # u
    BY <1>4, <1>7 DEF Mine
  <1> QED
    BY <1>5, <1>6, <1>7

\* What is known of a call that moves a position nobody else moves.
LEMMA SeatTaken ==
  ASSUME SeatInv, NEW c \in Calls, Busy(c), User(c) \notin unsure
  PROVE  Brought(c)
  BY CallTypes DEF SeatInv, Seat, Mine, Typed

\* A call that goes on without a word about the position.
LEMMA QuietWent ==
  ASSUME SeatInv, NEW c \in Calls, Running(c), pc[c] # "reply",
         call' = call, pc'[c] \notin {"reply", "upsert", "idle", "done"},
         UNCHANGED <<lastRead, said, unsure>>
  PROVE  Went(c)
  <1>1. CASE ~Busy(c) \/ User(c) \in unsure
    BY <1>1 DEF Went
  <1>2. CASE Busy(c) /\ User(c) \notin unsure
    <2>1. Brought(c)
      BY <1>2, SeatTaken
    <2>2. Busy(c)' /\ Brought(c)'
      BY <1>2, <2>1 DEF Busy, Running, Moves, Brought, User
    <2> QED
      BY <1>2, <2>2 DEF Went
  <1> QED
    BY <1>1, <1>2

\* A call that ends before it has anything to answer.
LEMMA EndWent ==
  ASSUME SeatInv, NEW c \in Calls, Running(c), pc[c] # "reply", End(c),
         UNCHANGED <<lastRead, said>>, unsure \subseteq unsure'
  PROVE  Went(c)
  <1>1. CASE ~Busy(c) \/ User(c) \in unsure
    BY <1>1 DEF Went
  <1>2. CASE Busy(c) /\ User(c) \notin unsure
    <2>1. Brought(c)
      BY <1>2, SeatTaken
    <2>2. pc'[c] = "done"
      BY DEF End, SeatInv, Typed, Course
    <2>3. lastRead'[User(c)] = said'[User(c)]
      BY <2>1 DEF Brought
    <2> QED
      BY <1>2, <2>2, <2>3 DEF Went, Busy, Running
  <1> QED
    BY <1>1, <1>2

\* A call that comes to its answer.
LEMMA AnswerWent ==
  ASSUME SeatInv, NEW c \in Calls, Running(c), call' = call, pc'[c] = "reply",
         UNCHANGED unsure,
         \/ ~Moves(c) /\ UNCHANGED <<lastRead, said>>
         \/ User(c) \in unsure
         \/ Moves(c) /\ lastRead'[User(c)] = Told(c)'
  PROVE  Went(c)
  <1>1. CASE ~Moves(c) /\ UNCHANGED <<lastRead, said>>
    BY <1>1 DEF Went, Busy
  <1>2. CASE User(c) \in unsure
    BY <1>2 DEF Went
  <1>3. CASE Moves(c) /\ lastRead'[User(c)] = Told(c)'
    <2>1. Busy(c) /\ Busy(c)'
      BY <1>3 DEF Busy, Running, Moves
    <2>2. Brought(c)'
      BY <1>3 DEF Brought, User
    <2> QED
      BY <2>1, <2>2 DEF Went
  <1> QED
    BY <1>1, <1>2, <1>3

\* The types of what a running call and its user have.
LEMMA SeatTypes ==
  ASSUME SeatInv, NEW c \in Calls, Running(c)
  PROVE  /\ Good(pc[c], call[c], ctx[c]) /\ ctx[c] \in Ctxs /\ User(c) \in Users
         /\ lastRead \in [Users -> Messages \cup {Null}] /\ said \in [Users -> Messages \cup {Null}]
         /\ pc \in [Calls -> Pcs] /\ ctx \in [Calls -> Ctxs] /\ call[c].op \in Ops
         /\ Messages \subseteq Nat /\ Null \notin Messages /\ Null \in Nat
         /\ \A m \in Messages : m > Null
  BY CallTypes, RequestTypes DEF SeatInv, Typed, Course, Data, Messages, Null

LEMMA BulkWent ==
  ASSUME SeatInv, NEW c \in Calls, ReadBulk(c)
  PROVE  Went(c)
  <1>1. Running(c) /\ pc[c] # "reply" /\ unsure' = unsure /\ said' = said
    BY DEF ReadBulk, CountParticipants, RecordNext, FindNewest, ReadCurrent, Upsert, Running, Unchanged
  <1>2. Good(pc[c], call[c], ctx[c]) /\ call[c].op = "read_bulk" /\ Busy(c)
    BY <1>1, SeatTypes DEF ReadBulk, CountParticipants, RecordNext, FindNewest, ReadCurrent, Upsert,
                           Good, Busy, Moves
  <1>3. CASE User(c) \in unsure
    BY <1>1, <1>3 DEF Went
  <1>4. CASE User(c) \notin unsure
    <2>1. Brought(c)
      BY <1>2, <1>4, SeatTaken
    <2>2. lastRead[User(c)] = said[User(c)]
      BY <1>1, <2>1 DEF Brought
    <2>3. CASE End(c)
      <3>1. UNCHANGED lastRead
        <4>1. CASE Upsert(c)
          <5>1. pc[c] = "upsert" /\ pc'[c] = "done"
            BY <2>3, <4>1, <1>1, SeatTypes DEF Upsert, End
          <5>2. ~Goto(c, "reply")
            BY <1>1, <5>1, SeatTypes DEF Goto
          <5> QED
            BY <4>1, <5>2 DEF Upsert
        <4> QED
          BY <4>1 DEF ReadBulk, CountParticipants, RecordNext, FindNewest, ReadCurrent, Unchanged
      <3> QED
        BY <1>1, <2>3, <3>1, EndWent
    <2>4. CASE CountParticipants(c) \/ (RecordNext(c) /\ Goto(c, "record"))
      <3>1. call' = call /\ pc'[c] = "record" /\ UNCHANGED lastRead
        BY <1>1, <2>4, SeatTypes DEF CountParticipants, RecordNext, Goto
      <3> QED
        BY <1>1, <3>1, QuietWent
    <2>5. CASE FindNewest(c) /\ Goto(c, "current")
      <3>1. call' = call /\ pc'[c] = "current" /\ UNCHANGED lastRead
        BY <1>1, <2>5, SeatTypes DEF FindNewest, Goto, Unchanged
      <3> QED
        BY <1>1, <3>1, QuietWent
    <2>6. CASE FindNewest(c) /\ Goto(c, "reply") /\ UNCHANGED ctx
      <3>1. call' = call /\ pc'[c] = "reply" /\ UNCHANGED <<lastRead, msg>> /\ ctx[c].target = Null
        BY <1>1, <1>2, <2>6, SeatTypes DEF FindNewest, Goto, Unchanged, chat, Good
      <3>2. Told(c)' = said[User(c)]
        BY <1>1, <2>6, <3>1, SeatTypes DEF Told, Stored, User
      <3> QED
        BY <1>1, <1>2, <2>2, <3>1, <3>2, AnswerWent DEF Busy
    <2>7. CASE ReadCurrent(c) /\ Goto(c, "upsert") /\ UNCHANGED ctx
      <3>1. call' = call /\ pc'[c] = "upsert" /\ UNCHANGED lastRead
        BY <1>1, <2>7, SeatTypes DEF ReadCurrent, Goto, Unchanged
      <3>2. ctx[c].target \in Messages
        BY <1>2, <2>7 DEF ReadCurrent, Good
      <3>3. ctx[c].target > lastRead[User(c)]
        <4>1. CASE User(c) \notin rowOf
          <5>1. lastRead[User(c)] = Null
            BY <1>1, <4>1, SeatTypes DEF SeatInv, Typed, Inv, NoDanglingReads
          <5> QED
            BY <1>1, <3>2, <5>1, SeatTypes
        <4>2. CASE Goto(c, IF IsNewer(ctx[c].target, User(c)) THEN "upsert" ELSE "reply")
          <5>1. IsNewer(ctx[c].target, User(c))
            BY <1>1, <3>1, <4>2, SeatTypes DEF Goto
          <5> QED
            BY <5>1 DEF IsNewer
        <4>3. CASE End(c)
          BY <1>1, <3>1, <4>3, SeatTypes DEF End
        <4> QED
          BY <2>7, <4>1, <4>2, <4>3 DEF ReadCurrent
      <3>4. Busy(c)' /\ Brought(c)'
        BY <1>1, <1>2, <2>2, <2>7, <3>1, <3>3 DEF Busy, Running, Moves, Brought, User
      <3> QED
        BY <1>2, <3>4 DEF Went
    <2>8. CASE ReadCurrent(c) /\ Goto(c, "reply") /\ UNCHANGED ctx
      <3>1. call' = call /\ pc'[c] = "reply" /\ UNCHANGED <<lastRead, msg>>
        BY <1>1, <2>8, SeatTypes DEF ReadCurrent, Goto, Unchanged, chat
      <3>2. ~(ctx[c].target > lastRead[User(c)])
        <4>1. ~Goto(c, "upsert") /\ ~End(c)
          BY <1>1, <3>1, SeatTypes DEF Goto, End
        <4> QED
          BY <2>8, <4>1 DEF ReadCurrent, IsNewer
      <3>3. Told(c)' = said[User(c)]
        BY <1>1, <1>2, <2>2, <2>8, <3>1, <3>2 DEF Told, Stored, User
      <3> QED
        BY <1>1, <1>2, <2>2, <3>1, <3>3, AnswerWent DEF Busy
    <2>9. CASE Upsert(c) /\ ~End(c)
      <3>1. /\ call' = call /\ pc'[c] = "reply" /\ UNCHANGED <<ctx, msg>>
            /\ ctx[c].target \in Stored /\ lastRead' = [lastRead EXCEPT ![User(c)] = ctx[c].target]
        BY <1>1, <2>9, SeatTypes DEF Upsert, Goto, chat
      <3>2. ctx[c].target > said[User(c)]
        BY <1>1, <2>1, <2>2, <2>9 DEF Upsert, Brought
      <3>3. Told(c)' = ctx[c].target
        BY <1>1, <1>2, <3>1, <3>2 DEF Told, Stored, User
      <3>4. lastRead'[User(c)] = ctx[c].target
        BY <1>1, <3>1, SeatTypes
      <3> QED
        BY <1>1, <1>2, <3>1, <3>3, <3>4, AnswerWent DEF Busy
    <2>10. CASE ReadCurrent(c) /\ ~End(c)
      BY <2>7, <2>8, <2>10 DEF ReadCurrent
    <2> QED
      BY <2>3, <2>4, <2>5, <2>6, <2>9, <2>10 DEF ReadBulk, FindNewest, RecordNext
  <1> QED
    BY <1>3, <1>4

LEMMA OtherWent ==
  ASSUME SeatInv, NEW c \in Calls, Check(c) \/ UpdateLastRead(c) \/ UnreadCount(c)
  PROVE  Went(c)
  <1>1. Running(c) /\ pc[c] # "reply" /\ unsure' = unsure /\ said' = said
    BY DEF Check, UpdateLastRead, UnreadCount, ReadPosition, CountUnread, Running, Unchanged
  <1>2. CASE Check(c)
    <2>1. CASE End(c)
      BY <1>1, <1>2, <2>1, EndWent DEF Check, Unchanged
    <2>2. CASE Goto(c, AfterCheck(call[c].op))
      <3>1. call' = call /\ pc'[c] = AfterCheck(call[c].op)
        BY <1>1, <2>2, SeatTypes DEF Goto
      <3>2. pc'[c] \notin {"reply", "upsert", "idle", "done"}
        BY <1>1, <3>1, SeatTypes DEF AfterCheck, Ops
      <3> QED
        BY <1>1, <1>2, <3>1, <3>2, QuietWent DEF Check, Unchanged
    <2> QED
      BY <1>2, <2>1, <2>2 DEF Check
  <1>3. CASE UpdateLastRead(c)
    <2> DEFINE m == Ids(c)[1]
    <2>1. /\ pc[c] = "update" /\ call[c].op = "mark_as_read" /\ Busy(c) /\ ctx[c].target = Null
          /\ UNCHANGED msg
      BY <1>1, <1>3, SeatTypes DEF UpdateLastRead, Good, Busy, Moves, Fresh, chat
    <2>2. CASE End(c)
      <3>1. UNCHANGED lastRead
        <4>1. ~Goto(c, "reply")
          BY <1>1, <2>2, SeatTypes DEF Goto, End
        <4> QED
          BY <1>3, <4>1 DEF UpdateLastRead
      <3> QED
        BY <1>1, <2>2, <3>1, EndWent
    <2>3. CASE /\ m \in Stored /\ lastRead' = [lastRead EXCEPT ![User(c)] = m]
               /\ ctx' = [ctx EXCEPT ![c].target = m] /\ Goto(c, "reply")
      <3>1. call' = call /\ pc'[c] = "reply" /\ lastRead'[User(c)] = m /\ ctx'[c].target = m
        BY <1>1, <2>3, SeatTypes DEF Goto, Ctxs
      <3>2. Told(c)' = m
        BY <2>1, <2>3, <3>1 DEF Told, Stored
      <3> QED
        BY <1>1, <2>1, <3>1, <3>2, AnswerWent DEF Busy
    <2>4. CASE Goto(c, "reply") /\ UNCHANGED <<lastRead, ctx>>
      <3>1. call' = call /\ pc'[c] = "reply"
        BY <1>1, <2>4, SeatTypes DEF Goto
      <3>2. CASE User(c) \in unsure
        BY <1>1, <3>2 DEF Went
      <3>3. CASE User(c) \notin unsure
        <4>1. lastRead[User(c)] = said[User(c)]
          BY <2>1, <3>3, SeatTaken DEF Brought
        <4>2. Told(c)' = said[User(c)]
          BY <1>1, <2>1, <2>4, <3>1, SeatTypes DEF Told, Stored, User
        <4> QED
          BY <1>1, <2>1, <2>4, <3>1, <4>1, <4>2, AnswerWent DEF Busy
      <3> QED
        BY <3>2, <3>3
    <2> QED
      BY <1>3, <2>2, <2>3, <2>4 DEF UpdateLastRead
  <1>4. CASE UnreadCount(c)
    <2>1. ~Busy(c) /\ UNCHANGED <<lastRead, said>>
      BY <1>1, <1>4, SeatTypes DEF UnreadCount, ReadPosition, CountUnread, Good, Busy, Moves, Unchanged
    <2> QED
      BY <2>1 DEF Went
  <1> QED
    BY <1>2, <1>3, <1>4

LEMMA LastWent ==
  ASSUME SeatInv, NEW c \in Calls, Reply(c) \/ Fail(c)
  PROVE  /\ Went(c)
         /\ \A u \in Users \ {User(c)} : lastRead'[u] = lastRead[u] /\ said'[u] = said[u]
  <1>1. Running(c) /\ End(c) /\ UNCHANGED <<lastRead, msg>> /\ unsure \subseteq unsure'
    BY DEF Reply, Fail, Running, Unchanged, chat
  <1>2. pc'[c] = "done" /\ ~Busy(c)'
    BY <1>1, SeatTypes DEF End, Busy, Running
  <1>3. CASE Reply(c)
    <2>1. said'[User(c)] = Told(c) /\ \A u \in Users \ {User(c)} : said'[u] = said[u]
      BY <1>1, <1>3, SeatTypes DEF Reply
    <2>2. CASE User(c) \in unsure
      BY <1>1, <1>3, <2>1, <2>2 DEF Went
    <2>3. CASE ~Busy(c)
      <3>1. ctx[c].target = Null
        BY <1>1, <1>3, <2>3, SeatTypes DEF Reply, Good, Busy, Moves
      <3>2. Told(c) = said[User(c)]
        BY <1>1, <3>1, SeatTypes DEF Told, Stored
      <3> QED
        BY <1>1, <2>1, <2>3, <3>2 DEF Went
    <2>4. CASE Busy(c) /\ User(c) \notin unsure
      <3>1. lastRead[User(c)] = Told(c)
        BY <1>3, <2>4, SeatTaken DEF Brought, Reply
      <3> QED
        BY <1>1, <1>2, <2>1, <2>4, <3>1 DEF Went
    <2> QED
      BY <2>2, <2>3, <2>4
  <1>4. CASE Fail(c)
    <2>1. UNCHANGED said
      BY <1>4 DEF Fail, Unchanged
    <2>2. CASE pc[c] = "reply"
      BY <1>1, <1>4, <2>1, <2>2 DEF Fail, Went
    <2>3. CASE pc[c] # "reply"
      BY <1>1, <2>1, <2>3, EndWent
    <2> QED
      BY <1>1, <2>1, <2>2, <2>3
  <1> QED
    BY <1>3, <1>4

\* The step of a call leaves the positions of the others.
LEMMA OthersStay ==
  ASSUME SeatInv, NEW c \in Calls,
         Check(c) \/ ReadBulk(c) \/ UpdateLastRead(c) \/ UnreadCount(c)
  PROVE  /\ \A u \in Users \ {User(c)} : lastRead'[u] = lastRead[u] /\ said'[u] = said[u]
         /\ Running(c) /\ UNCHANGED <<msg, unsure>> /\ TargetsStay
         /\ call'[c] = call[c] \/ ~Running(c)'
  <1>1. /\ Running(c) /\ UNCHANGED <<msg, unsure, said>>
        /\ (\E m : lastRead' = [lastRead EXCEPT ![User(c)] = m]) \/ UNCHANGED lastRead
        /\ End(c) \/ UNCHANGED call
    BY DEF Check, ReadBulk, CountParticipants, RecordNext, FindNewest, ReadCurrent, Upsert,
           UpdateLastRead, UnreadCount, ReadPosition, CountUnread, Running, Unchanged, chat, Goto
  <1>2. TargetsStay
    BY <1>1 DEF TargetsStay, Stored
  <1>3. End(c) => ~Running(c)'
    BY <1>1, SeatTypes DEF End, Running
  <1>4. \A u \in Users \ {User(c)} : lastRead'[u] = lastRead[u]
    BY <1>1, SeatTypes
  <1> QED
    BY <1>1, <1>2, <1>3, <1>4

\* A request arrives: the only call of its user that moves the position, or the
\* user is unsure.
LEMMA BeginSeat ==
  ASSUME SeatInv, NEW c \in Calls, Begin(c)
  PROVE  \A u \in Users : Seat(u)'
  <1>1. PICK q \in Requests :
          /\ call' = [call EXCEPT ![c] = q]
          /\ unsure' = unsure \cup (IF Overlaps(c, q) THEN {q.user} ELSE {})
    BY DEF Begin
  <1>2. /\ pc[c] = "idle" /\ pc'[c] = "check" /\ call'[c] = q /\ UNCHANGED <<lastRead, said, msg, ctx>>
        /\ unsure \subseteq unsure'
        /\ \A x \in Calls \ {c} : Same(x)
    BY <1>1 DEF Begin, SeatInv, Typed, Course, chat, Same
  <1>3. TargetsStay
    BY <1>2 DEF TargetsStay, Stored
  <1> SUFFICES ASSUME NEW u \in Users, u \notin unsure'
               PROVE  /\ \A x, y \in Calls : Mine(x, u)' /\ Mine(y, u)' => x = y
                      /\ \A x \in Calls : Mine(x, u)' => Brought(x)'
                      /\ (\A x \in Calls : ~Mine(x, u)') => lastRead'[u] = said'[u]
    BY DEF Seat
  <1>4. /\ \A x, y \in Calls : Mine(x, u) /\ Mine(y, u) => x = y
        /\ \A x \in Calls : Mine(x, u) => Brought(x)
        /\ (\A x \in Calls : ~Mine(x, u)) => lastRead[u] = said[u]
    BY <1>2 DEF SeatInv, Seat
  <1>5. /\ \A x \in Calls \ {c} : Mine(x, u)' <=> Mine(x, u)
        /\ ~Mine(c, u)
    BY <1>2 DEF Same, Mine, Busy, Running, Moves, User
  <1>6. \A x \in Calls \ {c} : Mine(x, u)' => Brought(x)'
    <2> SUFFICES ASSUME NEW x \in Calls \ {c}, Mine(x, u)' PROVE Brought(x)'
      OBVIOUS
    <2>1. Same(x) /\ Brought(x)
      BY <1>2, <1>4, <1>5
    <2> QED
      BY <1>2, <1>3, <2>1, SameBrought
  <1>7. CASE Mine(c, u)'
    <2>1. q.user = u /\ q.op \in {"read_bulk", "mark_as_read"}
      BY <1>2, <1>7 DEF Mine, Busy, Moves, User
    <2>2. ~Overlaps(c, q)
      BY <1>1, <2>1
    <2>3. \A x \in Calls : ~Mine(x, u)
      BY <2>1, <2>2 DEF Overlaps, Mine, Busy
    <2>4. Brought(c)'
      <3>1. User(c)' = u /\ lastRead[u] = said[u]
        BY <1>4, <1>7, <2>3 DEF Mine
      <3> QED
        BY <1>2, <3>1 DEF Brought
    <2> QED
      BY <1>5, <1>6, <1>7, <2>3, <2>4
  <1>8. CASE ~Mine(c, u)'
    BY <1>2, <1>4, <1>5, <1>6, <1>8
  <1> QED
    BY <1>7, <1>8

\* Clearing takes every position and every expectation back to the start.
LEMMA ClearSeat ==
  ASSUME SeatInv, NEW c \in Calls, Clear(c), \A x \in Calls \ {c} : Same(x)
  PROVE  \A u \in Users : Seat(u)'
  <1>1. /\ \A u \in Users : lastRead'[u] = Null /\ said'[u] = Null
        /\ unsure' = unsure /\ call' = call /\ ctx' = ctx /\ Stored' = {}
    BY DEF Clear, Goto, Stored
  <1>2. ~Moves(c)
    BY SeatTypes DEF Clear, Running, Good, Moves
  <1> SUFFICES ASSUME NEW u \in Users, u \notin unsure
               PROVE  /\ \A x, y \in Calls : Mine(x, u)' /\ Mine(y, u)' => x = y
                      /\ \A x \in Calls : Mine(x, u)' => Brought(x)'
    BY <1>1 DEF Seat
  <1>3. \A x \in Calls : Mine(x, u)' => Mine(x, u) /\ Same(x)
    BY <1>1, <1>2 DEF Same, Mine, Busy, Running, Moves, User
  <1>4. ASSUME NEW x \in Calls, Mine(x, u)'
        PROVE  Brought(x)'
    <2>1. User(x)' = u /\ User(x) = u /\ Same(x) /\ Running(x)
      BY <1>3, <1>4 DEF Mine, Busy
    <2>2. Told(x)' = Null
      BY <1>1, <2>1 DEF Told
    <2>3. pc[x] = "upsert" => ctx[x].target > Null
      BY <2>1, SeatTypes DEF Good
    <2> QED
      BY <1>1, <2>1, <2>2, <2>3 DEF Brought, Same
  <1>5. \A x, y \in Calls : Mine(x, u) /\ Mine(y, u) => x = y
    BY DEF SeatInv, Seat
  <1> QED
    BY <1>3, <1>4, <1>5

LEMMA AroundSeat ==
  ASSUME SeatInv, Around
  PROVE  TargetsStay /\ \A u \in Users : Seat(u)'
  <1>1. \A x \in Calls : Same(x)
    BY AroundCourse DEF SeatInv, Typed
  <1>2. TargetsStay
    <2>1. CASE \E m \in Messages : StoreMessage(m) \/ DeleteMessage(m)
      BY <2>1 DEF StoreMessage, DeleteMessage, SeatInv, Typed, Data, TargetsStay, Stored
    <2>2. CASE UNCHANGED msg
      BY <2>2 DEF TargetsStay, Stored
    <2> QED
      BY <2>1, <2>2 DEF Around, Leave, Join, Crowd, PurgeReads, chat
  <1>3. unsure \subseteq unsure'
    BY DEF Around, StoreMessage, DeleteMessage, Leave, Join, Crowd, PurgeReads
  <1>4. ASSUME NEW u \in Users, u \notin unsure'
        PROVE  /\ \A x, y \in Calls : Mine(x, u)' /\ Mine(y, u)' => x = y
               /\ \A x \in Calls : Mine(x, u)' => Brought(x)'
               /\ (\A x \in Calls : ~Mine(x, u)') => lastRead'[u] = said'[u]
    <2>1. /\ \A x, y \in Calls : Mine(x, u) /\ Mine(y, u) => x = y
          /\ \A x \in Calls : Mine(x, u) => Brought(x)
          /\ (\A x \in Calls : ~Mine(x, u)) => lastRead[u] = said[u]
      BY <1>3, <1>4 DEF SeatInv, Seat
    <2>2. \A x \in Calls : Mine(x, u)' <=> Mine(x, u)
      BY <1>1 DEF Same, Mine, Busy, Running, Moves, User
    <2>3. CASE lastRead'[u] = lastRead[u] /\ said'[u] = said[u]
      <3>1. ASSUME NEW x \in Calls, Mine(x, u)'
            PROVE  Brought(x)'
        <4>1. Brought(x) /\ Same(x) /\ User(x) = u
          BY <1>1, <2>1, <2>2, <3>1 DEF Mine
        <4> QED
          BY <1>2, <2>3, <4>1, SameBrought
      <3> QED
        BY <2>1, <2>2, <2>3, <3>1
    <2>4. CASE Leave(u)
      <3>1. \A x \in Calls : ~Mine(x, u)
        BY <1>4, <2>4 DEF Leave, Mine, Busy
      <3>2. lastRead'[u] = said'[u]
        BY <2>4 DEF Leave, SeatInv, Typed, Data
      <3> QED
        BY <2>2, <3>1, <3>2
    <2>5. CASE ~Leave(u)
      <3>1. CASE \E w \in Users : Leave(w)
        <4>1. PICK w \in Users : Leave(w)
          BY <3>1
        <4>2. w # u
          BY <2>5, <4>1
        <4> QED
          BY <2>3, <4>1, <4>2 DEF Leave
      <3>2. CASE UNCHANGED <<lastRead, said>>
        BY <2>3, <3>2
      <3> QED
        BY <3>1, <3>2 DEF Around, StoreMessage, DeleteMessage, Join, Crowd, PurgeReads
    <2> QED
      BY <2>4, <2>5
  <1> QED
    BY <1>2, <1>4 DEF Seat

\* A call takes its target from the chat.
LEMMA CallLooked ==
  ASSUME SeatInv, NEW c \in Calls,
         \/ Begin(c) \/ Check(c) \/ ReadBulk(c) \/ UpdateLastRead(c)
         \/ UnreadCount(c) \/ Clear(c) \/ Reply(c) \/ Fail(c)
  PROVE  \A x \in Calls : Looked(x)'
  <1>1. /\ ctx \in [Calls -> Ctxs] /\ msg \in [Messages -> {"none", "live", "deleted", "cleared"}]
        /\ Course /\ Data
    BY DEF SeatInv, Typed, Course, Data
  <1>2. \A m \in Messages : msg[m] # "none" => msg'[m] # "none"
    BY <1>1
       DEF Begin, Check, ReadBulk, CountParticipants, RecordNext, FindNewest, ReadCurrent, Upsert,
           UpdateLastRead, UnreadCount, ReadPosition, CountUnread, Clear, Reply, Fail, Unchanged, chat
  <1>3. \A x \in Calls \ {c} : Looked(x)'
    <2>1. \A x \in Calls \ {c} : Same(x) /\ Looked(x)
      BY <1>1, CallCourse DEF SeatInv
    <2>2. \A x \in Calls : ctx[x].target # Null => ctx[x].target \in Messages
      BY <1>1 DEF Ctxs
    <2> QED
      BY <1>2, <2>1, <2>2 DEF Looked, Same
  <1>4. CASE ctx'[c].target = Null
    BY <1>4, <1>3 DEF Looked
  <1>5. CASE ctx'[c].target = ctx[c].target
    <2>1. Looked(c) /\ (ctx[c].target # Null => ctx[c].target \in Messages)
      BY <1>1 DEF SeatInv, Ctxs
    <2> QED
      BY <1>2, <1>3, <1>5, <2>1 DEF Looked
  <1>6. CASE ctx'[c].target \in Stored
    BY <1>2, <1>3, <1>6 DEF Looked, Stored
  <1>7. CASE End(c)
    BY <1>1, <1>4, <1>7 DEF End, Fresh
  <1>8. CASE FindNewest(c)
    <2>1. CASE /\ Named(c) \cap Stored # {}
               /\ ctx' = [ctx EXCEPT ![c].target = Newest(Named(c) \cap Stored)]
      <3>1. Newest(Named(c) \cap Stored) \in Stored
        BY <2>1, NewestIs DEF Stored
      <3> QED
        BY <1>1, <1>6, <2>1, <3>1 DEF Ctxs
    <2> QED
      BY <1>5, <1>8, <2>1 DEF FindNewest
  <1>9. CASE UpdateLastRead(c)
    <2>1. CASE Ids(c)[1] \in Stored /\ ctx' = [ctx EXCEPT ![c].target = Ids(c)[1]]
      BY <1>1, <1>6, <2>1 DEF Ctxs
    <2> QED
      BY <1>5, <1>7, <1>9, <2>1 DEF UpdateLastRead
  <1>10. CASE CountParticipants(c) \/ RecordNext(c) \/ ReadPosition(c) \/ CountUnread(c)
    BY <1>1, <1>5, <1>7, <1>10 DEF CountParticipants, RecordNext, ReadPosition, CountUnread, Ctxs
  <1>11. CASE UNCHANGED ctx
    BY <1>5, <1>11
  <1> QED
    BY <1>7, <1>8, <1>9, <1>10, <1>11
       DEF Begin, Check, ReadBulk, ReadCurrent, Upsert, UnreadCount, Clear, Reply, Fail

LEMMA AroundLooked ==
  ASSUME SeatInv, Around
  PROVE  \A x \in Calls : Looked(x)'
  <1>1. \A x \in Calls : Same(x) /\ Looked(x) /\ ctx[x] \in Ctxs
    BY AroundCourse DEF SeatInv, Typed, Course
  <1>2. TargetsStay
    BY AroundSeat
  <1> QED
    BY <1>1, <1>2 DEF Looked, Same, TargetsStay, Ctxs

LEMMA SeatInvInit == Init => SeatInv
  <1> SUFFICES ASSUME Init PROVE SeatInv
    OBVIOUS
  <1>1. \A c \in Calls : pc[c] = "idle" /\ ctx[c] = Fresh
    BY DEF Init
  <1>2. \A c \in Calls : Looked(c) /\ \A u : ~Mine(c, u)
    BY <1>1 DEF Looked, Fresh, Mine, Busy, Running
  <1>3. lastRead = said
    BY DEF Init
  <1> QED
    BY <1>2, <1>3, TypedInit DEF SeatInv, Seat

LEMMA SeatInvNext == SeatInv /\ [Next]_vars => SeatInv'
  <1> SUFFICES ASSUME SeatInv, [Next]_vars PROVE SeatInv'
    OBVIOUS
  <1>1. Typed'
    BY TypedNext DEF SeatInv
  <1>2. CASE UNCHANGED vars
    <2>1. \A c \in Calls : Looked(c)'
      BY <1>2 DEF SeatInv, Looked, vars, chat
    <2>2. \A u \in Users : Seat(u)'
      BY <1>2 DEF SeatInv, Seat, Mine, Busy, Running, Moves, User, Brought, Told, Stored, vars, chat
    <2> QED
      BY <1>1, <2>1, <2>2 DEF SeatInv
  <1>3. ASSUME NEW c \in Calls,
               Begin(c) \/ Check(c) \/ ReadBulk(c) \/ UpdateLastRead(c)
                 \/ UnreadCount(c) \/ Clear(c) \/ Reply(c) \/ Fail(c)
        PROVE  \A u \in Users : Seat(u)'
    <2>1. \A x \in Calls \ {c} : Same(x)
      BY <1>3, CallCourse DEF SeatInv, Typed
    <2>2. CASE Begin(c) \/ Clear(c)
      BY <2>1, <2>2, BeginSeat, ClearSeat
    <2>3. CASE Check(c) \/ ReadBulk(c) \/ UpdateLastRead(c) \/ UnreadCount(c)
      <3>1. Went(c)
        BY <2>3, BulkWent, OtherWent
      <3> QED
        BY <2>1, <2>3, <3>1, OthersStay, StepSeat
    <2>4. CASE Reply(c) \/ Fail(c)
      <3>1. Running(c) /\ UNCHANGED msg /\ End(c) /\ unsure \subseteq unsure'
        BY <2>4 DEF Reply, Fail, Running, Unchanged, chat
      <3>2. TargetsStay /\ ~Running(c)'
        BY <3>1, SeatTypes DEF TargetsStay, Stored, End, Running
      <3> QED
        BY <2>1, <2>4, <3>1, <3>2, LastWent, StepSeat
    <2> QED
      BY <1>3, <2>2, <2>3, <2>4
  <1>4. CASE Next
    <2>1. \A u \in Users : Seat(u)'
      BY <1>3, <1>4, AroundSeat DEF Next, Around
    <2>2. \A c \in Calls : Looked(c)'
      BY <1>4, CallLooked, AroundLooked DEF Next, Around
    <2> QED
      BY <1>1, <2>1, <2>2 DEF SeatInv
  <1> QED
    BY <1>2, <1>4

(***************************************************************************)
(* PositionIsWhatWasSaid in every behaviour: a user whose calls never      *)
(* overlapped and whose answers all arrived is where those answers say,    *)
(* whatever the other users do, and whatever is sent, deleted or cleared   *)
(* meanwhile (messages.rs lines 253-281, ws.rs lines 319-325).             *)
(***************************************************************************)
THEOREM PositionsAreAsSaid == Spec => []PositionIsWhatWasSaid
  <1>1. Spec => []SeatInv
    BY SeatInvInit, SeatInvNext, PTL DEF Spec
  <1>2. SeatInv => PositionIsWhatWasSaid
    BY DEF SeatInv, Seat, Mine, Busy, PositionIsWhatWasSaid
  <1> QED
    BY <1>1, <1>2, PTL

\* What unread_count finds is what is live and newer than the answers say.
Found ==
  \A c \in Calls :
    LET u == User(c)
    IN  /\ pc[c] = "unread" /\ pc'[c] = "reply"
        /\ u \notin unsure /\ ctx[c].pos = lastRead[u]
        /\ ~\E x \in Calls : Running(x) /\ Moves(x) /\ User(x) = u
        => ctx'[c].unread = Cardinality({m \in Messages : msg[m] = "live" /\ m > said[u]})

LEMMA FoundNext == SeatInv /\ [Next]_vars => Found
  <1> SUFFICES ASSUME SeatInv, [Next]_vars, NEW c \in Calls,
                      pc[c] = "unread", pc'[c] = "reply",
                      User(c) \notin unsure, ctx[c].pos = lastRead[User(c)],
                      \A x \in Calls : ~Mine(x, User(c))
               PROVE  ctx'[c].unread = Cardinality({m \in Messages : msg[m] = "live" /\ m > said[User(c)]})
    BY DEF Found, Mine, Busy
  <1>1. pc'[c] # pc[c] /\ Running(c)
    BY DEF Running
  <1>2. CountUnread(c)
    <2>1. ~Same(c) /\ ~UNCHANGED vars
      BY <1>1 DEF Same, vars
    <2>2. ~Around
      BY <2>1, AroundCourse DEF SeatInv, Typed
    <2>3. PICK x \in Calls :
            Begin(x) \/ Check(x) \/ ReadBulk(x) \/ UpdateLastRead(x)
              \/ UnreadCount(x) \/ Clear(x) \/ Reply(x) \/ Fail(x)
      BY <2>1, <2>2 DEF Next, Around
    <2>4. x = c
      BY <2>1, <2>3, CallCourse DEF SeatInv, Typed
    <2>5. ~End(c)
      BY <1>1, SeatTypes DEF End
    <2> QED
      BY <2>3, <2>4, <2>5
         DEF Begin, Check, ReadBulk, CountParticipants, RecordNext, FindNewest, ReadCurrent, Upsert,
             UpdateLastRead, UnreadCount, ReadPosition, Clear, Reply, Fail
  <1>3. User(c) \in Users /\ ctx \in [Calls -> Ctxs]
    BY <1>1, SeatTypes
  <1>4. ctx[c].pos = said[User(c)]
    BY <1>3 DEF SeatInv, Seat
  <1>5. ctx'[c].unread = Cardinality(Unread(ctx[c].pos))
    BY <1>2, <1>3 DEF CountUnread, Ctxs
  <1>6. Unread(ctx[c].pos) = {m \in Messages : msg[m] = "live" /\ m > said[User(c)]}
    BY <1>4 DEF Unread, Stored
  <1> QED
    BY <1>5, <1>6

(***************************************************************************)
(* UnreadIsNewAndLive of every step: unless the position changed between   *)
(* its two statements, unread_count answers how many messages are live now *)
(* and newer than the last one the user was told to have read              *)
(* (messages.rs lines 308-339).                                            *)
(***************************************************************************)
THEOREM UnreadCounts == Spec => UnreadIsNewAndLive
  <1>1. Spec => []SeatInv
    BY SeatInvInit, SeatInvNext, PTL DEF Spec
  <1>2. SeatInv /\ [Next]_vars => [Found]_vars
    BY FoundNext
  <1>3. [][Found]_vars => UnreadIsNewAndLive
    BY PTL DEF UnreadIsNewAndLive, Found
  <1> QED
    BY <1>1, <1>2, <1>3, PTL DEF Spec
=============================================================================
