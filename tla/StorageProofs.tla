--------------------------- MODULE StorageProofs ---------------------------
(***************************************************************************)
(* Proofs about Storage, for any contents, files, requests and number of   *)
(* failures: its type invariant, that an attachment goes only with its     *)
(* message or with a file that a purge had listed before, that an answered *)
(* message has its attachments, that the directory and the table agree     *)
(* about every content on which no upload and purge met, that only failures*)
(* tear files, what alone lets a purge take an attached file, and who can  *)
(* wait for whom.                                                          *)
(*                                                                         *)
(* TypeOK is not inductive: Fits adds which job and which place in it a    *)
(* request has at each step. For the attachments, Referred says what the   *)
(* foreign keys keep, and Watched that whatever is attached to a file on   *)
(* the list of a running purge was attached after the list was made.       *)
(* DueInv counts what a request has attached so far; EvenInv says, of each *)
(* content that was not disturbed, how its row and its file may differ     *)
(* while one request is at work on it. Orderly says that a purge does not  *)
(* wait for itself, nor an attachment for a row that never was.            *)
(***************************************************************************)
EXTENDS Storage, FiniteSetTheorems, WellFoundedInduction, TLAPS

Ctx == [at : Nat, file : BOOLEAN, list : Seq(Files), source : Requests \cup {None}]

RowType == [is : {"none", "live", "deleting", "gone"},
            content : Contents \cup {None}, tx : Requests \cup {None}]

\* What a request at step p has to do, and how far it is.
Fits(p, j, k) ==
  /\ k.at # 0
  /\ p \notin {"idle", "done"} => j \in RequestJobs
  /\ p \in {"open", "write", "insert"} => k.at <= Len(j.contents)
  /\ p = "remove" => k.at <= Len(k.list)
  /\ p = "attach" => k.at <= Len(j.files)

Course ==
  /\ pc \in [Requests -> Pcs]
  /\ job \in [Requests -> RequestJobs \cup {NoJob}]
  /\ ctx \in [Requests -> Ctx]
  /\ \A r \in Requests : Fits(pc[r], job[r], ctx[r])

Rows == row \in [Files -> RowType]

Locks ==
  \A f \in Files :
    IF row[f].is = "deleting" THEN row[f].tx \in Requests /\ f \in Listed(row[f].tx)
    ELSE row[f].tx = None

Rest ==
  /\ disk \in [Contents -> {"none", "empty", "whole"}]
  /\ attached \subseteq Requests \X Files
  /\ message \in [Requests -> {"none", "stored", "cleared"}]
  /\ faults \in Nat

History == late \subseteq Requests \X Files /\ disturbed \subseteq Contents

Typed == Course /\ Rows /\ Locks /\ Rest /\ History

LEMMA TypedIsTypeOK == Typed => TypeOK
  BY StorageAssumption DEF Typed, Course, Rows, Locks, Rest, History, TypeOK, Ctx, RowType

----------------------------------------------------------------------------
\* One request makes a step: the others keep their course.

LEMMA CourseStep ==
  ASSUME Course, NEW r \in Requests, NEW p \in Pcs, NEW j \in RequestJobs \cup {NoJob},
         NEW k \in Ctx, Fits(p, j, k),
         pc' = [pc EXCEPT ![r] = p], job' = [job EXCEPT ![r] = j], ctx' = [ctx EXCEPT ![r] = k]
  PROVE  Course'
  BY DEF Course

LEMMA FreshFits ==
  /\ Fresh \in Ctx /\ NoJob \in RequestJobs \cup {NoJob}
  /\ Fits("done", NoJob, Fresh) /\ "done" \in Pcs
  BY DEF Fresh, Ctx, Fits, Pcs

LEMMA EndStep ==
  ASSUME Course, NEW r \in Requests, End(r)
  PROVE  Course'
  BY CourseStep, FreshFits DEF End, Goto

\* The request goes to step p with its job, and its context becomes k.
LEMMA GotoStep ==
  ASSUME Course, NEW r \in Requests, NEW p \in Pcs, NEW k \in Ctx, Goto(r, p),
         UNCHANGED job, ctx' = [ctx EXCEPT ![r] = k], Fits(p, job[r], k)
  PROVE  Course'
  <1>1. job[r] \in RequestJobs \cup {NoJob} /\ job' = [job EXCEPT ![r] = job[r]]
    BY DEF Course
  <1> QED
    BY <1>1, CourseStep DEF Goto

\* It goes to step p and nothing else changes.
LEMMA PlainStep ==
  ASSUME Course, NEW r \in Requests, NEW p \in Pcs, Goto(r, p), UNCHANGED <<job, ctx>>,
         Fits(p, job[r], ctx[r])
  PROVE  Course'
  <1>1. ctx[r] \in Ctx /\ ctx' = [ctx EXCEPT ![r] = ctx[r]]
    BY DEF Course
  <1> QED
    BY <1>1, GotoStep

\* It sets one field of its context.
LEMMA SetType ==
  ASSUME Course, NEW r \in Requests
  PROVE  /\ ctx[r] \in Ctx /\ ctx[r].at \in Nat
         /\ \A n \in Nat : [ctx[r] EXCEPT !["at"] = n] \in Ctx
                           /\ [ctx[r] EXCEPT !["at"] = n].at = n
                           /\ [ctx[r] EXCEPT !["at"] = n].list = ctx[r].list
         /\ \A n \in BOOLEAN : [ctx[r] EXCEPT !["file"] = n] \in Ctx
                               /\ [ctx[r] EXCEPT !["file"] = n].at = ctx[r].at
                               /\ [ctx[r] EXCEPT !["file"] = n].list = ctx[r].list
         /\ \A n \in Seq(Files) : [ctx[r] EXCEPT !["list"] = n] \in Ctx
                                  /\ [ctx[r] EXCEPT !["list"] = n].at = ctx[r].at
                                  /\ [ctx[r] EXCEPT !["list"] = n].list = n
         /\ \A n \in Requests : [ctx[r] EXCEPT !["source"] = n] \in Ctx
                                /\ [ctx[r] EXCEPT !["source"] = n].at = ctx[r].at
                                /\ [ctx[r] EXCEPT !["source"] = n].list = ctx[r].list
  <1>1. ctx[r] \in Ctx
    BY DEF Course
  <1> QED
    BY <1>1 DEF Ctx

\* It goes to step p and sets a field.
LEMMA SetStep ==
  ASSUME Course, NEW r \in Requests, NEW p \in Pcs, NEW field, NEW value,
         Set(r, field, value), Goto(r, p), UNCHANGED job,
         [ctx[r] EXCEPT ![field] = value] \in Ctx,
         Fits(p, job[r], [ctx[r] EXCEPT ![field] = value])
  PROVE  Course'
  <1>1. ctx' = [ctx EXCEPT ![r] = [ctx[r] EXCEPT ![field] = value]]
    BY DEF Set
  <1> QED
    BY <1>1, GotoStep

\* An order of a set of files is a list of files of the set.
LEMMA OrderType ==
  ASSUME NEW S \in SUBSET Files, NEW s \in Orders(S)
  PROVE  s \in Seq(Files) /\ Range(s) \subseteq S
  <1>1. IsFiniteSet(Files)
    BY FS_Interval, StorageAssumption DEF Files
  <1>2. Cardinality(S) \in Nat
    BY <1>1, FS_Subset, FS_CardinalityType
  <1>3. s \in [1..Cardinality(S) -> S]
    BY DEF Orders
  <1>4. s \in Seq(S)
    BY <1>2, <1>3
  <1> QED
    BY <1>3, <1>4 DEF Range

\* What the job of a request that has one holds.
LEMMA JobOf ==
  ASSUME Course, NEW r \in Requests, pc[r] \notin {"idle", "done"}
  PROVE  /\ job[r] \in RequestJobs
         /\ job[r].contents \in Seq(Contents) /\ job[r].files \in Seq(Files)
         /\ job[r].op \in Ops
  BY StorageAssumption DEF Course, Fits

----------------------------------------------------------------------------
\* The course of every request, action by action

LEMMA UploadCourse ==
  ASSUME Course, NEW r \in Requests, Upload(r)
  PROVE  Course'
  <1>1. Fits(pc[r], job[r], ctx[r]) /\ ctx[r] \in Ctx
    BY DEF Course
  <1>2. CASE Find(r)
    <2>1. CASE Set(r, "at", ctx[r].at + 1) /\ Goto(r, "find")
      <3>1. Fits("find", job[r], [ctx[r] EXCEPT !["at"] = ctx[r].at + 1])
        BY <1>1, <1>2, SetType DEF Find, Fits
      <3> QED
        BY <1>2, <2>1, <3>1, SetType, SetStep DEF Find, Pcs
    <2>2. CASE Goto(r, "open") /\ UNCHANGED ctx
      BY <1>1, <1>2, <2>2, PlainStep DEF Find, Fits, Pcs
    <2> QED
      BY <1>2, <2>1, <2>2 DEF Find
  <1>3. CASE Open(r)
    <2>1. Fits("write", job[r], [ctx[r] EXCEPT !["file"] = TRUE])
      BY <1>1, <1>3, SetType DEF Open, Fits
    <2> QED
      BY <1>3, <2>1, SetType, SetStep DEF Open, Pcs
  <1>4. CASE Write(r)
    <2>1. Fits("insert", job[r], [ctx[r] EXCEPT !["file"] = FALSE])
      BY <1>1, <1>4, SetType DEF Write, Fits
    <2> QED
      BY <1>4, <2>1, SetType, SetStep DEF Write, Pcs
  <1>5. CASE Insert(r)
    <2>1. CASE Set(r, "at", ctx[r].at + 1) /\ Goto(r, "find") /\ UNCHANGED job
      <3>1. Fits("find", job[r], [ctx[r] EXCEPT !["at"] = ctx[r].at + 1])
        BY <1>1, <1>5, SetType DEF Insert, Fits
      <3> QED
        BY <1>1, <2>1, <3>1, SetType, SetStep DEF Pcs
    <2>2. CASE End(r)
      BY <2>2, EndStep
    <2> QED
      BY <1>5, <2>1, <2>2 DEF Insert
  <1>6. CASE UploadAnswers(r)
    BY <1>6, EndStep DEF UploadAnswers
  <1> QED
    BY <1>2, <1>3, <1>4, <1>5, <1>6 DEF Upload

LEMMA PurgeCourse ==
  ASSUME Course, NEW r \in Requests, Purge(r)
  PROVE  Course'
  <1>1. Fits(pc[r], job[r], ctx[r]) /\ ctx[r] \in Ctx
    BY DEF Course
  <1>2. CASE List(r)
    <2>1. PICK s \in Orders(Unreferenced) : Set(r, "list", s)
      BY <1>2 DEF List
    <2>2. s \in Seq(Files)
      BY OrderType DEF Unreferenced, Visible
    <2>3. Fits("delete", job[r], [ctx[r] EXCEPT !["list"] = s])
      BY <1>1, <1>2, <2>2, SetType DEF List, Fits
    <2> QED
      BY <1>2, <2>1, <2>2, <2>3, SetType, SetStep DEF List, Pcs
  <1>3. CASE DeleteRow(r)
    BY <1>1, <1>3, PlainStep DEF DeleteRow, Fits, Pcs
  <1>4. CASE RemoveFile(r)
    <2>1. /\ job' = job /\ pc' = [pc EXCEPT ![r] = "delete"]
      BY <1>4 DEF RemoveFile, Goto
    <2>2. /\ ctx' \in [Requests -> Ctx]
          /\ \A x \in Requests : /\ ctx'[x].list = ctx[x].list
                                 /\ ctx'[x].at = IF x = r THEN ctx[r].at + 1 ELSE ctx[x].at
      <3>1. ctx \in [Requests -> Ctx]
        BY DEF Course
      <3>2. CASE Set(r, "at", ctx[r].at + 1)
        BY <3>1, <3>2 DEF Set, Ctx
      <3>3. CASE ctx' = [[x \in Requests |->
                   IF ctx[x].file /\ Content(x) = row[Doomed(r)].content
                     THEN [ctx[x] EXCEPT !.file = FALSE]
                   ELSE ctx[x]] EXCEPT ![r].at = ctx[r].at + 1]
        <4> DEFINE closed == [x \in Requests |->
                   IF ctx[x].file /\ Content(x) = row[Doomed(r)].content
                     THEN [ctx[x] EXCEPT !.file = FALSE]
                   ELSE ctx[x]]
        <4>1. \A x \in Requests : /\ closed[x] \in Ctx /\ closed[x].list = ctx[x].list
                                  /\ closed[x].at = ctx[x].at
          BY <3>1 DEF Ctx
        <4>2. closed \in [Requests -> Ctx]
          BY <4>1
        <4>3. ctx' = [closed EXCEPT ![r] = [closed[r] EXCEPT !.at = ctx[r].at + 1]]
          BY <3>3
        <4>4. [closed[r] EXCEPT !.at = ctx[r].at + 1] \in Ctx
          BY <3>1, <4>1 DEF Ctx
        <4> HIDE DEF closed
        <4> QED
          BY <3>1, <4>1, <4>2, <4>3, <4>4 DEF Ctx
      <3> QED
        BY <1>4, <3>2, <3>3 DEF RemoveFile
    <2>3. \A x \in Requests : Fits(pc'[x], job'[x], ctx'[x])
      BY <1>1, <1>4, <2>1, <2>2 DEF Course, Fits, Ctx, RemoveFile
    <2> QED
      BY <2>1, <2>2, <2>3 DEF Course, Pcs
  <1>5. CASE Commit(r)
    BY <1>5, EndStep DEF Commit
  <1> QED
    BY <1>2, <1>3, <1>4, <1>5 DEF Purge

LEMMA SendCourse ==
  ASSUME Course, NEW r \in Requests, Send(r)
  PROVE  Course'
  <1>1. Fits(pc[r], job[r], ctx[r]) /\ ctx[r] \in Ctx
    BY DEF Course
  <1>2. CASE Sources(r)
    <2>1. PICK x \in Requests : IF message[x] = "stored"
                                THEN Set(r, "source", x) /\ Goto(r, "store") /\ UNCHANGED job
                                ELSE End(r)
      BY <1>2 DEF Sources
    <2>2. Fits("store", job[r], [ctx[r] EXCEPT !["source"] = x])
      BY <1>1, <1>2, SetType DEF Sources, Fits
    <2> QED
      BY <2>1, <2>2, SetType, SetStep, EndStep DEF Pcs
  <1>3. CASE Store(r)
    <2>1. CASE End(r)
      BY <2>1, EndStep
    <2>2. CASE Goto(r, IF job[r].op = "send" THEN "exists" ELSE "copy") /\ UNCHANGED <<job, ctx>>
      BY <1>1, <1>3, <2>2, PlainStep DEF Store, Fits, Pcs
    <2> QED
      BY <1>3, <2>1, <2>2 DEF Store
  <1>4. CASE Exists(r)
    <2>1. CASE End(r)
      BY <2>1, EndStep
    <2>2. CASE Goto(r, "attach") /\ UNCHANGED <<job, ctx>>
      BY <1>1, <1>4, <2>2, PlainStep DEF Exists, Fits, Pcs
    <2> QED
      BY <1>4, <2>1, <2>2 DEF Exists
  <1>5. CASE Attach(r) \/ Copied(r)
    <2>1. PICK S : Refer(r, S)
      BY <1>5 DEF Attach, Copied
    <2>2. Fits("exists", job[r], [ctx[r] EXCEPT !["at"] = ctx[r].at + 1])
          /\ Fits("reply", job[r], ctx[r])
      BY <1>1, <1>5, SetType DEF Attach, Copied, Fits
    <2>3. CASE UNCHANGED job /\ Set(r, "at", ctx[r].at + 1) /\ Goto(r, "exists")
      BY <1>1, <2>2, <2>3, SetType, SetStep DEF Pcs
    <2>4. CASE UNCHANGED job /\ Goto(r, "reply") /\ UNCHANGED ctx
      BY <2>2, <2>4, PlainStep DEF Pcs
    <2>5. CASE End(r)
      BY <2>5, EndStep
    <2> QED
      BY <2>1, <2>3, <2>4, <2>5 DEF Refer
  <1>6. CASE Copy(r)
    <2> DEFINE T == {f \in Files : <<ctx[r].source, f>> \in attached}
    <2>1. PICK s \in Orders(T) : Set(r, "list", s)
      BY <1>6 DEF Copy
    <2>2. s \in Seq(Files)
      <3>1. T \in SUBSET Files
        OBVIOUS
      <3> QED
        BY <3>1, OrderType
    <2>3. Fits("copied", job[r], [ctx[r] EXCEPT !["list"] = s])
      BY <1>1, <1>6, <2>2, SetType DEF Copy, Fits
    <2> QED
      BY <1>6, <2>1, <2>2, <2>3, SetType, SetStep DEF Copy, Pcs
  <1>7. CASE AllAttached(r)
    BY <1>1, <1>7, PlainStep DEF AllAttached, Fits, Pcs
  <1>8. CASE Reply(r)
    BY <1>8, EndStep DEF Reply
  <1> QED
    BY <1>2, <1>3, <1>4, <1>5, <1>6, <1>7, <1>8 DEF Send

LEMMA CourseNext ==
  ASSUME Course, Next
  PROVE  Course'
  <1>1. ASSUME NEW r \in Requests, Begin(r)
        PROVE  Course'
    <2>1. PICK j \in RequestJobs : job' = [job EXCEPT ![r] = j] /\ Goto(r, Start(j.op))
      BY <1>1 DEF Begin
    <2>2. j.op \in Ops
      BY StorageAssumption
    <2>3. Start(j.op) \in {"find", "list", "store", "sources"}
      BY <2>2 DEF Start, Ops
    <2>4. ctx[r] \in Ctx /\ ctx' = [ctx EXCEPT ![r] = ctx[r]] /\ Fits(Start(j.op), j, ctx[r])
      BY <1>1, <2>3 DEF Begin, Course, Fits
    <2> QED
      <3>1. Start(j.op) \in Pcs /\ pc' = [pc EXCEPT ![r] = Start(j.op)]
        BY <2>1, <2>3 DEF Goto, Pcs
      <3>2. j \in RequestJobs \cup {NoJob} /\ job' = [job EXCEPT ![r] = j]
        BY <2>1
      <3> QED
        BY <2>4, <3>1, <3>2, CourseStep
  <1>2. CASE Clear
    BY <1>2 DEF Clear, Course
  <1>3. ASSUME NEW r \in Requests, Fail(r)
        PROVE  Course'
    BY <1>3, EndStep DEF Fail
  <1> QED
    BY <1>1, <1>2, <1>3, UploadCourse, PurgeCourse, SendCourse DEF Next

----------------------------------------------------------------------------
\* The lists of purges

\* A request that is not at work on its list before or after a step, and the
\* others as they were.
LEMMA ListedSame ==
  ASSUME Course, Course', NEW r \in Requests,
         \A x \in Requests \ {r} : pc'[x] = pc[x] /\ ctx'[x].list = ctx[x].list,
         \/ pc[r] \notin {"delete", "remove"} /\ pc'[r] \notin {"delete", "remove"}
         \/ /\ pc[r] \in {"delete", "remove"} /\ pc'[r] \in {"delete", "remove"}
            /\ ctx'[r].list = ctx[r].list
  PROVE  \A x \in Requests : Listed(x)' = Listed(x)
  <1>1. ASSUME NEW x \in Requests \ {r} PROVE Listed(x)' = Listed(x)
    BY <1>1 DEF Listed
  <1>2. Listed(r)' = Listed(r)
    BY DEF Listed
  <1> QED
    BY <1>1, <1>2

\* A step of r that changes its own place and context only.
LEMMA OthersStay ==
  ASSUME Course, NEW r \in Requests,
         \/ \E p : Goto(r, p) /\ UNCHANGED ctx
         \/ \E p, field, value : Goto(r, p) /\ Set(r, field, value)
         \/ End(r)
  PROVE  \A x \in Requests \ {r} : pc'[x] = pc[x] /\ ctx'[x] = ctx[x]
  BY DEF Course, Goto, Set, End

\* Steps that have to do with no list.
LEMMA ListedIdle ==
  ASSUME Course, Course', NEW r \in Requests, Begin(r) \/ Upload(r) \/ Send(r)
  PROVE  \A x \in Requests : Listed(x)' = Listed(x)
  <1>1. pc[r] \notin {"delete", "remove"} /\ pc'[r] \notin {"delete", "remove"}
    <2>1. CASE Begin(r)
      <3>1. PICK j \in RequestJobs :
              Goto(r, Start(j.op))
        BY <2>1 DEF Begin
      <3>2. Start(j.op) \in {"find", "list", "store", "sources"}
        BY StorageAssumption DEF Start, Ops
      <3> QED
        BY <2>1, <3>1, <3>2 DEF Begin, Goto, Course
    <2>2. CASE Upload(r)
      BY <2>2 DEF Upload, Find, Open, Write, Insert, UploadAnswers, Goto, End, Course
    <2>3. CASE Send(r)
      BY <2>3 DEF Send, Sources, Store, Exists, Attach, Copy, Copied, Refer, AllAttached, Reply,
                  Goto, End, Course
    <2> QED
      BY <2>1, <2>2, <2>3
  <1>2. \A x \in Requests \ {r} : pc'[x] = pc[x] /\ ctx'[x] = ctx[x]
    <2>1. CASE Begin(r)
      BY <2>1 DEF Begin, Goto, Course
    <2>2. CASE Upload(r)
      BY <2>2, OthersStay DEF Upload, Find, Open, Write, Insert, UploadAnswers
    <2>3. CASE Send(r)
      <3>1. CASE Sources(r)
        BY <3>1, OthersStay DEF Sources
      <3>2. CASE Store(r) \/ Exists(r) \/ AllAttached(r) \/ Reply(r)
        BY <3>2, OthersStay DEF Store, Exists, AllAttached, Reply
      <3>3. CASE Attach(r) \/ Copied(r)
        BY <3>3, OthersStay DEF Attach, Copied, Refer
      <3>4. CASE Copy(r)
        BY <3>4, OthersStay DEF Copy
      <3> QED
        BY <2>3, <3>1, <3>2, <3>3, <3>4 DEF Send
    <2> QED
      BY <2>1, <2>2, <2>3
  <1> QED
    BY <1>1, <1>2, ListedSame

\* The steps of a purge in the middle of its work.
LEMMA ListedWorking ==
  ASSUME Course, Course', NEW r \in Requests, DeleteRow(r) \/ RemoveFile(r)
  PROVE  \A x \in Requests : Listed(x)' = Listed(x)
  <1>1. pc[r] \in {"delete", "remove"} /\ pc'[r] \in {"delete", "remove"}
        /\ \A x \in Requests \ {r} : pc'[x] = pc[x]
    BY DEF DeleteRow, RemoveFile, Goto, Course
  <1>2. \A x \in Requests : ctx'[x].list = ctx[x].list
    <2>1. ctx \in [Requests -> Ctx]
      BY DEF Course
    <2>2. CASE UNCHANGED ctx
      BY <2>2
    <2>3. CASE Set(r, "at", ctx[r].at + 1)
      BY <2>1, <2>3 DEF Set, Ctx
    <2>4. CASE ctx' = [[x \in Requests |->
                 IF ctx[x].file /\ Content(x) = row[Doomed(r)].content
                   THEN [ctx[x] EXCEPT !.file = FALSE]
                 ELSE ctx[x]] EXCEPT ![r].at = ctx[r].at + 1]
      <3> DEFINE closed == [x \in Requests |->
                 IF ctx[x].file /\ Content(x) = row[Doomed(r)].content
                   THEN [ctx[x] EXCEPT !.file = FALSE]
                 ELSE ctx[x]]
      <3>1. \A x \in Requests : closed[x] \in Ctx /\ closed[x].list = ctx[x].list
        BY <2>1 DEF Ctx
      <3>2. ctx' = [closed EXCEPT ![r] = [closed[r] EXCEPT !.at = ctx[r].at + 1]]
        BY <2>4
      <3>3. closed = [x \in Requests |-> closed[x]]
        OBVIOUS
      <3> HIDE DEF closed
      <3> QED
        BY <3>1, <3>2, <3>3 DEF Ctx
    <2> QED
      BY <2>2, <2>3, <2>4 DEF DeleteRow, RemoveFile
  <1> QED
    BY <1>1, <1>2, ListedSame

\* The end of a request, whatever it was.
LEMMA ListedEnd ==
  ASSUME Course, NEW r \in Requests, End(r)
  PROVE  Listed(r)' = {} /\ \A x \in Requests \ {r} : Listed(x)' = Listed(x)
  <1>1. pc'[r] = "done" /\ \A x \in Requests \ {r} : pc'[x] = pc[x] /\ ctx'[x] = ctx[x]
    BY DEF End, Goto, Course
  <1> QED
    BY <1>1 DEF Listed

\* A purge makes its list.
LEMMA ListedNew ==
  ASSUME Course, NEW r \in Requests, List(r)
  PROVE  Listed(r)' \subseteq Unreferenced /\ \A x \in Requests \ {r} : Listed(x)' = Listed(x)
  <1>1. PICK s \in Orders(Unreferenced) : Set(r, "list", s)
    BY DEF List
  <1>2. Range(s) \subseteq Unreferenced /\ s \in Seq(Files)
    BY OrderType DEF Unreferenced, Visible
  <1>3. ctx'[r] = [ctx[r] EXCEPT !["list"] = s] /\ pc'[r] = "delete"
    BY <1>1 DEF Set, List, Goto, Course
  <1>4. ctx'[r].list = s
    BY <1>2, <1>3, SetType
  <1>5. \A x \in Requests \ {r} : pc'[x] = pc[x] /\ ctx'[x] = ctx[x]
    BY <1>1, OthersStay DEF List
  <1> QED
    BY <1>2, <1>3, <1>4, <1>5 DEF Listed

----------------------------------------------------------------------------
\* Rows and their locks

LEMMA EndedType ==
  ASSUME NEW w \in RowType, NEW p \in Requests, NEW done \in BOOLEAN
  PROVE  /\ Ended(w, p, done) \in RowType
         /\ w.tx # p => Ended(w, p, done) = w
         /\ w.tx = p => /\ Ended(w, p, done).tx = None
                        /\ Ended(w, p, done).is = IF done THEN "gone" ELSE "live"
  BY DEF Ended, RowType

\* The file a purge is at is on its list.
LEMMA DoomedType ==
  ASSUME Course, NEW r \in Requests,
         \/ pc[r] = "delete" /\ ctx[r].at <= Len(ctx[r].list)
         \/ pc[r] = "remove"
  PROVE  Doomed(r) \in Files /\ Doomed(r) \in Listed(r)
  <1>1. ctx[r] \in Ctx /\ ctx[r].at \in Nat \ {0} /\ ctx[r].at <= Len(ctx[r].list)
    BY DEF Course, Fits, Ctx
  <1>2. ctx[r].list \in Seq(Files)
    BY <1>1 DEF Ctx
  <1>3. ctx[r].at \in DOMAIN ctx[r].list
    BY <1>1, <1>2
  <1> QED
    BY <1>2, <1>3 DEF Doomed, Listed, Range

LEMMA LocksKept ==
  ASSUME Locks, UNCHANGED row, \A x \in Requests : Listed(x) \subseteq Listed(x)'
  PROVE  Locks'
  BY DEF Locks

\* A transaction of r ends, and with it its locks.
LEMMA LocksEnd ==
  ASSUME Course, Rows, Locks, NEW r \in Requests, NEW done \in BOOLEAN, End(r),
         row' = [f \in Files |-> Ended(row[f], r, done)]
  PROVE  Rows' /\ Locks'
  <1>1. \A f \in Files : row[f] \in RowType
    BY DEF Rows
  <1>2. Rows'
    BY <1>1, EndedType DEF Rows
  <1>3. None \notin Requests
    BY StorageAssumption
  <1>4. \A f \in Files : row[f].tx = r => row'[f].tx = None /\ row'[f].is # "deleting"
    BY <1>1, EndedType
  <1>5. \A f \in Files : row[f].tx # r => row'[f] = row[f]
    BY <1>1, EndedType
  <1>6. \A x \in Requests \ {r} : Listed(x)' = Listed(x)
    BY ListedEnd
  <1>7. \A f \in Files : row[f].is = "deleting" /\ row[f].tx # r =>
          row[f].tx \in Requests \ {r} /\ f \in Listed(row[f].tx)
    BY DEF Locks
  <1>8. \A f \in Files : row[f].is # "deleting" => row[f].tx = None
    BY DEF Locks
  <1>9. Locks'
    BY <1>4, <1>5, <1>6, <1>7, <1>8 DEF Locks
  <1> QED
    BY <1>2, <1>9

LEMMA RowsNext ==
  ASSUME Typed, Next, Course'
  PROVE  Rows' /\ Locks'
  <1> USE DEF Typed
  <1>1. ASSUME NEW r \in Requests, Insert(r)
        PROVE  Rows' /\ Locks'
    <2>1. \A x \in Requests : Listed(x)' = Listed(x)
      BY <1>1, ListedIdle DEF Upload
    <2>2. CASE UNCHANGED row
      BY <2>1, <2>2, LocksKept DEF Rows
    <2>3. CASE \E f \in Files : row[f] = NoRow /\ row' = [row EXCEPT ![f] = RowOf(Content(r))]
      <3>1. PICK f \in Files : row[f] = NoRow /\ row' = [row EXCEPT ![f] = RowOf(Content(r))]
        BY <2>3
      <3>2. Content(r) \in Contents
        <4>1. job[r].contents \in Seq(Contents) /\ ctx[r].at \in Nat \ {0}
              /\ ctx[r].at <= Len(job[r].contents)
          BY <1>1, JobOf DEF Insert, Course, Fits, Ctx
        <4> QED
          BY <4>1 DEF Content
      <3>3. RowOf(Content(r)) \in RowType
        BY <3>2 DEF RowOf, RowType
      <3> QED
        BY <2>1, <3>1, <3>3 DEF Rows, Locks, RowOf
    <2> QED
      BY <1>1, <2>2, <2>3 DEF Insert
  <1>2. ASSUME NEW r \in Requests, DeleteRow(r)
        PROVE  Rows' /\ Locks'
    <2>1. \A x \in Requests : Listed(x)' = Listed(x)
      BY <1>2, ListedWorking
    <2>2. Doomed(r) \in Files /\ Doomed(r) \in Listed(r)
      BY <1>2, DoomedType DEF DeleteRow
    <2>3. CASE UNCHANGED row
      BY <2>1, <2>3, LocksKept DEF Rows
    <2>4. CASE row' = [row EXCEPT ![Doomed(r)] = [@ EXCEPT !.is = "deleting", !.tx = r]]
      <3>1. row[Doomed(r)] \in RowType
        BY <2>2 DEF Rows
      <3> QED
        BY <2>1, <2>2, <2>4, <3>1 DEF Rows, Locks, RowType
    <2> QED
      BY <1>2, <2>3, <2>4 DEF DeleteRow
  <1>3. ASSUME NEW r \in Requests, Commit(r) \/ Fail(r)
        PROVE  Rows' /\ Locks'
    BY <1>3, LocksEnd DEF Commit, Fail
  <1>4. ASSUME NEW r \in Requests, List(r)
        PROVE  Rows' /\ Locks'
    <2>1. Listed(r) = {} /\ UNCHANGED row
      BY <1>4 DEF List, Listed, db
    <2> QED
      BY <1>4, <2>1, ListedNew, LocksKept DEF Rows
  <1>5. ASSUME NEW r \in Requests, RemoveFile(r)
        PROVE  Rows' /\ Locks'
    BY <1>5, ListedWorking, LocksKept DEF RemoveFile, db, Rows
  <1>6. ASSUME NEW r \in Requests,
               Begin(r) \/ Find(r) \/ Open(r) \/ Write(r) \/ UploadAnswers(r) \/ Send(r)
        PROVE  Rows' /\ Locks'
    <2>1. UNCHANGED row
      BY <1>6 DEF Begin, Find, Open, Write, UploadAnswers, Send, Sources, Store, Exists, Attach,
                  Copy, Copied, Refer, AllAttached, Reply, db
    <2>2. \A x \in Requests : Listed(x)' = Listed(x)
      BY <1>6, ListedIdle DEF Upload
    <2> QED
      BY <2>1, <2>2, LocksKept DEF Rows
  <1>7. CASE Clear
    <2>1. \A x \in Requests : Listed(x)' = Listed(x)
      BY <1>7 DEF Clear, Listed
    <2> QED
      BY <1>7, <2>1, LocksKept DEF Clear, Rows
  <1> QED
    BY <1>1, <1>2, <1>3, <1>4, <1>5, <1>6, <1>7 DEF Next, Upload, Purge

----------------------------------------------------------------------------
\* The directory, messages and attachments

\* What is attached are files.
LEMMA ReferType ==
  ASSUME Course, NEW r \in Requests
  PROVE  /\ pc[r] = "attach" => {job[r].files[ctx[r].at]} \subseteq Files
         /\ Range(ctx[r].list) \subseteq Files
  <1>1. ctx[r] \in Ctx /\ Fits(pc[r], job[r], ctx[r])
    BY DEF Course
  <1>2. ctx[r].list \in Seq(Files)
    BY <1>1 DEF Ctx
  <1>3. ASSUME pc[r] = "attach"
        PROVE  job[r].files[ctx[r].at] \in Files
    <2>1. job[r].files \in Seq(Files) /\ ctx[r].at \in Nat \ {0}
          /\ ctx[r].at <= Len(job[r].files)
      BY <1>1, <1>3, JobOf DEF Fits, Ctx
    <2> QED
      BY <2>1
  <1> QED
    BY <1>2, <1>3 DEF Range

LEMMA AttachedType ==
  ASSUME Typed, NEW r \in Requests, Send(r)
  PROVE  attached' \subseteq Requests \X Files
  <1>1. attached \subseteq Requests \X Files
    BY DEF Typed, Rest
  <1>2. CASE Attach(r) \/ Copied(r)
    <2>1. PICK S \in SUBSET Files : Refer(r, S)
      BY <1>2, ReferType DEF Attach, Copied, Typed
    <2> QED
      BY <1>1, <2>1 DEF Refer, Attached
  <1>3. CASE UNCHANGED attached
    BY <1>1, <1>3
  <1> QED
    BY <1>2, <1>3 DEF Send, Sources, Store, Exists, Copy, AllAttached, Reply, db

LEMMA RestNext ==
  ASSUME Typed, Next
  PROVE  Rest'
  <1>1. /\ disk \in [Contents -> {"none", "empty", "whole"}]
        /\ attached \subseteq Requests \X Files
        /\ message \in [Requests -> {"none", "stored", "cleared"}]
        /\ faults \in Nat
    BY DEF Typed, Rest
  <1>2. ASSUME NEW r \in Requests, Begin(r) \/ Upload(r)
        PROVE  Rest'
    BY <1>1, <1>2 DEF Rest, Begin, Upload, Find, Open, Write, Insert, UploadAnswers, db
  <1>3. ASSUME NEW r \in Requests, Purge(r)
        PROVE  Rest'
    <2>1. CASE List(r) \/ DeleteRow(r) \/ Commit(r)
      BY <1>1, <2>1 DEF Rest, List, DeleteRow, Commit, db
    <2>2. CASE RemoveFile(r)
      <3>1. \A h : Unlinked(h) \in [Contents -> {"none", "empty", "whole"}]
        BY <1>1 DEF Unlinked
      <3>2. UNCHANGED <<attached, message>> /\ faults' \in Nat
        BY <1>1, <2>2 DEF RemoveFile, db
      <3>3. disk' \in [Contents -> {"none", "empty", "whole"}]
        BY <1>1, <2>2, <3>1 DEF RemoveFile
      <3> QED
        BY <1>1, <3>2, <3>3 DEF Rest
    <2> QED
      BY <1>3, <2>1, <2>2 DEF Purge
  <1>4. ASSUME NEW r \in Requests, Send(r)
        PROVE  Rest'
    <2>1. disk' = disk /\ faults' = faults
      BY <1>4 DEF Send, Sources, Store, Exists, Attach, Copy, Copied, Refer, AllAttached, Reply
    <2>2. message' \in [Requests -> {"none", "stored", "cleared"}]
      BY <1>1, <1>4 DEF Send, Sources, Store, Exists, Attach, Copy, Copied, Refer, AllAttached,
                        Reply, db
    <2> QED
      BY <1>1, <1>4, <2>1, <2>2, AttachedType DEF Rest
  <1>5. ASSUME NEW r \in Requests, Fail(r)
        PROVE  Rest'
    BY <1>1, <1>5 DEF Rest, Fail
  <1>6. CASE Clear
    BY <1>1, <1>6 DEF Rest, Clear
  <1> QED
    BY <1>2, <1>3, <1>4, <1>5, <1>6 DEF Next

LEMMA TypedInit == Init => Typed
  <1> SUFFICES ASSUME Init PROVE Typed
    OBVIOUS
  <1>1. Course
    BY FreshFits DEF Init, Course, Pcs, Fits
  <1>2. Rows /\ Locks
    BY StorageAssumption DEF Init, Rows, Locks, RowType, RowOf, NoRow
  <1>3. Rest /\ History
    BY StorageAssumption DEF Init, Rest, History
  <1> QED
    BY <1>1, <1>2, <1>3 DEF Typed

LEMMA TypedNext == Typed /\ [Next]_vars => Typed'
  <1> SUFFICES ASSUME Typed, [Next]_vars PROVE Typed'
    OBVIOUS
  <1>1. CASE UNCHANGED vars
    BY <1>1 DEF Typed, Course, Rows, Locks, Rest, History, Listed, vars, db
  <1>2. CASE Next
    <2>1. Course'
      BY <1>2, CourseNext DEF Typed
    <2>2. Rows' /\ Locks'
      BY <1>2, <2>1, RowsNext
    <2>3. Rest'
      BY <1>2, RestNext
    <2>4. History'
      BY <1>2, <2>3 DEF Next, History, Rest, Disturbed, AtHand, Typed
    <2> QED
      BY <2>1, <2>2, <2>3, <2>4 DEF Typed
  <1> QED
    BY <1>1, <1>2

LEMMA TypedAlways == Spec => []Typed
  BY TypedInit, TypedNext, PTL DEF Spec

(***************************************************************************)
(* Every variable of Storage has its type, and a row is being deleted      *)
(* exactly while a purge that still runs holds it: no lock outlives its    *)
(* request, however it ends (admin.rs lines 37-50).                        *)
(***************************************************************************)
THEOREM TypeCorrect == Spec => []TypeOK
  BY TypedIsTypeOK, TypedAlways, PTL

----------------------------------------------------------------------------
\* Attachments

\* What the foreign keys keep.
Referred ==
  \A a \in attached : row[a[2]].is \in {"live", "deleting"} /\ message[a[1]] = "stored"

\* What is attached to a listed file was attached after the list was made.
Watched ==
  \A r, x \in Requests : \A f \in Listed(r) : <<x, f>> \in attached => <<x, f>> \in late

Inv == Typed /\ Referred /\ Watched

LEMMA ReferredNext ==
  ASSUME Inv, Next
  PROVE  Referred'
  <1> USE DEF Inv
  <1>1. /\ attached \subseteq Requests \X Files /\ row \in [Files -> RowType]
        /\ message \in [Requests -> {"none", "stored", "cleared"}]
    BY DEF Typed, Rest, Rows
  <1>2. ASSUME NEW r \in Requests, Insert(r)
        PROVE  Referred'
    <2>1. CASE UNCHANGED row
      BY <1>2, <2>1 DEF Insert, Referred
    <2>2. CASE \E f \in Files : row[f] = NoRow /\ row' = [row EXCEPT ![f] = RowOf(Content(r))]
      <3>1. PICK f \in Files : row[f] = NoRow /\ row' = [row EXCEPT ![f] = RowOf(Content(r))]
        BY <2>2
      <3>2. \A a \in attached : a[2] # f
        BY <3>1 DEF Referred, NoRow
      <3>3. \A a \in attached : a[2] \in Files /\ row'[a[2]] = row[a[2]]
        BY <1>1, <3>1, <3>2
      <3> QED
        BY <1>2, <3>3 DEF Insert, Referred
    <2> QED
      BY <1>2, <2>1, <2>2 DEF Insert
  <1>3. ASSUME NEW r \in Requests, DeleteRow(r)
        PROVE  Referred'
    <2>1. \A f \in Files : row[f].is = "live" \/ row[f].is = "deleting"
                             => row'[f].is \in {"live", "deleting"}
      <3>1. Doomed(r) \in Files
        BY <1>3, DoomedType DEF DeleteRow, Typed
      <3>2. row[Doomed(r)] \in RowType
        BY <1>1, <3>1
      <3> QED
        BY <1>1, <1>3, <3>1, <3>2 DEF DeleteRow, RowType
    <2> QED
      BY <1>1, <1>3, <2>1 DEF DeleteRow, Referred
  <1>4. ASSUME NEW r \in Requests, Commit(r) \/ Fail(r)
        PROVE  Referred'
    <2>1. \A f \in Files : \/ row'[f] = row[f]
                           \/ row'[f].is = "gone" /\ Commit(r)
                           \/ row'[f].is = "live"
      <3>1. PICK done \in BOOLEAN : /\ row' = [f \in Files |-> Ended(row[f], r, done)]
                                    /\ done => Commit(r)
        BY <1>4 DEF Commit, Fail
      <3> QED
        BY <1>1, <3>1, EndedType
    <2>2. message' = message /\ attached' \subseteq attached
          /\ \A a \in attached' : Commit(r) => row'[a[2]].is # "gone"
      BY <1>4 DEF Commit, Fail
    <2> QED
      BY <1>1, <2>1, <2>2 DEF Referred
  <1>5. ASSUME NEW r \in Requests, Begin(r) \/ Find(r) \/ Open(r) \/ Write(r)
                                   \/ UploadAnswers(r) \/ List(r) \/ RemoveFile(r)
        PROVE  Referred'
    BY <1>5 DEF Referred, Begin, Find, Open, Write, UploadAnswers, List, RemoveFile, db
  <1>6. ASSUME NEW r \in Requests, Attach(r) \/ Copied(r)
        PROVE  Referred'
    <2>1. PICK S \in SUBSET Files : Refer(r, S)
      BY <1>6, ReferType DEF Attach, Copied, Typed
    <2>2. CASE UNCHANGED attached
      BY <2>1, <2>2 DEF Refer, Referred
    <2>3. CASE /\ message[r] = "stored" /\ \A f \in S : row[f].is = "live"
               /\ attached' = attached \cup ({r} \X S)
      BY <2>1, <2>3 DEF Refer, Referred
    <2> QED
      BY <2>1, <2>2, <2>3 DEF Refer, Attached
  <1>7. ASSUME NEW r \in Requests, Store(r)
        PROVE  Referred'
    <2>1. UNCHANGED <<row, attached>> /\ (message' = message \/ message' = [message EXCEPT ![r] = "stored"])
      BY <1>7 DEF Store
    <2> QED
      BY <1>1, <2>1 DEF Referred
  <1>8. ASSUME NEW r \in Requests, Sources(r) \/ Exists(r) \/ Copy(r) \/ AllAttached(r) \/ Reply(r)
        PROVE  Referred'
    BY <1>8 DEF Referred, Sources, Exists, Copy, AllAttached, Reply, db
  <1>9. CASE Clear
    BY <1>9 DEF Clear, Referred
  <1> QED
    BY <1>2, <1>3, <1>4, <1>5, <1>6, <1>7, <1>8, <1>9 DEF Next, Upload, Purge, Send

\* Every step but that of List leaves the lists as they are or shorter.
LEMMA ListsShrink ==
  ASSUME Typed, Typed', Next, NEW r \in Requests
  PROVE  \/ Listed(r)' \subseteq Listed(r)
         \/ UNCHANGED attached /\ Listed(r)' \subseteq Unreferenced
  <1> USE DEF Typed
  <1>1. ASSUME NEW x \in Requests, Begin(x) \/ Upload(x) \/ Send(x)
        PROVE  Listed(r)' \subseteq Listed(r)
    BY <1>1, ListedIdle
  <1>2. ASSUME NEW x \in Requests, DeleteRow(x) \/ RemoveFile(x)
        PROVE  Listed(r)' \subseteq Listed(r)
    BY <1>2, ListedWorking
  <1>3. ASSUME NEW x \in Requests, Commit(x) \/ Fail(x)
        PROVE  Listed(r)' \subseteq Listed(r)
    BY <1>3, ListedEnd DEF Commit, Fail
  <1>4. CASE Clear
    BY <1>4 DEF Clear, Listed
  <1>5. ASSUME NEW x \in Requests, List(x)
        PROVE  \/ Listed(r)' \subseteq Listed(r)
               \/ UNCHANGED attached /\ Listed(r)' \subseteq Unreferenced
    <2>1. Course
      OBVIOUS
    <2>2. Listed(x)' \subseteq Unreferenced /\ \A y \in Requests \ {x} : Listed(y)' = Listed(y)
      BY <1>5, <2>1, ListedNew
    <2>3. UNCHANGED attached
      BY <1>5 DEF List, db
    <2>4. CASE r = x
      BY <2>2, <2>3, <2>4
    <2>5. CASE r # x
      <3>1. Listed(r)' = Listed(r)
        BY <2>2, <2>5
      <3> QED
        BY <3>1
    <2> QED
      BY <2>4, <2>5
  <1> QED
    BY <1>1, <1>2, <1>3, <1>4, <1>5 DEF Next, Purge

LEMMA WatchedNext ==
  ASSUME Inv, Typed', Next
  PROVE  Watched'
  <1> SUFFICES ASSUME NEW r \in Requests, NEW x \in Requests, NEW f \in Listed(r)',
                      <<x, f>> \in attached'
               PROVE  <<x, f>> \in late'
    BY DEF Watched
  <1>1. late \subseteq late'
        /\ (<<x, f>> \notin attached /\ f \in Listed(r) => <<x, f>> \in late')
    BY DEF Next
  <1>2. CASE f \in Listed(r)
    BY <1>1, <1>2 DEF Inv, Watched
  <1>3. CASE UNCHANGED attached /\ f \in Unreferenced
    BY <1>3 DEF Unreferenced
  <1> QED
    BY <1>2, <1>3, ListsShrink DEF Inv

LEMMA InvNext == Inv /\ [Next]_vars => Inv'
  <1> SUFFICES ASSUME Inv, [Next]_vars PROVE Inv'
    OBVIOUS
  <1>1. Typed'
    BY TypedNext DEF Inv
  <1>2. CASE UNCHANGED vars
    BY <1>1, <1>2 DEF Inv, Referred, Watched, Listed, vars, db
  <1>3. CASE Next
    BY <1>1, <1>3, ReferredNext, WatchedNext DEF Inv
  <1> QED
    BY <1>2, <1>3

LEMMA InvInit == Init => Inv
  BY TypedInit DEF Init, Inv, Referred, Watched

LEMMA InvAlways == Spec => []Inv
  BY InvInit, InvNext, PTL DEF Spec

\* What goes in a step.
Spared == \A a \in attached \ attached' : a \in late \/ message'[a[1]] = "cleared"

LEMMA SparedNext == Inv /\ [Next]_vars => Spared
  <1> SUFFICES ASSUME Inv, [Next]_vars, NEW a \in attached, a \notin attached'
               PROVE  a \in late \/ message'[a[1]] = "cleared"
    BY DEF Spared
  <1>1. a \in Requests \X Files /\ row[a[2]].is \in {"live", "deleting"} /\ message[a[1]] = "stored"
    BY DEF Inv, Typed, Rest, Referred
  <1>2. CASE Clear
    BY <1>1, <1>2 DEF Clear
  <1>3. ASSUME NEW r \in Requests, Commit(r)
        PROVE  a \in late
    <2>1. row'[a[2]] = Ended(row[a[2]], r, TRUE) /\ row'[a[2]].is = "gone"
      BY <1>1, <1>3 DEF Commit
    <2>2. row[a[2]] \in RowType
      BY <1>1 DEF Inv, Typed, Rows
    <2>3. row[a[2]].tx = r
      BY <1>1, <2>1, <2>2, EndedType
    <2>4. a[2] \in Listed(r)
      BY <1>1, <2>3, StorageAssumption DEF Inv, Typed, Locks
    <2> QED
      BY <1>1, <2>4 DEF Inv, Watched
  <1>4. ASSUME NEW r \in Requests, Attach(r) \/ Copied(r)
        PROVE  FALSE
    BY <1>4 DEF Attach, Copied, Refer, Attached
  <1>5. \/ Clear \/ UNCHANGED attached
        \/ \E r \in Requests : Commit(r) \/ Attach(r) \/ Copied(r)
    BY DEF Next, vars, db, Begin, Upload, Find, Open, Write, Insert, UploadAnswers, Purge, List,
           DeleteRow, RemoveFile, Send, Sources, Store, Exists, Copy, AllAttached, Reply, Fail
  <1> QED
    BY <1>2, <1>3, <1>4, <1>5

(***************************************************************************)
(* An attachment goes only with its message, or with a file that a running *)
(* purge had listed before the attachment was made: no purge takes a file  *)
(* that was attached when it made its list, however many purges, uploads   *)
(* and messages there are (admin.rs lines 32-50).                          *)
(***************************************************************************)
THEOREM AttachmentsSpared == Spec => PurgeSparesAttached
  <1>1. Inv /\ [Next]_vars => [Spared]_vars
    BY SparedNext
  <1>2. [][Spared]_vars => PurgeSparesAttached
    BY PTL DEF PurgeSparesAttached, Spared
  <1> QED
    BY <1>1, <1>2, InvAlways, PTL DEF Spec

(***************************************************************************)
(* What API_SPEC.md line 412 says, only unreferenced files are purged, and *)
(* what it takes: it holds of every behaviour in which nothing is attached *)
(* to a file while a purge has it on its list; the age of that list is the *)
(* one thing that breaks it (admin.rs lines 32-41).                        *)
(***************************************************************************)
THEOREM PurgesUnreferencedUnlessLate == Spec /\ [](late = {}) => PurgesOnlyUnreferenced
  <1> DEFINE Bare == \A r \in Requests :
                       DeleteRow(r) => ~\E x \in Requests : <<x, Doomed(r)>> \in attached
  <1>1. ASSUME Inv, late = {}
        PROVE  Bare
    <2> SUFFICES ASSUME NEW r \in Requests, DeleteRow(r), NEW x \in Requests
                 PROVE  <<x, Doomed(r)>> \notin attached
      OBVIOUS
    <2>1. Doomed(r) \in Listed(r)
      BY <1>1, DoomedType DEF DeleteRow, Inv, Typed
    <2> QED
      BY <1>1, <2>1 DEF Inv, Watched
  <1>2. [][Bare]_vars => PurgesOnlyUnreferenced
    BY PTL DEF PurgesOnlyUnreferenced
  <1>3. Inv /\ late = {} /\ [Next]_vars => [Bare]_vars
    BY <1>1
  <1> QED
    BY <1>2, <1>3, InvAlways, PTL DEF Spec

----------------------------------------------------------------------------
\* What a message that is answered has

\* Where in its work a request is, beyond Fits: which of the two operations it
\* does, and that it is at the first file before its message is stored.
On(p, j, k) ==
  /\ p \in {"idle", "sources", "store"} => k.at = 1
  /\ p = "sources" => j.op = "forward"
  /\ p = "store" => j.op \in {"send", "forward"}
  /\ p \in {"exists", "attach"} => j.op = "send"
  /\ p \in {"copy", "copied"} => j.op = "forward"

Placed == \A r \in Requests : On(pc[r], job[r], ctx[r])

\* The files the message of r must have by now.
Due(r) ==
  IF pc[r] \in {"exists", "attach"} THEN {job[r].files[i] : i \in 1..(ctx[r].at - 1)}
  ELSE IF pc[r] = "reply" THEN Wanted(r) ELSE {}

Kept(r) == message[r] = "stored" => {r} \X Due(r) \subseteq attached \cup late

Passed == \A r \in Requests : Kept(r)

DueInv == Inv /\ Placed /\ Passed

LEMMA DueInvAnswers == DueInv => AnsweredIsAttached
  BY DEF DueInv, Passed, Kept, Due, AnsweredIsAttached

\* Nothing of the others that On or Due reads changes in a step of r.
Apart(x) ==
  /\ pc'[x] = pc[x] /\ job'[x] = job[x]
  /\ ctx'[x].at = ctx[x].at /\ ctx'[x].list = ctx[x].list

LEMMA OthersApart ==
  ASSUME Course, NEW r \in Requests,
         Begin(r) \/ Upload(r) \/ Purge(r) \/ Send(r) \/ Fail(r)
  PROVE  \A x \in Requests \ {r} : Apart(x)
  <1>1. CASE Begin(r)
    BY <1>1 DEF Begin, Goto, Course, Apart
  <1>2. CASE Upload(r)
    BY <1>2 DEF Upload, Find, Open, Write, Insert, UploadAnswers, Goto, Set, End, Course, Apart
  <1>3. CASE List(r)
    BY <1>3 DEF List, Goto, Set, Course, Apart
  <1>4. CASE DeleteRow(r) \/ Commit(r) \/ Fail(r)
    BY <1>4 DEF DeleteRow, Commit, Fail, Goto, End, Course, Apart
  <1>5. CASE RemoveFile(r)
    <2>1. /\ job' = job /\ \A x \in Requests \ {r} : pc'[x] = pc[x]
          /\ ctx \in [Requests -> Ctx]
      BY <1>5 DEF RemoveFile, Goto, Course
    <2>2. CASE Set(r, "at", ctx[r].at + 1)
      BY <2>1, <2>2 DEF Set, Apart
    <2>3. CASE ctx' = [[x \in Requests |->
                 IF ctx[x].file /\ Content(x) = row[Doomed(r)].content
                   THEN [ctx[x] EXCEPT !.file = FALSE]
                 ELSE ctx[x]] EXCEPT ![r].at = ctx[r].at + 1]
      <3> DEFINE closed == [x \in Requests |->
                 IF ctx[x].file /\ Content(x) = row[Doomed(r)].content
                   THEN [ctx[x] EXCEPT !.file = FALSE]
                 ELSE ctx[x]]
      <3>1. \A x \in Requests : closed[x].at = ctx[x].at /\ closed[x].list = ctx[x].list
        BY <2>1 DEF Ctx
      <3>2. ctx' = [closed EXCEPT ![r].at = ctx[r].at + 1]
        BY <2>3
      <3>3. closed = [x \in Requests |-> closed[x]]
        OBVIOUS
      <3> HIDE DEF closed
      <3>4. \A x \in Requests \ {r} : ctx'[x] = closed[x]
        BY <3>2, <3>3
      <3> QED
        BY <2>1, <3>1, <3>4 DEF Apart
    <2> QED
      BY <1>5, <2>2, <2>3 DEF RemoveFile
  <1>6. CASE Sources(r) \/ Copy(r)
    BY <1>6 DEF Sources, Copy, Goto, Set, End, Course, Apart
  <1>7. CASE Store(r) \/ Exists(r) \/ AllAttached(r) \/ Reply(r)
    BY <1>7 DEF Store, Exists, AllAttached, Reply, Goto, End, Course, Apart
  <1>8. CASE Attach(r) \/ Copied(r)
    BY <1>8 DEF Attach, Copied, Refer, Goto, Set, End, Course, Apart
  <1> QED
    BY <1>1, <1>2, <1>3, <1>4, <1>5, <1>6, <1>7, <1>8 DEF Purge, Send

\* What must be there stays there while no more is due.
LEMMA KeptKept ==
  ASSUME Inv, Next, NEW x \in Requests, Kept(x), Due(x)' \subseteq Due(x),
         message'[x] = "stored" => message[x] = "stored"
  PROVE  Kept(x)'
  <1> SUFFICES ASSUME message'[x] = "stored", NEW f \in Due(x)'
               PROVE  <<x, f>> \in attached' \cup late'
    BY DEF Kept
  <1>1. <<x, f>> \in attached \cup late /\ late \subseteq late'
    BY DEF Kept, Next
  <1>2. <<x, f>> \in attached \ attached' => <<x, f>> \in late
    BY SparedNext DEF Spared
  <1> QED
    BY <1>1, <1>2

\* A message of another request is not stored in a step of r.
LEMMA StoredBySelf ==
  ASSUME Typed, NEW r \in Requests,
         Begin(r) \/ Upload(r) \/ Purge(r) \/ Send(r) \/ Fail(r)
  PROVE  \A x \in Requests : message'[x] = message[x] \/ (x = r /\ Store(r))
  <1>1. message \in [Requests -> {"none", "stored", "cleared"}]
    BY DEF Typed, Rest
  <1>2. CASE Store(r)
    BY <1>1, <1>2 DEF Store
  <1>3. message' = message \/ Store(r)
    BY DEF Begin, Upload, Find, Open, Write, Insert, UploadAnswers, Purge, List, DeleteRow,
           RemoveFile, Commit, Send, Sources, Exists, Attach, Copy, Copied, Refer, AllAttached,
           Reply, Fail, db
  <1> QED
    BY <1>2, <1>3

\* What is attached by a send is due afterwards.
LEMMA AttachDue ==
  ASSUME DueInv, Next, NEW r \in Requests, Attach(r)
  PROVE  On(pc'[r], job'[r], ctx'[r]) /\ Kept(r)'
  <1>1. /\ On(pc[r], job[r], ctx[r]) /\ Fits(pc[r], job[r], ctx[r]) /\ ctx[r] \in Ctx
        /\ pc \in [Requests -> Pcs] /\ ctx \in [Requests -> Ctx] /\ pc[r] = "attach"
    BY DEF DueInv, Placed, Inv, Typed, Course, Attach
  <1> DEFINE here == job[r].files[ctx[r].at]
  <1>2. CASE End(r)
    <2>1. pc'[r] = "done"
      BY <1>1, <1>2 DEF End, Goto
    <2> QED
      BY <2>1 DEF On, Kept, Due
  <1>3. CASE /\ message[r] = "stored" /\ attached' = attached \cup ({r} \X {here})
             /\ job' = job /\ Set(r, "at", ctx[r].at + 1) /\ Goto(r, "exists")
             /\ message' = message
    <2>1. /\ pc'[r] = "exists" /\ ctx'[r] = [ctx[r] EXCEPT !["at"] = ctx[r].at + 1]
      BY <1>1, <1>3 DEF Set, Goto
    <2>2. ctx'[r].at = ctx[r].at + 1 /\ ctx[r].at \in Nat \ {0}
      BY <1>1, <2>1 DEF Ctx, Fits
    <2>3. On(pc'[r], job'[r], ctx'[r])
      BY <1>1, <1>3, <2>1 DEF On
    <2>4. Due(r)' \subseteq Due(r) \cup {here}
      <3>1. 1..(ctx'[r].at - 1) = 1..(ctx[r].at - 1) \cup {ctx[r].at}
        BY <2>2
      <3>2. /\ Due(r)' = {job[r].files[i] : i \in 1..(ctx'[r].at - 1)}
            /\ Due(r) = {job[r].files[i] : i \in 1..(ctx[r].at - 1)}
        BY <1>1, <1>3, <2>1 DEF Due
      <3> QED
        BY <3>1, <3>2
    <2>5. {r} \X Due(r) \subseteq attached \cup late /\ late \subseteq late'
      BY <1>3 DEF DueInv, Passed, Kept, Next
    <2>6. Kept(r)'
      BY <1>3, <2>4, <2>5 DEF Kept
    <2> QED
      BY <2>3, <2>6
  <1> QED
    BY <1>1, <1>2, <1>3 DEF Attach, Refer, Attached, On

\* What is attached by a forward is all that is due.
LEMMA CopiedDue ==
  ASSUME DueInv, Next, NEW r \in Requests, Copied(r)
  PROVE  On(pc'[r], job'[r], ctx'[r]) /\ Kept(r)'
  <1>1. /\ On(pc[r], job[r], ctx[r]) /\ pc \in [Requests -> Pcs] /\ pc[r] = "copied"
        /\ job[r].op = "forward"
    BY DEF DueInv, Placed, On, Inv, Typed, Course, Copied
  <1>2. CASE End(r)
    <2>1. pc'[r] = "done"
      BY <1>1, <1>2 DEF End, Goto
    <2> QED
      BY <2>1 DEF On, Kept, Due
  <1>3. CASE /\ attached' = attached \cup ({r} \X Range(ctx[r].list))
             /\ job' = job /\ ctx' = ctx /\ Goto(r, "reply")
    <2>1. pc'[r] = "reply"
      BY <1>1, <1>3 DEF Goto
    <2>2. Due(r)' = Range(ctx[r].list)
      BY <1>1, <1>3, <2>1 DEF Due, Wanted
    <2> QED
      BY <1>3, <2>1, <2>2 DEF On, Kept
  <1> QED
    BY <1>1, <1>2, <1>3 DEF Copied, Refer, Attached

\* The other steps of r.
LEMMA OtherDue ==
  ASSUME DueInv, Next, NEW r \in Requests,
         \/ Begin(r) \/ Upload(r) \/ Purge(r) \/ Fail(r)
         \/ Sources(r) \/ Store(r) \/ Exists(r) \/ Copy(r) \/ AllAttached(r) \/ Reply(r)
  PROVE  On(pc'[r], job'[r], ctx'[r]) /\ Kept(r)'
  <1>1. /\ On(pc[r], job[r], ctx[r]) /\ Fits(pc[r], job[r], ctx[r]) /\ ctx[r] \in Ctx
        /\ pc \in [Requests -> Pcs] /\ job \in [Requests -> RequestJobs \cup {NoJob}]
        /\ ctx \in [Requests -> Ctx] /\ Kept(r)
    BY DEF DueInv, Placed, Passed, Inv, Typed, Course
  <1>2. CASE Begin(r)
    <2>1. PICK j \in RequestJobs : job' = [job EXCEPT ![r] = j] /\ Goto(r, Start(j.op))
      BY <1>2 DEF Begin
    <2>2. pc'[r] = Start(j.op) /\ job'[r] = j /\ ctx'[r].at = 1 /\ j.op \in Ops
      BY <1>1, <1>2, <2>1, StorageAssumption DEF Begin, Goto, On
    <2> QED
      BY <2>2 DEF On, Kept, Due, Start, Ops
  <1>3. CASE Upload(r) \/ Purge(r) \/ Fail(r) \/ Reply(r)
    <2>1. pc'[r] \in {"find", "open", "write", "insert", "delete", "remove", "done"}
      BY <1>1, <1>3 DEF Upload, Find, Open, Write, Insert, UploadAnswers, Purge, List, DeleteRow,
                        RemoveFile, Commit, Fail, Reply, Goto, End
    <2> QED
      BY <2>1 DEF On, Kept, Due
  <1>4. CASE Sources(r)
    <2>1. CASE End(r)
      <3>1. pc'[r] = "done"
        BY <1>1, <2>1 DEF End, Goto
      <3> QED
        BY <3>1 DEF On, Kept, Due
    <2>2. CASE job' = job /\ Goto(r, "store") /\ \E x : Set(r, "source", x)
      <3>1. pc'[r] = "store" /\ ctx'[r].at = ctx[r].at
        BY <1>1, <2>2 DEF Goto, Set, Ctx
      <3> QED
        BY <1>1, <1>4, <2>2, <3>1 DEF Sources, On, Kept, Due
    <2> QED
      BY <1>4, <2>1, <2>2 DEF Sources
  <1>5. CASE Store(r)
    <2>1. CASE End(r)
      <3>1. pc'[r] = "done"
        BY <1>1, <2>1 DEF End, Goto
      <3> QED
        BY <3>1 DEF On, Kept, Due
    <2>2. CASE job' = job /\ ctx' = ctx /\ Goto(r, IF job[r].op = "send" THEN "exists" ELSE "copy")
      <3>1. /\ pc'[r] = IF job[r].op = "send" THEN "exists" ELSE "copy"
            /\ job[r].op \in {"send", "forward"} /\ ctx[r].at = 1
        BY <1>1, <1>5, <2>2 DEF Store, Goto, On
      <3>2. On(pc'[r], job'[r], ctx'[r])
        BY <2>2, <3>1 DEF On
      <3>3. 1..(ctx'[r].at - 1) = {}
        BY <2>2, <3>1
      <3>4. Due(r)' = {}
        BY <3>1, <3>3 DEF Due
      <3> QED
        BY <3>2, <3>4 DEF Kept
    <2> QED
      BY <1>5, <2>1, <2>2 DEF Store
  <1>6. CASE Exists(r)
    <2>1. CASE End(r)
      <3>1. pc'[r] = "done"
        BY <1>1, <2>1 DEF End, Goto
      <3> QED
        BY <3>1 DEF On, Kept, Due
    <2>2. CASE job' = job /\ ctx' = ctx /\ Goto(r, "attach")
      <3>1. pc[r] = "exists" /\ pc'[r] = "attach" /\ message' = message
        BY <1>1, <1>6, <2>2 DEF Exists, Goto, db
      <3>2. Due(r)' = Due(r)
        BY <2>2, <3>1 DEF Due
      <3> QED
        BY <1>1, <2>2, <3>1, <3>2, KeptKept DEF On, DueInv
    <2> QED
      BY <1>6, <2>1, <2>2 DEF Exists
  <1>7. CASE Copy(r)
    <2>1. pc[r] = "copy" /\ pc'[r] = "copied" /\ job' = job
      BY <1>1, <1>7 DEF Copy, Goto
    <2> QED
      BY <1>1, <2>1 DEF On, Kept, Due
  <1>8. CASE AllAttached(r)
    <2>1. /\ pc[r] = "exists" /\ pc'[r] = "reply" /\ job' = job /\ ctx' = ctx
          /\ message' = message /\ ctx[r].at > Len(job[r].files) /\ job[r].op = "send"
      BY <1>1, <1>8 DEF AllAttached, Goto, db, On
    <2>2. job[r].files \in Seq(Files) /\ ctx[r].at \in Nat
      BY <1>1, <2>1, JobOf DEF Ctx, DueInv, Inv, Typed
    <2>3. DOMAIN job[r].files \subseteq 1..(ctx[r].at - 1)
      BY <2>1, <2>2
    <2>4. Due(r)' = Range(job[r].files) /\ Due(r) = {job[r].files[i] : i \in 1..(ctx[r].at - 1)}
      BY <2>1 DEF Due, Wanted
    <2>5. Due(r)' \subseteq Due(r)
      BY <2>3, <2>4 DEF Range
    <2> QED
      BY <1>1, <2>1, <2>5, KeptKept DEF On, DueInv
  <1> QED
    BY <1>2, <1>3, <1>4, <1>5, <1>6, <1>7, <1>8

LEMMA DueInvNext == DueInv /\ [Next]_vars => DueInv'
  <1> SUFFICES ASSUME DueInv, [Next]_vars PROVE DueInv'
    OBVIOUS
  <1>1. Inv'
    BY InvNext DEF DueInv
  <1>2. CASE UNCHANGED vars
    BY <1>1, <1>2 DEF DueInv, Placed, Passed, Kept, Due, Wanted, vars, db
  <1>3. ASSUME NEW r \in Requests, Next,
               Begin(r) \/ Upload(r) \/ Purge(r) \/ Send(r) \/ Fail(r)
        PROVE  Placed' /\ Passed'
    <2>1. On(pc'[r], job'[r], ctx'[r]) /\ Kept(r)'
      BY <1>3, AttachDue, CopiedDue, OtherDue DEF Send
    <2>2. ASSUME NEW x \in Requests \ {r}
          PROVE  On(pc'[x], job'[x], ctx'[x]) /\ Kept(x)'
      <3>1. Apart(x)
        BY <1>3, OthersApart DEF DueInv, Inv, Typed
      <3>2. On(pc'[x], job'[x], ctx'[x])
        BY <3>1 DEF DueInv, Placed, On, Apart
      <3>3. Due(x)' = Due(x)
        BY <3>1 DEF Apart, Due, Wanted
      <3>4. message'[x] = message[x]
        BY <1>3, StoredBySelf DEF DueInv, Inv
      <3> QED
        BY <1>3, <3>2, <3>3, <3>4, KeptKept DEF DueInv, Passed
    <2> QED
      BY <2>1, <2>2 DEF Placed, Passed
  <1>4. CASE Clear
    <2>1. Placed'
      BY <1>4 DEF Clear, DueInv, Placed
    <2>2. \A r \in Requests : message'[r] # "stored"
      BY <1>4 DEF Clear
    <2> QED
      BY <1>1, <2>1, <2>2 DEF DueInv, Passed, Kept
  <1>5. CASE Next
    BY <1>1, <1>3, <1>4, <1>5 DEF Next, DueInv
  <1> QED
    BY <1>2, <1>5

LEMMA DueInvInit == Init => DueInv
  <1> SUFFICES ASSUME Init PROVE DueInv
    OBVIOUS
  <1>1. Placed
    BY DEF Init, Placed, On, Fresh
  <1>2. Passed
    BY DEF Init, Passed, Kept
  <1> QED
    BY <1>1, <1>2, InvInit DEF DueInv

(***************************************************************************)
(* A send_message or forward_messages that is about to answer 200 has all  *)
(* its attachments, unless its message has been cleared or a purge had     *)
(* listed the file before: for any number of files and requests, and with  *)
(* any statement failing (messages.rs lines 66-85, 408-413).               *)
(***************************************************************************)
THEOREM AnswersAreAttached == Spec => []AnsweredIsAttached
  <1>1. Spec => []DueInv
    BY DueInvInit, DueInvNext, PTL DEF Spec
  <1> QED
    BY <1>1, DueInvAnswers, PTL

----------------------------------------------------------------------------
\* The directory

AtWork(r) == pc[r] \in {"delete", "remove"}

\* r has the file of h open, and it will have written it.
Writing(r, h) == pc[r] = "write" /\ Content(r) = h
Placing(r, h) == pc[r] \in {"write", "insert"} /\ Content(r) = h

\* sha256 is unique in storage_files.
OneRow ==
  \A f, g \in Files :
    f \in Visible /\ g \in Visible /\ row[f].content = row[g].content => f = g

\* The list of a purge is of rows there were, and those it has been at are its
\* own or gone.
Swept ==
  \A r \in Requests :
    /\ pc[r] \in {"idle", "list"} => ctx[r].at = 1
    /\ AtWork(r) =>
         \A i \in DOMAIN ctx[r].list :
           LET w == row[ctx[r].list[i]]
           IN  /\ w.is # "none"
               /\ i < ctx[r].at \/ (i = ctx[r].at /\ pc[r] = "remove") =>
                    w.is = "gone" \/ (w.is = "deleting" /\ w.tx = r)

\* What uploads of a content keep of it ...
Uploaded(h) ==
  /\ \A r \in Requests : Writing(r, h) => ctx[r].file
  /\ disk[h] = "empty" => \E r \in Requests : Writing(r, h)
  /\ (\E r \in Requests : Placing(r, h)) => disk[h] # "none"
  /\ (\E f \in Files : row[f].is = "live" /\ row[f].content = h) => disk[h] # "none"
  /\ disk[h] # "none" =>
       \/ \E f \in Visible : row[f].content = h
       \/ \E r \in Requests : Placing(r, h)

\* ... and purges.
Unloaded(h) ==
  \A r \in Requests :
    AtWork(r) =>
      \A i \in DOMAIN ctx[r].list :
        row[ctx[r].list[i]].content = h =>
          /\ i < ctx[r].at => disk[h] = "none"
          /\ \A g \in Visible : row[g].content = h => g = ctx[r].list[i]

Separate(h) == ~((\E r \in Requests : Uploading(r, h)) /\ (\E r \in Requests : Purging(r, h)))

Even(h) == h \notin disturbed => Uploaded(h) /\ Unloaded(h) /\ Separate(h)

EvenInv == Typed /\ OneRow /\ Swept /\ \A h \in Contents : Even(h)

Step(r) == Begin(r) \/ Upload(r) \/ Purge(r) \/ Send(r) \/ Fail(r)

\* What the step of r does to the row of f.
RowChange(r, f) ==
  \/ row'[f] = row[f]
  \/ /\ Insert(r) /\ row[f].is = "none"
     /\ row'[f].is = "live" /\ row'[f].content = Content(r)
     /\ \A g \in Visible : row[g].content # Content(r)
     /\ \A g \in Files \ {f} : row'[g] = row[g]
  \/ /\ row'[f].content = row[f].content
     /\ \/ /\ DeleteRow(r) /\ f = Doomed(r) /\ row[f].is = "live"
           /\ row'[f].is = "deleting" /\ row'[f].tx = r
        \/ /\ row[f].is = "deleting" /\ row[f].tx = r /\ f \in Listed(r)
           /\ \/ Commit(r) /\ row'[f].is = "gone"
              \/ Fail(r) /\ row'[f].is = "live"

LEMMA RowChanges ==
  ASSUME Typed, NEW r \in Requests, Step(r), NEW f \in Files
  PROVE  RowChange(r, f)
  <1>1. row \in [Files -> RowType] /\ None \notin Requests
    BY StorageAssumption DEF Typed, Rows
  <1>2. CASE Insert(r)
    <2>1. CASE UNCHANGED row
      BY <2>1 DEF RowChange
    <2>2. CASE ~UNCHANGED row
      <3>1. PICK g \in Files : row[g] = NoRow /\ row' = [row EXCEPT ![g] = RowOf(Content(r))]
        BY <1>2, <2>2 DEF Insert
      <3>2. {x \in Visible : row[x].content = Content(r)} = {}
        BY <1>2, <2>2 DEF Insert
      <3> QED
        BY <1>1, <1>2, <3>1, <3>2 DEF RowChange, NoRow, RowOf
    <2> QED
      BY <2>1, <2>2
  <1>3. CASE DeleteRow(r)
    <2>1. CASE UNCHANGED row
      BY <2>1 DEF RowChange
    <2>2. CASE /\ row[Doomed(r)].is = "live"
               /\ row' = [row EXCEPT ![Doomed(r)] = [@ EXCEPT !.is = "deleting", !.tx = r]]
      <3>1. CASE f = Doomed(r)
        <4>1. row'[f] = [row[f] EXCEPT !.is = "deleting", !.tx = r]
          BY <1>1, <2>2, <3>1
        <4>2. row'[f].is = "deleting" /\ row'[f].tx = r /\ row'[f].content = row[f].content
          BY <1>1, <4>1 DEF RowType
        <4> QED
          BY <1>3, <2>2, <3>1, <4>2 DEF RowChange
      <3>2. CASE f # Doomed(r)
        BY <1>1, <2>2, <3>2 DEF RowChange
      <3> QED
        BY <3>1, <3>2
    <2> QED
      BY <1>3, <2>1, <2>2 DEF DeleteRow
  <1>4. ASSUME NEW done \in BOOLEAN, row' = [g \in Files |-> Ended(row[g], r, done)],
               IF done THEN Commit(r) ELSE Fail(r)
        PROVE  RowChange(r, f)
    <2>1. CASE row[f].tx # r
      BY <1>1, <1>4, <2>1, EndedType DEF RowChange
    <2>2. CASE row[f].tx = r
      <3>1. row[f].is = "deleting" /\ f \in Listed(r)
        BY <1>1, <2>2 DEF Typed, Locks
      <3>2. row'[f].is = IF done THEN "gone" ELSE "live"
        BY <1>1, <1>4, <2>2, EndedType
      <3>3. row'[f].content = row[f].content
        BY <1>1, <1>4, <2>2 DEF Ended, RowType
      <3> QED
        BY <1>4, <2>2, <3>1, <3>2, <3>3 DEF RowChange
    <2> QED
      BY <2>1, <2>2
  <1>5. CASE Commit(r)
    <2>1. row' = [g \in Files |-> Ended(row[g], r, TRUE)]
      BY <1>5 DEF Commit
    <2> QED
      BY <1>4, <1>5, <2>1
  <1>6. CASE Fail(r)
    <2>1. row' = [g \in Files |-> Ended(row[g], r, FALSE)]
      BY <1>6 DEF Fail
    <2> QED
      BY <1>4, <1>6, <2>1
  <1>7. CASE Begin(r) \/ Find(r) \/ Open(r) \/ Write(r) \/ UploadAnswers(r) \/ List(r)
             \/ RemoveFile(r) \/ Send(r)
    <2>1. UNCHANGED row
      BY <1>7 DEF Begin, Find, Open, Write, UploadAnswers, List, RemoveFile, Send, Sources, Store,
                  Exists, Attach, Copy, Copied, Refer, AllAttached, Reply, db
    <2> QED
      BY <2>1 DEF RowChange
  <1> QED
    BY <1>2, <1>3, <1>5, <1>6, <1>7 DEF Step, Upload, Purge

LEMMA OneRowNext ==
  ASSUME Typed, OneRow, NEW r \in Requests, Step(r)
  PROVE  OneRow'
  <1>1. \A f \in Files : RowChange(r, f)
    BY RowChanges
  <1>2. ASSUME NEW f \in Files, row'[f].content = Content(r), row[f].is = "none",
               row'[f].is = "live", \A g \in Visible : row[g].content # Content(r),
               \A g \in Files \ {f} : row'[g] = row[g]
        PROVE  OneRow'
    <2>1. Visible' = Visible \cup {f}
      BY <1>2 DEF Visible
    <2>2. \A g \in Visible : g \in Files \ {f} /\ row'[g].content # row'[f].content
      BY <1>2 DEF Visible
    <2> QED
      BY <1>2, <2>1, <2>2 DEF OneRow
  <1>3. CASE \A f \in Files :
               /\ f \in Visible' => f \in Visible
               /\ f \in Visible' => row'[f].content = row[f].content
    BY <1>3 DEF OneRow
  <1> QED
    BY <1>1, <1>2, <1>3 DEF RowChange, Visible

LEMMA ListTypes ==
  ASSUME Course, NEW r \in Requests
  PROVE  /\ ctx[r].list \in Seq(Files) /\ ctx[r].at \in Nat \ {0}
         /\ DOMAIN ctx[r].list = 1..Len(ctx[r].list)
         /\ \A i \in DOMAIN ctx[r].list : ctx[r].list[i] \in Files
         /\ AtWork(r) => Listed(r) = {ctx[r].list[i] : i \in DOMAIN ctx[r].list}
  <1>1. ctx[r] \in Ctx /\ ctx[r].at # 0
    BY DEF Course, Fits
  <1> QED
    BY <1>1 DEF Ctx, Listed, AtWork, Range

\* Rows that a purge has been at stay its own or gone, whoever moves.
LEMMA SweptRow ==
  ASSUME Typed, NEW r \in Requests, Step(r), NEW f \in Files, row[f].is # "none"
  PROVE  /\ row'[f].is # "none"
         /\ row[f].is = "gone" => row'[f].is = "gone"
         /\ row[f].is = "deleting" /\ row[f].tx # r => row'[f] = row[f]
  BY RowChanges DEF RowChange

LEMMA OwnSwept ==
  ASSUME EvenInv, NEW r \in Requests, Step(r), Course'
  PROVE  /\ pc'[r] \in {"idle", "list"} => ctx'[r].at = 1
         /\ AtWork(r)' =>
              \A i \in DOMAIN ctx'[r].list :
                LET w == row'[ctx'[r].list[i]]
                IN  /\ w.is # "none"
                    /\ i < ctx'[r].at \/ (i = ctx'[r].at /\ pc'[r] = "remove") =>
                         w.is = "gone" \/ (w.is = "deleting" /\ w.tx = r)
  <1>1. /\ pc \in [Requests -> Pcs] /\ ctx \in [Requests -> Ctx] /\ Course
        /\ pc[r] \in {"idle", "list"} => ctx[r].at = 1
    BY DEF EvenInv, Typed, Course, Swept
  <1>2. CASE Begin(r)
    <2>1. PICK j \in RequestJobs : Goto(r, Start(j.op))
      BY <1>2 DEF Begin
    <2>2. Start(j.op) \in {"find", "list", "store", "sources"}
      BY StorageAssumption DEF Start, Ops
    <2>3. pc'[r] \in {"find", "list", "store", "sources"} /\ ctx' = ctx /\ pc[r] = "idle"
      BY <1>1, <1>2, <2>1, <2>2 DEF Begin, Goto
    <2> QED
      BY <1>1, <2>3 DEF AtWork
  <1>3. CASE Upload(r) \/ Send(r) \/ Commit(r) \/ Fail(r)
    <2>1. pc'[r] \notin {"idle", "list", "delete", "remove"}
      BY <1>1, <1>3 DEF Upload, Find, Open, Write, Insert, UploadAnswers, Send, Sources, Store,
                        Exists, Attach, Copy, Copied, Refer, AllAttached, Reply, Commit, Fail,
                        Goto, End
    <2> QED
      BY <2>1 DEF AtWork
  <1>4. CASE List(r)
    <2>1. pc'[r] = "delete" /\ row' = row
      BY <1>1, <1>4 DEF List, Goto, db
    <2>2. Listed(r)' \subseteq Visible
      BY <1>1, <1>4, ListedNew DEF Unreferenced
    <2>3. ctx'[r].at = 1
      <3>1. PICK v \in Orders(Unreferenced) : Set(r, "list", v)
        BY <1>4 DEF List
      <3>2. v \in Seq(Files)
        BY OrderType DEF Unreferenced, Visible
      <3> QED
        BY <1>1, <1>4, <3>1, <3>2, SetType DEF List, Set
    <2>4. \A i \in DOMAIN ctx'[r].list : ctx'[r].list[i] \in Visible /\ ~(i < 1)
      <3>1. /\ ctx'[r].list \in Seq(Files) /\ DOMAIN ctx'[r].list = 1..Len(ctx'[r].list)
            /\ Listed(r)' = {ctx'[r].list[i] : i \in DOMAIN ctx'[r].list}
        <4>1. ctx'[r] \in Ctx
          BY DEF Course
        <4> QED
          BY <2>1, <4>1 DEF Ctx, Listed, Range
      <3> QED
        BY <2>2, <3>1
    <2> QED
      BY <2>1, <2>3, <2>4 DEF Visible
  <1>5. CASE DeleteRow(r)
    <2>1. pc[r] = "delete" /\ pc'[r] = "remove" /\ ctx' = ctx
      BY <1>1, <1>5 DEF DeleteRow, Goto
    <2>2. \A i \in DOMAIN ctx[r].list :
            LET w == row[ctx[r].list[i]]
            IN  /\ w.is # "none" /\ ctx[r].list[i] \in Files
                /\ i < ctx[r].at => w.is = "gone" \/ (w.is = "deleting" /\ w.tx = r)
      BY <1>1, <2>1, ListTypes DEF EvenInv, Swept, AtWork
    <2>3. \A i \in DOMAIN ctx[r].list : row'[ctx[r].list[i]].is # "none"
      BY <2>2, SweptRow DEF EvenInv
    <2>4. \A f \in Files : row[f].is = "gone" \/ (row[f].is = "deleting" /\ row[f].tx = r) =>
                             row'[f].is = "gone" \/ (row'[f].is = "deleting" /\ row'[f].tx = r)
      BY <1>5, RowChanges, <2>1, <1>1 DEF RowChange, EvenInv, Commit, Fail, End, Goto
    <2>5. row'[Doomed(r)].is = "gone" \/ (row'[Doomed(r)].is = "deleting" /\ row'[Doomed(r)].tx = r)
      <3>1. /\ Doomed(r) \in Files /\ row[Doomed(r)].is \in {"live", "gone"}
            /\ row[Doomed(r)] \in RowType /\ row \in [Files -> RowType]
        <4>1. Doomed(r) \in Files
          BY <1>1, <1>5, DoomedType DEF DeleteRow
        <4>2. ctx[r].at \in DOMAIN ctx[r].list
          BY <1>1, <1>5, ListTypes DEF DeleteRow
        <4>3. row[Doomed(r)].is # "none" /\ row[Doomed(r)].is # "deleting"
          BY <1>5, <2>2, <4>2 DEF DeleteRow, Doomed
        <4> QED
          BY <4>1, <4>3 DEF EvenInv, Typed, Rows, RowType
      <3>2. CASE row[Doomed(r)].is = "live"
        <4>1. row'[Doomed(r)] = [row[Doomed(r)] EXCEPT !.is = "deleting", !.tx = r]
          BY <1>5, <3>1, <3>2 DEF DeleteRow
        <4> QED
          BY <3>1, <4>1 DEF RowType
      <3>3. CASE row[Doomed(r)].is = "gone"
        BY <2>4, <3>1, <3>3
      <3> QED
        BY <3>1, <3>2, <3>3
    <2>6. \A i \in DOMAIN ctx[r].list :
            i < ctx[r].at \/ i = ctx[r].at =>
               row'[ctx[r].list[i]].is = "gone"
                 \/ (row'[ctx[r].list[i]].is = "deleting" /\ row'[ctx[r].list[i]].tx = r)
      BY <2>2, <2>4, <2>5 DEF Doomed
    <2> QED
      BY <2>1, <2>3, <2>6
  <1>6. CASE RemoveFile(r)
    <2>1. pc[r] = "remove" /\ pc'[r] = "delete" /\ row' = row
      BY <1>1, <1>6 DEF RemoveFile, Goto, db
    <2>2. ctx'[r].at = ctx[r].at + 1 /\ ctx'[r].list = ctx[r].list
      <3>1. CASE Set(r, "at", ctx[r].at + 1)
        <4>1. ctx'[r] = [ctx[r] EXCEPT !["at"] = ctx[r].at + 1]
          BY <1>1, <3>1 DEF Set
        <4>2. ctx[r].at + 1 \in Nat
          BY <1>1, SetType
        <4> QED
          BY <1>1, <4>1, <4>2, SetType
      <3>2. CASE ctx' = [[x \in Requests |->
                   IF ctx[x].file /\ Content(x) = row[Doomed(r)].content
                     THEN [ctx[x] EXCEPT !.file = FALSE]
                   ELSE ctx[x]] EXCEPT ![r].at = ctx[r].at + 1]
        <4> DEFINE closed == [x \in Requests |->
                   IF ctx[x].file /\ Content(x) = row[Doomed(r)].content
                     THEN [ctx[x] EXCEPT !.file = FALSE]
                   ELSE ctx[x]]
        <4>1. closed[r] \in Ctx /\ closed[r].list = ctx[r].list
          BY <1>1 DEF Ctx
        <4>2. ctx' = [closed EXCEPT ![r] = [closed[r] EXCEPT !.at = ctx[r].at + 1]]
          BY <3>2
        <4>3. DOMAIN closed = Requests
          OBVIOUS
        <4> HIDE DEF closed
        <4>4. ctx'[r] = [closed[r] EXCEPT !.at = ctx[r].at + 1]
          BY <4>2, <4>3
        <4> QED
          BY <4>1, <4>4 DEF Ctx
      <3> QED
        BY <1>6, <3>1, <3>2 DEF RemoveFile
    <2>3. ctx[r].at \in Nat /\ DOMAIN ctx[r].list \subseteq Nat
      BY <1>1, ListTypes
    <2>4. \A i \in DOMAIN ctx[r].list : i < ctx[r].at + 1 => i < ctx[r].at \/ i = ctx[r].at
      BY <2>3
    <2>5. \A i \in DOMAIN ctx[r].list :
            LET w == row[ctx[r].list[i]]
            IN  /\ w.is # "none"
                /\ i < ctx[r].at \/ i = ctx[r].at => w.is = "gone" \/ (w.is = "deleting" /\ w.tx = r)
      BY <2>1 DEF EvenInv, Swept, AtWork
    <2> QED
      BY <2>1, <2>2, <2>4, <2>5
  <1> QED
    BY <1>2, <1>3, <1>4, <1>5, <1>6 DEF Step, Purge

LEMMA SweptNext ==
  ASSUME EvenInv, NEW r \in Requests, Step(r), Course'
  PROVE  Swept'
  <1>1. ASSUME NEW x \in Requests \ {r}
        PROVE  /\ pc'[x] \in {"idle", "list"} => ctx'[x].at = 1
               /\ AtWork(x)' =>
                    \A i \in DOMAIN ctx'[x].list :
                      LET w == row'[ctx'[x].list[i]]
                      IN  /\ w.is # "none"
                          /\ i < ctx'[x].at \/ (i = ctx'[x].at /\ pc'[x] = "remove") =>
                               w.is = "gone" \/ (w.is = "deleting" /\ w.tx = x)
    <2>1. Apart(x)
      BY OthersApart DEF EvenInv, Typed, Step
    <2>2. /\ pc[x] \in {"idle", "list"} => ctx[x].at = 1
          /\ AtWork(x) =>
               \A i \in DOMAIN ctx[x].list :
                 LET w == row[ctx[x].list[i]]
                 IN  /\ w.is # "none"
                     /\ i < ctx[x].at \/ (i = ctx[x].at /\ pc[x] = "remove") =>
                          w.is = "gone" \/ (w.is = "deleting" /\ w.tx = x)
      BY DEF EvenInv, Swept
    <2>3. \A i \in DOMAIN ctx[x].list : ctx[x].list[i] \in Files
      BY ListTypes DEF EvenInv, Typed
    <2>4. Typed
      BY DEF EvenInv
    <2> QED
      BY <1>1, <2>1, <2>2, <2>3, <2>4, SweptRow DEF Apart, AtWork
  <1> QED
    BY <1>1, OwnSwept DEF Swept

\* A step that has nothing to do with content h.
LEMMA EvenFrame ==
  ASSUME EvenInv, NEW h \in Contents, h \notin disturbed, Separate(h)',
         \A x \in Requests :
           /\ Writing(x, h)' <=> Writing(x, h)
           /\ Placing(x, h)' <=> Placing(x, h)
           /\ Writing(x, h) => ctx'[x].file = ctx[x].file,
         disk'[h] = disk[h],
         \A f \in Files : row'[f] = row[f] \/ (row'[f].content # h /\ row[f].content # h),
         \A x \in Requests : AtWork(x)' =>
           /\ ctx'[x].list \in Seq(Files)
           /\ \A i \in DOMAIN ctx'[x].list :
                row'[ctx'[x].list[i]].content = h =>
                  /\ AtWork(x) /\ ctx'[x].list = ctx[x].list
                  /\ i < ctx'[x].at => i < ctx[x].at
  PROVE  Even(h)'
  <1>1. Uploaded(h) /\ Unloaded(h)
    BY DEF EvenInv, Even
  <1>2. \A g \in Files : row'[g].content = h => row'[g] = row[g]
    OBVIOUS
  <1>3. \A g \in Files : row[g].content = h => row'[g] = row[g]
    OBVIOUS
  <1>4. Uploaded(h)'
    <2>1. \A x \in Requests : Writing(x, h)' => ctx'[x].file
      BY <1>1 DEF Uploaded
    <2>2. disk'[h] = "empty" => \E x \in Requests : Writing(x, h)'
      BY <1>1 DEF Uploaded
    <2>3. (\E x \in Requests : Placing(x, h)') => disk'[h] # "none"
      BY <1>1 DEF Uploaded
    <2>4. (\E f \in Files : row'[f].is = "live" /\ row'[f].content = h) => disk'[h] # "none"
      BY <1>1, <1>2 DEF Uploaded
    <2>5. disk'[h] # "none" => \/ \E f \in Visible' : row'[f].content = h
                              \/ \E x \in Requests : Placing(x, h)'
      <3>1. ASSUME NEW f \in Visible, row[f].content = h
            PROVE  f \in Visible' /\ row'[f].content = h
        BY <1>3, <3>1 DEF Visible
      <3> QED
        BY <1>1, <3>1 DEF Uploaded
    <2> QED
      BY <2>1, <2>2, <2>3, <2>4, <2>5 DEF Uploaded
  <1>5. Unloaded(h)'
    <2> SUFFICES ASSUME NEW x \in Requests, AtWork(x)', NEW i \in DOMAIN ctx'[x].list,
                        row'[ctx'[x].list[i]].content = h
                 PROVE  /\ i < ctx'[x].at => disk'[h] = "none"
                        /\ \A g \in Visible' : row'[g].content = h => g = ctx'[x].list[i]
      BY DEF Unloaded
    <2>1. /\ AtWork(x) /\ ctx'[x].list = ctx[x].list /\ (i < ctx'[x].at => i < ctx[x].at)
          /\ ctx[x].list[i] \in Files
      OBVIOUS
    <2>2. row[ctx[x].list[i]].content = h
      BY <1>2, <2>1
    <2>3. /\ i < ctx[x].at => disk[h] = "none"
          /\ \A g \in Visible : row[g].content = h => g = ctx[x].list[i]
      BY <1>1, <2>1, <2>2 DEF Unloaded
    <2>4. \A g \in Visible' : row'[g].content = h => g \in Visible /\ row[g].content = h
      BY <1>2 DEF Visible
    <2> QED
      BY <2>1, <2>3, <2>4
  <1> QED
    BY <1>4, <1>5 DEF Even

\* What a step that leaves h undisturbed has seen of it.
LEMMA Undisturbed ==
  ASSUME EvenInv, Next, NEW h \in Contents, h \notin disturbed'
  PROVE  /\ h \notin disturbed /\ Separate(h)' /\ Separate(h) /\ Uploaded(h) /\ Unloaded(h)
         /\ faults' # faults => h \notin AtHand
  <1>1. h \notin disturbed /\ h \notin Disturbed' /\ (faults' # faults => h \notin AtHand)
    BY DEF Next
  <1>2. Separate(h)'
    BY <1>1 DEF Disturbed, Separate
  <1> QED
    BY <1>1, <1>2 DEF EvenInv, Even

\* No request but one that removes a file closes one of another.
LEMMA FilesStay ==
  ASSUME Course, NEW r \in Requests,
         Begin(r) \/ Upload(r) \/ List(r) \/ DeleteRow(r) \/ Commit(r) \/ Send(r) \/ Fail(r)
  PROVE  \A x \in Requests \ {r} : ctx'[x].file = ctx[x].file
  <1>1. CASE UNCHANGED ctx
    BY <1>1
  <1>2. CASE \E field, value : Set(r, field, value)
    BY <1>2 DEF Set, Course
  <1>3. CASE End(r)
    BY <1>3 DEF End, Course
  <1> QED
    BY <1>1, <1>2, <1>3
       DEF Begin, Upload, Find, Open, Write, Insert, UploadAnswers, List, DeleteRow, Commit, Send,
           Sources, Store, Exists, Attach, Copy, Copied, Refer, AllAttached, Reply, Fail

\* The others as they were, r with no hand on h before and after.
LEMMA AloofStep ==
  ASSUME EvenInv, Typed', NEW r \in Requests, Step(r), ~RemoveFile(r),
         NEW h \in Contents, h \notin disturbed, Separate(h)',
         ~Placing(r, h), ~Placing(r, h)', disk'[h] = disk[h],
         \A f \in Files : row'[f] = row[f] \/ (row'[f].content # h /\ row[f].content # h),
         AtWork(r)' => AtWork(r) /\ ctx' = ctx
  PROVE  Even(h)'
  <1>1. \A x \in Requests \ {r} : Apart(x) /\ ctx'[x].file = ctx[x].file
    BY OthersApart, FilesStay DEF EvenInv, Typed, Step, Purge
  <1>2. \A x \in Requests :
          /\ Writing(x, h)' <=> Writing(x, h)
          /\ Placing(x, h)' <=> Placing(x, h)
          /\ Writing(x, h) => ctx'[x].file = ctx[x].file
    <2> SUFFICES ASSUME NEW x \in Requests
                 PROVE  /\ Writing(x, h)' <=> Writing(x, h)
                        /\ Placing(x, h)' <=> Placing(x, h)
                        /\ Writing(x, h) => ctx'[x].file = ctx[x].file
      OBVIOUS
    <2>1. CASE x = r
      BY <2>1 DEF Writing, Placing, Content
    <2>2. CASE x \in Requests \ {r}
      BY <1>1, <2>2 DEF Writing, Placing, Content, Apart
    <2> QED
      BY <2>1, <2>2
  <1>3. \A x \in Requests : AtWork(x)' =>
          /\ ctx'[x].list \in Seq(Files)
          /\ AtWork(x) /\ ctx'[x].list = ctx[x].list /\ ctx'[x].at = ctx[x].at
    <2>1. \A x \in Requests : ctx'[x].list \in Seq(Files)
      BY DEF Typed, Course, Ctx
    <2> QED
      BY <1>1, <2>1 DEF Apart, AtWork
  <1> QED
    BY <1>2, <1>3, EvenFrame

\* Steps that leave rows and directory alone and have no list.
LEMMA QuietEven ==
  ASSUME EvenInv, Next, Typed', NEW r \in Requests, NEW h \in Contents, h \notin disturbed',
         Begin(r) \/ Find(r) \/ UploadAnswers(r) \/ Send(r)
  PROVE  Even(h)'
  <1>1. UNCHANGED <<row, disk>>
    BY DEF Begin, Find, UploadAnswers, Send, Sources, Store, Exists, Attach, Copy, Copied, Refer,
           AllAttached, Reply, db
  <1>2. /\ pc[r] \notin {"write", "insert"} /\ pc'[r] \notin {"write", "insert", "delete", "remove"}
    <2>1. CASE Begin(r)
      <3>1. PICK j \in RequestJobs : Goto(r, Start(j.op))
        BY <2>1 DEF Begin
      <3>2. Start(j.op) \in {"find", "list", "store", "sources"}
        BY StorageAssumption DEF Start, Ops
      <3> QED
        BY <2>1, <3>1, <3>2 DEF Begin, Goto, EvenInv, Typed, Course
    <2>2. CASE Find(r) \/ UploadAnswers(r) \/ Send(r)
      BY <2>2 DEF Find, UploadAnswers, Send, Sources, Store, Exists, Attach, Copy, Copied, Refer,
                  AllAttached, Reply, Goto, End, EvenInv, Typed, Course
    <2> QED
      BY <2>1, <2>2
  <1>3. ~Placing(r, h) /\ ~Placing(r, h)' /\ ~AtWork(r)'
    BY <1>2 DEF Placing, AtWork
  <1>4. h \notin disturbed /\ Separate(h)'
    BY Undisturbed
  <1>5. Step(r) /\ ~RemoveFile(r)
    BY <1>1 DEF Step, Upload, RemoveFile, Begin, Find, UploadAnswers, Send, Sources, Store, Exists,
                Attach, Copy, Copied, Refer, AllAttached, Reply
  <1> QED
    BY <1>1, <1>3, <1>4, <1>5, AloofStep

\* A request fails: what it had in hand is disturbed.
LEMMA FailEven ==
  ASSUME EvenInv, Next, Typed', NEW r \in Requests, NEW h \in Contents, h \notin disturbed', Fail(r)
  PROVE  Even(h)'
  <1>1. /\ disk' = disk /\ faults' # faults /\ pc'[r] = "done" /\ pc'[r] # pc[r]
    BY DEF Fail, End, Goto, EvenInv, Typed, Course, Rest
  <1>2. h \notin disturbed /\ Separate(h)' /\ ~Uploading(r, h) /\ ~Purging(r, h)
    BY <1>1, Undisturbed DEF AtHand
  <1>3. ~Placing(r, h) /\ ~Placing(r, h)' /\ ~AtWork(r)'
    BY <1>1, <1>2 DEF Placing, Uploading, AtWork
  <1>4. \A f \in Files : row'[f] = row[f] \/ (row'[f].content # h /\ row[f].content # h)
    <2> SUFFICES ASSUME NEW f \in Files, row'[f] # row[f]
                 PROVE  row'[f].content # h /\ row[f].content # h
      OBVIOUS
    <2>1. row'[f].content = row[f].content /\ f \in Listed(r)
      <3>1. ~Insert(r) /\ ~DeleteRow(r)
        BY <1>1 DEF Insert, DeleteRow
      <3> QED
        BY <3>1, RowChanges DEF RowChange, EvenInv, Step
    <2> QED
      BY <1>2, <2>1 DEF Purging
  <1>5. Step(r) /\ ~RemoveFile(r)
    BY <1>1 DEF Step, RemoveFile, Goto, EvenInv, Typed, Course
  <1> QED
    BY <1>1, <1>2, <1>3, <1>4, <1>5, AloofStep

\* r is at an upload of h, so no purge is.
LEMMA NobodyPurges ==
  ASSUME EvenInv, NEW h \in Contents, Separate(h), NEW r \in Requests, Uploading(r, h)
  PROVE  \A x \in Requests : AtWork(x) =>
           \A i \in DOMAIN ctx[x].list : row[ctx[x].list[i]].content # h
  BY ListTypes DEF EvenInv, Typed, Separate, Purging

\* Rows as they were: a list is still of none of h.
LEMMA NothingListed ==
  ASSUME EvenInv, Typed', NEW r \in Requests, Open(r) \/ Write(r) \/ Insert(r),
         NEW h \in Contents, Separate(h), Content(r) = h
  PROVE  Unloaded(h)'
  <1>1. Uploading(r, h) /\ pc'[r] \notin {"delete", "remove"} /\ Step(r)
    BY DEF Open, Write, Insert, Uploading, Goto, End, EvenInv, Typed, Course, Step, Upload
  <1>2. \A x \in Requests \ {r} : Apart(x)
    BY <1>1, OthersApart DEF EvenInv, Typed, Step
  <1> SUFFICES ASSUME NEW x \in Requests, AtWork(x)', NEW i \in DOMAIN ctx'[x].list,
                      row'[ctx'[x].list[i]].content = h
               PROVE  FALSE
    BY DEF Unloaded
  <1> DEFINE f == ctx[x].list[i]
  <1>3. x # r /\ AtWork(x) /\ ctx'[x].list = ctx[x].list
    BY <1>1, <1>2 DEF AtWork, Apart
  <1>4. f \in Files /\ row[f].is # "none"
    BY <1>3, ListTypes DEF EvenInv, Typed, Swept
  <1>5. row[f].content # h
    BY <1>1, <1>3, NobodyPurges
  <1>6. row'[f] = row[f]
    <2>1. ~DeleteRow(r) /\ ~Commit(r) /\ ~Fail(r)
      <3>1. faults' = faults /\ faults \in Nat
        BY DEF Open, Write, Insert, EvenInv, Typed, Rest
      <3>2. faults + 1 # faults
        BY <3>1
      <3>3. ~Fail(r)
        BY <3>1, <3>2 DEF Fail
      <3> QED
        BY <1>1, <3>3 DEF Uploading, DeleteRow, Commit
    <2> HIDE DEF f
    <2> QED
      BY <1>1, <1>4, <2>1, RowChanges DEF RowChange, EvenInv
  <1> QED
    BY <1>3, <1>5, <1>6

LEMMA WriteEven ==
  ASSUME EvenInv, Next, Typed', NEW r \in Requests, NEW h \in Contents, h \notin disturbed',
         Open(r) \/ Write(r)
  PROVE  Even(h)'
  <1>1. h \notin disturbed /\ Separate(h)' /\ Separate(h) /\ Uploaded(h)
    BY Undisturbed
  <1>2. /\ UNCHANGED <<row, job>> /\ Step(r) /\ ~RemoveFile(r)
        /\ pc[r] \in {"open", "write"} /\ pc'[r] \in {"write", "insert"}
    BY DEF Open, Write, Goto, db, EvenInv, Typed, Course, Step, Upload, RemoveFile
  <1>3. \A x \in Requests \ {r} : Apart(x) /\ ctx'[x].file = ctx[x].file
    BY <1>2, OthersApart, FilesStay DEF EvenInv, Typed, Step, Upload
  <1>4. ctx'[r].at = ctx[r].at /\ ctx'[r].file = (pc'[r] = "write") /\ Content(r)' = Content(r)
    <2>1. \A b \in BOOLEAN : Set(r, "file", b) => ctx'[r].at = ctx[r].at /\ ctx'[r].file = b
      BY DEF Set, EvenInv, Typed, Course, Ctx
    <2>2. ctx'[r].at = ctx[r].at /\ ctx'[r].file = (pc'[r] = "write")
      BY <2>1 DEF Open, Write, Goto, EvenInv, Typed, Course
    <2> QED
      BY <1>2, <2>2 DEF Content
  <1>5. CASE Content(r) # h
    <2>1. ~Placing(r, h) /\ ~Placing(r, h)' /\ ~AtWork(r)'
      BY <1>2, <1>4, <1>5 DEF Placing, AtWork
    <2>2. disk'[h] = disk[h]
      BY <1>5 DEF Open, Write, EvenInv, Typed, Rest
    <2> QED
      BY <1>1, <1>2, <2>1, <2>2, AloofStep
  <1>6. CASE Content(r) = h
    <2>1. Unloaded(h)'
      BY <1>1, <1>6, NothingListed
    <2>2. Placing(r, h)' /\ disk'[h] # "none" /\ (disk'[h] = "empty" => Writing(r, h)')
      <3>1. CASE Open(r)
        BY <1>4, <1>6, <3>1 DEF Open, Goto, Placing, Writing, EvenInv, Typed, Course, Rest
      <3>2. CASE Write(r)
        <4>1. ctx[r].file
          BY <1>1, <1>6, <3>2 DEF Uploaded, Write, Writing
        <4> QED
          BY <1>4, <1>6, <3>2, <4>1 DEF Write, Goto, Placing, Writing, EvenInv, Typed, Course, Rest
      <3> QED
        BY <3>1, <3>2
    <2>3. ASSUME NEW x \in Requests, Writing(x, h)'
          PROVE  ctx'[x].file
      <3>1. CASE x = r
        BY <1>4, <2>3, <3>1 DEF Writing
      <3>2. CASE x \in Requests \ {r}
        <4>1. Writing(x, h)
          BY <1>3, <2>3, <3>2 DEF Writing, Content, Apart
        <4> QED
          BY <1>1, <1>3, <3>2, <4>1 DEF Uploaded
      <3> QED
        BY <3>1, <3>2
    <2> QED
      BY <1>1, <2>1, <2>2, <2>3 DEF Even, Uploaded
  <1> QED
    BY <1>5, <1>6

LEMMA InsertEven ==
  ASSUME EvenInv, Next, Typed', NEW r \in Requests, NEW h \in Contents, h \notin disturbed', Insert(r)
  PROVE  Even(h)'
  <1>1. h \notin disturbed /\ Separate(h)' /\ Separate(h) /\ Uploaded(h)
    BY Undisturbed
  <1>2. /\ UNCHANGED disk /\ Step(r) /\ ~RemoveFile(r) /\ pc[r] = "insert" /\ pc'[r] \in {"find", "done"}
    BY DEF Insert, Goto, End, EvenInv, Typed, Course, Step, Upload, RemoveFile
  <1>3. \A x \in Requests \ {r} : Apart(x) /\ ctx'[x].file = ctx[x].file
    BY <1>2, OthersApart, FilesStay DEF EvenInv, Typed, Step, Upload
  <1>4. ~Placing(r, h)' /\ ~AtWork(r)'
    BY <1>2 DEF Placing, AtWork
  <1>5. row \in [Files -> RowType] /\ None \notin Contents
    BY StorageAssumption DEF EvenInv, Typed, Rows
  <1>6. CASE Content(r) # h
    <2>1. ~Placing(r, h)
      BY <1>6 DEF Placing
    <2>2. \A f \in Files : row'[f] = row[f] \/ (row'[f].content # h /\ row[f].content # h)
      <3>1. CASE UNCHANGED row
        BY <3>1
      <3>2. CASE \E f \in Files : row[f] = NoRow /\ row' = [row EXCEPT ![f] = RowOf(Content(r))]
        BY <1>5, <1>6, <3>2 DEF NoRow, RowOf
      <3> QED
        BY <3>1, <3>2 DEF Insert
    <2> QED
      BY <1>1, <1>2, <1>4, <2>1, <2>2, AloofStep
  <1>7. CASE Content(r) = h
    <2>1. Unloaded(h)'
      BY <1>1, <1>7, NothingListed
    <2>2. Placing(r, h) /\ ~Writing(r, h) /\ disk[h] # "none"
      BY <1>1, <1>2, <1>7 DEF Placing, Writing, Uploaded
    <2>3. \E f \in Visible' : row'[f].content = h
      <3>1. CASE UNCHANGED row /\ {f \in Visible : row[f].content = Content(r)} # {}
        BY <1>7, <3>1 DEF Visible
      <3>2. CASE \E f \in Files : row[f] = NoRow /\ row' = [row EXCEPT ![f] = RowOf(Content(r))]
        <4>1. PICK f \in Files : row' = [row EXCEPT ![f] = RowOf(Content(r))]
          BY <3>2
        <4>2. row'[f].is = "live" /\ row'[f].content = h
          BY <1>5, <1>7, <4>1 DEF RowOf
        <4> QED
          BY <4>2 DEF Visible
      <3> QED
        BY <3>1, <3>2 DEF Insert
    <2>4. ASSUME NEW x \in Requests, Writing(x, h)'
          PROVE  ctx'[x].file
      <3>1. x \in Requests \ {r}
        BY <1>2, <2>4 DEF Writing
      <3>2. Writing(x, h)
        BY <1>3, <2>4, <3>1 DEF Writing, Content, Apart
      <3> QED
        BY <1>1, <1>3, <3>1, <3>2 DEF Uploaded
    <2>5. ASSUME NEW x \in Requests, Writing(x, h)
          PROVE  Writing(x, h)'
      <3>1. x \in Requests \ {r}
        BY <2>2, <2>5
      <3> QED
        BY <1>3, <2>5, <3>1 DEF Writing, Content, Apart
    <2>6. disk'[h] = "empty" => \E x \in Requests : Writing(x, h)'
      BY <1>1, <1>2, <2>5 DEF Uploaded
    <2> QED
      BY <1>1, <1>2, <2>1, <2>2, <2>3, <2>4, <2>6 DEF Even, Uploaded
  <1> QED
    BY <1>6, <1>7

\* The steps of a purge: uploads go on as they were, but for the file removed.
LEMMA PurgeAside ==
  ASSUME EvenInv, NEW r \in Requests, Purge(r), NEW h
  PROVE  /\ \A x \in Requests \ {r} : Apart(x)
         /\ ~Placing(r, h) /\ ~Placing(r, h)' /\ ~Writing(r, h) /\ ~Writing(r, h)'
         /\ \A x \in Requests : Writing(x, h)' <=> Writing(x, h)
         /\ \A x \in Requests : Placing(x, h)' <=> Placing(x, h)
  <1>1. \A x \in Requests \ {r} : Apart(x)
    BY OthersApart DEF EvenInv, Typed
  <1>2. pc[r] \notin {"write", "insert"} /\ pc'[r] \notin {"write", "insert"}
    BY DEF Purge, List, DeleteRow, RemoveFile, Commit, Goto, End, EvenInv, Typed, Course
  <1>3. ~Placing(r, h) /\ ~Placing(r, h)' /\ ~Writing(r, h) /\ ~Writing(r, h)'
    BY <1>2 DEF Placing, Writing
  <1>4. ASSUME NEW x \in Requests
        PROVE  (Writing(x, h)' <=> Writing(x, h)) /\ (Placing(x, h)' <=> Placing(x, h))
    <2>1. CASE x = r
      BY <1>2, <2>1 DEF Placing, Writing
    <2>2. CASE x \in Requests \ {r}
      BY <1>1, <2>2 DEF Placing, Writing, Content, Apart
    <2> QED
      BY <2>1, <2>2
  <1> QED
    BY <1>1, <1>3, <1>4

LEMMA ListEven ==
  ASSUME EvenInv, Next, Typed', NEW r \in Requests, NEW h \in Contents, h \notin disturbed', List(r)
  PROVE  Even(h)'
  <1>1. h \notin disturbed /\ Separate(h)' /\ Uploaded(h) /\ Unloaded(h)
    BY Undisturbed
  <1>2. UNCHANGED <<row, disk>> /\ pc'[r] = "delete" /\ Purge(r) /\ Step(r)
    BY DEF List, Goto, db, EvenInv, Typed, Course, Purge, Step
  <1>3. /\ \A x \in Requests \ {r} : Apart(x)
        /\ \A x \in Requests : Writing(x, h)' <=> Writing(x, h)
        /\ \A x \in Requests : Placing(x, h)' <=> Placing(x, h)
        /\ ~Writing(r, h)
    BY <1>2, PurgeAside
  <1>4. \A x \in Requests \ {r} : ctx'[x].file = ctx[x].file
    BY FilesStay DEF EvenInv, Typed
  <1>5. Uploaded(h)'
    <2>1. \A x \in Requests : Writing(x, h)' => ctx'[x].file
      <3> SUFFICES ASSUME NEW x \in Requests, Writing(x, h)' PROVE ctx'[x].file
        OBVIOUS
      <3>1. Writing(x, h) /\ x \in Requests \ {r}
        BY <1>3
      <3> QED
        BY <1>1, <1>4, <3>1 DEF Uploaded
    <2> QED
      BY <1>1, <1>2, <1>3, <2>1 DEF Uploaded, Visible
  <1>6. Unloaded(h)'
    <2> SUFFICES ASSUME NEW x \in Requests, AtWork(x)', NEW i \in DOMAIN ctx'[x].list,
                        row[ctx'[x].list[i]].content = h
                 PROVE  /\ i < ctx'[x].at => disk[h] = "none"
                        /\ \A g \in Visible : row[g].content = h => g = ctx'[x].list[i]
      BY <1>2 DEF Unloaded, Visible
    <2>1. CASE x \in Requests \ {r}
      BY <1>1, <1>3, <2>1 DEF Unloaded, Apart, AtWork
    <2>2. CASE x = r
      <3>1. Listed(r)' \subseteq Visible
        BY ListedNew DEF EvenInv, Typed, Unreferenced
      <3>2. ctx'[r].list \in Seq(Files)
        BY DEF Typed, Course, Ctx
      <3>3. ctx'[r].list[i] \in Visible
        BY <1>2, <2>2, <3>1, <3>2 DEF Listed, Range
      <3>4. ~(i < ctx'[r].at)
        <4>1. ctx[r].at = 1
          BY DEF List, EvenInv, Swept
        <4>2. \A v \in Seq(Files) : Set(r, "list", v) => ctx'[r].at = 1
          BY <4>1, SetType DEF Set, EvenInv, Typed, Course
        <4>3. Orders(Unreferenced) \subseteq Seq(Files)
          BY OrderType DEF Unreferenced, Visible
        <4>4. ctx'[r].at = 1
          BY <4>2, <4>3 DEF List
        <4> QED
          BY <2>2, <3>2, <4>4
      <3> QED
        BY <2>2, <3>3, <3>4 DEF EvenInv, OneRow, Visible
    <2> QED
      BY <2>1, <2>2
  <1> QED
    BY <1>1, <1>5, <1>6 DEF Even

LEMMA DeleteEven ==
  ASSUME EvenInv, Next, Typed', NEW r \in Requests, NEW h \in Contents, h \notin disturbed', DeleteRow(r)
  PROVE  Even(h)'
  <1>1. h \notin disturbed /\ Separate(h)' /\ Uploaded(h) /\ Unloaded(h)
    BY Undisturbed
  <1>2. UNCHANGED <<disk, ctx, faults>> /\ AtWork(r) /\ AtWork(r)' /\ Purge(r) /\ Step(r)
    BY DEF DeleteRow, Goto, EvenInv, Typed, Course, Purge, Step, AtWork
  <1>3. /\ \A x \in Requests \ {r} : Apart(x)
        /\ \A x \in Requests : Writing(x, h)' <=> Writing(x, h)
        /\ \A x \in Requests : Placing(x, h)' <=> Placing(x, h)
    BY <1>2, PurgeAside
  <1>4. \A f \in Files :
          /\ row'[f].content = row[f].content
          /\ row'[f].is = "live" => row[f].is = "live"
          /\ f \in Visible' <=> f \in Visible
    <2>1. ~Insert(r) /\ ~Commit(r) /\ ~Fail(r)
      <3>1. pc'[r] = "remove"
        BY DEF DeleteRow, Goto, EvenInv, Typed, Course
      <3> QED
        BY <3>1 DEF Insert, Commit, Fail, DeleteRow, Goto, End, EvenInv, Typed, Course
    <2> QED
      BY <1>2, <2>1, RowChanges DEF RowChange, Visible, EvenInv
  <1>5. Uploaded(h)'
    <2>1. \A f \in Visible : f \in Files
      BY DEF Visible
    <2> QED
      BY <1>1, <1>2, <1>3, <1>4, <2>1 DEF Uploaded
  <1>6. Unloaded(h)'
    <2> SUFFICES ASSUME NEW x \in Requests, AtWork(x)', NEW i \in DOMAIN ctx[x].list,
                        row'[ctx[x].list[i]].content = h
                 PROVE  /\ i < ctx[x].at => disk[h] = "none"
                        /\ \A g \in Visible' : row'[g].content = h => g = ctx[x].list[i]
      BY <1>2 DEF Unloaded
    <2>1. AtWork(x)
      BY <1>2, <1>3 DEF Apart, AtWork
    <2>2. ctx[x].list[i] \in Files
      BY ListTypes DEF EvenInv, Typed
    <2>3. /\ i < ctx[x].at => disk[h] = "none"
          /\ \A g \in Visible : row[g].content = h => g = ctx[x].list[i]
      BY <1>1, <1>4, <2>1, <2>2 DEF Unloaded
    <2>4. \A g \in Visible' : g \in Visible /\ row'[g].content = row[g].content
      BY <1>4 DEF Visible
    <2> QED
      BY <2>3, <2>4
  <1> QED
    BY <1>1, <1>5, <1>6 DEF Even

\* What a removal does to the contexts.
LEMMA RemoveCtx ==
  ASSUME Course, Rest, NEW r \in Requests, RemoveFile(r)
  PROVE  /\ UNCHANGED <<db, job>> /\ pc[r] = "remove" /\ pc'[r] = "delete"
         /\ ctx'[r].at = ctx[r].at + 1 /\ ctx'[r].list = ctx[r].list
         /\ \A x \in Requests \ {r} : ctx'[x].list = ctx[x].list
         /\ \A x \in Requests :
              Content(x) # row[Doomed(r)].content => ctx'[x].file = ctx[x].file
         /\ \/ faults' # faults /\ UNCHANGED disk
            \/ disk' = Unlinked(row[Doomed(r)].content)
  <1>1. ctx \in [Requests -> Ctx] /\ pc \in [Requests -> Pcs]
    BY DEF Course
  <1>2. UNCHANGED <<db, job>> /\ pc[r] = "remove" /\ pc'[r] = "delete"
    BY <1>1 DEF RemoveFile, Goto
  <1> DEFINE closed == [x \in Requests |->
               IF ctx[x].file /\ Content(x) = row[Doomed(r)].content
                 THEN [ctx[x] EXCEPT !.file = FALSE]
               ELSE ctx[x]]
  <1>3. CASE disk' = Unlinked(row[Doomed(r)].content) /\ ctx' = [closed EXCEPT ![r].at = ctx[r].at + 1]
    <2>1. \A x \in Requests : /\ closed[x] \in Ctx /\ closed[x].list = ctx[x].list
                              /\ Content(x) # row[Doomed(r)].content => closed[x].file = ctx[x].file
      BY <1>1 DEF Ctx
    <2>2. ctx' = [closed EXCEPT ![r] = [closed[r] EXCEPT !.at = ctx[r].at + 1]]
      BY <1>3
    <2>3. DOMAIN closed = Requests /\ closed = [x \in Requests |-> closed[x]]
      OBVIOUS
    <2> HIDE DEF closed
    <2>4. /\ ctx'[r] = [closed[r] EXCEPT !.at = ctx[r].at + 1]
          /\ \A x \in Requests \ {r} : ctx'[x] = closed[x]
      BY <2>2, <2>3
    <2>5. ctx'[r].at = ctx[r].at + 1 /\ ctx'[r].list = ctx[r].list /\ ctx'[r].file = closed[r].file
      BY <2>1, <2>4 DEF Ctx
    <2>6. \A x \in Requests : ctx'[x].file = closed[x].file
      BY <2>4, <2>5
    <2> QED
      BY <1>2, <1>3, <2>1, <2>4, <2>5, <2>6
  <1>4. CASE faults < MaxFaults /\ faults' = faults + 1 /\ Set(r, "at", ctx[r].at + 1) /\ UNCHANGED disk
    <2>1. ctx'[r] = [ctx[r] EXCEPT !["at"] = ctx[r].at + 1] /\ \A x \in Requests \ {r} : ctx'[x] = ctx[x]
      BY <1>1, <1>4 DEF Set
    <2>2. ctx'[r].at = ctx[r].at + 1 /\ ctx'[r].list = ctx[r].list /\ ctx'[r].file = ctx[r].file
      <3>1. ctx[r] \in [at : Nat, file : BOOLEAN, list : Seq(Files), source : Requests \cup {None}]
        BY <1>1 DEF Ctx
      <3> QED
        BY <2>1, <3>1
    <2>3. \A x \in Requests : ctx'[x].file = ctx[x].file
      BY <2>1, <2>2
    <2>4. faults' # faults
      BY <1>4 DEF Rest
    <2> QED
      BY <1>2, <1>4, <2>1, <2>2, <2>3, <2>4
  <1> QED
    BY <1>3, <1>4 DEF RemoveFile

LEMMA RemoveEven ==
  ASSUME EvenInv, Next, Typed', NEW r \in Requests, NEW h \in Contents, h \notin disturbed', RemoveFile(r)
  PROVE  Even(h)'
  <1> DEFINE f == Doomed(r)
  <1>1. /\ h \notin disturbed /\ Separate(h)' /\ Separate(h) /\ Uploaded(h) /\ Unloaded(h)
        /\ faults' # faults => h \notin AtHand
    BY Undisturbed
  <1>2. /\ UNCHANGED <<db, job>> /\ pc[r] = "remove" /\ pc'[r] = "delete"
        /\ ctx'[r].at = ctx[r].at + 1 /\ \A x \in Requests : ctx'[x].list = ctx[x].list
        /\ \A x \in Requests : Content(x) # row[f].content => ctx'[x].file = ctx[x].file
        /\ (faults' # faults /\ UNCHANGED disk) \/ disk' = Unlinked(row[f].content)
    BY RemoveCtx DEF EvenInv, Typed
  <1>3. /\ \A x \in Requests \ {r} : Apart(x)
        /\ \A x \in Requests : Writing(x, h)' <=> Writing(x, h)
        /\ \A x \in Requests : Placing(x, h)' <=> Placing(x, h)
    BY PurgeAside DEF Purge
  <1>4. /\ f \in Files /\ f \in Listed(r) /\ f = ctx[r].list[ctx[r].at]
        /\ ctx[r].at \in DOMAIN ctx[r].list /\ ctx[r].at \in Nat /\ DOMAIN ctx[r].list \subseteq Nat
    <2>1. f \in Files /\ f \in Listed(r)
      BY <1>2, DoomedType DEF EvenInv, Typed
    <2>2. ctx[r].at <= Len(ctx[r].list)
      BY <1>2 DEF EvenInv, Typed, Course, Fits
    <2> QED
      BY <2>1, <2>2, ListTypes DEF Doomed, EvenInv, Typed
  <1>5. \A x \in Requests : /\ ctx[x].list \in Seq(Files)
                            /\ AtWork(x)' => AtWork(x)
                            /\ \A i \in DOMAIN ctx[x].list : i < ctx'[x].at => i < ctx[x].at \/ (x = r /\ i = ctx[r].at)
    <2> SUFFICES ASSUME NEW x \in Requests
                 PROVE  /\ ctx[x].list \in Seq(Files)
                        /\ AtWork(x)' => AtWork(x)
                        /\ \A i \in DOMAIN ctx[x].list : i < ctx'[x].at => i < ctx[x].at \/ (x = r /\ i = ctx[r].at)
      OBVIOUS
    <2>1. ctx[x].list \in Seq(Files)
      BY ListTypes DEF EvenInv, Typed
    <2>2. CASE x = r
      BY <1>2, <1>4, <2>1, <2>2 DEF AtWork
    <2>3. CASE x \in Requests \ {r}
      BY <1>3, <2>1, <2>3 DEF Apart, AtWork
    <2> QED
      BY <2>2, <2>3
  <1> HIDE DEF f
  <1>6. CASE faults' # faults /\ UNCHANGED disk
    <2>1. ~Purging(r, h) /\ row[f].content # h
      BY <1>1, <1>2, <1>4, <1>6 DEF AtHand, Purging
    <2>2. \A i \in DOMAIN ctx[r].list : row[ctx[r].list[i]].content # h
      BY <1>2, <2>1, ListTypes DEF Purging, AtWork, EvenInv, Typed
    <2>3. \A x \in Requests : Writing(x, h) => ctx'[x].file = ctx[x].file
      BY <1>2, <2>1 DEF Writing
    <2> QED
      BY <1>1, <1>2, <1>3, <1>5, <1>6, <2>2, <2>3, EvenFrame DEF db
  <1>7. CASE disk' = Unlinked(row[f].content) /\ row[f].content # h
    <2>1. disk'[h] = disk[h]
      BY <1>7 DEF Unlinked, EvenInv, Typed, Rest
    <2>2. \A x \in Requests : Writing(x, h) => ctx'[x].file = ctx[x].file
      BY <1>2, <1>7 DEF Writing
    <2>3. \A x \in Requests : \A i \in DOMAIN ctx[x].list :
            row[ctx[x].list[i]].content = h => (i < ctx'[x].at => i < ctx[x].at)
      BY <1>4, <1>5, <1>7
    <2> QED
      BY <1>1, <1>2, <1>3, <1>5, <2>1, <2>2, <2>3, EvenFrame DEF db
  <1>8. CASE disk' = Unlinked(row[f].content) /\ row[f].content = h
    <2>1. disk'[h] = "none"
      BY <1>8 DEF Unlinked, EvenInv, Typed, Rest
    <2>2. \A x \in Requests : ~Uploading(x, h)
      BY <1>1, <1>4, <1>8 DEF Separate, Purging
    <2>3. \A x \in Requests : ~Writing(x, h)' /\ ~Placing(x, h)'
      <3>1. \A x \in Requests : ~Writing(x, h) /\ ~Placing(x, h)
        BY <2>2 DEF Uploading, Writing, Placing
      <3> QED
        BY <1>3, <3>1
    <2>4. \A g \in Files : row[g].content = h => row[g].is # "live"
      <3> SUFFICES ASSUME NEW g \in Files, row[g].content = h, row[g].is = "live" PROVE FALSE
        OBVIOUS
      <3>1. g = f
        BY <1>1, <1>2, <1>4, <1>8 DEF Unloaded, AtWork, Visible
      <3>2. row[f].is # "live"
        BY <1>2, <1>4 DEF EvenInv, Swept, AtWork
      <3> QED
        BY <3>1, <3>2
    <2>5. Uploaded(h)'
      BY <1>2, <2>1, <2>3, <2>4 DEF Uploaded, db
    <2>6. Unloaded(h)'
      BY <1>1, <1>2, <1>5, <2>1 DEF Unloaded, Visible, db
    <2> QED
      BY <1>1, <2>5, <2>6 DEF Even
  <1> QED
    BY <1>2, <1>6, <1>7, <1>8

LEMMA CommitEven ==
  ASSUME EvenInv, Next, Typed', NEW r \in Requests, NEW h \in Contents, h \notin disturbed', Commit(r)
  PROVE  Even(h)'
  <1>1. h \notin disturbed /\ Separate(h)' /\ Uploaded(h) /\ Unloaded(h)
    BY Undisturbed
  <1>2. /\ UNCHANGED disk /\ pc[r] = "delete" /\ AtWork(r) /\ ~AtWork(r)' /\ Purge(r) /\ Step(r)
        /\ ctx[r].at > Len(ctx[r].list)
    BY DEF Commit, End, Goto, EvenInv, Typed, Course, Purge, Step, AtWork
  <1>3. /\ \A x \in Requests \ {r} : Apart(x)
        /\ \A x \in Requests : Writing(x, h)' <=> Writing(x, h)
        /\ \A x \in Requests : Placing(x, h)' <=> Placing(x, h)
        /\ ~Writing(r, h)
    BY <1>2, PurgeAside
  <1>4. \A x \in Requests \ {r} : ctx'[x].file = ctx[x].file
    BY FilesStay DEF EvenInv, Typed
  <1>5. \A f \in Files :
          \/ row'[f] = row[f]
          \/ /\ row'[f].content = row[f].content /\ row[f].is = "deleting" /\ row'[f].is = "gone"
             /\ f \in Listed(r)
    <2>1. ~Insert(r) /\ ~DeleteRow(r) /\ ~Fail(r)
      <3>1. pc'[r] = "done" /\ faults' = faults /\ faults \in Nat
        BY DEF Commit, End, Goto, EvenInv, Typed, Course, Rest
      <3>2. faults + 1 # faults
        BY <3>1
      <3>3. ~Fail(r)
        BY <3>1, <3>2 DEF Fail
      <3>4. ~DeleteRow(r)
        BY <3>1 DEF DeleteRow, Goto, EvenInv, Typed, Course
      <3> QED
        BY <1>2, <3>3, <3>4 DEF Insert
    <2> QED
      BY <1>2, <2>1, RowChanges DEF RowChange, EvenInv
  <1>6. \A f \in Listed(r) : row[f].content = h => disk[h] = "none"
    <2>1. /\ ctx[r].at \in Nat /\ ctx[r].list \in Seq(Files)
          /\ DOMAIN ctx[r].list = 1..Len(ctx[r].list)
          /\ Listed(r) = {ctx[r].list[i] : i \in DOMAIN ctx[r].list}
      BY <1>2, ListTypes DEF EvenInv, Typed
    <2>2. \A i \in DOMAIN ctx[r].list : i < ctx[r].at
      BY <1>2, <2>1
    <2> QED
      BY <1>1, <1>2, <2>1, <2>2 DEF Unloaded
  <1>7. Uploaded(h)'
    <2>1. \A x \in Requests : Writing(x, h)' => ctx'[x].file
      <3> SUFFICES ASSUME NEW x \in Requests, Writing(x, h)' PROVE ctx'[x].file
        OBVIOUS
      <3>1. Writing(x, h) /\ x \in Requests \ {r}
        BY <1>3
      <3> QED
        BY <1>1, <1>4, <3>1 DEF Uploaded
    <2>2. ASSUME NEW f \in Files, row'[f].is = "live", row'[f].content = h
          PROVE  disk[h] # "none"
      BY <1>1, <1>5, <2>2 DEF Uploaded
    <2>3. ASSUME NEW f \in Visible, row[f].content = h, disk[h] # "none"
          PROVE  f \in Visible' /\ row'[f].content = h
      <3>1. f \notin Listed(r)
        BY <1>6, <2>3
      <3> QED
        BY <1>5, <2>3, <3>1 DEF Visible
    <2> QED
      BY <1>1, <1>2, <1>3, <2>1, <2>2, <2>3 DEF Uploaded
  <1>8. Unloaded(h)'
    <2> SUFFICES ASSUME NEW x \in Requests, AtWork(x)', NEW i \in DOMAIN ctx'[x].list,
                        row'[ctx'[x].list[i]].content = h
                 PROVE  /\ i < ctx'[x].at => disk[h] = "none"
                        /\ \A g \in Visible' : row'[g].content = h => g = ctx'[x].list[i]
      BY <1>2 DEF Unloaded
    <2>1. x \in Requests \ {r}
      BY <1>2
    <2>2. AtWork(x) /\ ctx'[x].list = ctx[x].list /\ ctx'[x].at = ctx[x].at
      BY <1>3, <2>1 DEF Apart, AtWork
    <2>3. ctx[x].list[i] \in Files
      BY <2>2, ListTypes DEF EvenInv, Typed
    <2>4. row[ctx[x].list[i]].content = h
      BY <1>5, <2>2, <2>3
    <2>5. \A g \in Visible' : g \in Visible /\ row'[g].content = row[g].content
      BY <1>5 DEF Visible
    <2> QED
      BY <1>1, <2>2, <2>4, <2>5 DEF Unloaded
  <1> QED
    BY <1>1, <1>7, <1>8 DEF Even

LEMMA EvenInvInit == Init => EvenInv
  <1> SUFFICES ASSUME Init PROVE EvenInv
    OBVIOUS
  <1>1. Typed
    BY TypedInit
  <1>2. OneRow
    BY DEF Init, OneRow, Visible, RowOf, NoRow
  <1>3. Swept
    BY DEF Init, Swept, Fresh, AtWork
  <1>4. ASSUME NEW h \in Contents
        PROVE  Even(h)
    <2>1. Uploaded(h)
      <3>1. 1 \in Files
        BY StorageAssumption DEF Files
      <3>2. CASE h = Content0
        <4>1. row[1].is = "live" /\ row[1].content = h /\ disk[h] = "whole"
          BY <3>1, <3>2 DEF Init, RowOf
        <4>2. 1 \in Visible
          BY <3>1, <4>1 DEF Visible
        <4> QED
          BY <4>1, <4>2 DEF Init, Uploaded, Writing
      <3>3. CASE h # Content0
        <4>1. disk[h] = "none" /\ \A f \in Files : row[f].is = "live" => row[f].content = Content0
          BY <1>4, <3>3 DEF Init, RowOf, NoRow
        <4> QED
          BY <3>3, <4>1 DEF Init, Uploaded, Writing, Placing
      <3> QED
        BY <3>2, <3>3
    <2>2. Unloaded(h) /\ Separate(h)
      BY DEF Init, Unloaded, AtWork, Separate, Uploading
    <2> QED
      BY <2>1, <2>2 DEF Even
  <1> QED
    BY <1>1, <1>2, <1>3, <1>4 DEF EvenInv

LEMMA EvenInvNext == EvenInv /\ [Next]_vars => EvenInv'
  <1> SUFFICES ASSUME EvenInv, [Next]_vars PROVE EvenInv'
    OBVIOUS
  <1>1. Typed'
    BY TypedNext DEF EvenInv
  <1>2. CASE UNCHANGED vars
    <2>1. OneRow' /\ Swept'
      BY <1>2 DEF EvenInv, OneRow, Swept, Visible, AtWork, vars, db
    <2>2. \A h \in Contents : Even(h)'
      BY <1>2 DEF EvenInv, Even, Uploaded, Unloaded, Separate, Writing, Placing, Visible, AtWork,
                  Uploading, Purging, Listed, Content, vars, db
    <2> QED
      BY <1>1, <2>1, <2>2 DEF EvenInv
  <1>3. CASE Next /\ \E r \in Requests : Step(r)
    <2>1. PICK r \in Requests : Step(r)
      BY <1>3
    <2>2. OneRow' /\ Swept'
      BY <1>1, <2>1, OneRowNext, SweptNext DEF EvenInv, Typed
    <2>3. ASSUME NEW h \in Contents
          PROVE  Even(h)'
      <3>1. CASE h \in disturbed'
        BY <3>1 DEF Even
      <3>2. CASE h \notin disturbed'
        BY <1>1, <1>3, <2>1, <3>2, QuietEven, FailEven, WriteEven, InsertEven, ListEven, DeleteEven,
           RemoveEven, CommitEven
           DEF Step, Upload, Purge
      <3> QED
        BY <3>1, <3>2
    <2> QED
      BY <1>1, <2>2, <2>3 DEF EvenInv
  <1>4. CASE Next /\ Clear
    <2>1. UNCHANGED <<row, disk, pc, job, ctx>>
      BY <1>4 DEF Clear
    <2>2. OneRow' /\ Swept'
      BY <2>1 DEF EvenInv, OneRow, Swept, Visible, AtWork
    <2>3. ASSUME NEW h \in Contents
          PROVE  Even(h)'
      <3>1. h \notin disturbed' => h \notin disturbed
        BY <1>4 DEF Next
      <3> QED
        BY <2>1, <3>1 DEF EvenInv, Even, Uploaded, Unloaded, Separate, Writing, Placing, Visible,
                          AtWork, Uploading, Purging, Listed, Content
    <2> QED
      BY <1>1, <2>2, <2>3 DEF EvenInv
  <1> QED
    BY <1>2, <1>3, <1>4 DEF Next, Step

LEMMA EvenInvMatches == EvenInv => FilesMatchRows
  <1> SUFFICES ASSUME EvenInv, NEW h \in Contents, h \notin disturbed,
                      \A r \in Requests : ~Uploading(r, h) /\ ~Purging(r, h)
               PROVE  disk[h] = IF \E f \in Visible : row[f].content = h THEN "whole" ELSE "none"
    BY DEF FilesMatchRows
  <1>1. Uploaded(h) /\ disk[h] \in {"none", "empty", "whole"}
    BY DEF EvenInv, Even, Typed, Rest
  <1>2. \A r \in Requests : ~Writing(r, h) /\ ~Placing(r, h)
    BY DEF Uploading, Writing, Placing
  <1>3. \A f \in Visible : row[f].content = h => row[f].is = "live"
    <2> SUFFICES ASSUME NEW f \in Files, row[f].content = h, row[f].is = "deleting" PROVE FALSE
      BY DEF Visible
    <2>1. row[f].tx \in Requests /\ f \in Listed(row[f].tx)
      BY DEF EvenInv, Typed, Locks
    <2> QED
      BY <2>1 DEF Purging
  <1> QED
    BY <1>1, <1>2, <1>3 DEF Uploaded, Visible

(***************************************************************************)
(* FilesMatchRows in every behaviour: for a content at which nothing is    *)
(* going on, the directory holds the whole file exactly if there is a row, *)
(* however many uploads of it raced with one another, and purges with one  *)
(* another, as long as no upload of it met a purge of it and none failed   *)
(* (uploads.rs lines 75-101, admin.rs lines 37-50).                        *)
(***************************************************************************)
THEOREM FilesAreRows == Spec => []FilesMatchRows
  BY EvenInvInit, EvenInvNext, EvenInvMatches, PTL DEF Spec

----------------------------------------------------------------------------
\* What is left when uploads and purges do meet

\* r writes to the file of h that is in the directory.
Fills(r, h) == pc[r] = "write" /\ ctx[r].file /\ Content(r) = h

\* A file that is not whole is one that somebody is about to write.
NotTorn == \A h \in Contents : disk[h] = "empty" => \E r \in Requests : Fills(r, h)

\* Whoever does not make this step goes on filling what it fills, unless the
\* file is removed.
LEMMA FillsOn ==
  ASSUME Typed, NEW r \in Requests, Step(r), NEW x \in Requests \ {r}, NEW h \in Contents,
         Fills(x, h), disk'[h] # "none"
  PROVE  Fills(x, h)'
  <1>1. /\ pc \in [Requests -> Pcs] /\ job \in [Requests -> RequestJobs \cup {NoJob}]
        /\ ctx \in [Requests -> Ctx] /\ disk \in [Contents -> {"none", "empty", "whole"}]
    BY DEF Typed, Course, Rest
  <1>2. CASE RemoveFile(r)
    <2>1. pc'[x] = pc[x] /\ job' = job
      BY <1>1, <1>2 DEF RemoveFile, Goto
    <2>2. CASE \E v : Set(r, "at", v)
      BY <1>1, <2>1, <2>2 DEF Set, Fills, Content
    <2>3. CASE ~\E v : Set(r, "at", v)
      <3>1. /\ disk' = Unlinked(row[Doomed(r)].content)
            /\ ctx'[x] = IF ctx[x].file /\ Content(x) = row[Doomed(r)].content
                         THEN [ctx[x] EXCEPT !.file = FALSE] ELSE ctx[x]
        BY <1>1, <1>2, <2>3 DEF RemoveFile
      <3>2. row[Doomed(r)].content # h
        BY <1>1, <3>1 DEF Unlinked
      <3> QED
        BY <2>1, <3>1, <3>2 DEF Fills, Content
    <2> QED
      BY <2>2, <2>3
  <1>3. CASE ~RemoveFile(r)
    <2>1. pc'[x] = pc[x] /\ job'[x] = job[x] /\ ctx'[x] = ctx[x]
      BY <1>1, <1>3
      DEF Step, Begin, Upload, Purge, Send, Fail, Find, Open, Write, Insert, UploadAnswers, List,
          DeleteRow, Commit, Sources, Store, Exists, Attach, Copy, Copied, Refer, AllAttached,
          Reply, End, Set, Goto
    <2> QED
      BY <2>1 DEF Fills, Content
  <1> QED
    BY <1>2, <1>3

LEMMA NotTornNext ==
  ASSUME Typed, faults = 0 => NotTorn, [Next]_vars
  PROVE  faults' = 0 => NotTorn'
  <1>1. /\ disk \in [Contents -> {"none", "empty", "whole"}] /\ faults \in Nat
        /\ pc \in [Requests -> Pcs] /\ ctx \in [Requests -> Ctx]
    BY DEF Typed, Rest, Course
  <1>2. ASSUME NEW r \in Requests, Step(r), faults' = 0, NEW h \in Contents, disk'[h] = "empty"
        PROVE  \E x \in Requests : Fills(x, h)'
    <2>1. faults = 0
      <3>0. faults' # faults + 1
        <4>1. faults \in Nat /\ faults' = 0
          BY <1>1, <1>2
        <4> QED
          BY <4>1
      <3>1. CASE Begin(r) \/ Upload(r) \/ Send(r)
        BY <1>2, <3>1
        DEF Begin, Upload, Send, Find, Open, Write, Insert, UploadAnswers, Sources, Store, Exists,
            Attach, Copy, Copied, Refer, AllAttached, Reply
      <3>2. CASE Purge(r)
        BY <1>2, <3>0, <3>2 DEF Purge, List, DeleteRow, RemoveFile, Commit
      <3>3. ~Fail(r)
        BY <3>0 DEF Fail
      <3> QED
        BY <1>2, <3>1, <3>2, <3>3 DEF Step
    <2>2. ASSUME disk[h] = "empty", ~Fills(r, h) PROVE \E x \in Requests : Fills(x, h)'
      <3>1. PICK x \in Requests : Fills(x, h)
        BY <2>1, <2>2 DEF NotTorn
      <3> QED
        BY <1>2, <2>2, <3>1, FillsOn
    <2>3. CASE Open(r)
      <3>1. CASE Content(r) = h
        <4>1. /\ pc'[r] = "write" /\ ctx'[r].file /\ ctx'[r].at = ctx[r].at /\ job' = job
          BY <1>1, <2>3 DEF Open, Goto, Set, Ctx
        <4> QED
          BY <3>1, <4>1 DEF Fills, Content
      <3>2. CASE Content(r) # h
        <4>1. disk'[h] = disk[h] /\ ~Fills(r, h)
          BY <1>1, <2>3, <3>2 DEF Open, Fills
        <4> QED
          BY <1>2, <2>2, <4>1
      <3> QED
        BY <3>1, <3>2
    <2>4. CASE Write(r)
      <3>1. disk[h] = "empty" /\ ~Fills(r, h)
        BY <1>1, <1>2, <2>4 DEF Write, Fills
      <3> QED
        BY <2>2, <3>1
    <2>5. CASE RemoveFile(r)
      <3>1. disk[h] = "empty" /\ ~Fills(r, h)
        BY <1>1, <1>2, <2>5 DEF RemoveFile, Unlinked, Fills
      <3> QED
        BY <2>2, <3>1
    <2>6. CASE ~Open(r) /\ ~Write(r) /\ ~RemoveFile(r)
      <3>1. disk' = disk /\ pc[r] # "write"
        <4>1. CASE Begin(r) \/ Find(r) \/ Insert(r) \/ UploadAnswers(r)
          BY <4>1 DEF Begin, Find, Insert, UploadAnswers
        <4>2. CASE List(r) \/ DeleteRow(r) \/ Commit(r)
          BY <4>2 DEF List, DeleteRow, Commit
        <4>3. CASE Send(r)
          BY <4>3 DEF Send, Sources, Store, Exists, Attach, Copy, Copied, Refer, AllAttached, Reply
        <4>4. ~Fail(r)
          BY <1>1, <1>2, <2>1 DEF Fail
        <4> QED
          BY <1>2, <2>6, <4>1, <4>2, <4>3, <4>4 DEF Step, Upload, Purge
      <3> QED
        BY <1>2, <2>2, <3>1 DEF Fills
    <2> QED
      BY <2>3, <2>4, <2>5, <2>6
  <1>3. ASSUME Clear \/ UNCHANGED vars PROVE faults' = 0 => NotTorn'
    BY <1>3 DEF Clear, vars, NotTorn, Fills, Content
  <1> QED
    BY <1>2, <1>3 DEF Next, Step, NotTorn

(***************************************************************************)
(* Uploads and purges of one content that meet may leave a row without a   *)
(* file or a file without a row, which is why FilesMatchRows excepts them, *)
(* but they never leave half a file: as long as nothing has failed, a file *)
(* in the directory is whole or somebody who will write it has it open,    *)
(* also one that another upload emptied again or that was removed and made *)
(* anew in between (uploads.rs line 93, admin.rs line 45).                 *)
(***************************************************************************)
THEOREM OnlyFailuresTearFiles == Spec => [](faults = 0 => NotTorn)
  <1> DEFINE Whole == faults = 0 => NotTorn
  <1>1. Init => Whole
    BY DEF Init, NotTorn
  <1>2. Typed /\ Whole /\ [Next]_vars => Whole'
    BY NotTornNext
  <1>3. Spec => []Whole
    <2> HIDE DEF Whole
    <2> QED
      BY <1>1, <1>2, TypedAlways, PTL DEF Spec
  <1> QED
    BY <1>3

----------------------------------------------------------------------------
\* Who waits for whom

\* A purge goes through its list in order, and through each row once; whoever
\* attaches a file has seen its row.
Orderly(r) ==
  /\ AtWork(r) =>
       \A i \in DOMAIN ctx[r].list :
         /\ \A j \in DOMAIN ctx[r].list : ctx[r].list[i] = ctx[r].list[j] => i = j
         /\ row[ctx[r].list[i]].is = "deleting" /\ row[ctx[r].list[i]].tx = r =>
              i < ctx[r].at \/ (i = ctx[r].at /\ pc[r] = "remove")
  /\ pc[r] = "attach" => row[job[r].files[ctx[r].at]].is # "none"
  /\ pc[r] = "copied" => \A i \in DOMAIN ctx[r].list : row[ctx[r].list[i]].is # "none"

\* The file that a message is to have next.
LEMMA AttachType ==
  ASSUME Course, NEW r \in Requests, pc[r] = "attach"
  PROVE  job[r].files[ctx[r].at] \in Files
  <1>1. ctx[r] \in Ctx /\ ctx[r].at # 0 /\ ctx[r].at <= Len(job[r].files)
    BY DEF Course, Fits
  <1>2. job[r].files \in Seq(Files)
    BY JobOf
  <1> QED
    BY <1>1, <1>2 DEF Ctx

LEMMA OrderlyOther ==
  ASSUME Typed, NEW r \in Requests, Step(r), NEW x \in Requests \ {r}, Orderly(x)
  PROVE  Orderly(x)'
  <1>1. Apart(x)
    BY OthersApart DEF Typed, Step
  <1>2. \A f \in Files :
          /\ row[f].is # "none" => row'[f].is # "none"
          /\ row'[f].is = "deleting" /\ row'[f].tx = x => row'[f] = row[f]
    BY RowChanges DEF RowChange
  <1>3. \A i \in DOMAIN ctx[x].list : ctx[x].list[i] \in Files
    BY ListTypes DEF Typed
  <1>4. pc[x] = "attach" => job[x].files[ctx[x].at] \in Files
    BY AttachType DEF Typed
  <1> QED
    BY <1>1, <1>2, <1>3, <1>4 DEF Orderly, Apart, AtWork

LEMMA OrderlyOwn ==
  ASSUME Typed, Referred, NEW r \in Requests, Step(r), Orderly(r)
  PROVE  Orderly(r)'
  <1>1. /\ pc \in [Requests -> Pcs] /\ job \in [Requests -> RequestJobs \cup {NoJob}]
        /\ ctx \in [Requests -> Ctx] /\ Course
    BY DEF Typed, Course
  <1>2. CASE pc'[r] \notin {"delete", "remove", "attach", "copied"}
    BY <1>2 DEF Orderly, AtWork
  <1>3. CASE List(r)
    <2>1. PICK s \in Orders(Unreferenced) : ctx' = [ctx EXCEPT ![r] = [@ EXCEPT !["list"] = s]]
      BY <1>3 DEF List, Set
    <2>2. s \in Seq(Files) /\ Range(s) \subseteq Unreferenced
      BY OrderType DEF Unreferenced, Visible
    <2>3. ctx'[r].list = s /\ pc'[r] = "delete" /\ row' = row /\ pc[r] = "list"
      <3>1. [ctx[r] EXCEPT !["list"] = s].list = s
        BY <1>1, <2>2, SetType
      <3> QED
        BY <1>1, <1>3, <2>1, <3>1 DEF List, Goto, db
    <2>4. \A i, j \in DOMAIN s : s[i] = s[j] => i = j
      BY DEF Orders
    <2>5. \A i \in DOMAIN s : ~(row[s[i]].is = "deleting" /\ row[s[i]].tx = r)
      <3> SUFFICES ASSUME NEW i \in DOMAIN s, row[s[i]].is = "deleting", row[s[i]].tx = r
                   PROVE  FALSE
        OBVIOUS
      <3>1. s[i] \in Files
        BY <2>2
      <3>2. s[i] \in Listed(r)
        BY <3>1 DEF Typed, Locks
      <3> QED
        BY <2>3, <3>2 DEF Listed
    <2> QED
      BY <2>3, <2>4, <2>5 DEF Orderly
  <1>4. CASE DeleteRow(r)
    <2>1. /\ ctx' = ctx /\ pc[r] = "delete" /\ pc'[r] = "remove" /\ Doomed(r) = ctx[r].list[ctx[r].at]
          /\ ctx[r].at <= Len(ctx[r].list)
      BY <1>1, <1>4 DEF DeleteRow, Goto, Doomed
    <2>2. /\ ctx[r].at \in DOMAIN ctx[r].list
          /\ \A i \in DOMAIN ctx[r].list : ctx[r].list[i] \in Files
      BY <1>1, <2>1, ListTypes
    <2>3. \A f \in Files : row'[f].is = "deleting" /\ row'[f].tx = r =>
                             row'[f] = row[f] \/ f = Doomed(r)
      BY RowChanges DEF RowChange
    <2>4. ASSUME NEW i \in DOMAIN ctx[r].list,
                 row'[ctx[r].list[i]].is = "deleting", row'[ctx[r].list[i]].tx = r
          PROVE  i < ctx[r].at \/ i = ctx[r].at
      BY <2>1, <2>2, <2>3, <2>4 DEF Orderly, AtWork
    <2> QED
      BY <2>1, <2>4 DEF Orderly, AtWork
  <1>5. CASE RemoveFile(r)
    <2>1. /\ row' = row /\ pc[r] = "remove" /\ pc'[r] = "delete"
          /\ ctx'[r].at = ctx[r].at + 1 /\ ctx'[r].list = ctx[r].list
      BY <1>5, RemoveCtx DEF Typed, db
    <2>2. ctx[r].at \in Nat /\ \A i \in DOMAIN ctx[r].list : i \in Nat
      BY <1>1, ListTypes
    <2> QED
      BY <2>1, <2>2 DEF Orderly, AtWork
  <1>6. CASE Exists(r) /\ pc'[r] = "attach"
    <2>1. UNCHANGED <<job, ctx, row>> /\ job[r].files[ctx[r].at] \in Visible
      BY <1>1, <1>6 DEF Exists, End, Goto, db
    <2> QED
      BY <1>6, <2>1 DEF Orderly, AtWork, Visible
  <1>7. CASE Copy(r)
    <2> DEFINE T == {f \in Files : <<ctx[r].source, f>> \in attached}
    <2>1. PICK s \in Orders(T) : ctx' = [ctx EXCEPT ![r] = [@ EXCEPT !["list"] = s]]
      BY <1>7 DEF Copy, Set
    <2>2. s \in Seq(Files) /\ Range(s) \subseteq T
      <3>1. T \in SUBSET Files
        OBVIOUS
      <3> QED
        BY <3>1, OrderType
    <2>3. ctx'[r].list = s /\ pc'[r] = "copied" /\ row' = row
      <3>1. [ctx[r] EXCEPT !["list"] = s].list = s
        BY <1>1, <2>2, SetType
      <3> QED
        BY <1>1, <1>7, <2>1, <3>1 DEF Copy, Goto, db
    <2>4. ASSUME NEW i \in DOMAIN s PROVE row[s[i]].is # "none"
      <3>1. <<ctx[r].source, s[i]>> \in attached
        BY <2>2 DEF Range
      <3> QED
        BY <3>1 DEF Referred
    <2> QED
      BY <2>3, <2>4 DEF Orderly, AtWork
  <1>8. \/ pc'[r] \notin {"delete", "remove", "attach", "copied"}
        \/ List(r) \/ DeleteRow(r) \/ RemoveFile(r) \/ (Exists(r) /\ pc'[r] = "attach") \/ Copy(r)
    <2>1. CASE Begin(r)
      <3>1. PICK j \in RequestJobs : Goto(r, Start(j.op))
        BY <2>1 DEF Begin
      <3>2. Start(j.op) \in {"find", "list", "store", "sources"}
        BY StorageAssumption DEF Start, Ops
      <3> QED
        BY <1>1, <3>1, <3>2 DEF Goto
    <2>2. CASE Upload(r)
      BY <1>1, <2>2 DEF Upload, Find, Open, Write, Insert, UploadAnswers, End, Goto
    <2>3. CASE Commit(r) \/ Fail(r)
      BY <1>1, <2>3 DEF Commit, Fail, End, Goto
    <2>4. CASE Sources(r) \/ Store(r) \/ Exists(r)
      BY <1>1, <2>4 DEF Sources, Store, Exists, End, Goto
    <2>5. CASE Attach(r) \/ Copied(r) \/ AllAttached(r) \/ Reply(r)
      BY <1>1, <2>5 DEF Attach, Copied, Refer, AllAttached, Reply, End, Goto
    <2> QED
      BY <2>1, <2>2, <2>3, <2>4, <2>5 DEF Step, Purge, Send
  <1> QED
    BY <1>2, <1>3, <1>4, <1>5, <1>6, <1>7, <1>8

LEMMA OrderlyAlways == Spec => [](\A r \in Requests : Orderly(r))
  <1> DEFINE All == \A r \in Requests : Orderly(r)
  <1>1. Init => All
    BY DEF Init, Orderly, AtWork
  <1>2. Inv /\ All /\ [Next]_vars => All'
    <2> SUFFICES ASSUME Inv, All, [Next]_vars, NEW x \in Requests
                 PROVE  Orderly(x)'
      OBVIOUS
    <2>1. CASE \E r \in Requests : Step(r)
      <3>1. PICK r \in Requests : Step(r)
        BY <2>1
      <3> QED
        BY <3>1, OrderlyOther, OrderlyOwn DEF Inv
    <2>2. CASE Clear
      BY <2>2 DEF Clear, Orderly, AtWork
    <2>3. CASE UNCHANGED vars
      BY <2>3 DEF Orderly, AtWork, vars, db
    <2> QED
      BY <2>1, <2>2, <2>3 DEF Next, Step
  <1> QED
    BY <1>1, <1>2, InvAlways, PTL DEF Spec

\* Induction over the natural numbers, in the form the provers can use.
LEMMA Least ==
  ASSUME NEW T, T \subseteq Nat, T # {}
  PROVE  \E n \in T : \A k \in T : n <= k
  <1> DEFINE Less == {p \in Nat \X Nat : p[1] < p[2]}
  <1>1. OpToRel(<, Nat) = Less
    BY Zenon DEF OpToRel
  <1>2. IsWellFoundedOn(Less, Nat)
    BY <1>1, NatLessThanWellFounded, Zenon
  <1>3. \E n \in T : \A k \in T : ~(<<k, n>> \in Less)
    <2> HIDE DEF Less
    <2> QED
      BY <1>2, WFMin
  <1>4. PICK n \in T : \A k \in T : ~(<<k, n>> \in Less)
    BY <1>3
  <1>5. ASSUME NEW k \in T PROVE n <= k
    <2>1. ~(k < n)
      BY <1>4
    <2> QED
      BY <2>1
  <1> QED
    BY <1>5

\* A set of rows can be returned in some order.
LEMMA SomeOrder ==
  ASSUME NEW S \in SUBSET Files
  PROVE  Orders(S) # {}
  <1>1. IsFiniteSet(S)
    <2>1. IsFiniteSet(Files)
      BY FS_Interval, StorageAssumption DEF Files
    <2> QED
      BY <2>1, FS_Subset
  <1>2. PICK s : s \in Bijection(1..Cardinality(S), S)
    BY <1>1, FS_CardinalityType DEF ExistsBijection
  <1>3. s \in Orders(S)
    BY <1>2 DEF Bijection, Injection, IsInjective, Orders
  <1> QED
    BY <1>3

Running(r) == pc[r] \notin {"idle", "done"}

\* The rows that the next statement of r waits for while they are being deleted.
About(r) ==
  CASE pc[r] = "insert" -> {f \in Visible : row[f].content = Content(r)}
    [] pc[r] = "delete" -> IF ctx[r].at <= Len(ctx[r].list) THEN {Doomed(r)} ELSE {}
    [] pc[r] = "attach" -> {job[r].files[ctx[r].at]}
    [] pc[r] = "copied" -> Range(ctx[r].list)
    [] OTHER -> {}

WaitsOn(r, x) == \E f \in About(r) : row[f].is = "deleting" /\ row[f].tx = x

\* ENABLED Upload(r) \/ Purge(r) \/ Send(r), by the guards of their actions.
CanGo(r) ==
  /\ Running(r)
  /\ \A f \in About(r) : row[f].is # "deleting"
  /\ pc[r] = "insert" /\ About(r) = {} =>
       \E f \in Files : row[f] = NoRow /\ \A g \in 1..(f - 1) : row[g] # NoRow
  /\ pc[r] = "list" => Orders(Unreferenced) # {}
  /\ pc[r] = "copy" => Orders({f \in Files : <<ctx[r].source, f>> \in attached}) # {}
  /\ pc[r] \in {"attach", "copied"} /\ message[r] = "stored" =>
       \/ \A f \in About(r) : row[f].is = "live"
       \/ \E f \in About(r) : row[f].is = "gone"

\* A bound of the model: the table has room for one more row.
Room == \E f \in Files : row[f] = NoRow

LEMMA AboutFiles ==
  ASSUME Course, NEW r \in Requests
  PROVE  About(r) \subseteq Files
  <1>1. pc[r] = "delete" /\ ctx[r].at <= Len(ctx[r].list) => Doomed(r) \in Files
    BY DoomedType
  <1>2. Range(ctx[r].list) \subseteq Files
    BY ListTypes DEF Range
  <1> QED
    BY <1>1, <1>2, AttachType DEF About, Visible

\* Nobody waits for itself: whoever waits, waits for another request's purge.
LEMMA WaitsForPurge ==
  ASSUME Typed, NEW r \in Requests, Orderly(r), NEW f \in About(r), row[f].is = "deleting"
  PROVE  \E x \in Requests \ {r} : AtWork(x) /\ WaitsOn(r, x)
  <1>1. f \in Files
    BY AboutFiles DEF Typed
  <1>2. row[f].tx \in Requests /\ f \in Listed(row[f].tx)
    BY <1>1 DEF Typed, Locks
  <1>3. AtWork(row[f].tx) /\ WaitsOn(r, row[f].tx)
    BY <1>2 DEF Listed, AtWork, WaitsOn
  <1>4. row[f].tx # r
    <2> SUFFICES ASSUME row[f].tx = r PROVE FALSE
      OBVIOUS
    <2>1. pc[r] = "delete"
      BY <1>3 DEF AtWork, About
    <2>2. f = ctx[r].list[ctx[r].at] /\ ctx[r].at <= Len(ctx[r].list)
      BY <2>1 DEF About, Doomed
    <2>3. ctx[r].at \in Nat /\ ctx[r].at \in DOMAIN ctx[r].list
      BY <2>2, ListTypes DEF Typed
    <2> QED
      BY <2>1, <2>2, <2>3 DEF Orderly, AtWork
  <1> QED
    BY <1>2, <1>3, <1>4

LEMMA GoesOn ==
  ASSUME Typed, Room, NEW r \in Requests, Orderly(r), Running(r),
         \A f \in About(r) : row[f].is # "deleting"
  PROVE  CanGo(r)
  <1>1. \E f \in Files : row[f] = NoRow /\ \A g \in 1..(f - 1) : row[g] # NoRow
    <2> DEFINE T == {f \in Files : row[f] = NoRow}
    <2>1. T \subseteq Nat /\ T # {}
      BY DEF Room, Files
    <2> HIDE DEF T
    <2>2. PICK f \in T : \A k \in T : f <= k
      BY <2>1, Least
    <2>3. f \in Files /\ row[f] = NoRow
      BY <2>2 DEF T
    <2>4. ASSUME NEW g \in 1..(f - 1) PROVE row[g] # NoRow
      <3>1. g \in Files /\ ~(f <= g)
        BY <2>3, StorageAssumption DEF Files
      <3>2. g \notin T
        BY <2>2, <3>1
      <3> QED
        BY <3>1, <3>2 DEF T
    <2> QED
      BY <2>3, <2>4
  <1>2. Orders(Unreferenced) # {}
    BY SomeOrder DEF Unreferenced, Visible
  <1>3. Orders({f \in Files : <<ctx[r].source, f>> \in attached}) # {}
    <2>1. {f \in Files : <<ctx[r].source, f>> \in attached} \in SUBSET Files
      OBVIOUS
    <2> QED
      BY <2>1, SomeOrder
  <1>4. pc[r] \in {"attach", "copied"} => \A f \in About(r) : row[f].is \in {"live", "gone"}
    <2> SUFFICES ASSUME pc[r] \in {"attach", "copied"}, NEW f \in About(r)
                 PROVE  row[f].is \in {"live", "gone"}
      OBVIOUS
    <2>1. row[f].is \in {"none", "live", "deleting", "gone"}
      BY AboutFiles DEF Typed, Rows, RowType
    <2>2. row[f].is # "none"
      BY DEF About, Orderly, Range
    <2> QED
      BY <2>1, <2>2
  <1> QED
    BY <1>1, <1>2, <1>3, <1>4 DEF CanGo

(***************************************************************************)
(* A request about files either can execute its next statement or waits    *)
(* for a row that a purge of another request, still running, is deleting:  *)
(* nobody waits for a row whose purge has ended, for itself, or for an     *)
(* upload or a message (admin.rs lines 37-50, uploads.rs lines 86-101,     *)
(* messages.rs lines 66-85).                                               *)
(***************************************************************************)
THEOREM WaitsAreForPurges ==
  Spec => [](Room => \A r \in Requests :
                       Running(r) => \/ CanGo(r)
                                     \/ \E x \in Requests \ {r} : AtWork(x) /\ WaitsOn(r, x))
  <1> DEFINE All == \A r \in Requests : Orderly(r)
             Fine == Room => \A r \in Requests :
                       Running(r) => \/ CanGo(r)
                                     \/ \E x \in Requests \ {r} : AtWork(x) /\ WaitsOn(r, x)
  <1>1. Typed /\ All => Fine
    <2> SUFFICES ASSUME Typed, All, Room, NEW r \in Requests, Running(r), ~CanGo(r)
                 PROVE  \E x \in Requests \ {r} : AtWork(x) /\ WaitsOn(r, x)
      OBVIOUS
    <2>1. PICK f \in About(r) : row[f].is = "deleting"
      BY GoesOn
    <2> QED
      BY <2>1, WaitsForPurge
  <1> QED
    BY <1>1, TypedAlways, OrderlyAlways, PTL

(***************************************************************************)
(* While a request about files runs, one of them can go on, unless each    *)
(* purge that is deleting waits for another one.  That can happen, as the  *)
(* lists of two purges need not have the same order (admin.rs lines 32-50):*)
(* of uploads, sends, forwards and purges only purges can deadlock.        *)
(***************************************************************************)
THEOREM OnlyPurgesDeadlock ==
  Spec => [](Room /\ (\E r \in Requests : Running(r)) =>
               \/ \E r \in Requests : CanGo(r)
               \/ /\ \E x \in Requests : AtWork(x)
                  /\ \A x \in Requests :
                       AtWork(x) => \E y \in Requests \ {x} : AtWork(y) /\ WaitsOn(x, y))
  <1> DEFINE All == \A r \in Requests : Orderly(r)
             Fine == Room /\ (\E r \in Requests : Running(r)) =>
               \/ \E r \in Requests : CanGo(r)
               \/ /\ \E x \in Requests : AtWork(x)
                  /\ \A x \in Requests :
                       AtWork(x) => \E y \in Requests \ {x} : AtWork(y) /\ WaitsOn(x, y)
  <1>1. Typed /\ All => Fine
    <2> SUFFICES ASSUME Typed, All, Room, NEW r \in Requests, Running(r),
                        \A x \in Requests : ~CanGo(x)
                 PROVE  /\ \E x \in Requests : AtWork(x)
                        /\ \A x \in Requests :
                             AtWork(x) => \E y \in Requests \ {x} : AtWork(y) /\ WaitsOn(x, y)
      OBVIOUS
    <2>1. ASSUME NEW x \in Requests, Running(x)
          PROVE  \E y \in Requests \ {x} : AtWork(y) /\ WaitsOn(x, y)
      <3>1. PICK f \in About(x) : row[f].is = "deleting"
        BY <2>1, GoesOn
      <3> QED
        BY <3>1, WaitsForPurge
    <2>2. \E x \in Requests : AtWork(x)
      BY <2>1
    <2>3. \A x \in Requests : AtWork(x) => Running(x)
      BY DEF AtWork, Running
    <2> QED
      BY <2>1, <2>2, <2>3
  <1> QED
    BY <1>1, TypedAlways, OrderlyAlways, PTL
=============================================================================
