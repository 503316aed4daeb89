------------------------------ MODULE Storage ------------------------------
(***************************************************************************)
(* Uploaded files: upload_files (src/src/handlers/uploads.rs), the         *)
(* attachments of send_message and forward_messages (messages.rs), the     *)
(* cascade of clear_messages (chats.rs) and purge_storage (admin.rs), over *)
(* storage_files, message_attachments and the directory that holds one     *)
(* file for each content, named by its sha256.                             *)
(*                                                                         *)
(* Requests interleave between any two SQL statements or file operations;  *)
(* only purge_storage opens a transaction.  PostgreSQL runs READ           *)
(* COMMITTED: readers see a row that is being deleted; whoever would refer *)
(* to it, delete it or insert its sha256 again waits for the transaction.  *)
(***************************************************************************)
EXTENDS Naturals, Sequences, FiniteSets, Functions

CONSTANTS
  Contents,
  MaxFiles,      \* rows of storage_files that are ever made
  Requests,      \* HTTP requests, each used once
  None,
  RequestJobs,   \* what may arrive
  MaxFaults,     \* statements, file operations or connections that fail
  Content0       \* the content of file 1, stored at the start

Files == 1..MaxFiles

Ops == {"upload", "purge", "send", "forward"}

ASSUME StorageAssumption ==
  /\ None \notin Requests \cup Contents
  /\ MaxFiles \in Nat \ {0} /\ MaxFaults \in Nat
  /\ Content0 \in Contents
  /\ RequestJobs \subseteq [op : Ops, contents : Seq(Contents), files : Seq(Files)]

VARIABLES
  row,        \* file -> its row of storage_files
  disk,       \* content -> "none", "empty" or "whole"
  attached,   \* message_attachments: the request that made the message, file
  message,    \* request -> "none", "stored" or "cleared", the message it made
  pc, job, ctx,
  faults,
  late,       \* history: attachments made while a purge had the file on its list
  disturbed   \* history: contents that an upload and a purge worked on at once,
              \* or at which one of them failed

db == <<row, attached, message>>
vars == <<db, disk, pc, job, ctx, faults, late, disturbed>>

----------------------------------------------------------------------------
\* Rows, as they are seen and as a transaction leaves them

NoRow == [is |-> "none", content |-> None, tx |-> None]
RowOf(h) == [is |-> "live", content |-> h, tx |-> None]

Visible == {f \in Files : row[f].is \in {"live", "deleting"}}

\* Mutant of Unreferenced: no join with message_attachments.
Unreferenced_All == Visible

\* What the SELECT of purge_unreferenced_internal returns.
Unreferenced == {f \in Visible : ~\E r \in Requests : <<r, f>> \in attached}

\* Mutant of Ended: the lock on the row stays after a rollback.
Ended_Locked(w, p, done) ==
  IF w.tx # p THEN w
  ELSE IF done THEN [w EXCEPT !.is = "gone", !.tx = None] ELSE [w EXCEPT !.is = "live"]

Ended(w, p, done) ==
  IF w.tx # p THEN w ELSE [w EXCEPT !.is = IF done THEN "gone" ELSE "live", !.tx = None]

\* Every order in which a set of rows can be returned.
Orders(S) == {s \in [1..Cardinality(S) -> S] : \A i, j \in DOMAIN s : i # j => s[i] # s[j]}

----------------------------------------------------------------------------
\* The course of a request

\* at: the place in the contents, files or rows it goes through; file: the file
\* it has open is the one in the directory; list: what a SELECT returned.
Fresh == [at |-> 1, file |-> FALSE, list |-> <<>>, source |-> None]

NoJob == [op |-> "none", contents |-> <<>>, files |-> <<>>]

Goto(r, there) == pc' = [pc EXCEPT ![r] = there]

Set(r, field, value) == ctx' = [ctx EXCEPT ![r] = [@ EXCEPT ![field] = value]]

End(r) ==
  /\ Goto(r, "done")
  /\ job' = [job EXCEPT ![r] = NoJob]
  /\ ctx' = [ctx EXCEPT ![r] = Fresh]

Start(op) ==
  CASE op = "upload" -> "find"
    [] op = "purge" -> "list"
    [] op = "send" -> "store"
    [] op = "forward" -> "sources"

Begin(r) ==
  /\ pc[r] = "idle"
  /\ \E j \in RequestJobs : job' = [job EXCEPT ![r] = j] /\ Goto(r, Start(j.op))
  /\ UNCHANGED <<db, disk, ctx, faults>>

----------------------------------------------------------------------------
\* upload_files: one field of the form after the other

Content(r) == job[r].contents[ctx[r].at]

\* SELECT by sha256: if the row is there, its id is the answer for this field.
Find(r) ==
  /\ pc[r] = "find" /\ ctx[r].at <= Len(job[r].contents)
  /\ IF \E f \in Visible : row[f].content = Content(r)
       THEN Set(r, "at", ctx[r].at + 1) /\ Goto(r, "find")
       ELSE Goto(r, "open") /\ UNCHANGED ctx
  /\ UNCHANGED <<db, disk, job, faults>>

\* tokio::fs::write opens the file for writing, which empties it ...
Open(r) ==
  /\ pc[r] = "open"
  /\ disk' = [disk EXCEPT ![Content(r)] = "empty"]
  /\ Set(r, "file", TRUE) /\ Goto(r, "write")
  /\ UNCHANGED <<db, job, faults>>

\* ... and writes all of it; a file that was removed meanwhile is not there to
\* be seen.
Write(r) ==
  /\ pc[r] = "write"
  /\ disk' = IF ctx[r].file THEN [disk EXCEPT ![Content(r)] = "whole"] ELSE disk
  /\ Set(r, "file", FALSE) /\ Goto(r, "insert")
  /\ UNCHANGED <<db, job, faults>>

\* INSERT INTO storage_files: waits for a transaction that is deleting the
\* row of that sha256, and fails when another upload has inserted it.
Insert(r) ==
  LET same == {f \in Visible : row[f].content = Content(r)}
  IN  /\ pc[r] = "insert"
      /\ \A f \in same : row[f].is = "live"
      /\ \/ /\ same = {}
            /\ \E f \in Files :
                 /\ row[f] = NoRow
                 /\ \A g \in 1..(f - 1) : row[g] # NoRow
                 /\ row' = [row EXCEPT ![f] = RowOf(Content(r))]
            /\ Set(r, "at", ctx[r].at + 1) /\ Goto(r, "find")
            /\ UNCHANGED job
         \/ same # {} /\ End(r) /\ UNCHANGED row
      /\ UNCHANGED <<disk, attached, message, faults>>

UploadAnswers(r) ==
  /\ pc[r] = "find" /\ ctx[r].at > Len(job[r].contents)
  /\ End(r)
  /\ UNCHANGED <<db, disk, faults>>

----------------------------------------------------------------------------
\* purge_unreferenced_internal

\* The SELECT has no ORDER BY.
List(r) ==
  /\ pc[r] = "list"
  /\ \E s \in Orders(Unreferenced) : Set(r, "list", s)
  /\ Goto(r, "delete")
  /\ UNCHANGED <<db, disk, job, faults>>

Doomed(r) == ctx[r].list[ctx[r].at]

\* DELETE FROM storage_files: waits for another purge that is deleting the
\* row, and deletes nothing when the row is gone.
DeleteRow(r) ==
  LET f == Doomed(r)
  IN  /\ pc[r] = "delete" /\ ctx[r].at <= Len(ctx[r].list)
      /\ row[f].is # "deleting"
      /\ row' = IF row[f].is = "live"
                THEN [row EXCEPT ![f] = [@ EXCEPT !.is = "deleting", !.tx = r]] ELSE row
      /\ Goto(r, "remove")
      /\ UNCHANGED <<attached, message, disk, job, ctx, faults>>

\* Mutant of Unlinked: the file stays.
Unlinked_Kept(h) == disk

Unlinked(h) == [disk EXCEPT ![h] = "none"]

\* remove_file; that it may fail is ignored.
RemoveFile(r) ==
  LET h == row[Doomed(r)].content
      closed == [x \in Requests |->
                   IF ctx[x].file /\ Content(x) = h THEN [ctx[x] EXCEPT !.file = FALSE]
                   ELSE ctx[x]]
  IN  /\ pc[r] = "remove"
      /\ \/ /\ disk' = Unlinked(h)
            /\ ctx' = [closed EXCEPT ![r].at = ctx[r].at + 1]
            /\ UNCHANGED faults
         \/ /\ faults < MaxFaults /\ faults' = faults + 1
            /\ Set(r, "at", ctx[r].at + 1) /\ UNCHANGED disk
      /\ Goto(r, "delete")
      /\ UNCHANGED <<db, job>>

\* Attachments go with their files.
Commit(r) ==
  /\ pc[r] = "delete" /\ ctx[r].at > Len(ctx[r].list)
  /\ row' = [f \in Files |-> Ended(row[f], r, TRUE)]
  /\ attached' = {a \in attached : row'[a[2]].is # "gone"}
  /\ End(r)
  /\ UNCHANGED <<message, disk, faults>>

----------------------------------------------------------------------------
\* Messages with attachments

\* The SELECT of forward_messages.  Forwarding several messages does for each
\* what is done for one here; all messages are of one chat.
Sources(r) ==
  /\ pc[r] = "sources"
  /\ \E x \in Requests :
       IF message[x] = "stored"
         THEN Set(r, "source", x) /\ Goto(r, "store") /\ UNCHANGED job
         ELSE End(r)
  /\ UNCHANGED <<db, disk, faults>>

\* INSERT INTO messages; a forwarded message refers to its source.
Store(r) ==
  /\ pc[r] = "store"
  /\ \/ /\ job[r].op = "forward" => message[ctx[r].source] = "stored"
        /\ message' = [message EXCEPT ![r] = "stored"]
        /\ Goto(r, IF job[r].op = "send" THEN "exists" ELSE "copy")
        /\ UNCHANGED <<job, ctx>>
     \/ /\ job[r].op = "forward" /\ message[ctx[r].source] # "stored"
        /\ End(r) /\ UNCHANGED message
  /\ UNCHANGED <<row, attached, disk, faults>>

\* SELECT 1 FROM storage_files: a file that is not there ends the request with
\* an error and leaves the message with the attachments it has so far.
Exists(r) ==
  /\ pc[r] = "exists" /\ ctx[r].at <= Len(job[r].files)
  /\ IF job[r].files[ctx[r].at] \in Visible
       THEN Goto(r, "attach") /\ UNCHANGED <<job, ctx>>
       ELSE End(r)
  /\ UNCHANGED <<db, disk, faults>>

\* Mutant of Attached: a message has one attachment.
Attached_One(r, S) ==
  IF \E f \in Files : <<r, f>> \in attached THEN attached ELSE attached \cup ({r} \X S)

Attached(r, S) == attached \cup ({r} \X S)

\* INSERT INTO message_attachments of the files S: waits while one is being
\* deleted, and fails when one is gone or the message is.
Refer(r, S) ==
  /\ \A f \in S : row[f].is # "deleting"
  /\ \/ /\ message[r] = "stored" /\ \A f \in S : row[f].is = "live"
        /\ attached' = Attached(r, S)
        /\ UNCHANGED job
        /\ IF job[r].op = "send"
             THEN Set(r, "at", ctx[r].at + 1) /\ Goto(r, "exists")
             ELSE Goto(r, "reply") /\ UNCHANGED ctx
     \/ /\ message[r] # "stored" \/ \E f \in S : row[f].is = "gone"
        /\ End(r) /\ UNCHANGED attached
  /\ UNCHANGED <<row, message, disk, faults>>

Attach(r) == pc[r] = "attach" /\ Refer(r, {job[r].files[ctx[r].at]})

\* INSERT ... SELECT of forward_messages: what it sees, ...
Copy(r) ==
  /\ pc[r] = "copy"
  /\ \E s \in Orders({f \in Files : <<ctx[r].source, f>> \in attached}) : Set(r, "list", s)
  /\ Goto(r, "copied")
  /\ UNCHANGED <<db, disk, job, faults>>

\* ... and what it inserts.
Copied(r) == pc[r] = "copied" /\ Refer(r, Range(ctx[r].list))

AllAttached(r) ==
  /\ pc[r] = "exists" /\ ctx[r].at > Len(job[r].files)
  /\ Goto(r, "reply")
  /\ UNCHANGED <<db, disk, job, ctx, faults>>

Reply(r) ==
  /\ pc[r] = "reply"
  /\ End(r)
  /\ UNCHANGED <<db, disk, faults>>

\* clear_messages: DELETE FROM messages takes the attachments along, and waits
\* for one that is going with its file.
Clear ==
  /\ \A a \in attached : row[a[2]].is = "live"
  /\ \E r \in Requests : message[r] = "stored"
  /\ message' = [r \in Requests |-> IF message[r] = "stored" THEN "cleared" ELSE message[r]]
  /\ attached' = {}
  /\ UNCHANGED <<row, disk, pc, job, ctx, faults>>

----------------------------------------------------------------------------
\* A statement or a file operation fails, two purges wait for each other, or
\* the process dies: the transaction is rolled back, removed files are not.
Fail(r) ==
  /\ pc[r] \notin {"idle", "done"}
  /\ faults < MaxFaults /\ faults' = faults + 1
  /\ row' = [f \in Files |-> Ended(row[f], r, FALSE)]
  /\ End(r)
  /\ UNCHANGED <<attached, message, disk>>

Init ==
  /\ row = [f \in Files |-> IF f = 1 THEN RowOf(Content0) ELSE NoRow]
  /\ disk = [h \in Contents |-> IF h = Content0 THEN "whole" ELSE "none"]
  /\ attached = {}
  /\ message = [r \in Requests |-> "none"]
  /\ pc = [r \in Requests |-> "idle"]
  /\ job = [r \in Requests |-> NoJob]
  /\ ctx = [r \in Requests |-> Fresh]
  /\ faults = 0
  /\ late = {}
  /\ disturbed = {}

Upload(r) == Find(r) \/ Open(r) \/ Write(r) \/ Insert(r) \/ UploadAnswers(r)

Purge(r) == List(r) \/ DeleteRow(r) \/ RemoveFile(r) \/ Commit(r)

Send(r) ==
  Sources(r) \/ Store(r) \/ Exists(r) \/ Attach(r) \/ Copy(r) \/ Copied(r)
    \/ AllAttached(r) \/ Reply(r)

\* The files purge r has on its list.
Listed(r) == IF pc[r] \in {"delete", "remove"} THEN Range(ctx[r].list) ELSE {}

Uploading(r, h) == pc[r] \in {"open", "write", "insert"} /\ Content(r) = h

Purging(r, h) == \E f \in Listed(r) : row[f].content = h

Disturbed ==
  {h \in Contents : (\E r \in Requests : Uploading(r, h)) /\ (\E r \in Requests : Purging(r, h))}

\* What the request that makes this step works on.
AtHand ==
  {h \in Contents : \E r \in Requests : pc'[r] # pc[r] /\ (Uploading(r, h) \/ Purging(r, h))}

Next ==
  /\ \/ \E r \in Requests : Begin(r) \/ Upload(r) \/ Purge(r) \/ Send(r) \/ Fail(r)
     \/ Clear
  /\ late' = late \cup {a \in attached' \ attached : \E r \in Requests : a[2] \in Listed(r)}
  /\ disturbed' = disturbed \cup Disturbed' \cup (IF faults' # faults THEN AtHand ELSE {})

Spec == Init /\ [][Next]_vars

----------------------------------------------------------------------------
\* Properties

Pcs == {"idle", "find", "open", "write", "insert", "list", "delete", "remove",
        "sources", "store", "exists", "attach", "copy", "copied", "reply", "done"}

\* The types, and: a row is being deleted exactly while a purge that is still
\* running holds it.
TypeOK ==
  /\ row \in [Files -> [is : {"none", "live", "deleting", "gone"},
                       content : Contents \cup {None}, tx : Requests \cup {None}]]
  /\ \A f \in Files :
       IF row[f].is = "deleting" THEN f \in Listed(row[f].tx) ELSE row[f].tx = None
  /\ disk \in [Contents -> {"none", "empty", "whole"}]
  /\ attached \subseteq Requests \X Files
  /\ message \in [Requests -> {"none", "stored", "cleared"}]
  /\ pc \in [Requests -> Pcs]
  /\ job \in [Requests -> RequestJobs \cup {NoJob}]
  /\ ctx \in [Requests -> [at : Nat, file : BOOLEAN, list : Seq(Files),
                           source : Requests \cup {None}]]
  /\ faults \in Nat
  /\ late \subseteq Requests \X Files
  /\ disturbed \subseteq Contents

(***************************************************************************)
(* The directory holds the whole file of every row and no other file, for  *)
(* every content at which nothing is going on: whatever uploads of it      *)
(* overlapped with one another, and purges with one another, provided no   *)
(* upload of it overlapped with a purge of it and none failed (uploads.rs  *)
(* lines 75-101, admin.rs lines 37-50).                                    *)
(***************************************************************************)
FilesMatchRows ==
  \A h \in Contents \ disturbed :
    (~\E r \in Requests : Uploading(r, h) \/ Purging(r, h))
      => disk[h] = IF \E f \in Visible : row[f].content = h THEN "whole" ELSE "none"

\* The files the message of r is to have.
Wanted(r) == Range(IF job[r].op = "send" THEN job[r].files ELSE ctx[r].list)

(***************************************************************************)
(* A send_message or forward_messages that is about to answer 200 has all  *)
(* its attachments, unless its message has been cleared or a purge had     *)
(* listed the file before (messages.rs lines 66-85, 408-413).              *)
(***************************************************************************)
AnsweredIsAttached ==
  \A r \in Requests :
    pc[r] = "reply" /\ message[r] = "stored" => {r} \X Wanted(r) \subseteq attached \cup late

(***************************************************************************)
(* An attachment goes only with its message, or with a file that a running *)
(* purge had listed as unreferenced before the attachment was made         *)
(* (admin.rs lines 32-50).                                                 *)
(***************************************************************************)
PurgeSparesAttached ==
  [][\A a \in attached \ attached' : a \in late \/ message'[a[1]] = "cleared"]_vars

(***************************************************************************)
(* "Purge unreferenced storage files (no rows in message_attachments)"     *)
(* (API_SPEC.md line 412): a row that is deleted has no attachments.  It   *)
(* may have: the list is older than the deletion.                          *)
(***************************************************************************)
PurgesOnlyUnreferenced ==
  [][\A r \in Requests :
       DeleteRow(r) => ~\E x \in Requests : <<x, Doomed(r)>> \in attached]_vars

=============================================================================
