------------------------------- MODULE Roster -------------------------------
(***************************************************************************)
(* Who is in one chat: the handlers of src/src/handlers/chats.rs that add, *)
(* remove, promote and mute, leave_chat, and the upserts of members.rs and *)
(* members_notify.rs, over chat_participants and chat_members, which every *)
(* transaction changes one after the other.                                *)
(*                                                                         *)
(* Requests interleave between any two SQL statements.  PostgreSQL runs    *)
(* them READ COMMITTED: a reader sees what is committed; INSERT ON         *)
(* CONFLICT waits for whoever holds the key; DELETE passes over a row      *)
(* another transaction is inserting, waits for one that is being deleted,  *)
(* and finds nothing to delete once that deletion commits.                 *)
(***************************************************************************)
EXTENDS Naturals

CONSTANTS
  Users,
  Requests,      \* HTTP requests, each used once
  None,
  Creator,       \* chats.owner_id, unless the chat is direct
  Members0,      \* participants at the start
  RequestJobs,   \* what may arrive
  MaxFaults      \* statements or connections that fail

Ops == {"add", "remove", "leave", "promote", "demote", "mute", "unmute", "note"}

Perms == {"invite", "manage"}   \* can_invite_users, can_manage_members

Jobs == [op : Ops, by : Users, user : Users, perms : SUBSET Perms]

ASSUME RosterAssumption ==
  /\ None \notin Users \cup Requests \cup Jobs
  /\ Creator \in Users
  /\ Members0 \subseteq Users
  /\ RequestJobs \subseteq Jobs
  /\ \A j \in RequestJobs : j.op \in {"leave", "note"} => j.user = j.by
  /\ MaxFaults \in Nat

Tables == {"chat_participants", "chat_members"}

Row == [is : {"out", "in", "joining", "leaving"}, tx : Requests \cup {None}]

VARIABLES
  isDirect,     \* chats.is_direct, fixed when the chat is made
  rows,         \* table -> user -> the row of that user
  perms,        \* chat_admin_permissions; no row is the same as no permission
  muted,        \* chat_mutes
  pc, job,      \* the requests
  faults,
  contended     \* history: users whose rows two requests worked on at once

vars == <<isDirect, rows, perms, muted, pc, job, faults, contended>>
admin == <<perms, muted>>

----------------------------------------------------------------------------
\* Rows and transactions

Rest(w) == [is |-> w, tx |-> None]

\* What other statements see.
Visible(t) == {u \in Users : rows[t][u].is \in {"in", "leaving"}}

Participants == Visible("chat_participants")

\* INSERT ... ON CONFLICT DO NOTHING by r.
InsertWaits(row) == row.is \in {"joining", "leaving"}
Inserted(row, r) == IF row.is = "out" THEN [is |-> "joining", tx |-> r] ELSE row

\* DELETE by r.
DeleteWaits(row) == row.is = "leaving"
Deleted(row, r) == IF row.is = "in" THEN [is |-> "leaving", tx |-> r] ELSE row

\* Mutant of Ended: no transaction, what a failed request inserted stays.
Ended_Kept(row, r, done) ==
  IF row.tx # r THEN row
  ELSE IF row.is = "joining" \/ ~done THEN Rest("in") ELSE Rest("out")

\* The row when transaction r has committed (done) or rolled back.
Ended(row, r, done) ==
  IF row.tx # r THEN row
  ELSE IF done = (row.is = "joining") THEN Rest("in") ELSE Rest("out")

AllEnded(r, done) ==
  [t \in Tables |-> [u \in Users |-> Ended(rows[t][u], r, done)]]

\* Mutant of TableOf: remove_participant deletes in the other order.
TableOf_Swapped(j, place) ==
  IF (place = "first") = (j.op # "remove") THEN "chat_participants" ELSE "chat_members"

\* The table of the first and of the second statement of a transaction.
TableOf(j, place) == IF place = "first" THEN "chat_participants" ELSE "chat_members"

----------------------------------------------------------------------------
\* The course of a request

Goto(r, there) == pc' = [pc EXCEPT ![r] = there]

Begin(r) ==
  /\ pc[r] = "idle"
  /\ \E j \in RequestJobs : job' = [job EXCEPT ![r] = j]
  /\ Goto(r, "meta")
  /\ UNCHANGED <<isDirect, rows, perms, muted, faults>>

IsOwner(u) == ~isDirect /\ u = Creator

\* Mutant of AfterMeta: leave_chat without its check for direct chats.
AfterMeta_LeaveAnything(j) ==
  CASE j.op \in {"add", "remove", "mute", "unmute"} -> "perms"
    [] j.op = "leave" -> IF IsOwner(j.by) THEN "done" ELSE "first"
    [] j.op = "promote" -> IF IsOwner(j.by) THEN "member" ELSE "done"
    [] j.op = "demote" -> IF IsOwner(j.by) THEN "write" ELSE "done"
    [] j.op = "note" -> "member"

\* What fetch_chat_meta decides: 405 and 409 for leave, 403 for promote and
\* demote; set_note and set_notify do not look at the chat.
AfterMeta(j) ==
  CASE j.op \in {"add", "remove", "mute", "unmute"} -> "perms"
    [] j.op = "leave" -> IF isDirect \/ IsOwner(j.by) THEN "done" ELSE "first"
    [] j.op = "promote" -> IF IsOwner(j.by) THEN "member" ELSE "done"
    [] j.op = "demote" -> IF IsOwner(j.by) THEN "write" ELSE "done"
    [] j.op = "note" -> "member"

FetchMeta(r) ==
  /\ pc[r] = "meta"
  /\ Goto(r, AfterMeta(job[r]))
  /\ UNCHANGED <<isDirect, rows, perms, muted, job, faults>>

Allowed(j) ==
  IsOwner(j.by) \/ (IF j.op = "add" THEN "invite" ELSE "manage") \in perms[j.by]

LoadPerms(r) ==
  LET j == job[r]
  IN  /\ pc[r] = "perms"
      /\ \/ Allowed(j) /\ j.op \in {"add", "remove"} /\ Goto(r, "first")
         \/ Allowed(j) /\ j.op \in {"mute", "unmute"} /\ Goto(r, "write")
         \/ ~Allowed(j) /\ Goto(r, "done")
      /\ UNCHANGED <<isDirect, rows, perms, muted, job, faults>>

\* ensure_member, of the user to promote or of the one whose note it is; who
\* is not a participant gets an error.
EnsureMember(r) ==
  /\ pc[r] = "member"
  /\ Goto(r, IF job[r].user \in Participants THEN "write" ELSE "done")
  /\ UNCHANGED <<isDirect, rows, perms, muted, job, faults>>

\* The two statements of a transaction.

AfterStatement(place) == IF place = "first" THEN "second" ELSE "commit"

Waiting(place) == IF place = "first" THEN "firstWait" ELSE "secondWait"

\* r executes its statement at this place, on row j.user.
Execute(r, place, new) ==
  /\ rows' = [rows EXCEPT ![TableOf(job[r], place)][job[r].user] = new]
  /\ Goto(r, AfterStatement(place))
  /\ UNCHANGED <<isDirect, perms, muted, job, faults>>

Insert(r, place) ==
  LET row == rows[TableOf(job[r], place)][job[r].user]
  IN  /\ pc[r] = place
      /\ job[r].op = "add"
      /\ ~InsertWaits(row)
      /\ Execute(r, place, Inserted(row, r))

\* Mutant of Delete: leave_chat and remove_participant forget chat_members.
Delete_OneTable(r, place) ==
  LET row == rows[TableOf(job[r], place)][job[r].user]
  IN  /\ pc[r] = place
      /\ job[r].op \in {"remove", "leave"}
      /\ ~DeleteWaits(row)
      /\ Execute(r, place, IF place = "second" THEN row ELSE Deleted(row, r))

Delete(r, place) ==
  LET row == rows[TableOf(job[r], place)][job[r].user]
  IN  /\ pc[r] = place
      /\ job[r].op \in {"remove", "leave"}
      /\ ~DeleteWaits(row)
      /\ Execute(r, place, Deleted(row, r))

\* DELETE has found the row, which another transaction is deleting.
Block(r, place) ==
  /\ pc[r] = place
  /\ job[r].op \in {"remove", "leave"}
  /\ DeleteWaits(rows[TableOf(job[r], place)][job[r].user])
  /\ Goto(r, Waiting(place))
  /\ UNCHANGED <<isDirect, rows, perms, muted, job, faults>>

\* That transaction was rolled back: the row is there to be deleted.
Unblock(r, place) ==
  LET row == rows[TableOf(job[r], place)][job[r].user]
  IN  /\ pc[r] = Waiting(place)
      /\ row.is = "in"
      /\ Execute(r, place, Deleted(row, r))

\* r waits for the row that transaction x is deleting.
WaitsFor(r, x, place) ==
  /\ pc[r] = Waiting(place)
  /\ rows[TableOf(job[r], place)][job[r].user] = [is |-> "leaving", tx |-> x]

\* Whoever waited to delete a row that x deleted finds it gone, and goes on.
Commit(x) ==
  /\ pc[x] = "commit"
  /\ rows' = AllEnded(x, TRUE)
  /\ pc' = [r \in Requests |->
              IF r = x THEN "reply"
              ELSE IF WaitsFor(r, x, "first") THEN "second"
              ELSE IF WaitsFor(r, x, "second") THEN "commit"
              ELSE pc[r]]
  /\ UNCHANGED <<isDirect, perms, muted, job, faults>>

\* Mutant of Granted: a permission the table has no column for.
Granted_More(j) == j.perms \cup {"all"}

Granted(j) == j.perms

\* The upsert of promote_admin and the delete of demote_admin.
WritePerms(r) ==
  LET j == job[r]
  IN  /\ pc[r] = "write"
      /\ \/ j.op = "promote" /\ perms' = [perms EXCEPT ![j.user] = Granted(j)]
         \/ j.op = "demote" /\ perms' = [perms EXCEPT ![j.user] = {}]
      /\ Goto(r, "reply")
      /\ UNCHANGED <<isDirect, rows, muted, job, faults>>

\* The upsert of mute_member and the delete of unmute_member.
WriteMute(r) ==
  LET j == job[r]
  IN  /\ pc[r] = "write"
      /\ \/ j.op = "mute" /\ muted' = muted \cup {j.user}
         \/ j.op = "unmute" /\ muted' = muted \ {j.user}
      /\ Goto(r, "reply")
      /\ UNCHANGED <<isDirect, rows, perms, job, faults>>

\* set_note and set_notify: INSERT ... ON CONFLICT DO UPDATE.  So does read_bulk
\* (messages.rs line 272), which begins with the same check and ends there unless
\* it stops on the way: "note" stands for it too.
WriteNote(r) ==
  LET row == rows["chat_members"][job[r].user]
  IN  /\ pc[r] = "write"
      /\ job[r].op = "note"
      /\ ~InsertWaits(row)
      /\ rows' = [rows EXCEPT !["chat_members"][job[r].user] = Rest("in")]
      /\ Goto(r, "reply")
      /\ UNCHANGED <<isDirect, perms, muted, job, faults>>

\* What is left reads and answers (remove_participant also pushes user_left,
\* see WsHub).
Reply(r) ==
  /\ pc[r] = "reply"
  /\ Goto(r, "done")
  /\ UNCHANGED <<isDirect, rows, perms, muted, job, faults>>

\* A statement fails or the process dies: 500, and an open transaction is
\* rolled back.
Fail(r) ==
  /\ pc[r] \notin {"idle", "done"}
  /\ faults < MaxFaults
  /\ faults' = faults + 1
  /\ rows' = AllEnded(r, FALSE)
  /\ Goto(r, "done")
  /\ UNCHANGED <<isDirect, perms, muted, job>>

----------------------------------------------------------------------------

Places == {"first", "second"}

Init ==
  /\ isDirect \in BOOLEAN
  /\ rows = [t \in Tables |->
               [u \in Users |-> Rest(IF u \in Members0 THEN "in" ELSE "out")]]
  /\ perms = [u \in Users |-> {}]
  /\ muted = {}
  /\ pc = [r \in Requests |-> "idle"]
  /\ job = [r \in Requests |-> None]
  /\ faults = 0
  /\ contended = {}

\* The handler of r goes on.
Progress(r) ==
  \/ FetchMeta(r) \/ LoadPerms(r) \/ EnsureMember(r)
  \/ \E p \in Places : Insert(r, p) \/ Delete(r, p) \/ Block(r, p) \/ Unblock(r, p)
  \/ Commit(r) \/ WritePerms(r) \/ WriteMute(r) \/ WriteNote(r) \/ Reply(r)

\* From the check or first statement that concerns them until the last one, r
\* works on the rows of its user.
WorksOn(r, u) ==
  /\ job[r] # None /\ job[r].user = u
  /\ \/ pc[r] \in {"first", "firstWait", "second", "secondWait", "commit"}
     \/ pc[r] = "write" /\ job[r].op = "note"

Contended ==
  {u \in Users : \E r, x \in Requests : r # x /\ WorksOn(r, u) /\ WorksOn(x, u)}

Next ==
  /\ \E r \in Requests : Begin(r) \/ Progress(r) \/ Fail(r)
  /\ contended' = contended \cup Contended'

Spec == Init /\ [][Next]_vars

----------------------------------------------------------------------------
\* Properties

Pcs == {"idle", "meta", "perms", "member", "first", "firstWait", "second",
        "secondWait", "commit", "write", "reply", "done"}

\* The types, and: a row is held by a transaction exactly while it is changing.
TypeOK ==
  /\ isDirect \in BOOLEAN
  /\ rows \in [Tables -> [Users -> Row]]
  /\ \A t \in Tables, u \in Users :
       rows[t][u].tx = None <=> rows[t][u].is \in {"in", "out"}
  /\ perms \in [Users -> SUBSET Perms]
  /\ muted \subseteq Users
  /\ pc \in [Requests -> Pcs]
  /\ job \in [Requests -> Jobs \cup {None}]
  /\ \A r \in Requests : job[r] = None <=> pc[r] = "idle"
  /\ faults \in Nat
  /\ contended \subseteq Users

(***************************************************************************)
(* A user has a row in chat_participants exactly when in chat_members      *)
(* (API_SPEC.md line 527), as long as no two requests ever worked on the   *)
(* rows of that user at once and none does now: each handler alone keeps   *)
(* the two tables in step, failures included (chats.rs lines 184-201,      *)
(* 366-380, 474-488, members.rs lines 79-84).                              *)
(***************************************************************************)
TablesInStep ==
  \A u \in Users \ contended :
    (~\E r \in Requests : WorksOn(r, u))
      => (u \in Participants <=> u \in Visible("chat_members"))

(***************************************************************************)
(* A direct chat keeps its two participants: nobody can add, remove,       *)
(* promote or leave, in whatever order requests come (chats.rs lines       *)
(* 178-180, 361-363, 468-473).                                             *)
(***************************************************************************)
DirectStays == isDirect => Participants = Members0 /\ \A u \in Users : perms[u] = {}

Effect(op) ==
  CASE op = "add" -> "join"
    [] op \in {"remove", "leave"} -> "drop"
    [] OTHER -> "other"

\* A transaction has had its effect once it has run its first statement and
\* holds no row of chat_participants: it changed none, or it has committed.
Stage(r) ==
  CASE pc[r] = "idle" -> "idle"
    [] pc[r] = "done" -> "closed"
    [] pc[r] \in {"second", "secondWait", "commit"} ->
         IF rows["chat_participants"][job[r].user].tx = r THEN "open" ELSE "applied"
    [] pc[r] = "reply" -> IF Effect(job[r].op) = "other" THEN "open" ELSE "applied"
    [] OTHER -> "open"

Aim(r) ==
  IF job[r] = None THEN None ELSE [effect |-> Effect(job[r].op), user |-> job[r].user]

Atomic == INSTANCE AtomicRoster WITH
  members <- Participants,
  stage <- [r \in Requests |-> Stage(r)],
  aim <- [r \in Requests |-> Aim(r)]

(***************************************************************************)
(* chat_participants is changed atomically: every add, remove or leave has *)
(* its effect at one instant between its start and its end, or none,       *)
(* however the statements of several transactions interleave and fail.     *)
(***************************************************************************)
ImplementsAtomicRoster == Atomic!Spec

\* The statement r is at cannot end before transaction x does.
Blocked(r, x) ==
  \/ \E p \in Places :
       /\ pc[r] \in {p, Waiting(p)}
       /\ rows[TableOf(job[r], p)][job[r].user].tx = x
  \/ /\ pc[r] = "write"
     /\ job[r].op = "note"
     /\ rows["chat_members"][job[r].user].tx = x

(***************************************************************************)
(* No circle of waiting transactions, of any length: since all of them     *)
(* lock the two tables in one order, in any set of requests there is one   *)
(* that none of the others keeps waiting (chats.rs lines 184-201, 366-380, *)
(* 474-488).                                                               *)
(***************************************************************************)
NoDeadlock ==
  \A R \in (SUBSET Requests) \ {{}} : \E r \in R : \A x \in R : ~Blocked(r, x)

=============================================================================
