----------------------------- MODULE ReadState -----------------------------
(***************************************************************************)
(* What has been read in one chat: read_bulk, unread_count and purge_reads *)
(* of src/src/handlers/messages.rs, mark_as_read of src/src/ws.rs and      *)
(* clear_messages of chats.rs, over message_views, message_reads_agg,      *)
(* message_reads_small and chat_members.last_read_message_id.              *)
(*                                                                         *)
(* Each SQL statement is a transaction of its own, and calls interleave    *)
(* between any two.  The tables refer to messages with foreign keys: a     *)
(* statement that names a message that is not stored fails.                *)
(***************************************************************************)
EXTENDS Naturals, Sequences, FiniteSets

CONSTANTS
  Users,
  Creator,      \* chats.owner_id, unless the chat is direct
  Count,        \* messages are 1..Count in the order of created_at
  Calls,        \* requests and commands, each used once
  Requests,     \* what may arrive: op, user and the messages it names
  SmallGroup,   \* the 100 of read_bulk
  MaxOthers,    \* participants besides Users
  Stored0       \* messages stored at the start

Messages == 1..Count
Null == 0

Ops == {"read_bulk", "mark_as_read", "unread_count", "clear_messages"}

ASSUME ReadAssumption ==
  /\ Creator \in Users /\ IsFiniteSet(Users)
  /\ Count \in Nat /\ Stored0 \subseteq Messages
  /\ SmallGroup \in Nat /\ MaxOthers \in Nat
  /\ Requests \subseteq [op : Ops, user : Users, ids : Seq(Messages)]
  /\ \A q \in Requests : q.op = "mark_as_read" => Len(q.ids) = 1

VARIABLES
  kind,        \* "direct", "group" or "channel", fixed when the chat is made
  part,        \* the Users in chat_participants
  others,      \* how many more there are
  msg,         \* message -> "none", "live", "deleted" or "cleared"
  views,       \* message_views
  firstRead,   \* message_reads_agg.first_read_at, or Null
  readAt,      \* message_reads_small: message -> user -> read_at, or Null
  rowOf,       \* the Users with a row in chat_members
  lastRead,    \* user -> last_read_message_id, or Null
  clock,       \* the time chrono::Utc::now() returned last
  pc, call, ctx,
  said,        \* history: user -> the position the answers to the user add up to
  unsure       \* history: users two of whose calls overlapped, or who left
               \* during a call, or whose answer was lost

tables == <<views, firstRead, readAt>>
chat == <<kind, part, others, msg>>
vars == <<chat, tables, rowOf, lastRead, clock, pc, call, ctx, said, unsure>>

Stored == {m \in Messages : msg[m] \in {"live", "deleted"}}

\* What a call remembers between its turns.
Fresh == [at |-> 1, now |-> 0, store |-> "none", target |-> Null, pos |-> Null, unread |-> 0]

User(c) == call[c].user
Ids(c) == call[c].ids

Running(c) == pc[c] \notin {"idle", "done"}
Moves(c) == call[c].op \in {"read_bulk", "mark_as_read"}

Goto(c, there) ==
  /\ pc' = [pc EXCEPT ![c] = there]
  /\ UNCHANGED call

Nothing == [op |-> "none", user |-> Creator, ids |-> <<>>]

\* The handler returns, and what it remembered is gone.
End(c) ==
  /\ pc' = [pc EXCEPT ![c] = "done"]
  /\ call' = [call EXCEPT ![c] = Nothing]
  /\ ctx' = [ctx EXCEPT ![c] = Fresh]

Unchanged == UNCHANGED <<chat, tables, rowOf, lastRead, clock, said>>

----------------------------------------------------------------------------
\* The start of a call

Overlaps(c, q) ==
  /\ q.op \in {"read_bulk", "mark_as_read"}
  /\ \E x \in Calls : Running(x) /\ Moves(x) /\ User(x) = q.user

Begin(c) ==
  /\ pc[c] = "idle"
  /\ \E q \in Requests :
       /\ call' = [call EXCEPT ![c] = q]
       /\ unsure' = unsure \cup (IF Overlaps(c, q) THEN {q.user} ELSE {})
  /\ pc' = [pc EXCEPT ![c] = "check"]
  /\ UNCHANGED <<chat, tables, rowOf, lastRead, clock, ctx, said>>

AfterCheck(op) ==
  CASE op = "read_bulk" -> "count"
    [] op = "mark_as_read" -> "update"
    [] op = "unread_count" -> "position"
    [] op = "clear_messages" -> "clear"

\* ensure_member, and for clear_messages who may: anyone in a direct chat, else
\* the owner (and admins, who are left out).
MayClear(u) == IF kind = "direct" THEN u \in part ELSE u = Creator

Check(c) ==
  LET allowed == IF call[c].op = "clear_messages" THEN MayClear(User(c)) ELSE User(c) \in part
  IN  /\ pc[c] = "check"
      /\ \/ allowed /\ Goto(c, AfterCheck(call[c].op)) /\ UNCHANGED ctx
         \/ ~allowed /\ End(c)
      /\ Unchanged /\ UNCHANGED unsure

----------------------------------------------------------------------------
\* read_bulk

\* Mutant of Store: the kind of the chat, where the table is meant.
Store_Kind(count) == kind

\* Which table takes the receipts.
Store(count) ==
  IF kind = "channel" THEN "views"
  ELSE IF kind = "direct" \/ count > SmallGroup THEN "agg" ELSE "small"

\* chats is read, participants are counted, the time is taken.
CountParticipants(c) ==
  /\ pc[c] = "count"
  /\ clock' = clock + 1
  /\ ctx' = [ctx EXCEPT ![c].now = clock', ![c].store = Store(Cardinality(part) + others)]
  /\ Goto(c, "record")
  /\ UNCHANGED <<chat, tables, rowOf, lastRead, said, unsure>>

\* Mutant of FirstRead: ON CONFLICT takes the excluded value.
FirstRead_Latest(old, now) == now

\* COALESCE(first_read_at, EXCLUDED.first_read_at).
FirstRead(old, now) == IF old = Null THEN now ELSE old

\* Mutant of Recorded: one row for each user in message_reads_small.
Recorded_OnePerUser(c, m) ==
  LET now == ctx[c].now
  IN  \/ /\ ctx[c].store = "views"
         /\ views' = [views EXCEPT ![m] = @ + 1]
         /\ UNCHANGED <<firstRead, readAt>>
      \/ /\ ctx[c].store = "agg"
         /\ firstRead' = [firstRead EXCEPT ![m] = FirstRead(@, now)]
         /\ UNCHANGED <<views, readAt>>
      \/ /\ ctx[c].store = "small"
         /\ readAt' = [n \in Messages |-> [readAt[n] EXCEPT ![User(c)] = IF n = m THEN now ELSE Null]]
         /\ UNCHANGED <<views, firstRead>>

Recorded(c, m) ==
  LET now == ctx[c].now
  IN  \/ /\ ctx[c].store = "views"
         /\ views' = [views EXCEPT ![m] = @ + 1]
         /\ UNCHANGED <<firstRead, readAt>>
      \/ /\ ctx[c].store = "agg"
         /\ firstRead' = [firstRead EXCEPT ![m] = FirstRead(@, now)]
         /\ UNCHANGED <<views, readAt>>
      \/ /\ ctx[c].store = "small"
         /\ readAt' = [readAt EXCEPT ![m][User(c)] = now]
         /\ UNCHANGED <<views, firstRead>>

\* One receipt; a message that is not stored ends the call with an error and
\* leaves the receipts before it.  Ids of other chats, which read_bulk does not
\* sort out before FindNewest, get their receipts there and are left out.
RecordNext(c) ==
  LET at == ctx[c].at
  IN  /\ pc[c] = "record" /\ at <= Len(Ids(c))
      /\ \/ /\ Ids(c)[at] \in Stored /\ Recorded(c, Ids(c)[at])
            /\ ctx' = [ctx EXCEPT ![c].at = at + 1] /\ Goto(c, "record")
         \/ Ids(c)[at] \notin Stored /\ End(c) /\ UNCHANGED tables
      /\ UNCHANGED <<chat, rowOf, lastRead, clock, said, unsure>>

Named(c) == {Ids(c)[i] : i \in 1..Len(Ids(c))}

Newest(S) == CHOOSE m \in S : \A n \in S : n <= m

\* The newest of the batch that is in the chat.
FindNewest(c) ==
  LET S == Named(c) \cap Stored
  IN  /\ pc[c] = "record" /\ ctx[c].at > Len(Ids(c))
      /\ \/ S # {} /\ ctx' = [ctx EXCEPT ![c].target = Newest(S)] /\ Goto(c, "current")
         \/ S = {} /\ Goto(c, "reply") /\ UNCHANGED ctx
      /\ Unchanged /\ UNCHANGED unsure

\* Mutant of IsNewer: the comparison is the wrong way round.
IsNewer_Older(m, u) == m < lastRead[u]

IsNewer(m, u) == m > lastRead[u]

\* The position so far: without a row anything is newer; a row whose position
\* is NULL does not decode, and the call ends with an error.
ReadCurrent(c) ==
  LET u == User(c)
  IN  /\ pc[c] = "current"
      /\ \/ u \notin rowOf /\ Goto(c, "upsert") /\ UNCHANGED ctx
         \/ u \in rowOf /\ lastRead[u] = Null /\ End(c)
         \/ /\ u \in rowOf /\ lastRead[u] # Null
            /\ Goto(c, IF IsNewer(ctx[c].target, u) THEN "upsert" ELSE "reply")
            /\ UNCHANGED ctx
      /\ Unchanged /\ UNCHANGED unsure

Upsert(c) ==
  LET u == User(c)
      m == ctx[c].target
  IN  /\ pc[c] = "upsert"
      /\ \/ /\ m \in Stored
            /\ lastRead' = [lastRead EXCEPT ![u] = m] /\ rowOf' = rowOf \cup {u}
            /\ Goto(c, "reply") /\ UNCHANGED ctx
         \/ m \notin Stored /\ End(c) /\ UNCHANGED <<lastRead, rowOf>>
      /\ UNCHANGED <<chat, tables, clock, said, unsure>>

----------------------------------------------------------------------------
\* mark_as_read: what it writes (what it tells whom is in WsHub).

UpdateLastRead(c) ==
  LET u == User(c)
      m == Ids(c)[1]
  IN  /\ pc[c] = "update"
      /\ \/ /\ u \in rowOf /\ m \in Stored
            /\ lastRead' = [lastRead EXCEPT ![u] = m]
            /\ ctx' = [ctx EXCEPT ![c].target = m]
            /\ Goto(c, "reply")
         \/ u \notin rowOf /\ Goto(c, "reply") /\ UNCHANGED <<lastRead, ctx>>
         \/ u \in rowOf /\ m \notin Stored /\ End(c) /\ UNCHANGED lastRead
      /\ UNCHANGED <<chat, tables, rowOf, clock, said, unsure>>

----------------------------------------------------------------------------
\* unread_count

ReadPosition(c) ==
  /\ pc[c] = "position"
  /\ ctx' = [ctx EXCEPT ![c].pos = lastRead[User(c)]]
  /\ Goto(c, "unread")
  /\ Unchanged /\ UNCHANGED unsure

\* Mutant of Unread: deleted messages are counted.
Unread_Deleted(pos) == {m \in Stored : m > pos}

Unread(pos) == {m \in Stored : msg[m] = "live" /\ m > pos}

CountUnread(c) ==
  /\ pc[c] = "unread"
  /\ ctx' = [ctx EXCEPT ![c].unread = Cardinality(Unread(ctx[c].pos))]
  /\ Goto(c, "reply")
  /\ Unchanged /\ UNCHANGED unsure

----------------------------------------------------------------------------
\* clear_messages: the foreign keys delete receipts and set positions to NULL.

\* Mutant of Wiped: message_reads_agg is not cascaded.
Wiped_KeepsAgg(gone) ==
  /\ views' = [m \in Messages |-> IF m \in gone THEN 0 ELSE views[m]]
  /\ UNCHANGED firstRead
  /\ readAt' = [m \in Messages |-> [u \in Users |-> IF m \in gone THEN Null ELSE readAt[m][u]]]

Wiped(gone) ==
  /\ views' = [m \in Messages |-> IF m \in gone THEN 0 ELSE views[m]]
  /\ firstRead' = [m \in Messages |-> IF m \in gone THEN Null ELSE firstRead[m]]
  /\ readAt' = [m \in Messages |-> [u \in Users |-> IF m \in gone THEN Null ELSE readAt[m][u]]]

Clear(c) ==
  /\ pc[c] = "clear"
  /\ msg' = [m \in Messages |-> IF m \in Stored THEN "cleared" ELSE msg[m]]
  /\ Wiped(Stored)
  /\ lastRead' = [u \in Users |-> Null]
  /\ said' = [u \in Users |-> Null]
  /\ Goto(c, "reply")
  /\ UNCHANGED <<kind, part, others, rowOf, clock, ctx, unsure>>

----------------------------------------------------------------------------
\* Answers and failures

\* What the user now knows to be read: read_bulk only goes forward.
Told(c) ==
  LET m == ctx[c].target
      old == said[User(c)]
  IN  CASE m \notin Stored -> old
        [] m \in Stored /\ call[c].op = "read_bulk" -> IF m > old THEN m ELSE old
        [] OTHER -> m

Reply(c) ==
  /\ pc[c] = "reply"
  /\ said' = [said EXCEPT ![User(c)] = Told(c)]
  /\ End(c)
  /\ UNCHANGED <<chat, tables, rowOf, lastRead, clock, unsure>>

\* A statement fails or the answer is lost; what was written stays.
Fail(c) ==
  /\ Running(c)
  /\ unsure' = IF pc[c] = "reply" THEN unsure \cup {User(c)} ELSE unsure
  /\ End(c)
  /\ Unchanged

----------------------------------------------------------------------------
\* Around the calls

\* A message becomes visible.  created_at is when its transaction began, so an
\* older one may follow a newer one.
StoreMessage(m) ==
  /\ msg[m] = "none"
  /\ msg' = [msg EXCEPT ![m] = "live"]
  /\ UNCHANGED <<kind, part, others, tables, rowOf, lastRead, clock, pc, call, ctx, said, unsure>>

\* delete_message sets is_deleted.
DeleteMessage(m) ==
  /\ msg[m] = "live"
  /\ msg' = [msg EXCEPT ![m] = "deleted"]
  /\ UNCHANGED <<kind, part, others, tables, rowOf, lastRead, clock, pc, call, ctx, said, unsure>>

\* A participant is removed or leaves (Roster has the statements).
Leave(u) ==
  /\ u \in part /\ u # Creator /\ kind # "direct"
  /\ part' = part \ {u}
  /\ rowOf' = rowOf \ {u}
  /\ lastRead' = [lastRead EXCEPT ![u] = Null]
  /\ said' = [said EXCEPT ![u] = Null]
  /\ unsure' = IF \E c \in Calls : Running(c) /\ Moves(c) /\ User(c) = u
               THEN unsure \cup {u} ELSE unsure
  /\ UNCHANGED <<kind, others, msg, tables, clock, pc, call, ctx>>

Join(u) ==
  /\ u \notin part /\ kind # "direct"
  /\ part' = part \cup {u}
  /\ rowOf' = rowOf \cup {u}
  /\ UNCHANGED <<kind, others, msg, tables, lastRead, clock, pc, call, ctx, said, unsure>>

\* The chat grows or shrinks past the limit of a small group.
Crowd ==
  /\ kind # "direct"
  /\ others' \in 0..MaxOthers \ {others}
  /\ UNCHANGED <<kind, part, msg, tables, rowOf, lastRead, clock, pc, call, ctx, said, unsure>>

\* purge_reads: the receipts it deletes are a week old, and no call runs that
\* long.
PurgeReads ==
  /\ \A c \in Calls : ~Running(c)
  /\ \E t \in 1..clock :
       readAt' = [m \in Messages |-> [u \in Users |-> IF readAt[m][u] <= t THEN Null ELSE readAt[m][u]]]
  /\ UNCHANGED <<chat, views, firstRead, rowOf, lastRead, clock, pc, call, ctx, said, unsure>>

----------------------------------------------------------------------------

Init ==
  /\ kind \in {"direct", "group", "channel"}
  /\ part = Users
  /\ others = 0
  /\ msg = [m \in Messages |-> IF m \in Stored0 THEN "live" ELSE "none"]
  /\ views = [m \in Messages |-> 0]
  /\ firstRead = [m \in Messages |-> Null]
  /\ readAt = [m \in Messages |-> [u \in Users |-> Null]]
  \* start_direct_chat adds rows to chat_members, and nobody has read anything
  \* or someone has marked a message.
  /\ rowOf = Users
  /\ lastRead \in [Users -> Stored0 \cup {Null}]
  /\ clock = 0
  /\ pc = [c \in Calls |-> "idle"]
  /\ call = [c \in Calls |-> Nothing]
  /\ ctx = [c \in Calls |-> Fresh]
  /\ said = lastRead
  /\ unsure = {}

ReadBulk(c) ==
  CountParticipants(c) \/ RecordNext(c) \/ FindNewest(c) \/ ReadCurrent(c) \/ Upsert(c)

UnreadCount(c) == ReadPosition(c) \/ CountUnread(c)

Next ==
  \/ \E c \in Calls : Begin(c) \/ Check(c) \/ ReadBulk(c) \/ UpdateLastRead(c)
                        \/ UnreadCount(c) \/ Clear(c) \/ Reply(c) \/ Fail(c)
  \/ \E m \in Messages : StoreMessage(m) \/ DeleteMessage(m)
  \/ \E u \in Users : Leave(u) \/ Join(u)
  \/ Crowd \/ PurgeReads

Spec == Init /\ [][Next]_vars

----------------------------------------------------------------------------
\* Properties

Pcs == {"idle", "check", "count", "record", "current", "upsert", "update",
        "position", "unread", "clear", "reply", "done"}

TypeOK ==
  /\ kind \in {"direct", "group", "channel"}
  /\ part \subseteq Users /\ rowOf \subseteq Users /\ unsure \subseteq Users
  /\ others \in Nat /\ clock \in Nat
  /\ msg \in [Messages -> {"none", "live", "deleted", "cleared"}]
  /\ views \in [Messages -> Nat]
  /\ firstRead \in [Messages -> Nat]
  /\ readAt \in [Messages -> [Users -> Nat]]
  /\ lastRead \in [Users -> Messages \cup {Null}]
  /\ said \in [Users -> Messages \cup {Null}]
  /\ pc \in [Calls -> Pcs]
  /\ \A c \in Calls : call[c] \in IF Running(c) THEN Requests ELSE {Nothing}
  /\ ctx \in [Calls -> [at : Nat, now : Nat, store : {"none", "views", "agg", "small"},
                        target : Messages \cup {Null}, pos : Messages \cup {Null},
                        unread : Nat]]

(***************************************************************************)
(* No receipt and no position outlives its message, although read_bulk and *)
(* clear_messages interleave between any two of their statements           *)
(* (messages.rs lines 223-281, chats.rs lines 510-514).                    *)
(***************************************************************************)
NoDanglingReads ==
  /\ \A m \in Messages \ Stored :
       /\ views[m] = 0 /\ firstRead[m] = Null
       /\ \A u \in Users : readAt[m][u] = Null
  /\ \A u \in Users : lastRead[u] \in Stored \cup {Null}
  /\ \A u \in Users \ rowOf : lastRead[u] = Null

(***************************************************************************)
(* first_read_at is when a message was first read: once set, no later or   *)
(* concurrent reader changes it while the message exists (messages.rs line *)
(* 234, API_SPEC.md line 492).                                             *)
(***************************************************************************)
FirstReadStays ==
  [][\A m \in Messages :
       firstRead[m] # Null /\ m \in Stored' => firstRead'[m] = firstRead[m]]_vars

(***************************************************************************)
(* A read_bulk that is about to answer 200 has a receipt for every message *)
(* of its batch that has not been cleared meanwhile, in the table it chose *)
(* before, whatever the number of participants is by now (messages.rs      *)
(* lines 214-251).                                                         *)
(***************************************************************************)
AnsweredIsRecorded ==
  \A c \in Calls :
    pc[c] = "reply" /\ call[c].op = "read_bulk" =>
      \A m \in Named(c) \cap Stored :
        CASE ctx[c].store = "views" -> views[m] > 0
          [] ctx[c].store = "agg" -> firstRead[m] # Null
          [] ctx[c].store = "small" -> readAt[m][User(c)] # Null

(***************************************************************************)
(* A user whose calls never overlapped and whose answers all arrived is    *)
(* exactly where those answers say: read_bulk only goes forward, also when *)
(* an older batch comes after a newer one, mark_as_read goes anywhere      *)
(* (messages.rs lines 253-281, ws.rs lines 319-325).                       *)
(***************************************************************************)
PositionIsWhatWasSaid ==
  \A u \in Users \ unsure :
    (~\E c \in Calls : Running(c) /\ Moves(c) /\ User(c) = u) => lastRead[u] = said[u]

(***************************************************************************)
(* unread_count, when the position did not change between its two          *)
(* statements, answers the number of messages that are live now and newer  *)
(* than the last one the user was told to have read (messages.rs lines     *)
(* 308-339).                                                               *)
(***************************************************************************)
UnreadIsNewAndLive ==
  [][\A c \in Calls :
       LET u == User(c)
       IN  /\ pc[c] = "unread" /\ pc'[c] = "reply"
           /\ u \notin unsure /\ ctx[c].pos = lastRead[u]
           /\ ~\E x \in Calls : Running(x) /\ Moves(x) /\ User(x) = u
           => ctx'[c].unread = Cardinality({m \in Messages : msg[m] = "live" /\ m > said[u]})]_vars

=============================================================================
