------------------------------- MODULE WsHub -------------------------------
(***************************************************************************)
(* The real-time core: WebSocket sessions (src/src/ws.rs), the shared      *)
(* in-memory AppState they use (src/src/state.rs) and the HTTP handlers    *)
(* that push events to them (messages.rs, pin.rs, chats.rs).               *)
(*                                                                         *)
(* One worker thread runs everything (main.rs, workers(1)), so tasks       *)
(* interleave only where the code awaits.  An action is one turn of one    *)
(* task: it resumes from an await, runs the code up to the next one and    *)
(* executes the SQL statement awaited there.  What the statement returned  *)
(* is in the task's own variables (job, row, rcpt) until its next turn.    *)
(*                                                                         *)
(* DashMap::get returns a guard on the key's shard.  A turn that needs to  *)
(* write a shard whose guard another, suspended, task holds parks the only *)
(* worker thread: "parked" names that task, and no turn is possible while  *)
(* it is set.                                                              *)
(***************************************************************************)
EXTENDS Naturals, Sequences, FiniteSets

CONSTANTS
  Users, Chats, Messages,
  Sessions,          \* WebSocket connections, each used once
  Requests,          \* HTTP requests, each used once
  None,
  SessionUser,       \* the user whose token opened the connection
  ShardOf,           \* user -> shard of the clients map
  ChatKind,          \* chat -> "direct", "group" or "channel"
  Owner,             \* chats.owner_id
  Admins,            \* <<chat, user>> with the admin permission asked for
  Members0,          \* chat_participants at the start
  SmallGroupLimit,   \* the 100 of ws.rs lines 368 and 429
  SessionJobs,       \* client-to-server messages that may arrive
  RequestJobs,       \* HTTP requests that may arrive
  Joins,             \* <<chat, user>> that add_participant may commit
  Mutes,             \* <<chat, user>> that mute_member may commit
  MaxSeq,            \* no command starts once the counter is there
  MaxFaults,         \* failing SQL statements
  MaxRestarts        \* restarts of the server

\* What a client may send over its socket, and what comes over HTTP.
SessionOps == {"send_message", "start_typing", "mark_as_read", "sync"}
RequestOps == {"edit", "delete", "pin", "unpin", "kick", "post"}

Jobs == [op : SessionOps \cup RequestOps, chat : Chats, msg : Messages, by : Users, user : Users,
         ack : BOOLEAN]

ASSUME HubAssumption ==
  /\ None \notin Users \cup Sessions \cup Requests \cup Chats \cup Jobs
  /\ None \notin Messages
  /\ Sessions \cap Requests = {}
  /\ SessionUser \in [Sessions -> Users]
  /\ Owner \in [Chats -> Users \cup {None}]
  /\ Members0 \in [Chats -> SUBSET Users]
  /\ SessionJobs \subseteq {j \in Jobs : j.op \in SessionOps}
  /\ RequestJobs \subseteq {j \in Jobs : j.op \in RequestOps}
  /\ Joins \subseteq Chats \X Users
  /\ Mutes \subseteq Chats \X Users
  /\ MaxFaults \in Nat
  /\ MaxRestarts \in Nat

Tasks == Sessions \cup Requests

Contents == Requests \cup {None}   \* an edit's text is named after its request

\* ServerWsMsg without its sequence_id: what happened, to whom or what.
Body(k, t, v) == [kind |-> k, topic |-> t, value |-> v]

Bodies ==
       [kind : {"presence_update"}, topic : Users, value : {"online", "offline"}]
  \cup [kind : {"new_message", "message_edited", "message_deleted", "chat_action"},
        topic : Messages, value : Contents]
  \cup [kind : {"chat_action", "typing_indicator"}, topic : Chats,
        value : Users \cup {None}]
  \cup [kind : {"messages_read"}, topic : Users, value : Messages]
  \cup [kind : {"ack", "error", "sync_response"}, topic : Users, value : {None}]

Event == [seq : Nat, body : Bodies]
Event_(n, b) == [seq |-> n, body |-> b]

MsgStates == {"none", "live", "deleted"}
MsgRows == [state : MsgStates, chat : Chats \cup {None},
            sender : Users \cup {None}, content : Contents]

VARIABLES
  \* AppState
  clients,       \* user -> session whose sender is registered, or None
  presence,      \* user -> "absent", "online" or "offline"
  typing,        \* keys of the typing map
  seqCounter,    \* sequence_counter
  \* the database
  participants,  \* chat_participants
  muted,         \* chat_mutes not yet expired
  msgs,          \* messages
  pinned,        \* chats.pinned_message_id
  lastRead,      \* chat_members.last_read_message_id
  \* the tasks
  pc, job, row, rcpt,
  guard,         \* key whose DashMap guard the task holds, or None
  parked,        \* task for which the worker thread is parked, or None
  queue,         \* per session: its mpsc channel
  received,      \* per session: what was written to its socket
  faults, restarts,
  audience       \* history: who may be told of a message (see Insert)

mem  == <<clients, presence, typing>>
db   == <<participants, muted, msgs, pinned, lastRead, audience>>
chan == <<seqCounter, queue, received>>
env  == <<faults, restarts>>
task == <<pc, job, row, rcpt, guard, parked>>
vars == <<mem, db, chan, env, task>>

----------------------------------------------------------------------------
\* Reading the database

Small(c) == Cardinality(participants[c]) <= SmallGroupLimit

\* get_common_chat_users
CommonUsers(u) ==
  {v \in Users \ {u} : \E c \in Chats : /\ {u, v} \subseteq participants[c]
                                        /\ ChatKind[c] = "direct" \/ Small(c)}

\* A direct chat is created with chat_type NULL.
ChatTypeColumn(c) == IF ChatKind[c] = "direct" THEN None ELSE ChatKind[c]

Authorised(j) == Owner[j.chat] = j.by \/ <<j.chat, j.by>> \in Admins

----------------------------------------------------------------------------
\* Pushing events

Me(s) == SessionUser[s]

\* tx.send for the registered session of every user of R that has one
Push(q, R, e) ==
  [s \in Sessions |-> IF \E u \in R : clients[u] = s THEN Append(q[s], e) ELSE q[s]]

\* Mutant of Broadcast: the counter is read, not advanced.
Broadcast_Load(R, b) ==
  /\ queue' = Push(queue, R, Event_(seqCounter, b))
  /\ UNCHANGED <<seqCounter, received>>

\* One broadcast: draw a number, then send, with no await in between.
Broadcast(R, b) ==
  /\ queue' = Push(queue, R, Event_(seqCounter, b))
  /\ seqCounter' = seqCounter + 1
  /\ UNCHANGED received

\* Mutant of BroadcastAndAck: one number for both.
BroadcastAndAck_SameNumber(s, R, b) ==
  IF job[s].ack /\ clients[Me(s)] # None
  THEN /\ queue' = Push(Push(queue, R, Event_(seqCounter, b)), {Me(s)},
                        Event_(seqCounter, Body("ack", Me(s), None)))
       /\ seqCounter' = seqCounter + 1
       /\ UNCHANGED received
  ELSE Broadcast(R, b)

\* A broadcast and the ack that follows it when the client sent a request_id
\* and a sender is registered for the user.
BroadcastAndAck(s, R, b) ==
  LET ackBody == Body("ack", Me(s), None)
  IN  IF job[s].ack /\ clients[Me(s)] # None
      THEN /\ queue' = Push(Push(queue, R, Event_(seqCounter, b)), {Me(s)},
                            Event_(seqCounter + 1, ackBody))
           /\ seqCounter' = seqCounter + 2
           /\ UNCHANGED received
      ELSE Broadcast(R, b)

\* One event for the session's own user, numbered only if it can be sent.
Reply(s, b) ==
  IF clients[Me(s)] # None THEN Broadcast({Me(s)}, b) ELSE UNCHANGED chan

----------------------------------------------------------------------------
\* Turns of a task

At(t, here) == parked = None /\ pc[t] = here

Goto(t, there) == pc' = [pc EXCEPT ![t] = there]

\* The task moves on and keeps its locals.
Step(t, here, there) ==
  /\ At(t, here)
  /\ Goto(t, there)
  /\ UNCHANGED <<job, row, rcpt, guard, parked, env>>

\* Where a task is once its command or request is over.
Rest(t) == IF t \in Sessions THEN "loop" ELSE "done"

\* The handler returns: its locals and its guard are dropped.
Finish(t) ==
  /\ Goto(t, Rest(t))
  /\ job' = [job EXCEPT ![t] = None]
  /\ row' = [row EXCEPT ![t] = None]
  /\ rcpt' = [rcpt EXCEPT ![t] = {}]
  /\ guard' = [guard EXCEPT ![t] = None]
  /\ UNCHANGED parked

Return(t, here) == At(t, here) /\ Finish(t) /\ UNCHANGED env

\* Some suspended task holds a guard on the shard of u.
ShardHeld(u) == \E t \in Tasks : guard[t] # None /\ ShardOf[guard[t]] = ShardOf[u]

\* The worker thread waits for a shard it can only get from a task it runs.
Park(t) ==
  /\ parked' = t
  /\ UNCHANGED <<pc, job, row, rcpt, guard, mem, db, chan, env>>

----------------------------------------------------------------------------
\* ws_session: connecting and disconnecting

Connect(s) ==
  /\ ~ShardHeld(Me(s))
  /\ Step(s, "new", "greet")
  /\ clients' = [clients EXCEPT ![Me(s)] = s]
  /\ presence' = [presence EXCEPT ![Me(s)] = "online"]
  /\ UNCHANGED <<typing, db, chan>>

ConnectParks(s) ==
  /\ At(s, "new")
  /\ ShardHeld(Me(s))
  /\ Park(s)

\* get_common_chat_users, before the online (greet) or offline (farewell)
\* update; a failing query counts as "nobody" (unwrap_or_default).
FetchCommon(s) ==
  /\ \/ At(s, "greet") /\ Goto(s, "announceOnline")
     \/ At(s, "farewell") /\ Goto(s, "announceOffline")
  /\ \/ rcpt' = [rcpt EXCEPT ![s] = CommonUsers(Me(s))] /\ UNCHANGED env
     \/ /\ faults < MaxFaults
        /\ faults' = faults + 1
        /\ rcpt' = [rcpt EXCEPT ![s] = {}]
        /\ UNCHANGED restarts
  /\ UNCHANGED <<job, row, guard, parked, mem, db, chan>>

AnnounceOnline(s) ==
  /\ At(s, "announceOnline")
  /\ Goto(s, "loop")
  /\ rcpt' = [rcpt EXCEPT ![s] = {}]
  /\ Broadcast(rcpt[s], Body("presence_update", Me(s), "online"))
  /\ UNCHANGED <<job, row, guard, parked, mem, db, env>>

\* Mutant of Reads: a session stops reading its channel once its stream ended.
Reads_OnlyLoop(s) == At(s, "loop") /\ queue[s] # <<>>

\* rx.recv has an event; a lost connection ("drain") still gets here.
Reads(s) ==
  /\ parked = None
  /\ pc[s] \in {"loop", "drain"}
  /\ queue[s] # <<>>

\* session.text(txt).await goes into a bounded channel.  A write that finds it
\* full waits, without a timeout, until the client reads; the event in hand
\* stays the head of queue[s] meanwhile.
Writing(s) == pc[s] \in {"writing", "drainWriting"}

\* The event in hand is written.
Write(s) ==
  /\ queue[s] # <<>>
  /\ received' = [received EXCEPT ![s] = Append(@, Head(queue[s]))]
  /\ queue' = [queue EXCEPT ![s] = Tail(@)]
  /\ UNCHANGED seqCounter

\* There is room: the write ends in the turn it began.
Deliver(s) ==
  /\ Reads(s)
  /\ Write(s)
  /\ UNCHANGED <<mem, db, task, env>>

\* There is none: until the write ends the session reads neither its stream nor
\* its channel.
Suspend(s) ==
  /\ Reads(s)
  /\ Step(s, "loop", "writing") \/ Step(s, "drain", "drainWriting")
  /\ UNCHANGED <<mem, db, chan>>

\* The client has read and made room.
Written(s) ==
  /\ Write(s)
  /\ Step(s, "writing", "loop") \/ Step(s, "drainWriting", "drain")
  /\ UNCHANGED <<mem, db>>

\* What the session does with what its channel holds.  Whether there is room is
\* not for the session to say.
Receive(s) == Deliver(s) \/ Suspend(s)

\* stream.next() yields None: the pattern Some(msg) does not match, and since
\* the session keeps a sender of its own channel the else branch is never taken.
StreamEnds(s) ==
  /\ Step(s, "loop", "drain")
  /\ UNCHANGED <<mem, db, chan>>

\* The loop ends: a Close frame, a protocol error, or session.text failing, at
\* once or after it has waited.
Closing(s) ==
  /\ parked = None
  /\ \/ pc[s] = "loop" \/ Writing(s)
     \/ pc[s] = "drain" /\ queue[s] # <<>>

\* Mutants of Disconnect: the sender stays registered, or the user online.
Disconnect_KeepsSender(s) ==
  /\ Closing(s)
  /\ Goto(s, "farewell")
  /\ presence' = [presence EXCEPT ![Me(s)] = "offline"]
  /\ UNCHANGED <<clients, typing, db, chan, job, row, rcpt, guard, parked, env>>

Disconnect_KeepsOnline(s) ==
  /\ Closing(s)
  /\ Goto(s, "farewell")
  /\ clients' = [clients EXCEPT ![Me(s)] = None]
  /\ UNCHANGED <<presence, typing, db, chan, job, row, rcpt, guard, parked, env>>

Disconnect(s) ==
  /\ Closing(s)
  /\ ~ShardHeld(Me(s))
  /\ Goto(s, "farewell")
  /\ clients' = [clients EXCEPT ![Me(s)] = None]
  /\ presence' = [presence EXCEPT ![Me(s)] = "offline"]
  /\ UNCHANGED <<typing, db, chan, job, row, rcpt, guard, parked, env>>

DisconnectParks(s) ==
  /\ Closing(s)
  /\ ShardHeld(Me(s))
  /\ Park(s)

\* The session function returns; what is left in its channel is never read.
AnnounceOffline(s) ==
  /\ At(s, "announceOffline")
  /\ Goto(s, "done")
  /\ rcpt' = [rcpt EXCEPT ![s] = {}]
  /\ Broadcast(rcpt[s], Body("presence_update", Me(s), "offline"))
  /\ UNCHANGED <<job, row, guard, parked, mem, db, env>>

----------------------------------------------------------------------------
\* handle_ws_text: one command at a time per session

\* A message id is a fresh UUID: no row and no other task has it.
Fresh(m) ==
  /\ msgs[m].state = "none"
  /\ \A t \in Tasks : job[t] # None /\ job[t].op \in {"send_message", "post"}
                       => job[t].msg # m

Acceptable(j) ==
  /\ seqCounter < MaxSeq
  /\ j.op \in {"send_message", "post"} => Fresh(j.msg)

StartCommand(s) ==
  /\ At(s, "loop")
  /\ \E j \in SessionJobs : /\ j.by = Me(s)
                            /\ j.op # "sync"
                            /\ Acceptable(j)
                            /\ job' = [job EXCEPT ![s] = j]
  /\ Goto(s, "member")
  /\ UNCHANGED <<row, rcpt, guard, parked, env, mem, db, chan>>

\* Sync: numbered whether or not a sender is registered, never any events.
Sync(s) ==
  /\ At(s, "loop")
  /\ \E j \in SessionJobs : j.op = "sync" /\ j.by = Me(s) /\ Acceptable(j)
  /\ Broadcast({Me(s)}, Body("sync_response", Me(s), None))
  /\ UNCHANGED <<mem, db, task, env>>

CheckMember(s) ==
  LET j == job[s]
      member == j.by \in participants[j.chat]
  IN  /\ At(s, "member")
      /\ \/ member /\ j.op = "send_message" /\ Step(s, "member", "meta")
         \/ member /\ j.op = "start_typing" /\ Step(s, "member", "username")
         \/ member /\ j.op = "mark_as_read" /\ Step(s, "member", "update")
         \/ ~member /\ j.op = "send_message" /\ Step(s, "member", "reject")
         \/ ~member /\ j.op # "send_message" /\ Return(s, "member")
      /\ UNCHANGED <<mem, db, chan>>

\* send_ws_err, then the handler returns Ok.
Reject(s) ==
  /\ Return(s, "reject")
  /\ Reply(s, Body("error", Me(s), None))
  /\ UNCHANGED <<mem, db>>

\* Meta.chat_type is a String: a NULL column is a decoding error, which the
\* session only logs.
LoadMeta(s) ==
  LET c == job[s].chat
      barred == ChatTypeColumn(c) = "channel" /\ Owner[c] # Me(s)
  IN  /\ At(s, "meta")
      /\ \/ ChatTypeColumn(c) = None /\ Return(s, "meta")
         \/ ChatTypeColumn(c) # None /\ barred /\ Step(s, "meta", "reject")
         \/ ChatTypeColumn(c) # None /\ ~barred /\ Step(s, "meta", "mute")
      /\ UNCHANGED <<mem, db, chan>>

CheckMute(s) ==
  /\ At(s, "mute")
  /\ \/ <<job[s].chat, Me(s)>> \in muted /\ Step(s, "mute", "reject")
     \/ <<job[s].chat, Me(s)>> \notin muted /\ Step(s, "mute", "insert")
  /\ UNCHANGED <<mem, db, chan>>

\* INSERT INTO messages.  The history variable remembers who was in the chat.
Insert(j) ==
  /\ msgs' = [msgs EXCEPT ![j.msg] = [state |-> "live", chat |-> j.chat,
                                      sender |-> j.by, content |-> None]]
  /\ audience' = [audience EXCEPT ![j.msg] = participants[j.chat]]
  /\ UNCHANGED <<participants, muted, pinned, lastRead>>

InsertMessage(s) ==
  /\ Step(s, "insert", "participants")
  /\ Insert(job[s])
  /\ UNCHANGED <<mem, chan>>

\* Mutant of Recipients: membership as it was when the server started.
Recipients_Cached(j) == Members0[j.chat]

\* The recipients of any chat event; the typist is left out of the typing one.
Recipients(j) ==
  participants[j.chat] \ (IF j.op = "start_typing" THEN {j.by} ELSE {})

FetchParticipants(t) ==
  /\ At(t, "participants")
  /\ Goto(t, "broadcast")
  /\ rcpt' = [rcpt EXCEPT ![t] = Recipients(job[t])]
  /\ UNCHANGED <<job, row, guard, parked, env, mem, db, chan>>

\* Mutant of BroadcastMessage: channels with room for one event, whose senders
\* wait, the sender's own session among them.
BroadcastMessage_Bounded(s) ==
  /\ job[s] # None /\ job[s].op = "send_message"
  /\ \A u \in rcpt[s] : clients[u] # None => queue[clients[u]] = <<>>
  /\ Return(s, "broadcast")
  /\ BroadcastAndAck(s, rcpt[s], Body("new_message", job[s].msg, None))
  /\ UNCHANGED <<mem, db>>

BroadcastMessage(s) ==
  /\ job[s] # None /\ job[s].op = "send_message"
  /\ Return(s, "broadcast")
  /\ BroadcastAndAck(s, rcpt[s], Body("new_message", job[s].msg, None))
  /\ UNCHANGED <<mem, db>>

LookupName(s) ==
  /\ Step(s, "username", "participants")
  /\ typing' = typing \cup {<<job[s].chat, Me(s)>>}
  /\ UNCHANGED <<clients, presence, db, chan>>

BroadcastTyping(s) ==
  /\ job[s] # None /\ job[s].op = "start_typing"
  /\ Return(s, "broadcast")
  /\ BroadcastAndAck(s, rcpt[s], Body("typing_indicator", job[s].chat, Me(s)))
  /\ UNCHANGED <<mem, db>>

\* UPDATE chat_members: the foreign key wants an existing message, unless there
\* is no row to update because the user is out of the chat.
UpdateLastRead(s) ==
  LET j == job[s]
      exists == msgs[j.msg].state # "none"
      seated == Me(s) \in participants[j.chat]
  IN  /\ At(s, "update")
      /\ \/ exists /\ Step(s, "update", "chatType")
         \/ ~exists /\ ~seated /\ Step(s, "update", "chatType")
         \/ ~exists /\ seated /\ Return(s, "update")
      /\ lastRead' = IF exists /\ seated
                     THEN [lastRead EXCEPT ![j.chat][Me(s)] = j.msg]
                     ELSE lastRead
      /\ UNCHANGED <<mem, chan, participants, muted, msgs, pinned, audience>>

\* chat_type is again read as a String: NULL, a direct chat, ends the handler
\* with an error, so its "direct" branch is never taken.
ReadChatType(s) ==
  /\ At(s, "chatType")
  /\ \/ ChatTypeColumn(job[s].chat) = None /\ Return(s, "chatType")
     \/ ChatTypeColumn(job[s].chat) # None /\ Step(s, "chatType", "sender")
  /\ UNCHANGED <<mem, db, chan>>

\* Mutant of FindSender: the message id is kept instead of its sender's.
FindSender_Message(s) ==
  /\ At(s, "sender")
  /\ Goto(s, "peek")
  /\ row' = [row EXCEPT ![s] = job[s].msg]
  /\ UNCHANGED <<job, rcpt, guard, parked, env, mem, db, chan>>

FindSender(s) ==
  /\ At(s, "sender")
  /\ msgs[job[s].msg].state # "none"
  /\ Goto(s, "peek")
  /\ row' = [row EXCEPT ![s] = msgs[job[s].msg].sender]
  /\ UNCHANGED <<job, rcpt, guard, parked, env, mem, db, chan>>

\* fetch_one finds no message: somebody without a row in chat_members made it up.
FindSenderFails(s) ==
  /\ Return(s, "sender")
  /\ msgs[job[s].msg].state = "none"
  /\ UNCHANGED <<mem, db, chan>>

\* Nobody to tell: only the ack is left to send.
SenderAway(s) ==
  /\ Return(s, "peek")
  /\ clients[row[s]] = None
  /\ IF job[s].ack THEN Reply(s, Body("ack", Me(s), None)) ELSE UNCHANGED chan
  /\ UNCHANGED <<mem, db>>

\* clients.get(&sender_id): the guard stays in scope over the awaits below.
TakeGuard(s) ==
  /\ At(s, "peek")
  /\ clients[row[s]] # None
  /\ guard' = [guard EXCEPT ![s] = row[s]]
  /\ Goto(s, IF Small(job[s].chat) THEN "countReads" ELSE "pushRead")
  /\ UNCHANGED <<job, row, rcpt, parked, env, mem, db, chan>>

CountReads(s) ==
  /\ Step(s, "countReads", "readCount")
  /\ UNCHANGED <<mem, db, chan>>

\* COUNT(*) is a BIGINT and is decoded as i32: always an error.
ReadCountFails(s) ==
  /\ Return(s, "readCount")
  /\ UNCHANGED <<mem, db, chan>>

PushRead(s) ==
  /\ Return(s, "pushRead")
  /\ BroadcastAndAck(s, {row[s]}, Body("messages_read", Me(s), job[s].msg))
  /\ UNCHANGED <<mem, db>>

----------------------------------------------------------------------------
\* HTTP handlers that change a chat, most of which then push an event

StartRequest(r) ==
  /\ At(r, "idle")
  /\ \E j \in RequestJobs : Acceptable(j) /\ job' = [job EXCEPT ![r] = j]
  /\ Goto(r, "effect")
  /\ UNCHANGED <<row, rcpt, guard, parked, env, mem, db, chan>>

\* A request of this kind is about to change the database.
Effect(r, op) == job[r] # None /\ job[r].op = op /\ At(r, "effect")

EditMessage(r) ==
  LET j == job[r]
      hit == msgs[j.msg].sender = j.by /\ msgs[j.msg].state = "live"
  IN  /\ Effect(r, "edit")
      /\ \/ hit /\ Step(r, "effect", "reread")
         \/ ~hit /\ Return(r, "effect")
      /\ msgs' = IF hit THEN [msgs EXCEPT ![j.msg].content = r] ELSE msgs
      /\ UNCHANGED <<mem, chan, participants, muted, pinned, lastRead, audience>>

\* A soft delete, which may hit a message already deleted.
DeleteMessage(r) ==
  LET j == job[r]
      hit == msgs[j.msg].sender = j.by
  IN  /\ Effect(r, "delete")
      /\ \/ hit /\ Step(r, "effect", "reread")
         \/ ~hit /\ Return(r, "effect")
      /\ msgs' = IF hit THEN [msgs EXCEPT ![j.msg].state = "deleted"] ELSE msgs
      /\ UNCHANGED <<mem, chan, participants, muted, pinned, lastRead, audience>>

PinMessage(r) ==
  LET j == job[r]
      ok == Authorised(j) /\ msgs[j.msg].chat = j.chat
  IN  /\ Effect(r, "pin")
      /\ \/ ok /\ Step(r, "effect", "reread")
         \/ ~ok /\ Return(r, "effect")
      /\ pinned' = IF ok THEN [pinned EXCEPT ![j.chat] = j.msg] ELSE pinned
      /\ UNCHANGED <<mem, chan, participants, muted, msgs, lastRead, audience>>

UnpinMessage(r) ==
  LET j == job[r]
  IN  /\ Effect(r, "unpin")
      /\ \/ Authorised(j) /\ Step(r, "effect", "participants")
         \/ ~Authorised(j) /\ Return(r, "effect")
      /\ pinned' = IF Authorised(j) THEN [pinned EXCEPT ![j.chat] = None] ELSE pinned
      /\ UNCHANGED <<mem, chan, participants, muted, msgs, lastRead, audience>>

\* remove_participant: both rows go in one transaction.
RemoveParticipant(r) ==
  LET j == job[r]
  IN  /\ Effect(r, "kick")
      /\ \/ /\ Authorised(j)
            /\ Step(r, "effect", "reread")
            /\ participants' = [participants EXCEPT ![j.chat] = @ \ {j.user}]
            /\ lastRead' = [lastRead EXCEPT ![j.chat][j.user] = None]
         \/ /\ ~Authorised(j)
            /\ Return(r, "effect")
            /\ UNCHANGED <<participants, lastRead>>
      /\ UNCHANGED <<mem, chan, muted, msgs, pinned, audience>>

\* send_message over HTTP: ensure_can_send, then the insert, and no event.
CheckCanSend(r) ==
  LET j == job[r]
      barred == ChatTypeColumn(j.chat) = "channel" /\ Owner[j.chat] # j.by
      ok == j.by \in participants[j.chat] /\ ~barred /\ <<j.chat, j.by>> \notin muted
  IN  /\ Effect(r, "post")
      /\ \/ ok /\ Step(r, "effect", "store")
         \/ ~ok /\ Return(r, "effect")
      /\ UNCHANGED <<mem, db, chan>>

PostMessage(r) ==
  /\ Return(r, "store")
  /\ Insert(job[r])
  /\ UNCHANGED <<mem, chan>>

\* The row as it is now (edit, pin), the chat id (delete), the name (kick).
Reread(r) ==
  /\ At(r, "reread")
  /\ Goto(r, "participants")
  /\ row' = [row EXCEPT ![r] = msgs[job[r].msg].content]
  /\ UNCHANGED <<job, rcpt, guard, parked, env, mem, db, chan>>

ChangeBody(j, v) ==
  CASE j.op = "edit"   -> Body("message_edited", j.msg, v)
    [] j.op = "delete" -> Body("message_deleted", j.msg, None)
    [] j.op = "pin"    -> Body("chat_action", j.msg, v)
    [] j.op = "unpin"  -> Body("chat_action", j.chat, None)
    [] OTHER           -> Body("chat_action", j.chat, j.user)

BroadcastChange(r) ==
  /\ Return(r, "broadcast")
  /\ Broadcast(rcpt[r], ChangeBody(job[r], row[r]))
  /\ UNCHANGED <<mem, db>>

----------------------------------------------------------------------------
\* Failures and the rest of the server

AwaitingDb == {"member", "meta", "mute", "insert", "participants", "broadcast",
               "username", "update", "chatType", "sender", "peek", "countReads",
               "readCount", "pushRead", "effect", "reread", "store"}

\* The awaited statement fails: the handler returns its error, whatever it has
\* already stored stays, nothing is pushed.
Fault(t) ==
  /\ parked = None
  /\ pc[t] \in AwaitingDb
  /\ faults < MaxFaults
  /\ faults' = faults + 1
  /\ Finish(t)
  /\ UNCHANGED <<restarts, mem, db, chan>>

\* add_participant commits: no event is pushed.  The newcomer may be told of
\* what was said before.
AddParticipant ==
  /\ parked = None
  /\ \E c \in Chats, u \in Users :
       /\ <<c, u>> \in Joins
       /\ u \notin participants[c]
       /\ participants' = [participants EXCEPT ![c] = @ \cup {u}]
       /\ audience' = [m \in Messages |-> IF msgs[m].chat = c
                                          THEN audience[m] \cup {u}
                                          ELSE audience[m]]
  /\ UNCHANGED <<muted, msgs, pinned, lastRead, mem, chan, env, task>>

\* mute_member commits, or unmute_member does, or the mute runs out.
ToggleMute ==
  /\ parked = None
  /\ \E m \in Mutes : muted' = IF m \in muted THEN muted \ {m} ELSE muted \cup {m}
  /\ UNCHANGED <<participants, msgs, pinned, lastRead, audience, mem, chan, env, task>>

\* The process is restarted: AppState is built anew, tasks and sockets are gone.
Restart ==
  /\ restarts < MaxRestarts
  /\ restarts' = restarts + 1
  /\ clients' = [u \in Users |-> None]
  /\ presence' = [u \in Users |-> "absent"]
  /\ typing' = {}
  /\ seqCounter' = 0
  /\ queue' = [s \in Sessions |-> <<>>]
  /\ received' = [s \in Sessions |-> <<>>]
  /\ pc' = [t \in Tasks |-> IF pc[t] \in {"new", "idle"} THEN pc[t] ELSE "done"]
  /\ job' = [t \in Tasks |-> None]
  /\ row' = [t \in Tasks |-> None]
  /\ rcpt' = [t \in Tasks |-> {}]
  /\ guard' = [t \in Tasks |-> None]
  /\ parked' = None
  /\ UNCHANGED <<db, faults>>

----------------------------------------------------------------------------

Init ==
  /\ clients = [u \in Users |-> None]
  /\ presence = [u \in Users |-> "absent"]
  /\ typing = {}
  /\ seqCounter = 0
  /\ participants = Members0
  /\ muted = {}
  /\ msgs = [m \in Messages |-> [state |-> "none", chat |-> None,
                                 sender |-> None, content |-> None]]
  /\ audience = [m \in Messages |-> {}]
  /\ pinned = [c \in Chats |-> None]
  /\ lastRead = [c \in Chats |-> [u \in Users |-> None]]
  /\ pc = [t \in Tasks |-> IF t \in Sessions THEN "new" ELSE "idle"]
  /\ job = [t \in Tasks |-> None]
  /\ row = [t \in Tasks |-> None]
  /\ rcpt = [t \in Tasks |-> {}]
  /\ guard = [t \in Tasks |-> None]
  /\ parked = None
  /\ queue = [s \in Sessions |-> <<>>]
  /\ received = [s \in Sessions |-> <<>>]
  /\ faults = 0
  /\ restarts = 0

\* The loop of one session.
SessionStep(s) ==
  \/ FetchCommon(s) \/ AnnounceOnline(s) \/ AnnounceOffline(s)
  \/ CheckMember(s) \/ Reject(s) \/ LoadMeta(s) \/ CheckMute(s)
  \/ InsertMessage(s) \/ BroadcastMessage(s)
  \/ LookupName(s) \/ BroadcastTyping(s)
  \/ UpdateLastRead(s) \/ ReadChatType(s) \/ FindSender(s)
  \/ FindSenderFails(s) \/ SenderAway(s) \/ TakeGuard(s) \/ CountReads(s)
  \/ ReadCountFails(s) \/ PushRead(s) \/ FetchParticipants(s)

RequestStep(r) ==
  \/ EditMessage(r) \/ DeleteMessage(r) \/ PinMessage(r) \/ UnpinMessage(r)
  \/ RemoveParticipant(r) \/ CheckCanSend(r) \/ PostMessage(r)
  \/ Reread(r) \/ FetchParticipants(r) \/ BroadcastChange(r)

\* What clients do, at times of their choosing.
ClientStep(s) ==
  \/ Connect(s) \/ ConnectParks(s) \/ Written(s) \/ StreamEnds(s)
  \/ Disconnect(s) \/ DisconnectParks(s) \/ StartCommand(s) \/ Sync(s)

Next ==
  \/ \E s \in Sessions : SessionStep(s) \/ Receive(s) \/ ClientStep(s)
  \/ \E r \in Requests : RequestStep(r) \/ StartRequest(r)
  \/ \E t \in Tasks : Fault(t)
  \/ AddParticipant
  \/ ToggleMute
  \/ Restart

Spec == Init /\ [][Next]_vars

\* The executor polls every task that is ready, PostgreSQL answers every
\* statement, and a session's select! keeps taking what its channel holds.  That
\* a client reads, so that a write which waits goes on, is not assumed.
FairSpec ==
  /\ Spec
  /\ \A s \in Sessions : WF_vars(SessionStep(s)) /\ SF_vars(Receive(s))
  /\ \A r \in Requests : WF_vars(RequestStep(r))

----------------------------------------------------------------------------
\* Properties

\* No handler is running there.
AtRest == {"new", "idle", "loop", "drain", "writing", "drainWriting", "done"}

InHandler == AwaitingDb \cup {"reject"}

Pcs == AtRest \cup InHandler
        \cup {"greet", "announceOnline", "farewell", "announceOffline"}

MemType ==
  /\ clients \in [Users -> Sessions \cup {None}]
  /\ presence \in [Users -> {"absent", "online", "offline"}]
  /\ typing \subseteq Chats \X Users

DbType ==
  /\ participants \in [Chats -> SUBSET Users]
  /\ muted \subseteq Chats \X Users
  /\ msgs \in [Messages -> MsgRows]
  /\ pinned \in [Chats -> Messages \cup {None}]
  /\ lastRead \in [Chats -> [Users -> Messages \cup {None}]]
  /\ audience \in [Messages -> SUBSET Users]

ChanType ==
  /\ seqCounter \in Nat
  /\ queue \in [Sessions -> Seq(Event)]
  /\ received \in [Sessions -> Seq(Event)]

\* A task inside a handler has its command in hand; what a session looks up is
\* a user, what a request looks up is a text.
TaskType ==
  /\ pc \in [Tasks -> Pcs]
  /\ job \in [Tasks -> Jobs \cup {None}]
  /\ \A t \in Tasks : pc[t] \in InHandler => job[t] \in Jobs
  /\ row \in [Tasks -> Contents \cup Users]
  /\ \A s \in Sessions : row[s] \in Users \cup {None}
  /\ \A r \in Requests : row[r] \in Contents
  /\ rcpt \in [Tasks -> SUBSET Users]
  /\ guard \in [Tasks -> Users \cup {None}]
  /\ parked \in Sessions \cup {None}

EnvType == faults \in Nat /\ restarts \in Nat

\* Every variable has its type: the type invariant of this module.
TypeOK == MemType /\ DbType /\ ChanType /\ TaskType /\ EnvType

\* What was or will be written to the socket of s, in order.
Stream(s) == received[s] \o queue[s]

\* The hub seen as a stream of numbered events.
Events == INSTANCE EventStream WITH counter <- seqCounter, pending <- queue,
                                    seen <- received

(***************************************************************************)
(* Every turn of every task is a step of EventStream or leaves it alone:   *)
(* drawing the number and sending are never separated by an await.         *)
(***************************************************************************)
ImplementsEventStream == Events!Spec

(***************************************************************************)
(* API_SPEC.md line 564: sequence numbers only go up on each connection    *)
(* (ws.rs lines 57-59 and every loop of tx.send after it).                 *)
(***************************************************************************)
StreamsOrdered == Events!StreamsOrdered

(***************************************************************************)
(* A registered sender belongs to a session of that user whose loop still  *)
(* runs, so nothing is queued for a session that will never read it        *)
(* (ws.rs lines 101 and 148), whatever sessions of one user overlap.       *)
(***************************************************************************)
Open(s) == pc[s] \notin {"new", "farewell", "announceOffline", "done"}

RegistryPointsAtOpenSession ==
  \A u \in Users : clients[u] # None => SessionUser[clients[u]] = u /\ Open(clients[u])

(***************************************************************************)
(* The two maps agree: a user is marked online exactly while a sender is   *)
(* registered (ws.rs lines 101-108 and 148-155), also across overlapping   *)
(* sessions and restarts.                                                  *)
(***************************************************************************)
PresenceFollowsRegistry ==
  \A u \in Users : presence[u] = "online" <=> clients[u] # None

(***************************************************************************)
(* While a task holds a guard on a shard across an await (ws.rs lines      *)
(* 360-386), the entry it looks at stays: the peer it is about to send to  *)
(* is still the registered session when it resumes.                        *)
(***************************************************************************)
GuardedEntryStays ==
  \A t \in Tasks : guard[t] # None => clients[guard[t]] # None

(***************************************************************************)
(* A new_message is only ever on the stream of someone who was in the chat *)
(* when the message was stored or joined afterwards: whoever was removed   *)
(* before the insert never hears of it, because the participants are read  *)
(* after the insert (ws.rs lines 227-256).                                 *)
(***************************************************************************)
NewMessageOnlyToAudience ==
  \A s \in Sessions : \A i \in DOMAIN Stream(s) :
    LET b == Stream(s)[i].body
    IN  b.kind = "new_message" => SessionUser[s] \in audience[b.topic]

(***************************************************************************)
(* A handler that has started ends: no await waits for ever as long as     *)
(* nobody parks the worker (handle_ws_text and the HTTP handlers).         *)
(***************************************************************************)
HandlersReturn == \A t \in Tasks : pc[t] \notin AtRest ~> pc[t] \in AtRest

(***************************************************************************)
(* No event waits for ever in the channel of an open session: again and    *)
(* again the channel is empty, or an event of it is written to the socket, *)
(* or the loop ends (the rx.recv branch of select!, ws.rs lines 140-143),  *)
(* also when commands keep coming or the stream has ended - provided that  *)
(* the client of this session leaves no write waiting for ever.  Nothing   *)
(* is asked of other clients: one that stops reading holds up nobody but   *)
(* itself.                                                                 *)
(***************************************************************************)
QueuedIsDelivered ==
  \A s \in Sessions :
    []<>~Writing(s) => \/ []<>(queue[s] = <<>> \/ ~Open(s))
                       \/ []<><<received'[s] # received[s]>>_vars

----------------------------------------------------------------------------
\* Statements of API_SPEC.md that the code does not keep

(***************************************************************************)
(* API_SPEC.md line 727, a connected user is marked online: the end of an  *)
(* older session marks the user offline although a newer one is open       *)
(* (ws.rs lines 148-155).                                                  *)
(***************************************************************************)
OnlineWhileConnected ==
  \A s \in Sessions : pc[s] = "loop" => presence[SessionUser[s]] = "online"

\* The session is on its way to its loop, or has arrived and cannot start.
Arriving(s) ==
  \/ pc[s] \in {"greet", "announceOnline"}
  \/ pc[s] = "new" /\ parked = s

(***************************************************************************)
(* API_SPEC.md line 727, an established connection is announced: one that  *)
(* arrives while mark_as_read holds a guard of its shard never is, and     *)
(* nothing else on the server ever runs again (ws.rs lines 101, 360-376).  *)
(***************************************************************************)
ConnectIsAnnounced == \A s \in Sessions : Arriving(s) ~> ~Arriving(s)

=============================================================================
