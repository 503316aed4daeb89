# QbyChat: specification, model checking and proofs

QbyChat is a chat server in Rust: Actix on one worker thread, PostgreSQL through sqlx, Redis for tokens, a
directory for uploaded files, and a WebSocket to every client. This directory holds TLA+ modules of the parts of
it that have state worth reasoning about, the instances TLC checks, and theorems that the TLA+ proof system
(TLAPS) checks for every value of the constants. Everything is translated from the code; where a document says
something else, the last sections say so. `PROJECT.json` has the machine-readable side: the runs, the lines each
definition stands for, a mutant for every property, findings, hazards and theorems.

Line numbers are those of this commit. `ws.rs`, `state.rs`, `main.rs` are in `src/src/`, the handlers in
`src/src/handlers/`, and `API_SPEC.md` is `src/API_SPEC.md`.

Contents: [system](#1-the-system), [inventory](#2-inventory), [modules](#3-modules-and-the-code),
[runs](#4-what-each-run-checks), [bounds](#5-bounds), [fairness](#6-fairness), [proofs](#7-what-is-proved),
[code against documents](#8-where-code-and-documents-disagree), [not modelled](#9-what-is-not-modelled),
[plan](#10-plan).

## 1. The system

**What runs concurrently.** `main.rs` starts Actix with `.workers(1)`. Every HTTP handler and every WebSocket
session is a task of the same thread. Tasks interleave only where the code awaits: SQL, Redis, file operations,
writing to a socket. Code between two awaits is one indivisible step. What a task has read before an await may be
old when it goes on; nothing the task holds is released by the await, a DashMap guard included.

**What is shared.** `AppState` (state.rs): the DashMaps `clients` (user to the sender of a channel), `presence` and
`typing`, an atomic `sequence_counter`, and the pools. Almost everything else is in PostgreSQL, at its default
isolation level READ COMMITTED, where a statement sees what was committed when it began and waits only for rows
that another transaction has changed.

**How components interact.** HTTP handlers call the helpers of `handlers/helpers.rs`, write tables, and for edits,
deletions, pins and removals push an event into the channels of the sessions registered in `clients`. A session
reads its socket, runs the command it gets to the end before it reads again, and in the same `select!` loop takes
events out of its channel and writes them to the socket. Components meet in tables: a message stored by one
handler is counted, received, cleared or forwarded by another; a foreign key may make a statement fail or take
other rows along.

**What can fail.** Any statement or connection (handlers then answer 500 with whatever they wrote before), the
process (channels and maps are gone, open transactions rolled back, files stay as they are), a client that goes
away. The code has no retry and no timer; clients may send anything again.

## 2. Inventory

| Component | State | Operations | What is hard | What makes it correct |
|---|---|---|---|---|
| WebSocket hub (ws.rs, state.rs, pushes in messages.rs, pin.rs, chats.rs) | `clients`, `presence`, `typing`, `sequence_counter`, a channel per session | connect, disconnect, `send_message`, `start_typing`, `mark_as_read`, `sync`; pushes of edit, delete, pin, unpin, remove | sessions of one user share an entry; recipients read before an await; a guard held across awaits on the only thread | numbers go up on each connection; senders belong to open sessions; presence agrees with them; no message to strangers; handlers end and queues are written |
| Membership and administration (chats.rs, members.rs, members_notify.rs) | `chat_participants`, `chat_members`, `chat_admin_permissions`, `chat_mutes` | add, remove, leave, promote, demote, mute, unmute, note, notify | transactions over two tables, row locks, permissions read before they are used | membership is atomic; both tables agree; no deadlock; direct chats keep their pair |
| Read state (messages.rs, ws.rs, chats.rs) | `message_views`, `message_reads_agg`, `message_reads_small`, `last_read_message_id` | `read_bulk`, `mark_as_read`, `unread_count`, `purge_reads`, `clear_messages` | up to eight statements per call, no transaction; messages vanish meanwhile | nothing refers to a missing message; what was answered is recorded; the first read stays |
| Files and attachments (uploads.rs, admin.rs, messages.rs) | `storage_files`, `message_attachments`, the directory | upload, purge, send with attachments, forward, clear | a file system and a database that share no transaction | rows and files match; attachments are only lost when they may be |
| Contacts and direct chats (contacts.rs, chats.rs) | `contacts`, `chats`, two participant tables | add, remove, block, unblock, start a direct chat | look first, insert later; no unique index on pairs | a block stands; answers and tables agree; one chat for two users |
| Messages over HTTP (messages.rs, pin.rs, chats.rs, chat_list.rs, members_notify.rs) | `messages`, `pinned_message_id`, `member_mentions` | send with replies and mentions, forward, delete, clear, pin, unpin, `clear_mentions`, paging lists, `list_chats` | several statements without a transaction; a message that was looked up may be gone or deleted; a client pages while messages come | no reference to a missing message; only those who may write write; what is deleted is not shown; pages are complete |
| Sessions of an account (auth.rs) | `users`, refresh tokens in Redis | register, login, refresh, expiry | a token is read, replaced and deleted in three commands; PostgreSQL and Redis share no transaction | sessions are of those who know the password; a token is exchanged once; a refresh loses no session in Redis |
| Avatars and download tokens (users.rs, files.rs, upload.rs) | `user_avatars`, the directory, Redis keys | upload, set primary, mint, download | two UPDATEs on a snapshot, in no lock order; files against rows | one primary avatar; nobody waits for ever |
| Public chats (chats.rs), stickers (stickers.rs), GIFs (gifs.rs) | handles, packs | see section 9 | the first two cannot be reached | - |
| Lists and search; start and settings; database schema | - | reading, wiring, migrations | - | - |

The hazards this leads to, each with its line and the properties that would show it, are the `hazards` of
`PROJECT.json`. A hazard without a property has a note: in most such cases the model has the behaviour, but the
code promises nothing about it that could be stated.

## 3. Modules and the code

    EventStream <---- implements ---- WsHub         MCWsHub (5 configurations)
    AtomicRoster <--- implements ---- Roster        MCRoster
                                      Messages      MCMessages
                                      ReadState     MCReadState
                                      Storage       MCStorage (2)
                                      Peers         MCPeers
                                      Accounts      MCAccounts
    EventStreamProofs, WsHubProofs, RosterProofs, MessagesProofs, ReadStateProofs, StorageProofs, PeersProofs,
    AccountsProofs

The tables of the seven detailed modules are disjoint, except that messages and participants are in several of
them, each time with the environment as the other writer (for example `StoreMessage`, `Leave` and `Join` of
ReadState, `ComeAndGo` of Messages). They are therefore separate modules rather than one product. WsHub composes
what really interacts step by step: sessions, handlers and the registry.

The detailed modules share one way of writing a task. `pc[t]` is where the task t is, `job` what it was asked,
and `ctx`, `row`, `rcpt` or `chatOf` what it remembers between two awaits. An action is one turn: the code after
an await up to the next one, with the SQL statement awaited there. Requests, sessions and calls are used
once each, so that no counter of them is needed. A variable marked *history* is written and never read by the
actions; properties use it to tell situations apart.

### EventStream and WsHub

`EventStream` is the promise: a counter, a channel and a socket per connection; `Publish` numbers one event and
queues it for any set of connections at once, `PublishAndReply` does so twice in one step, `Deliver` moves the head of
a channel to the socket, `Restart` empties everything. It says nothing of recipients.

`WsHub` is ws.rs with what it uses. `clients` keeps the session whose sender is registered; an entry is overwritten
by `Connect` (line 101) and removed by `Disconnect` (line 148), *whoever's* it is now. `FetchCommon`,
`AnnounceOnline`, `AnnounceOffline` are the queries and broadcasts around the loop. A command starts with a step
that leaves the loop; the states after it are the awaits of `handle_ws_text`. HTTP handlers that push are tasks of
the same kind (`edit`, `delete`, `pin`, `unpin`, `kick`); `post` is a send over HTTP, which stores and pushes to
nobody. `guard[t]` is the key whose DashMap guard a suspended task holds (lines 360-386): a step that has to write a
key of the same shard meanwhile parks the thread (`ConnectParks`, `DisconnectParks`; `parked` disables every turn).
`StreamEnds` is the `Some(msg)` pattern that disables its branch when the stream is over, after which the session lives on in "drain"
until a write fails. A write is `session.text(txt).await` into the bounded channel of actix-ws: `Deliver` when there is
room, else `Suspend`, which takes the session to "writing" (or "drainWriting") with the event in hand still the head of its
queue, until the client reads (`Written`) or the write fails (`Disconnect`). While it waits it reads neither its stream nor
its channel. `Fault` ends a handler at an awaited statement, `Restart` ends the process. COUNT(\*) decoded as `i32`
and a NULL `chat_type` decoded as `String` always fail, as they do with sqlx.

### AtomicRoster and Roster

`AtomicRoster`: a request opens, takes effect at one instant or not at all, and closes; several removals of one user may
take effect together. `Roster` has the statements: `FetchMeta`, `LoadPerms`, `EnsureMember` read; `Insert` and
`Delete` are ON CONFLICT DO NOTHING and DELETE on one table with the row's lock (`tx`), `Block`/`Unblock` wait for
another transaction's row and re-evaluate the condition; `Commit` and `Fail` end the transaction. The visible set of
`chat_participants` is the abstract `members`. The operation "note" stands for the three upserts into `chat_members` that follow a
look at membership: `set_note`, `set_notify` and that of `read_bulk` (messages.rs line 272).

### ReadState

One chat with messages 1..Count in the order of `created_at`. `read_bulk` is `Check`, `CountParticipants`, a receipt per
message (`RecordNext`) in the table that the kind and size of the chat choose, then `FindNewest`, `ReadCurrent` and `Upsert`; `mark_as_read` is one UPDATE; `unread_count` two SELECTs. Foreign keys make statements fail; `clear_messages`
cascades. `said` (history) adds up the answers that were given; `unsure` has the users for whom two calls
overlapped, who left during a call, or whose answer was lost.

### Storage

Uploads are `Find`, `Open` (truncates), `Write`, `Insert`; a purge is `List`, then `DeleteRow` and `RemoveFile` for each
row, then `Commit`; a message with attachments is stored first, and each attachment is checked (`Exists`) and inserted
(`Attach`). A file that is removed while an upload has it open is written without a name (`ctx.file`). Rows of a running
purge are "deleting": seen by readers, waited for by anyone who would refer to them or insert their sha256.
`late` (history) are attachments made while a purge had the file on its list, `disturbed` contents on which an upload
and a purge worked at once or a request failed.

### Peers

`contacts` as a function of two ids, and direct chats from the SELECT that looks for one to the commit, with the handler's
last query (`dto`), which always fails because it names a column that does not exist. `said` and `unsure` as in ReadState.

### Messages

Groups and channels, and of a content only whether there are words in it. A send is `CheckMember`, `CheckMute`,
`CheckReply`, `Store` with its foreign key, then
`ReadPeople` and a `Mention` for each name; a forward is `CheckSource`, `ReadSources`, `Copy`. `Delete` leaves the
row and its content and sets `is_deleted`; `Clear` removes the rows of a chat and what cascades. `pin_message` is
`CheckPin` and `SetPin`, with `clear_messages` in between if it likes. `ListRows`, `LoadReplies`, `NextPage` are
`list_messages` and a client that asks for page after page with the `created_at` of the last row; `ListChats`,
`LoadPinned`, `LoadFirst` are chat_list.rs. `created_at` is the `now()` of the statement that stores, so a message may
get one that is older than a page already read: `Insert` takes any time from that of its request's last step (`floor`) to
one past the clock. `hist` (history) has, for each request, why it may not write, what was deleted before it began, what it stored,
and what a paging client was entitled to.

### Accounts

A request is a chain of commands, `After` naming the next. `Register` inserts under the unique index of `username`,
`Login` compares, `Get`, `FindUser`, `Grant`, `Delete`, `Reply` are the refresh: GET, SELECT, SETEX of the new token, DEL of
the old one, the answer. `Expire` may take any token. `Create`, `Fill`, `Insert` are an avatar's file and row.
`set_primary` is `CheckOwner`, then `Snapshot` and `Lower` (its first UPDATE: the committed rows, locked one by
one in any order), `Raise`, `Commit`; a `Deadlocked` request is aborted, as PostgreSQL does. `given`, `met`, `last` and `raced` are history.

## 4. What each run checks

The states are those TLC counts. The largest runs take one to two and a half minutes. Every property of a passing run has a mutant in `PROJECT.json`:
a definition of the model changed the way a plausible bug would change the code, under which TLC finds the property
violated.

| Run | Distinct states | What it asks |
|---|---|---|
| hub_sessions | 743,379 | Two devices of u1 and one of u2 connect, sync, lose sockets, leave writes waiting and mark messages as read in a channel and a small group; a removal from it, one failure, one restart. `RegistryPointsAtOpenSession` and `PresenceFollowsRegistry` (the two maps agree although each entry is shared), `ImplementsEventStream` |
| hub_chat | 555,710 | A WebSocket message against an HTTP send, an edit, a removal, a return and pins, with writes that wait: `NewMessageOnlyToAudience`, and `StreamsOrdered` with every pushing handler |
| hub_live | 115,864 | With fairness: `HandlersReturn` (group and direct chat, mutes, refusals), whatever clients do not read; `QueuedIsDelivered`, for each session whose own client leaves no write waiting for ever |
| hub_online | violation | `OnlineWhileConnected`: the end of an older session takes the user offline while a newer one is open |
| hub_parked | violation | `ConnectIsAnnounced`: a connection in the shard of a suspended `mark_as_read` stops the server for good |
| roster | 49,546 | Ten requests, three at a time, group and direct chat, one failure: `TablesInStep`, `DirectStays`, `NoDeadlock`, `ImplementsAtomicRoster` |
| messages | 687,660 | Twelve requests, three at a time, over a group and a channel whose people come, go and are muted, with two users of one folded name, one failure: `NothingDangles`, `BarredStayOut`, `DeletedStaysUntold`, `PagesAreComplete`, `AnsweredIsMentioned` |
| read_state | 322,868 | Two overlapping calls while messages come, go and are cleared and people leave and return: `NoDanglingReads`, `AnsweredIsRecorded`, `PositionIsWhatWasSaid`, `FirstReadStays`, `UnreadIsNewAndLive` |
| storage | 33,119 | Uploads, purges, sends and forwards, three at a time, clearing, one failure: `FilesMatchRows`, `AnsweredIsAttached`, `PurgeSparesAttached` |
| purge_unreferenced | violation | `PurgesOnlyUnreferenced`: a file attached after the purge's list is deleted with its attachment |
| peers | 27,402 | Contacts and direct chats, with oneself and with nobody too, one failure: `BlockStays`, `ContactsAreAsAnswered`, `OneDirectChat`, `DirectChatsArePairs` |
| accounts | 235,125 | Register, login, refresh, avatars and download tokens, three at a time, with expiry and one failure after any command: `KnewThePassword`, `ExchangedOnce`, `SessionSurvives`, `OnePrimary`, `NobodyStuck` |

**Properties with a condition.** `TablesInStep`, `FilesMatchRows`, `PositionIsWhatWasSaid`, `ContactsAreAsAnswered`,
`OneDirectChat`, `ExchangedOnce`, `OnePrimary` and, for equal times, `PagesAreComplete` do not hold of the code without one: two requests on the same user, content or pair may really leave
the tables apart. Each condition is as narrow as we could make it (only that user, only that content, and never because
of what others do) and is a history variable so that the property still speaks about every later state. What these
properties do *not* catch is therefore what happens inside the condition. The models reach it, and it is what the code
does: two overlapping requests on one member (`contended`), two overlapping calls of one reader (`unsure` of ReadState), an
upload that meets a purge of the same content, or a failure of either (`disturbed`), two requests for one contact or
one direct chat (`unsure` of Peers), a message that becomes visible behind a page already read (`wanted`), two refreshes of one
token under way together (`met`), an avatar stored while an UPDATE waits (`raced`). The hazards of `PROJECT.json` say so one by one;
those that lie wholly inside a condition name no property. Section 8 lists their consequences, and where a theorem bounds
them (`OnlyFailuresTearFiles`, `ImplementsAtomicRoster`) the hazard names it. In the same way `BarredStayOut` speaks of a bar that has lasted
since the request began, `UnreadIsNewAndLive` of a position that stands still, `QueuedIsDelivered` of a client that reads.

**Deadlock.** Sessions, requests and calls are finite in number, and the server rightly does nothing when all are over, so every
configuration says `CHECK_DEADLOCK FALSE`. That nothing stops too early is the business of `HandlersReturn`,
`NoDeadlock` and the violation of hub_parked.

## 5. Bounds

| Bound | Where | Why it is enough |
|---|---|---|
| `Users` = 2 | all | each property relates a user with one other party; with two, every test of "is it me" has both outcomes |
| `Sessions` = 3, two of one user | hub | the shared entry needs two; the third is the observer |
| `Requests`, `Calls` = 2 or 3 at a time, each used once | all | races of this code are between two; the third is the one that came before. Roster's waiting circle would need two, or three |
| `MaxSeq` = 2 or 3 | hub | no command starts once the counter is there; a broadcast with its ack and one more event are compared |
| `MaxFaults` = 1 | hub, Roster, Messages, Storage, Peers, Accounts | each fault ends a request; a second one ends another, independently. Fault points are all awaits |
| `MaxMessages` = 3, `PageSize` = 1 | Messages | a message, a reply to it and a new one; every message is a page, so every border of a page is met |
| `Name`: two users, one folded name | Messages | the case that tells names from users apart |
| `MaxTokens` = 4, `MaxAvatars` = 3 | Accounts | a token and three requests that store one; two avatars that are there and one that comes during an UPDATE |
| `MaxRestarts` = 1 | hub_sessions | a restart resets all memory, so a second finds the state the first found |
| `SmallGroupLimit`, `SmallGroup` | hub, ReadState | the 100 of the code, as a parameter: chats on both sides of it exist |
| `Count` = 2 messages, `MaxOthers` = 1 | ReadState | an older and a newer message; the crowd moves a group over the limit |
| `Contents` = 2, `MaxFiles` = 3 | Storage | one content that is there, one that is not; an id for each and one for a content that comes back |
| `MaxChats` = 3 | Peers | as many chats as requests could make |

Storage and Peers have also been run with four requests (759,790 and 494,123 states) without another result. Symmetry
is used over requests or calls where the properties are invariants or action properties, never under liveness, and never over
anything a constant distinguishes.

## 6. Fairness

`FairSpec` of WsHub is used by hub_live and hub_parked. `WF_vars(SessionStep(s))` and `WF_vars(RequestStep(r))`: the
executor polls a task that has been woken, and PostgreSQL answers each statement. `SF_vars(Receive(s))`, where `Receive` is
`Deliver` or `Suspend`: `select!` picks at random among its ready branches, so a channel that is not empty again and again
is read some time, although each command the client sends disables that branch until the command is over. Whether what
is read is written at once or has to wait is not the session's choice, so the fairness is of the two together. No
fairness is assumed of clients, of the network, of faults, or of a session ending; in particular none of `Written`, the end of a
write that waits: line 142 has no timeout, and a client that stays connected and stops reading keeps its session there for
ever. That is why `QueuedIsDelivered` has a premise for each session, that it is again and again not at such a wait. TLC
finds it violated without. The premise is about the client of that session alone: what others leave unread is no excuse, and
`HandlersReturn` needs no such premise, since handlers send into unbounded channels and never wait for a socket. `parked` disables all of these actions, which is what a blocked
thread is: under this fairness hub_parked's counterexample is not a scheduler that forgets someone.

## 7. What is proved

All theorems hold for any finite or infinite sets of users, sessions, requests, messages and for any bounds, from the
named assumption of each module on its constants (`HubAssumption`, `RosterAssumption`, `ReadAssumption`,
`StorageAssumption`, `MessagesAssumption`, `PeersAssumption`, `AccountsAssumption`: types, the form of the requests, a
well-formed start, and in ReadState that `Users` is finite). `NoDeadlock` speaks of every nonempty set of requests.

- **EventStreamProofs.** `StreamsAreOrdered`. `StreamsOrdered` with the types is inductive: appending an event numbered
  with the counter, and taking a head off, keep a stream increasing and below the counter. `StreamsGrow`, by the same
  cases: what was queued for a connection, and its beginning that was written, only get longer at their ends.
- **WsHubProofs.** `TypeCorrect`; `HubImplementsEventStream`: every turn maps to `Publish`, `PublishAndReply`, `Deliver`,
  `Restart` or to a stutter, which is where "number and send in one turn" is shown for each handler;
  `HubStreamsAreOrdered` and `HubStreamsGrow` follow with the lemmas about EventStream, without looking at WsHub again. `RegistryIsSound`,
  `PresenceIsRegistry` and `GuardedEntriesStay` need one another: an entry can be removed only by a session in its
  loop, or at a write of it, or by a restart, and a removal waits for the guard. `AlwaysOnCourse` says which command is at which await and
  which of them holds a guard there. From it, `ParkedByMarkAsRead`: what hub_parked shows is the only way to stop
  the server (`OnlyMarkAsReadParks`: without that command, in groups and channels, nothing parks it); and
  `HandlersAdvance`, all of `HandlersReturn` but fairness: whoever is inside a handler has a turn of its own, and no
  step of anyone moves a handler but towards its end. `OnlineUnlessSessionsOverlap` is the promise that hub_online
  refutes, for every behaviour in which the sessions of one user never overlap: overlapping is all that breaks it.
  `MessagesReachTheirAudience` adds `AudienceInv`: at each await of a
  handler (`Placed`) its message is not stored yet, or it is and the recipients it remembers are in its audience; two
  handlers never write one message (`OneWriter`, ids are fresh), and audiences only grow, so an event in a channel stays fit.
  The last part of the module is about what is told last. The maps and rows change before an await, the event is numbered
  after it, and nothing in the code keeps two handlers in order, so no run has such a property. `ListenedSpec` is Spec with
  two history variables of the proof module: `told`, the status in the last presence_update of a user, and `heard`, the
  text in the last message_edited of a message. `LastAnnouncedIsTrue`: whenever no session of a user is at one of its
  announcements, `told` is what the presence map says, in every behaviour in which a user connects again only after the
  farewell of the session before; faults, a parked worker and restarts are allowed. `LastEditToldIsKept`: whenever no edit of a
  message is between its UPDATE and its broadcast, `heard` is the text of the row, in every behaviour in which edits of
  one message do not overlap and none fails after its UPDATE. TLC finds both sentences violated
  when any of these conditions is left out.
- **RosterProofs.** `TypeCorrect` (with: a row is held exactly while it is changing). `LockInv` says who may hold a row of which
  table at which place of its course. From it, `DeadlockFree`: whoever waits is at a strictly earlier place than
  the one it waits for, so in any set of requests one that is furthest waits for none of them - a circle of any length is
  excluded, not only those of three requests. `SomebodyGoesOn` draws the conclusion for the statements themselves, with
  `WaitedFor`: whoever waits has a row that is still there to wait for. `RequestsRunOut` bounds the steps that are left
  (`TurnsLeft`): none restarts a transaction, so with `SomebodyGoesOn` there is no livelock either. `RosterIsAtomic` is the refinement: a transaction's instant is its commit if it
  changed `chat_participants`, else its first statement; a removal that found the row already going takes effect with
  the commit it waited for. `TablesStayInStep` adds `EvenInv`: for a user no one else works on, a transaction half-way has changed
  the first table and not the second. `DirectChatsStay`: in a direct chat nobody gets past its checks.
  `ChangesAreAuthorised` is about permissions that are read before the transaction that uses them. It adds to
  each behaviour the permissions that the user of a request has had since it began (`held`, a history variable of the
  proof module; `WatchedSpec` is Spec with it): a change of participants or mutes is made for someone who was entitled
  at some time since the request began. TLC finds that "still is when it commits" is false.
- **ReadStateProofs.** `NothingDangles` and `FirstReadIsFinal`. `Shape` (the types of the tables, without the calls) with
  `NoDanglingReads` is inductive; the second is an action property from the same invariant. `TypesHold` adds the course of each
  call, `AnswersAreRecorded` that the receipts up to where a call is (`Written`) are there. `PositionsAreAsSaid` comes from
  `SeatInv`: a user who is not in `unsure` has at most one call that moves the position, and that call has brought it to
  what it is about to say, or not moved it yet. `UnreadCounts` follows from it and the two statements of `unread_count`.
- **StorageProofs.** `TypeCorrect`, with the course of each request (`Fits`) and its locks. `AttachmentsSpared` needs
  `Referred` (what is attached is a row that exists, its message stored) and `Watched` (whatever is attached and on some
  purge's list was attached late): a list made now has nothing attached on it, and lists only get shorter otherwise.
  `AnswersAreAttached` adds `DueInv`: which of the wanted files a request at each place must have attached. `FilesAreRows` adds
  `EvenInv`: for a content that no failure and no meeting of upload and purge has disturbed, how row and file may
  differ while requests work on it; uploads and purges of one content are never under way together.
  `OnlyFailuresTearFiles` is about the contents which `FilesAreRows` excepts: row and file may disagree there, but while nothing
  has failed an empty file is one that somebody has open to write (`FillsOn`: no other step takes it from them
  but a removal, after which there is no file).
  `PurgesUnreferencedUnlessLate` is the sentence that purge_unreferenced refutes, for every behaviour in which nothing is
  attached to a file while a purge has it on its list: the age of the list is all that breaks it. `WaitsAreForPurges`
  says that whoever waits for a row waits for a running purge of somebody else, with `Orderly`: a purge goes through each row of
  its list once. `OnlyPurgesDeadlock` follows: if nobody can go on, each deleting purge waits for another one. That
  can happen (the list has no ORDER BY; PostgreSQL then ends one, `Fail`), and among uploads, sends, forwards and
  purges it is the only deadlock. (`Clear` is one statement of the environment and holds nothing while it waits.)

- **MessagesProofs.** The invariant is the types, `Course` (which operation is at which place), `Checked` (what a request that
  passed a check found), `Passed`, `StayDeleted` and the three properties. `NothingDangles` is inductive with the types
  alone: each INSERT and UPDATE has its foreign key, and a clearing takes everything that refers to the chat along.
  `BarredStayOut` needs `Passed`: a bar that has held since the beginning is one the check met, so a request past its
  checks has none left. `AnswersMention` follows what
  `todo` still has, statement by statement. `DeletedStaysUntold` needs `StayDeleted`: what was deleted when the request (or its page) began is deleted or
  gone for ever after, so no SELECT can return its words.
  `PagesMissNothing` adds `PInv`, which places the rows a client has seen, those of its page and those to come in time:
  a message that was wanted and is still there is seen, on the page, older than the last row, or shares a `created_at`. It needs
  no count: that a page is the newest rows is all that is used of it.
- **PeersProofs.** `TypesHold`, `DirectChatsAlwaysPairs` (with `RowsAt`, which rows a pending chat has at each place of its
  making, and that no two requests make one chat) and `BlocksStay`. `ContactsAlwaysAsAnswered` adds `Settled`: while one request is at
  work on a contact, `At` says what the contact is and was said to be at that place; when a second one starts,
  `Watched` puts the pair into `unsure`, and nobody else can have touched it. `DirectChatIsOne` adds `Single`: no
  chat of the two can be seen while their one request is making it.
- **AccountsProofs.** The invariant adds to the types `Course` (the operation of a request at each place and what it has made
  up), `Owned` (whose a stored token is) and `Fresh` (no two uploads work on one file); `PasswordWasShown` needs no more.
  `SessionsSurvive` and `ExchangedOnlyOnce` come from `Chain`: what a refresh that has stored a token replaces, and which
  refreshes met. `PrimaryIsOne` comes from `Painted`: the snapshots of two UPDATEs on one user's rows are nested, so two
  `set_primary` of one user never both hold all their locks, and the one that commits lowers every other row it saw.
  `SomebodyCanGo` is `NobodyStuck` with each ENABLED written out as the guards it stands for (`CanGo`): if nobody could
  go on, all who are under way would wait for rows that some of them hold, which is what PostgreSQL ends. That a free token
  number has a least one is induction over the naturals, taken from the library's theorem on minimal elements (`Least`).

**Only model-checked.** Liveness under fairness: `HandlersReturn` and `QueuedIsDelivered` (of the first, the safety half
is `HandlersAdvance`; of the second, that what is queued keeps its order and is never lost is `HubStreamsAreOrdered` and
`HubStreamsGrow`). `NobodyStuck` as it stands, which uses
ENABLED (`SomebodyCanGo` proves it with the guards written out; TLC, on the instances of the runs, found these `CanGo` of
Accounts, Roster and Storage equal to ENABLED). Every other property of the passing runs is a theorem.

Of the three runs that end in a violation, two have a theorem that names the one circumstance under which the violated sentence holds
(`OnlineUnlessSessionsOverlap`, `PurgesUnreferencedUnlessLate`). The third sentence is a liveness property; its
safety side is `ParkedByMarkAsRead`.

## 8. Where code and documents disagree

Three runs end in a violation, each of a statement made by API_SPEC.md. They are the `findings`:

1. hub_online: ws.rs lines 148-155 remove the user's entries although a newer session owns them (API_SPEC line 727).
2. hub_parked: ws.rs line 360 holds a DashMap guard across two awaited queries (line 727).
3. purge_unreferenced: admin.rs line 40 deletes by a list that is older than its transaction (line 412).

Others were met while translating. The models contain them, except where noted, and no run is spent on them:

- A second device of a user takes over the only sender, so the first gets no more events (line 710).
- Presence, edits and deletions may be announced in another order than they happened: the event is numbered after
  another await than the change (lines 675, 727-728).
- `send_message` and `mark_as_read` of the WebSocket fail in a direct chat, whose `chat_type` is NULL (tests/api/ws.rs line 56).
  Where a COUNT(\*) is decoded as `i32`, the command ends without its ack (line 575).
- A client that stays connected but stops reading suspends its session at `session.text(txt).await` (ws.rs line 142, no timeout).
  Its user stays online, its commands and its Close are not read, and its channel, which has no bound, grows with every event. No
  document speaks of it; the model has it (`Suspend` without `Written`).
- `sync_response` is always empty, whatever was missed (line 581; ws.rs lines 394-406).
- A message sent over HTTP is pushed to nobody (line 648). Numbers start again at 0 after a restart (line 564).
- A connection that is lost without a Close frame stays in its loop, and its user online, until a write fails (line 728).
- Overlapping `read_bulk` calls of one user may move the position back; overlapping requests on one member may leave
  a row in one of two tables only (line 527); two overlapping requests make two direct chats (line 159).
- A direct chat with oneself finds any direct chat of the user.
- `read_bulk` decodes the `created_at` of a LEFT JOIN as not optional (messages.rs line 263): for whoever has no position yet, or lost it to
  `clear_messages`, it writes the receipts and answers 500, and the position never moves (line 534). `list_chats` fails on the same NULL.
- `pin_message` does not look at `is_deleted` (line 548), and what it pushes (pin.rs lines 78-83), like the reread of an edit, is
  the raw content of a deleted message. The gif, sticker and attachments of a deleted message are still listed, and the excerpt
  of it that `get_mentions` shows (members_notify.rs line 82) stays: `DeletedStaysUntold` is about the words of a message in
  the queries that select `content`. `search_messages` also matches deleted contents.
- Forwarding a deleted message copies it blank instead of answering 400 (messages.rs line 374).
- `handle_mentions` looks people up by lower-cased name, while usernames are unique only as written: of two whose
  names fold together one gets the row (line 480). The model leaves open which (`Left`).
- Paging by `created_at <` skips messages that share the time of the last row of a page (chats.rs line 556).
- Two refreshes of one token that overlap both succeed. A refresh that fails after its DEL leaves the client with no
  token that works, although its successor is in Redis. `register` that fails at Redis leaves an account whose second registration is refused.
- An avatar stored while the UPDATE of a `set_primary` waits for locks, and then made primary, leaves a user with two.
- `start_direct_chat` and `create_group` commit and then answer 500: `build_chat_dto` selects `chats.description`, which
  no migration creates. (Roster starts with a chat that is there.)
- Blocking has no effect on messages or chats (line 108).
- A purge that fails after removing files leaves rows without files; so does a purge that meets an upload of the same content.
- Not in a module: mentions are limited by count before duplicates go (line 481); some checks answer 500 to a non-member where
  403 is documented; the tests call paths under /api, the routes are under /v1/api.

## 9. What is not modelled

- **Public chats.** `set_visibility` uses `fetch_one` to see whether a handle is free (chats.rs line 1131), which is an error
  when it is, so no chat ever becomes public. **Stickers.** `create_pack` does the same (stickers.rs lines 26-35).
  A model would have no reachable state beyond the first.
- **GIFs** are a call to another service; `send_gif` is `ensure_can_send` of Messages and one INSERT without references.
- **Search**, `list_admins`, `get_mentions`, `list_message_reads` and the other lists are single queries: what they return is a matter
  of SQL. `list_messages` and `list_chats`, which put several statements together, are in Messages.
- **Start, settings, schema.** Wiring. Keys and ON DELETE clauses are part of the actions that run into them.
- **Details left out of modelled handlers.** Ids of other chats in a batch of `read_bulk`, which get receipts too (messages.rs lines 224-250);
  ReadState has one chat. A page of `list_messages` with limit 0, which is empty and ends the paging at once (chats.rs line
  554); `PageSize` is positive. `clear_messages` is one step: what an INSERT under way stores comes after it, a reply then without the
  message it replied to (`Store` of Messages).
- Abstracted everywhere: texts, ids, times other than their order, JSON, status codes beyond answered / refused / failed,
  compression. Channels are unbounded in the code and bounded here only by the number of commands. Pings
  change nothing (ws.rs line 133 drops the future of `pong`, so they are not even answered).

## 10. Plan

Done: the hub and membership, each with its abstract specification; messages, read state, files, contacts and
direct chats, accounts; eight modules of proofs.

What could come next:

1. Peers and ReadState: what a conditional theorem can say inside their conditions (two overlapping requests).
2. Messages composed with Roster's visible membership instead of its own `ComeAndGo`; `ChangesAreAuthorised` and
   `RosterIsAtomic` already show that participants come and go one user at a time.
3. A bound like `TurnsLeft` for the requests of Storage and Accounts, whose loops end with their lists and forms.
4. Proofs: shorter leaves where a step cites more than it needs.
