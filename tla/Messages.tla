------------------------------ MODULE Messages ------------------------------
(***************************************************************************)
(* Messages over HTTP: send_message, forward_messages, delete_message,     *)
(* list_messages (messages.rs, chats.rs), clear_messages, the mentions of  *)
(* members_notify.rs, the pins of pin.rs and list_chats (chat_list.rs).    *)
(*                                                                         *)
(* Requests interleave between any two SQL statements; an action is one    *)
(* statement with the code up to the next.  Of a content only this is      *)
(* kept: whether there are words in it.  The chats are groups and channels *)
(* (in a direct chat any participant may clear).  Attachments are in       *)
(* Storage, what is pushed to the other sessions in WsHub.                 *)
(***************************************************************************)
EXTENDS Naturals, FiniteSets, Sequences

CONSTANTS
  Users, Chats,
  Requests,      \* HTTP requests, each used once; a list goes on over pages
  None,
  Owner,         \* chats.owner_id
  Channels,      \* the chats that are channels
  Admins,        \* <<chat, user>> with the permission asked for
  Name,          \* user -> lower-cased username, which users may share
  Members0,      \* chat_participants at the start
  Said0,         \* the messages at the start: chat, sender and reply
  RequestJobs,   \* what may arrive
  Comings,       \* <<chat, user>> that may leave and return
  Mutings,       \* <<chat, user>> that may be muted and unmuted
  MaxMessages,   \* messages that are ever stored
  PageSize,      \* the limit of a list
  MaxFaults      \* statements or connections that fail

Messages == 1..MaxMessages

Names == {Name[u] : u \in Users}

Ops == {"send", "forward", "delete", "clear", "pin", "unpin", "clear_mentions",
        "list", "chats"}

\* about: the message replied to, deleted or pinned, or those to be forwarded;
\* names: the @tokens of the content.
Jobs == [op : Ops, user : Users, chat : Chats, from : Chats,
         about : SUBSET Messages, names : SUBSET Names]

ASSUME MessagesAssumption ==
  /\ None \notin Users \cup Messages
  /\ Owner \in [Chats -> Users] /\ Members0 \in [Chats -> SUBSET Users]
  /\ Said0 \in Seq([chat : Chats, sender : Users, reply : Messages \cup {None}])
  /\ Len(Said0) <= MaxMessages
  /\ \A m \in DOMAIN Said0 :
       LET k == Said0[m].reply
       IN  k # None => k \in 1..(m - 1) /\ Said0[k].chat = Said0[m].chat
  /\ RequestJobs \subseteq Jobs
  /\ Comings \subseteq Chats \X Users /\ Mutings \subseteq Chats \X Users
  /\ MaxMessages \in Nat /\ PageSize \in Nat \ {0} /\ MaxFaults \in Nat

VARIABLES
  msg,        \* messages
  mention,    \* member_mentions, as <<user, message>>
  pinned,     \* chats.pinned_message_id
  members,    \* chat_participants
  muted,      \* chat_mutes not yet expired
  clock,      \* the latest created_at
  pc, job,
  ctx,        \* what a request remembers
  faults,
  hist        \* history, per request; see NoHist

db == <<msg, mention, pinned, clock>>
people == <<members, muted>>
vars == <<db, people, pc, job, ctx, faults, hist>>

----------------------------------------------------------------------------
\* The table and the course of a request

NoMessage == [is |-> "none", chat |-> None, sender |-> None, at |-> 0,
              words |-> FALSE, reply |-> None]

Stored(m) == msg[m].is \in {"live", "deleted"}

In(c) == {m \in Messages : Stored(m) /\ msg[m].chat = c}

Deleted == {m \in Messages : msg[m].is = "deleted"}

\* Mutant of Words: a SELECT of the content as it is.
Words_Raw(m) == msg[m].words

\* CASE WHEN is_deleted THEN '' ELSE content END
Words(m) == msg[m].words /\ msg[m].is = "live"

\* Mutant of Refers: no foreign key.
Refers_Unchecked(m) == TRUE

\* A foreign key: the row is there, or the column is NULL.
Refers(m) == m = None \/ (m \in Messages /\ Stored(m))

\* floor: no later than its next statement starts; got: <<message, words>> it
\* has read; rows and before: its page and the created_at of the last row.
NoCtx == [floor |-> 0, got |-> {}, todo |-> {}, rows |-> {}, before |-> 0]

\* bars: why it may not write, since it began; dead: deleted when it, or its
\* page, began; made: what it stored; asked: the participants it asked for
\* names; wanted: in the chat at the first page; seen: on its earlier pages;
\* cleared: its mentions that clear_mentions took.
NoHist == [bars |-> {}, dead |-> {}, made |-> {}, asked |-> {}, wanted |-> {},
           seen |-> {}, cleared |-> {}]

Bars(j) ==
  {b \in IF j.op \in {"send", "forward"} THEN {"left", "muted", "channel", "source"} ELSE {} :
     \/ b = "left" /\ j.user \notin members[j.chat]
     \/ b = "muted" /\ <<j.chat, j.user>> \in muted
     \/ b = "channel" /\ j.chat \in Channels /\ Owner[j.chat] # j.user
     \/ b = "source" /\ j.op = "forward" /\ j.user \notin members[j.from]}

NoJob == [op |-> "none", user |-> None, chat |-> None, from |-> None,
          about |-> {}, names |-> {}]

Authorised(j) == Owner[j.chat] = j.user \/ <<j.chat, j.user>> \in Admins

At(r, here) == pc[r] = here

Goto(r, there) == pc' = [pc EXCEPT ![r] = there]

\* r remembers this until its next statement.
Keep(r, c) == ctx' = [ctx EXCEPT ![r] = [c EXCEPT !.floor = clock]]

\* The request ends with 4xx or 500, and is forgotten.
Refuse(r) ==
  /\ Goto(r, "done")
  /\ job' = [job EXCEPT ![r] = NoJob]
  /\ ctx' = [ctx EXCEPT ![r] = NoCtx]
  /\ hist' = [hist EXCEPT ![r] = NoHist]
  /\ UNCHANGED db

\* A test that lets the request go on, or ends it.
Test(r, here, passes, there) ==
  /\ At(r, here)
  /\ \/ passes /\ Goto(r, there) /\ Keep(r, ctx[r]) /\ UNCHANGED <<db, job, hist>>
     \/ ~passes /\ Refuse(r)
  /\ UNCHANGED <<people, faults>>

Start(op) ==
  CASE op \in {"send", "forward"} -> "member"
    [] op \in {"list", "clear_mentions"} -> "mine"
    [] OTHER -> op

Begin(r) ==
  /\ At(r, "idle")
  /\ \E j \in RequestJobs :
       /\ job' = [job EXCEPT ![r] = j]
       /\ hist' = [hist EXCEPT ![r].bars = Bars(j), ![r].dead = Deleted]
       /\ Goto(r, Start(j.op))
  /\ UNCHANGED <<db, people, ctx, faults>>

----------------------------------------------------------------------------
\* Sending and forwarding

\* ensure_can_send: a participant, in a channel its owner, ...
CheckMember(r) ==
  LET j == job[r]
  IN  Test(r, "member",
           j.user \in members[j.chat] /\ (j.chat \in Channels => Owner[j.chat] = j.user),
           "mute")

\* Mutant of MayWrite: the row of chat_mutes is not looked at.
MayWrite_Muted(j) == TRUE

MayWrite(j) == <<j.chat, j.user>> \notin muted

\* ... who is not muted.
CheckMute(r) ==
  Test(r, "mute", MayWrite(job[r]),
       CASE job[r].op = "forward" -> "source"
         [] job[r].op = "send" /\ job[r].about # {} -> "reply"
         [] OTHER -> "store")

CheckReply(r) == Test(r, "reply", job[r].about \subseteq In(job[r].chat), "store")

CheckSource(r) == Test(r, "source", job[r].user \in members[job[r].from], "read")

\* The sources that are there, with their content; none is an error.
ReadSources(r) ==
  LET sources == job[r].about \cap In(job[r].from)
  IN  /\ At(r, "read")
      /\ \/ /\ sources # {} /\ Goto(r, "copy")
            /\ Keep(r, [ctx[r] EXCEPT !.got = {<<m, Words(m)>> : m \in sources}])
            /\ UNCHANGED <<db, job, hist>>
         \/ sources = {} /\ Refuse(r)
      /\ UNCHANGED <<people, faults>>

\* INSERT INTO messages: a fresh id, created_at the time the statement began,
\* which may be that of, or before, messages others have stored meanwhile.
Insert(r, words, reply) ==
  \E m \in Messages, t \in ctx[r].floor .. (clock + 1) :
    /\ t > 0
    /\ msg[m].is = "none" /\ \A k \in 1..(m - 1) : msg[k].is # "none"
    /\ msg' = [msg EXCEPT ![m] = [is |-> "live", chat |-> job[r].chat, sender |-> job[r].user,
                                  at |-> t, words |-> words, reply |-> reply]]
    /\ clock' = IF t > clock THEN t ELSE clock
    /\ hist' = [hist EXCEPT ![r].made = @ \cup {m}]
    /\ UNCHANGED <<mention, pinned>>

\* A reply whose message is gone is refused, or, when clear_messages takes the
\* message while the INSERT is under way, kept without it (ON DELETE SET NULL).
Store(r) ==
  /\ At(r, "store")
  /\ \/ /\ \E m \in job[r].about \cup {None} :
             /\ m = None => \A k \in job[r].about : ~Refers(k)
             /\ Refers(m)
             /\ Insert(r, TRUE, m)
        /\ Goto(r, IF job[r].names = {} THEN "answered" ELSE "people")
        /\ UNCHANGED <<job, ctx>>
     \/ (\E m \in job[r].about : ~Refers(m)) /\ Refuse(r)
  /\ UNCHANGED <<people, faults>>

\* The INSERT of one copy, whose source may be cleared before or during it; its
\* attachments are in Storage.
Copy(r) ==
  /\ At(r, "copy")
  /\ \E p \in ctx[r].got :
       \/ /\ Insert(r, p[2], None)
          /\ Goto(r, IF ctx[r].got = {p} THEN "answered" ELSE "copy")
          /\ Keep(r, [ctx[r] EXCEPT !.got = @ \ {p}])
          /\ UNCHANGED job
       \/ ~Refers(p[1]) /\ Refuse(r)
  /\ UNCHANGED <<people, faults>>

\* handle_mentions: of the other participants, one for each name, the last of
\* the rows that has it.
ReadPeople(r) ==
  LET others == members[job[r].chat] \ {job[r].user}
      named == {u \in others : Name[u] \in job[r].names}
  IN  /\ At(r, "people")
      /\ \E S \in SUBSET named :
           /\ \A u \in named : \E v \in S : Name[v] = Name[u]
           /\ \A u, v \in S : Name[u] = Name[v] => u = v
           /\ Goto(r, IF S = {} THEN "answered" ELSE "mention")
           /\ Keep(r, [ctx[r] EXCEPT !.todo = S])
      /\ hist' = [hist EXCEPT ![r].asked = others]
      /\ UNCHANGED <<db, people, job, faults>>

\* Mutant of Left: the first row is the last.
Left_None(todo, u) == {}

Left(todo, u) == todo \ {u}

\* One row of member_mentions, for the message just stored.
Mention(r) ==
  /\ At(r, "mention")
  /\ \E u \in ctx[r].todo, m \in hist[r].made :
       \/ /\ Refers(m)
          /\ mention' = mention \cup {<<u, m>>}
          /\ Keep(r, [ctx[r] EXCEPT !.todo = Left(@, u)])
          /\ Goto(r, IF Left(ctx[r].todo, u) = {} THEN "answered" ELSE "mention")
          /\ UNCHANGED <<msg, pinned, clock, job, hist>>
       \/ ~Refers(m) /\ Refuse(r)
  /\ UNCHANGED <<people, faults>>

----------------------------------------------------------------------------
\* Deleting, clearing and pinning

\* Mutant of SoftDeleted: the row is emptied with it.
SoftDeleted_Row(row) == [NoMessage EXCEPT !.is = "deleted"]

SoftDeleted(row) == [row EXCEPT !.is = "deleted"]

\* delete_message: a soft delete of one's own message.
Delete(r) ==
  LET mine == {m \in job[r].about : Stored(m) /\ msg[m].sender = job[r].user}
  IN  /\ At(r, "delete")
      /\ msg' = [m \in Messages |-> IF m \in mine THEN SoftDeleted(msg[m]) ELSE msg[m]]
      /\ Goto(r, IF mine = {} THEN "done" ELSE "answered")
      /\ UNCHANGED <<mention, pinned, clock, people, job, ctx, faults, hist>>

\* clear_messages: the rows go, with what refers to them (ON DELETE CASCADE of
\* member_mentions, SET NULL of the pin; replies are in the same chat).  What an
\* INSERT stores meanwhile comes after it: see Store.
Clear(r) ==
  LET c == job[r].chat
  IN  /\ At(r, "clear")
      /\ \/ /\ Authorised(job[r])
            /\ msg' = [m \in Messages |-> IF m \in In(c) THEN [NoMessage EXCEPT !.is = "gone"] ELSE msg[m]]
            /\ mention' = {p \in mention : p[2] \notin In(c)}
            /\ pinned' = [pinned EXCEPT ![c] = None]
            /\ Goto(r, "answered") /\ UNCHANGED <<clock, job, ctx, hist>>
         \/ ~Authorised(job[r]) /\ Refuse(r)
      /\ UNCHANGED <<people, faults>>

\* pin_message: the message is of the chat, deleted or not; ...
CheckPin(r) == Test(r, "pin", Authorised(job[r]) /\ job[r].about \subseteq In(job[r].chat), "setPin")

\* ... then the UPDATE.
SetPin(r) ==
  /\ At(r, "setPin")
  /\ \E m \in job[r].about :
       \/ /\ Refers(m)
          /\ pinned' = [pinned EXCEPT ![job[r].chat] = m]
          /\ Goto(r, "answered") /\ UNCHANGED <<msg, mention, clock, job, ctx, hist>>
       \/ ~Refers(m) /\ Refuse(r)
  /\ UNCHANGED <<people, faults>>

Unpin(r) ==
  /\ At(r, "unpin")
  /\ \/ /\ Authorised(job[r])
        /\ pinned' = [pinned EXCEPT ![job[r].chat] = None]
        /\ Goto(r, "answered") /\ UNCHANGED <<msg, mention, clock, job, ctx, hist>>
     \/ ~Authorised(job[r]) /\ Refuse(r)
  /\ UNCHANGED <<people, faults>>

----------------------------------------------------------------------------
\* clear_mentions and what reads

\* ensure_member
CheckMine(r) ==
  Test(r, "mine", job[r].user \in members[job[r].chat],
       IF job[r].op = "list" THEN "rows" ELSE "forget")

Forget(r) ==
  LET mine == {p \in mention : p[1] = job[r].user /\ msg[p[2]].chat = job[r].chat}
  IN  /\ At(r, "forget")
      /\ mention' = mention \ mine
      /\ hist' = [x \in Requests |-> [hist[x] EXCEPT !.cleared = @ \cup {p \in mine : p[2] \in hist[x].made}]]
      /\ Goto(r, "answered")
      /\ UNCHANGED <<msg, pinned, clock, people, job, ctx, faults>>

\* Mutant of IsPage: LIMIT without ORDER BY.
IsPage_Unordered(S, V) == Cardinality(S) <= PageSize /\ (S = V \/ Cardinality(S) = PageSize)

\* ORDER BY created_at DESC LIMIT n: equal times in any order.
IsPage(S, V) ==
  /\ Cardinality(S) <= PageSize /\ (S = V \/ Cardinality(S) = PageSize)
  /\ \A m \in S, k \in V \ S : msg[m].at >= msg[k].at

\* list_messages: the rows of one page; the last page is empty.
ListRows(r) ==
  LET c == job[r].chat
      V == {m \in In(c) : ctx[r].before = 0 \/ msg[m].at < ctx[r].before}
  IN  /\ At(r, "rows")
      /\ \/ V = {} /\ Goto(r, "answered") /\ Keep(r, ctx[r])
         \/ \E S \in SUBSET V, last \in V :
              /\ IsPage(S, V)
              /\ last \in S /\ \A m \in S : msg[last].at <= msg[m].at
              /\ Goto(r, "replies")
              /\ Keep(r, [ctx[r] EXCEPT !.rows = S, !.got = {<<m, Words(m)>> : m \in S},
                                        !.before = msg[last].at])
      /\ hist' = [hist EXCEPT ![r].wanted = IF ctx[r].before = 0 THEN In(c) ELSE @]
      /\ UNCHANGED <<db, people, job, faults>>

\* load_replies: what the rows of the page reply to.
LoadReplies(r) ==
  LET quoted == {m \in Messages : Stored(m) /\ \E k \in ctx[r].rows : msg[k].reply = m}
  IN  /\ At(r, "replies")
      /\ Goto(r, "page")
      /\ Keep(r, [ctx[r] EXCEPT !.got = @ \cup {<<m, Words(m)>> : m \in quoted}])
      /\ UNCHANGED <<db, people, job, faults, hist>>

\* The client asks for what is before the last row it got.
NextPage(r) ==
  /\ At(r, "page")
  /\ Goto(r, "mine")
  /\ Keep(r, [ctx[r] EXCEPT !.rows = {}, !.got = {}])
  /\ hist' = [hist EXCEPT ![r].seen = @ \cup ctx[r].rows, ![r].dead = Deleted]
  /\ UNCHANGED <<db, people, job, faults>>

\* list_chats: the user's chats with their pins, ...
ListChats(r) ==
  LET own == {c \in Chats : job[r].user \in members[c]}
  IN  /\ At(r, "chats")
      /\ Goto(r, "pinned")
      /\ Keep(r, [ctx[r] EXCEPT !.todo = own, !.rows = {m \in Messages : \E c \in own : pinned[c] = m}])
      /\ UNCHANGED <<db, people, job, faults, hist>>

\* ... then what is pinned (load_pinned_messages), ...
LoadPinned(r) ==
  /\ At(r, "pinned")
  /\ Goto(r, IF ctx[r].todo = {} THEN "answered" ELSE "first")
  /\ Keep(r, [ctx[r] EXCEPT !.got = {<<m, Words(m)>> : m \in {k \in ctx[r].rows : Stored(k)}}])
  /\ UNCHANGED <<db, people, job, faults, hist>>

\* ... then chat by chat the earliest message that is not deleted.
LoadFirst(r) ==
  /\ At(r, "first")
  /\ \E c \in ctx[r].todo :
       LET live == In(c) \ Deleted
           first == {m \in live : \A k \in live : msg[m].at <= msg[k].at}
       IN  \E S \in SUBSET first :
             /\ Cardinality(S) = IF live = {} THEN 0 ELSE 1
             /\ Keep(r, [ctx[r] EXCEPT !.todo = @ \ {c},
                                       !.got = @ \cup {<<m, msg[m].words>> : m \in S}])
             /\ Goto(r, IF ctx[r].todo = {c} THEN "answered" ELSE "first")
  /\ UNCHANGED <<db, people, job, faults, hist>>

----------------------------------------------------------------------------
\* The rest of the server

Waiting == {"member", "mute", "reply", "source", "read", "store", "copy", "people",
            "mention", "delete", "clear", "pin", "setPin", "unpin", "mine", "forget",
            "rows", "replies", "chats", "pinned", "first"}

\* A statement fails or the process dies.
Fail(r) ==
  /\ pc[r] \in Waiting
  /\ faults < MaxFaults /\ faults' = faults + 1
  /\ Refuse(r)
  /\ UNCHANGED people

\* remove_participant, leave_chat and add_participant commit.
ComeAndGo ==
  /\ \E m \in Comings :
       members' = [members EXCEPT ![m[1]] = IF m[2] \in @ THEN @ \ {m[2]} ELSE @ \cup {m[2]}]
  /\ UNCHANGED <<db, muted, pc, job, ctx, faults>>

\* mute_member and unmute_member, or the mute runs out.
ToggleMute ==
  /\ \E m \in Mutings : muted' = IF m \in muted THEN muted \ {m} ELSE muted \cup {m}
  /\ UNCHANGED <<db, members, pc, job, ctx, faults>>

\* What kept a request from writing keeps it only as long as it lasts.
Relieve == hist' = [r \in Requests |-> [hist[r] EXCEPT !.bars = {b \in @ : b \in Bars(job[r])'}]]

Init ==
  /\ msg = [m \in Messages |->
              IF m \notin DOMAIN Said0 THEN NoMessage
              ELSE [is |-> "live", chat |-> Said0[m].chat, sender |-> Said0[m].sender,
                    at |-> m, words |-> TRUE, reply |-> Said0[m].reply]]
  /\ mention = {}
  /\ pinned = [c \in Chats |-> None]
  /\ members = Members0
  /\ muted = {}
  /\ clock = Len(Said0)
  /\ pc = [r \in Requests |-> "idle"]
  /\ job = [r \in Requests |-> NoJob]
  /\ ctx = [r \in Requests |-> NoCtx]
  /\ faults = 0
  /\ hist = [r \in Requests |-> NoHist]

Writes(r) ==
  \/ CheckMember(r) \/ CheckMute(r) \/ CheckReply(r) \/ CheckSource(r) \/ ReadSources(r)
  \/ Store(r) \/ Copy(r) \/ ReadPeople(r) \/ Mention(r)
  \/ Delete(r) \/ Clear(r) \/ CheckPin(r) \/ SetPin(r) \/ Unpin(r)

Reads(r) ==
  \/ CheckMine(r) \/ Forget(r) \/ ListRows(r) \/ LoadReplies(r) \/ NextPage(r)
  \/ ListChats(r) \/ LoadPinned(r) \/ LoadFirst(r)

Next ==
  \/ \E r \in Requests : Begin(r) \/ Writes(r) \/ Reads(r) \/ Fail(r)
  \/ (ComeAndGo \/ ToggleMute) /\ Relieve

Spec == Init /\ [][Next]_vars

----------------------------------------------------------------------------
\* Properties

Rows == [is : {"none", "live", "deleted", "gone"}, chat : Chats \cup {None},
         sender : Users \cup {None}, at : Nat, words : BOOLEAN,
         reply : Messages \cup {None}]

Ctxs == [floor : Nat, got : SUBSET (Messages \X BOOLEAN), todo : SUBSET (Users \cup Chats),
         rows : SUBSET Messages, before : Nat]

Hists == [bars : SUBSET {"left", "muted", "channel", "source"}, dead : SUBSET Messages,
          made : SUBSET Messages, asked : SUBSET Users, wanted : SUBSET Messages,
          seen : SUBSET Messages, cleared : SUBSET (Users \X Messages)]

\* Every variable has its type, and a row that is there is whole: the type
\* invariant of this module.
TypeOK ==
  /\ msg \in [Messages -> Rows]
  /\ \A m \in Messages : Stored(m) => msg[m].chat \in Chats /\ msg[m].sender \in Users
  /\ mention \subseteq Users \X Messages
  /\ pinned \in [Chats -> Messages \cup {None}]
  /\ members \in [Chats -> SUBSET Users]
  /\ muted \subseteq Chats \X Users
  /\ clock \in Nat
  /\ pc \in [Requests -> Waiting \cup {"idle", "page", "answered", "done"}]
  /\ job \in [Requests -> RequestJobs \cup {NoJob}]
  /\ ctx \in [Requests -> Ctxs]
  /\ faults \in Nat
  /\ hist \in [Requests -> Hists]

(***************************************************************************)
(* Whatever request looked at a message before it refers to it: a mention, *)
(* a pin and a reply name a message that is there, of the same chat,       *)
(* although clear_messages may have come in between (messages.rs lines     *)
(* 30-64 and 582, pin.rs lines 44-60; the foreign keys of the migrations). *)
(***************************************************************************)
NothingDangles ==
  /\ \A p \in mention : Stored(p[2])
  /\ \A c \in Chats : pinned[c] # None => pinned[c] \in In(c)
  /\ \A m \in Messages : Stored(m) /\ msg[m].reply # None => msg[m].reply \in In(msg[m].chat)

(***************************************************************************)
(* Whoever was not in the chat, was muted or was not the owner of the      *)
(* channel when the request began, and has been so ever since, stores      *)
(* nothing with it, nor does a forward by someone who was not in the       *)
(* source; only what changes after its check may come too late             *)
(* (ensure_can_send, messages.rs lines 486-520, and lines 357-359).        *)
(***************************************************************************)
BarredStayOut == \A r \in Requests : hist[r].bars # {} => hist[r].made = {}

(***************************************************************************)
(* A request that begins after a message was deleted is not told its       *)
(* content: not in a page, not quoted in a reply, not in the pins and the  *)
(* first messages of list_chats, and what it forwards is blank (chats.rs   *)
(* lines 555-559 and 735, chat_list.rs lines 82 and 124, messages.rs line  *)
(* 374).                                                                   *)
(***************************************************************************)
DeletedStaysUntold ==
  \A r \in Requests : \A p \in ctx[r].got : p[1] \in hist[r].dead => ~p[2]

(***************************************************************************)
(* A client that pages back to the beginning is given every message that   *)
(* was in the chat at its first page and still is, whatever was stored,    *)
(* late or in the meantime, unless two share a created_at; and none twice  *)
(* (list_messages, chats.rs lines 555-576).                                *)
(***************************************************************************)
PagesAreComplete ==
  \A r \in Requests :
    job[r].op = "list" =>
      /\ ctx[r].rows \cap hist[r].seen = {}
      /\ pc[r] = "answered" =>
           \A m \in hist[r].wanted \cap In(job[r].chat) :
             (\A k \in In(job[r].chat) : msg[k].at = msg[m].at => k = m) => m \in hist[r].seen

(***************************************************************************)
(* Once a send is answered, every name in it that some other participant   *)
(* had has its row in member_mentions, for one who has that name, until    *)
(* that user clears it or the message goes: a failure half-way is never    *)
(* answered 200 (messages.rs lines 87, 549-594).                           *)
(***************************************************************************)
AnsweredIsMentioned ==
  \A r \in Requests : \A m \in hist[r].made :
    pc[r] = "answered" /\ Stored(m) =>
      \A u \in hist[r].asked :
        Name[u] \in job[r].names =>
          \E v \in hist[r].asked :
            Name[v] = Name[u] /\ <<v, m>> \in mention \cup hist[r].cleared

=============================================================================
