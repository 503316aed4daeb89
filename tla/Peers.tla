------------------------------- MODULE Peers -------------------------------
(***************************************************************************)
(* What one user is to another: src/src/handlers/contacts.rs over the      *)
(* table contacts, and start_direct_chat with ensure_direct_chat of        *)
(* chats.rs, which finds or makes the direct chat of two users.            *)
(*                                                                         *)
(* Requests interleave between any two SQL statements.  contacts has one   *)
(* row for each pair (its primary key); nothing keeps two direct chats     *)
(* from having the same participants.                                      *)
(***************************************************************************)
EXTENDS Naturals, FiniteSets

CONSTANTS
  Users,         \* registered
  Ids,           \* what a client may name, Users among them
  Requests,      \* HTTP requests, each used once
  None,
  RequestJobs,   \* what may arrive
  MaxChats,      \* direct chats that are ever made
  MaxFaults      \* statements or connections that fail

Chats == 1..MaxChats

Ops == {"add", "remove", "block", "unblock", "direct"}

ASSUME PeersAssumption ==
  /\ Users \subseteq Ids /\ None \notin Ids
  /\ MaxChats \in Nat /\ MaxFaults \in Nat
  /\ RequestJobs \subseteq [op : Ops, user : Users, peer : Ids]

VARIABLES
  contact,    \* user -> id -> "none", "friend" or "blocked"
  chat,       \* direct chat -> its row and those of its two tables
  pc, job,
  chatOf,     \* request -> the chat it is making
  faults,
  said,       \* history: user -> id -> what the answers make the contact
  unsure      \* history: the pairs two requests worked on at once, or one failed

vars == <<contact, chat, pc, job, chatOf, faults, said, unsure>>

----------------------------------------------------------------------------
\* The course of a request

NoJob == [op |-> "none", user |-> None, peer |-> None]

Goto(r, there) == pc' = [pc EXCEPT ![r] = there]

End(r) ==
  /\ Goto(r, "done")
  /\ job' = [job EXCEPT ![r] = NoJob]
  /\ chatOf' = [chatOf EXCEPT ![r] = None]

Contact(r) == contact[job[r].user][job[r].peer]

Become(r, status) == contact' = [contact EXCEPT ![job[r].user][job[r].peer] = status]

Start(op) ==
  CASE op = "add" -> "exists"
    [] op = "block" -> "unlink"
    [] op \in {"remove", "unblock"} -> "delete"
    [] op = "direct" -> "find"

\* add_contact refuses oneself before it asks the database.
Begin(r) ==
  /\ pc[r] = "idle"
  /\ \E j \in RequestJobs :
       /\ job' = [job EXCEPT ![r] = j]
       /\ Goto(r, IF j.op = "add" /\ j.peer = j.user THEN "refused" ELSE Start(j.op))
  /\ UNCHANGED <<contact, chat, chatOf, faults, said>>

----------------------------------------------------------------------------
\* Contacts

\* add_contact: 404 for an id that is nobody's, ...
Exists(r) ==
  /\ pc[r] = "exists"
  /\ Goto(r, IF job[r].peer \in Users THEN "lookup" ELSE "refused")
  /\ UNCHANGED <<contact, chat, job, chatOf, faults, said>>

\* ... 409 for a contact or a blocked user, ...
Lookup(r) ==
  /\ pc[r] = "lookup"
  /\ Goto(r, IF Contact(r) = "none" THEN "insert" ELSE "refused")
  /\ UNCHANGED <<contact, chat, job, chatOf, faults, said>>

\* The primary key lets INSERT through.
Added(status) == status = "none"

\* ... and INSERT, which fails when a row has come meanwhile.
Insert(r) ==
  /\ pc[r] = "insert"
  /\ \/ Added(Contact(r)) /\ Become(r, "friend") /\ Goto(r, "granted") /\ UNCHANGED <<job, chatOf>>
     \/ ~Added(Contact(r)) /\ End(r) /\ UNCHANGED contact
  /\ UNCHANGED <<chat, faults, said>>

\* Mutant of Removes: DELETE without its condition on status.
Removes_Any(op) == {"friend", "blocked"}

\* Mutant of Removes: unblock_contact deletes what remove_contact does.
Removes_Friend(op) == {"friend"}

\* What remove_contact and unblock_contact delete.
Removes(op) == IF op = "remove" THEN {"friend"} ELSE {"blocked"}

Delete(r) ==
  /\ pc[r] = "delete"
  /\ \/ /\ Contact(r) \in Removes(job[r].op) /\ Become(r, "none") /\ Goto(r, "granted")
     \/ /\ Contact(r) \notin Removes(job[r].op) /\ Goto(r, "refused") /\ UNCHANGED contact
  /\ UNCHANGED <<chat, job, chatOf, faults, said>>

\* block_contact deletes whatever there is ...
Unlink(r) ==
  /\ pc[r] = "unlink"
  /\ Become(r, "none")
  /\ Goto(r, "link")
  /\ UNCHANGED <<chat, job, chatOf, faults, said>>

\* ... and inserts, in no transaction: it fails for an id that is nobody's, or
\* when a row has come meanwhile.
Link(r) ==
  /\ pc[r] = "link"
  /\ \/ /\ job[r].peer \in Users /\ Contact(r) = "none"
        /\ Become(r, "blocked") /\ Goto(r, "granted") /\ UNCHANGED <<job, chatOf>>
     \/ (job[r].peer \notin Users \/ Contact(r) # "none") /\ End(r) /\ UNCHANGED contact
  /\ UNCHANGED <<chat, faults, said>>

\* What a client that gets 201 or 204 takes the contact to be.
Granted(op) ==
  CASE op = "add" -> "friend"
    [] op = "block" -> "blocked"
    [] op \in {"remove", "unblock"} -> "none"

Answer(r) ==
  /\ \/ /\ pc[r] = "granted"
        /\ said' = [said EXCEPT ![job[r].user][job[r].peer] = Granted(job[r].op)]
     \/ pc[r] = "refused" /\ UNCHANGED said
  /\ End(r)
  /\ UNCHANGED <<contact, chat, faults>>

----------------------------------------------------------------------------
\* Direct chats

NoChat == [is |-> "none", participants |-> {}, members |-> {}]

Live(k) == chat[k].is = "live"

\* Mutant of Has: the SELECT finds nothing, and a chat is always made.
Has_Forgotten(k, a, b) == FALSE

\* The two joins of the SELECT; with a = b any direct chat of a fits.
Has(k, a, b) == a \in chat[k].participants /\ b \in chat[k].participants

\* ensure_direct_chat: the chat is there, or a transaction begins and inserts
\* a row of chats.
Find(r) ==
  LET there == {k \in Chats : Live(k) /\ Has(k, job[r].user, job[r].peer)}
  IN  /\ pc[r] = "find"
      /\ \/ there # {} /\ Goto(r, "dto") /\ UNCHANGED <<chat, chatOf>>
         \/ /\ there = {}
            /\ \E k \in Chats :
                 /\ chat[k] = NoChat /\ \A i \in 1..(k - 1) : chat[i] # NoChat
                 /\ chat' = [chat EXCEPT ![k].is = "pending"]
                 /\ chatOf' = [chatOf EXCEPT ![r] = k]
            /\ Goto(r, "participants")
      /\ UNCHANGED <<contact, job, faults, said>>

\* Mutant of RolledBack: no transaction.
RolledBack_Not(r) == [chat EXCEPT ![chatOf[r]].is = "live"]

\* Mutant of RolledBack: the connection is kept with its transaction open.
RolledBack_Open(r) == chat

RolledBack(r) == [chat EXCEPT ![chatOf[r]] = [NoChat EXCEPT !.is = "undone"]]

\* Both participants in one INSERT: it fails when they are the same or one is
\* nobody.
AddParticipants(r) ==
  LET two == {job[r].user, job[r].peer}
  IN  /\ pc[r] = "participants"
      /\ \/ /\ Cardinality(two) = 2 /\ two \subseteq Users
            /\ chat' = [chat EXCEPT ![chatOf[r]].participants = two]
            /\ Goto(r, "members") /\ UNCHANGED <<job, chatOf>>
         \/ /\ ~(Cardinality(two) = 2 /\ two \subseteq Users)
            /\ chat' = RolledBack(r) /\ End(r)
      /\ UNCHANGED <<contact, faults, said>>

\* The first row of chat_members, then the second.
AddMember(r) ==
  LET k == chatOf[r]
      next == IF job[r].user \in chat[k].members THEN job[r].peer ELSE job[r].user
  IN  /\ pc[r] = "members"
      /\ chat' = [chat EXCEPT ![k].members = @ \cup {next}]
      /\ Goto(r, IF next = job[r].peer THEN "commit" ELSE "members")
      /\ UNCHANGED <<contact, job, chatOf, faults, said>>

Commit(r) ==
  /\ pc[r] = "commit"
  /\ chat' = [chat EXCEPT ![chatOf[r]].is = "live"]
  /\ Goto(r, "dto")
  /\ UNCHANGED <<contact, job, chatOf, faults, said>>

\* build_chat_dto selects a column that chats does not have: 500.
BuildDto(r) ==
  /\ pc[r] = "dto"
  /\ End(r)
  /\ UNCHANGED <<contact, chat, faults, said>>

----------------------------------------------------------------------------
\* A statement fails or the process dies; an open transaction is rolled back.
Fail(r) ==
  /\ pc[r] \notin {"idle", "done"}
  /\ faults < MaxFaults /\ faults' = faults + 1
  /\ chat' = IF pc[r] \in {"participants", "members", "commit"} THEN RolledBack(r) ELSE chat
  /\ End(r)
  /\ UNCHANGED <<contact, said>>

Init ==
  /\ contact = [u \in Users |-> [i \in Ids |-> "none"]]
  /\ chat = [k \in Chats |-> NoChat]
  /\ pc = [r \in Requests |-> "idle"]
  /\ job = [r \in Requests |-> NoJob]
  /\ chatOf = [r \in Requests |-> None]
  /\ faults = 0
  /\ said = contact
  /\ unsure = {}

Contacts(r) == Exists(r) \/ Lookup(r) \/ Insert(r) \/ Delete(r) \/ Unlink(r) \/ Link(r) \/ Answer(r)

Direct(r) == Find(r) \/ AddParticipants(r) \/ AddMember(r) \/ Commit(r) \/ BuildDto(r)

\* What a request works on: the contact that user has in peer, or the direct
\* chat of the two.
Matter(j) ==
  IF j.op = "direct" THEN <<"direct", {j.user, j.peer}>> ELSE <<j.user, j.peer>>

Matters == {Matter(j) : j \in RequestJobs}

\* Up to the commit for a direct chat, up to the answer for a contact.
WorksOn(r, m) == pc[r] \notin {"idle", "done", "dto"} /\ Matter(job[r]) = m

Contended == {m \in Matters : \E r, x \in Requests : r # x /\ WorksOn(r, m) /\ WorksOn(x, m)}

\* The contact a failing request works on.
AtHand ==
  {m \in Matters : \E r \in Requests :
     WorksOn(r, m) /\ job[r].op # "direct" /\ pc'[r] # pc[r]}

Next ==
  /\ \E r \in Requests : Begin(r) \/ Contacts(r) \/ Direct(r) \/ Fail(r)
  /\ unsure' = unsure \cup Contended' \cup (IF faults' # faults THEN AtHand ELSE {})

Spec == Init /\ [][Next]_vars

----------------------------------------------------------------------------
\* Properties

Pcs == {"idle", "exists", "lookup", "insert", "delete", "unlink", "link", "granted",
        "refused", "find", "participants", "members", "commit", "dto", "done"}

\* The types, and: a chat is pending exactly while one request is making it.
TypeOK ==
  /\ contact \in [Users -> [Ids -> {"none", "friend", "blocked"}]]
  /\ chat \in [Chats -> [is : {"none", "pending", "live", "undone"},
                         participants : SUBSET Users, members : SUBSET Users]]
  /\ pc \in [Requests -> Pcs]
  /\ job \in [Requests -> RequestJobs \cup {NoJob}]
  /\ chatOf \in [Requests -> Chats \cup {None}]
  /\ \A k \in Chats :
       chat[k].is = "pending" <=>
         \E r \in Requests : chatOf[r] = k /\ pc[r] \in {"participants", "members", "commit"}
  /\ faults \in Nat
  /\ said \in [Users -> [Ids -> {"none", "friend", "blocked"}]]
  /\ unsure \subseteq Matters

(***************************************************************************)
(* A user who is blocked stays blocked until an unblock_contact or another *)
(* block_contact deletes the row, although add_contact looks first and     *)
(* inserts later and remove_contact does not look at all (contacts.rs      *)
(* lines 87-117, 131-139, 189-197).                                        *)
(***************************************************************************)
BlockStays ==
  [][\A u \in Users, i \in Ids :
       contact[u][i] = "blocked" /\ contact'[u][i] # "blocked" =>
         \E r \in Requests :
           /\ job[r].op \in {"block", "unblock"} /\ job[r].user = u /\ job[r].peer = i
           /\ pc[r] \in {"unlink", "delete"} /\ pc'[r] # pc[r]]_vars

(***************************************************************************)
(* A contact is what the answers 201 and 204 say, and a refusal (400, 404, *)
(* 409) has its reason in earlier answers, as long as no two requests ever *)
(* worked on that contact at once and none failed on it (contacts.rs lines *)
(* 60-209).                                                                *)
(***************************************************************************)
ContactsAreAsAnswered ==
  /\ \A u \in Users, i \in Ids :
       <<u, i>> \notin unsure /\ (~\E r \in Requests : WorksOn(r, <<u, i>>))
         => contact[u][i] = said[u][i]
  /\ \A r \in Requests :
       LET j == job[r]
       IN  pc[r] = "refused" /\ Matter(j) \notin unsure =>
             CASE j.op = "add" ->
                    j.peer = j.user \/ j.peer \notin Users \/ said[j.user][j.peer] # "none"
               [] j.op = "remove" -> said[j.user][j.peer] # "friend"
               [] j.op = "unblock" -> said[j.user][j.peer] # "blocked"

(***************************************************************************)
(* "Create or get a direct chat" (API_SPEC.md line 159): two users have at *)
(* most one, whoever asks first and whatever fails, unless two requests    *)
(* for the two of them overlapped (chats.rs lines 979-1028).               *)
(***************************************************************************)
OneDirectChat ==
  \A a, b \in Users :
    a # b /\ <<"direct", {a, b}>> \notin unsure =>
      Cardinality({k \in Chats : Live(k) /\ chat[k].participants = {a, b}}) <= 1

(***************************************************************************)
(* A direct chat that can be seen has two participants, who have their     *)
(* rows in chat_members, whichever statement of its making failed or was   *)
(* refused, a chat with oneself or with nobody included (chats.rs lines    *)
(* 1002-1027).                                                             *)
(***************************************************************************)
DirectChatsArePairs ==
  \A k \in Chats :
    Live(k) => Cardinality(chat[k].participants) = 2 /\ chat[k].members = chat[k].participants

=============================================================================
