---------------------------- MODULE PeersProofs ----------------------------
(***************************************************************************)
(* Proofs about Peers, for any users, requests and chats and any number of *)
(* failures: its type invariant, that blocks stay, that contacts are as    *)
(* answered and that direct chats are pairs and, but for overlapping       *)
(* requests, one for each two users.                                       *)
(*                                                                         *)
(* IInv adds to TypeOK which operation is at each place, that no two       *)
(* requests make the same chat, and which rows it has at each step of its  *)
(* making.  Settled and Single say what holds of a contact, and of the     *)
(* direct chats of two users, while the one request is at work on it.      *)
(***************************************************************************)
EXTENDS Peers, FiniteSetTheorems, TLAPS

\* The operation of a request at a place.
Fits(op, here) ==
  \/ here \in {"exists", "lookup", "insert"} /\ op = "add"
  \/ here = "delete" /\ op \in {"remove", "unblock"}
  \/ here \in {"unlink", "link"} /\ op = "block"
  \/ here = "granted" /\ op \in {"add", "block", "remove", "unblock"}
  \/ here = "refused" /\ op \in {"add", "remove", "unblock"}
  \/ here \in {"find", "participants", "members", "commit", "dto"} /\ op = "direct"

Making == {"participants", "members", "commit"}

Course ==
  /\ \A r \in Requests :
       /\ pc[r] \notin {"idle", "done"} => job[r] \in RequestJobs /\ Fits(job[r].op, pc[r])
       /\ pc[r] \in Making => chatOf[r] \in Chats
  /\ \A r, x \in Requests :
       r # x /\ pc[r] \in Making /\ pc[x] \in Making => chatOf[r] # chatOf[x]

IsPair(S) == \E a, b \in Users : a # b /\ S = {a, b}

\* The rows of a chat on the way to its commit, and from then on.
RowsAt(here, j, k) ==
  /\ here \in {"members", "commit"} => j.user # j.peer /\ k.participants = {j.user, j.peer}
  /\ here = "participants" => k.members = {}
  /\ here = "members" => k.members \in {{}, {j.user}}
  /\ here = "commit" => k.members = k.participants

Begun == \A r \in Requests : RowsAt(pc[r], job[r], chat[chatOf[r]])

\* A chat that was begun keeps its row, and one that can be seen is a pair.
Sound(c) ==
  /\ c = NoChat \/ c.is # "none"
  /\ c.is = "live" => IsPair(c.participants) /\ c.members = c.participants

Made == \A k \in Chats : Sound(chat[k])

IInv == TypeOK /\ Course /\ Begun /\ Made

LEMMA JobTypes ==
  /\ \A j \in RequestJobs : j.op \in Ops /\ j.user \in Users /\ j.peer \in Ids
  /\ Users \subseteq Ids /\ None \notin Ids
  BY PeersAssumption

LEMMA Pairs == \A a, b : a # b <=> Cardinality({a, b}) = 2
  <1> TAKE a, b
  <1>1. CASE a = b
    BY <1>1, FS_Singleton
  <1>2. CASE a # b
    <2>1. IsFiniteSet({b}) /\ Cardinality({b}) = 1
      BY FS_Singleton
    <2>2. Cardinality({b} \cup {a}) = Cardinality({b}) + 1
      BY <1>2, <2>1, FS_AddElement
    <2>3. {b} \cup {a} = {a, b}
      OBVIOUS
    <2> QED
      BY <1>2, <2>1, <2>2, <2>3
  <1> QED
    BY <1>1, <1>2

LEMMA InitIInv == Init => IInv
  BY DEF Init, IInv, TypeOK, Course, Begun, RowsAt, Made, Sound, NoChat, Pcs, Making

LEMMA UnsureTypes ==
  ASSUME unsure \subseteq Matters,
         unsure' = unsure \cup Contended' \cup (IF faults' # faults THEN AtHand ELSE {})
  PROVE  unsure' \subseteq Matters
  BY DEF Contended, AtHand, Matters

\* What r does to contacts, and where it ends: no chat is being made by it.
LEMMA ContactsIInv ==
  ASSUME IInv, NEW r \in Requests, NEW there \in Pcs \ Making,
         pc' = [pc EXCEPT ![r] = there], pc[r] \notin Making,
         there \notin {"idle", "done"} => job'[r] \in RequestJobs /\ Fits(job'[r].op, there),
         \A x \in Requests \ {r} : job'[x] = job[x] /\ chatOf'[x] = chatOf[x],
         job' \in [Requests -> RequestJobs \cup {NoJob}],
         chatOf' \in [Requests -> Chats \cup {None}],
         UNCHANGED chat, faults' \in Nat, unsure' \subseteq Matters,
         contact' \in [Users -> [Ids -> {"none", "friend", "blocked"}]],
         said' \in [Users -> [Ids -> {"none", "friend", "blocked"}]]
  PROVE  IInv'
  <1>1. \A x \in Requests \ {r} : pc'[x] = pc[x]
    BY DEF IInv, TypeOK
  <1>2. pc' \in [Requests -> Pcs] /\ pc'[r] = there
    BY DEF IInv, TypeOK
  <1>3. TypeOK'
    BY <1>1, <1>2 DEF IInv, TypeOK, Making
  <1>4. Course'
    BY <1>1, <1>2 DEF IInv, Course
  <1>5. Begun'
    <2>1. RowsAt(pc'[r], job'[r], chat'[chatOf'[r]])
      BY <1>2 DEF RowsAt, Making
    <2> QED
      BY <1>1, <2>1 DEF IInv, Begun
  <1>6. Made'
    BY DEF IInv, Made
  <1> QED
    BY <1>3, <1>4, <1>5, <1>6 DEF IInv

LEMMA ContactTypes ==
  ASSUME IInv, NEW r \in Requests
  PROVE  /\ pc[r] \notin {"idle", "done"} =>
              job[r] \in RequestJobs /\ job[r].op \in Ops /\ job[r].user \in Users /\ job[r].peer \in Ids
         /\ \A status \in {"none", "friend", "blocked"} :
              Become(r, status) /\ pc[r] \notin {"idle", "done"} =>
                contact' \in [Users -> [Ids -> {"none", "friend", "blocked"}]]
  <1>1. pc[r] \notin {"idle", "done"} =>
          job[r] \in RequestJobs /\ job[r].op \in Ops /\ job[r].user \in Users /\ job[r].peer \in Ids
    BY JobTypes DEF IInv, Course
  <1>2. contact \in [Users -> [Ids -> {"none", "friend", "blocked"}]]
    BY DEF IInv, TypeOK
  <1> QED
    BY <1>1, <1>2 DEF Become

LEMMA BeginIInv ==
  ASSUME IInv, NEW r \in Requests, Begin(r), unsure' \subseteq Matters
  PROVE  IInv'
  <1>1. PICK j \in RequestJobs :
          /\ job' = [job EXCEPT ![r] = j]
          /\ pc' = [pc EXCEPT ![r] = IF j.op = "add" /\ j.peer = j.user THEN "refused" ELSE Start(j.op)]
    BY DEF Begin, Goto
  <1> DEFINE there == IF j.op = "add" /\ j.peer = j.user THEN "refused" ELSE Start(j.op)
  <1>2. there \in Pcs \ Making /\ Fits(j.op, there)
    BY JobTypes DEF Start, Pcs, Making, Fits, Ops
  <1>3. pc[r] \notin Making /\ UNCHANGED <<contact, chat, chatOf, faults, said>>
    BY DEF Begin, Making
  <1>4. pc' = [pc EXCEPT ![r] = there]
    BY <1>1
  <1> HIDE DEF there
  <1>5. job'[r] = j /\ job' \in [Requests -> RequestJobs \cup {NoJob}]
        /\ \A x \in Requests \ {r} : job'[x] = job[x]
    BY <1>1 DEF IInv, TypeOK
  <1> QED
    BY <1>2, <1>3, <1>4, <1>5, ContactsIInv DEF IInv, TypeOK

LEMMA AtContactsIInv ==
  ASSUME IInv, NEW r \in Requests, Contacts(r) \/ BuildDto(r), unsure' \subseteq Matters
  PROVE  IInv'
  <1> USE DEF Making, Pcs
  <1>1. pc[r] \notin Making \cup {"idle", "done"} /\ UNCHANGED <<chat, faults>>
    BY DEF Contacts, Exists, Lookup, Insert, Delete, Unlink, Link, Answer, BuildDto
  <1>2. /\ job[r] \in RequestJobs /\ Fits(job[r].op, pc[r])
        /\ job[r].user \in Users /\ job[r].peer \in Ids
    BY <1>1, ContactTypes DEF IInv, Course
  <1>3. PICK there \in {"lookup", "insert", "refused", "granted", "link", "done"} :
          /\ pc' = [pc EXCEPT ![r] = there]
          /\ there = "done" => End(r)
          /\ there # "done" => UNCHANGED <<job, chatOf>> /\ Fits(job[r].op, there)
    <2>1. CASE Exists(r)
      BY <1>2, <2>1 DEF Exists, Goto, Fits
    <2>2. CASE Lookup(r)
      BY <1>2, <2>2 DEF Lookup, Goto, Fits
    <2>3. CASE Insert(r)
      BY <1>2, <2>3 DEF Insert, Goto, Fits, End
    <2>4. CASE Delete(r)
      BY <1>2, <2>4 DEF Delete, Goto, Fits
    <2>5. CASE Unlink(r)
      BY <1>2, <2>5 DEF Unlink, Goto, Fits
    <2>6. CASE Link(r)
      BY <1>2, <2>6 DEF Link, Goto, Fits, End
    <2>7. CASE Answer(r) \/ BuildDto(r)
      BY <2>7 DEF Answer, BuildDto, Goto, End
    <2> QED
      BY <2>1, <2>2, <2>3, <2>4, <2>5, <2>6, <2>7 DEF Contacts
  <1>4. contact' \in [Users -> [Ids -> {"none", "friend", "blocked"}]]
    <2>1. UNCHANGED contact \/ \E status \in {"none", "friend", "blocked"} : Become(r, status)
      BY DEF Contacts, Exists, Lookup, Insert, Delete, Unlink, Link, Answer, BuildDto
    <2> QED
      BY <1>1, <2>1, ContactTypes DEF IInv, TypeOK
  <1>5. said' \in [Users -> [Ids -> {"none", "friend", "blocked"}]]
    <2>1. CASE UNCHANGED said
      BY <2>1 DEF IInv, TypeOK
    <2>2. CASE said' # said
      <3>1. pc[r] = "granted" /\ said' = [said EXCEPT ![job[r].user][job[r].peer] = Granted(job[r].op)]
        BY <2>2 DEF Contacts, Exists, Lookup, Insert, Delete, Unlink, Link, Answer, BuildDto
      <3>2. Granted(job[r].op) \in {"none", "friend", "blocked"}
        BY <1>2, <3>1 DEF Fits, Granted
      <3> QED
        BY <1>2, <3>1, <3>2 DEF IInv, TypeOK
    <2> QED
      BY <2>1, <2>2
  <1>6. /\ \A x \in Requests \ {r} : job'[x] = job[x] /\ chatOf'[x] = chatOf[x]
        /\ job' \in [Requests -> RequestJobs \cup {NoJob}]
        /\ chatOf' \in [Requests -> Chats \cup {None}]
        /\ there # "done" => job'[r] = job[r]
    BY <1>3 DEF End, IInv, TypeOK
  <1> QED
    BY <1>1, <1>2, <1>3, <1>4, <1>5, <1>6, ContactsIInv DEF IInv, TypeOK

Row == [is : {"none", "pending", "live", "undone"},
        participants : SUBSET Users, members : SUBSET Users]

\* What r does to the chat it makes, which is no other's.
LEMMA ChatIInv ==
  ASSUME IInv, NEW r \in Requests, NEW there \in Pcs, NEW k \in Chats, NEW row \in Row,
         chat' = [chat EXCEPT ![k] = row], pc' = [pc EXCEPT ![r] = there],
         \A x \in Requests \ {r} : pc[x] \in Making => chatOf[x] # k,
         pc[r] \in Making => chatOf[r] = k, chat[k].is \in {"none", "pending"},
         there \in Making <=> row.is = "pending", there \in Making => chatOf'[r] = k,
         there \notin {"idle", "done"} => job'[r] \in RequestJobs /\ Fits(job'[r].op, there),
         RowsAt(there, job'[r], row), row.is # "none",
         row.is = "live" => IsPair(row.participants) /\ row.members = row.participants,
         \A x \in Requests \ {r} : job'[x] = job[x] /\ chatOf'[x] = chatOf[x],
         job' \in [Requests -> RequestJobs \cup {NoJob}],
         chatOf' \in [Requests -> Chats \cup {None}],
         UNCHANGED <<contact, said>>, faults' \in Nat, unsure' \subseteq Matters
  PROVE  IInv'
  <1>1. \A x \in Requests \ {r} : pc'[x] = pc[x]
    BY DEF IInv, TypeOK
  <1>2. pc' \in [Requests -> Pcs] /\ pc'[r] = there
    BY DEF IInv, TypeOK
  <1>3. /\ chat \in [Chats -> Row] /\ chat' \in [Chats -> Row] /\ chat'[k] = row
        /\ \A i \in Chats \ {k} : chat'[i] = chat[i]
    BY DEF IInv, TypeOK, Row
  <1>4. \A i \in Chats : chat'[i].is = "pending" <=>
          \E x \in Requests : chatOf'[x] = i /\ pc'[x] \in Making
    <2> SUFFICES ASSUME NEW i \in Chats
                 PROVE  chat'[i].is = "pending" <=>
                          \E x \in Requests : chatOf'[x] = i /\ pc'[x] \in Making
      OBVIOUS
    <2>1. chat[i].is = "pending" <=> \E x \in Requests : chatOf[x] = i /\ pc[x] \in Making
      BY DEF IInv, TypeOK, Making
    <2>2. CASE i = k
      BY <1>1, <1>2, <1>3, <2>2
    <2>3. CASE i # k
      BY <1>1, <1>2, <1>3, <2>1, <2>3
    <2> QED
      BY <2>2, <2>3
  <1>5. TypeOK'
    BY <1>2, <1>3, <1>4 DEF IInv, TypeOK, Row, Making
  <1>6. Course'
    BY <1>1, <1>2 DEF IInv, Course, Making
  <1>7. Begun'
    <2> SUFFICES ASSUME NEW x \in Requests PROVE RowsAt(pc'[x], job'[x], chat'[chatOf'[x]])
      BY DEF Begun
    <2>1. CASE x = r
      <3>1. there \in Making => chat'[chatOf'[r]] = row
        BY <1>3
      <3> QED
        BY <1>2, <2>1, <3>1 DEF RowsAt, Making
    <2>2. CASE x # r /\ pc[x] \in Making
      <3>1. chat'[chatOf'[x]] = chat[chatOf[x]]
        BY <1>3, <2>2 DEF IInv, Course
      <3> QED
        BY <1>1, <2>2, <3>1 DEF IInv, Begun
    <2>3. CASE x # r /\ pc[x] \notin Making
      BY <1>1, <2>3 DEF RowsAt, Making
    <2> QED
      BY <2>1, <2>2, <2>3
  <1>8. Made'
    <2>1. Sound(row)
      BY DEF Sound
    <2>2. \A i \in Chats : Sound(chat'[i])
      BY <1>3, <2>1 DEF IInv, Made
    <2> QED
      BY <2>2 DEF Made
  <1> QED
    BY <1>5, <1>6, <1>7, <1>8 DEF IInv

\* A request at work on a chat, which is pending, and its own.
LEMMA Owns ==
  ASSUME IInv, NEW r \in Requests, pc[r] \in Making
  PROVE  /\ chatOf[r] \in Chats /\ chat[chatOf[r]] \in Row /\ chat[chatOf[r]].is = "pending"
         /\ \A x \in Requests \ {r} : pc[x] \in Making => chatOf[x] # chatOf[r]
         /\ job[r] \in RequestJobs /\ job[r].op = "direct" /\ job[r].user \in Users
         /\ RowsAt(pc[r], job[r], chat[chatOf[r]])
  BY JobTypes DEF IInv, TypeOK, Course, Begun, Making, Fits, Row

LEMMA UndoIInv ==
  ASSUME IInv, NEW r \in Requests, pc[r] \in Making, chat' = RolledBack(r), End(r),
         UNCHANGED <<contact, said>>, faults' \in Nat, unsure' \subseteq Matters
  PROVE  IInv'
  <1> DEFINE row == [NoChat EXCEPT !.is = "undone"]
  <1>1. row \in Row /\ row.is = "undone" /\ \A j : RowsAt("done", j, row)
    BY DEF Row, NoChat, RowsAt
  <1>2. /\ chat' = [chat EXCEPT ![chatOf[r]] = row]
        /\ pc' = [pc EXCEPT ![r] = "done"]
        /\ job' = [job EXCEPT ![r] = NoJob] /\ chatOf' = [chatOf EXCEPT ![r] = None]
    BY DEF RolledBack, End, Goto
  <1>3. /\ \A x \in Requests \ {r} : job'[x] = job[x] /\ chatOf'[x] = chatOf[x]
        /\ job' \in [Requests -> RequestJobs \cup {NoJob}]
        /\ chatOf' \in [Requests -> Chats \cup {None}]
    BY <1>2 DEF IInv, TypeOK
  <1>4. "done" \in Pcs /\ "done" \notin Making
    BY DEF Pcs, Making
  <1> DEFINE k == chatOf[r]
  <1>5. /\ k \in Chats /\ chat[k].is \in {"none", "pending"}
        /\ \A x \in Requests \ {r} : pc[x] \in Making => chatOf[x] # k
    BY Owns
  <1>6. chat' = [chat EXCEPT ![k] = row] /\ (pc[r] \in Making => chatOf[r] = k)
    BY <1>2
  <1> HIDE DEF row, k
  <1> QED
    BY <1>1, <1>2, <1>3, <1>4, <1>5, <1>6, ChatIInv

LEMMA FindIInv ==
  ASSUME IInv, NEW r \in Requests, Find(r), unsure' \subseteq Matters
  PROVE  IInv'
  <1>1. /\ pc[r] = "find" /\ UNCHANGED <<contact, job, faults, said>>
        /\ job[r] \in RequestJobs /\ job[r].op = "direct"
    BY DEF Find, IInv, Course, Fits
  <1>2. CASE Goto(r, "dto") /\ UNCHANGED <<chat, chatOf>>
    BY <1>1, <1>2, ContactsIInv DEF Goto, Pcs, Making, Fits, IInv, TypeOK
  <1>3. CASE ~(Goto(r, "dto") /\ UNCHANGED <<chat, chatOf>>)
    <2>1. PICK k \in Chats :
            /\ chat[k] = NoChat
            /\ chat' = [chat EXCEPT ![k].is = "pending"]
            /\ chatOf' = [chatOf EXCEPT ![r] = k]
            /\ pc' = [pc EXCEPT ![r] = "participants"]
      BY <1>3 DEF Find, Goto
    <2> DEFINE row == [NoChat EXCEPT !.is = "pending"]
    <2>2. chat' = [chat EXCEPT ![k] = row]
      BY <2>1 DEF IInv, TypeOK
    <2>3. row \in Row /\ row.is = "pending" /\ \A j : RowsAt("participants", j, row)
      BY DEF Row, NoChat, RowsAt
    <2>4. chat[k].is = "none" /\ \A x \in Requests \ {r} : pc[x] \in Making => chatOf[x] # k
      BY <2>1 DEF IInv, TypeOK, Making, NoChat
    <2>5. /\ \A x \in Requests \ {r} : chatOf'[x] = chatOf[x]
          /\ chatOf' \in [Requests -> Chats \cup {None}] /\ chatOf'[r] = k
      BY <2>1 DEF IInv, TypeOK
    <2>6. pc[r] \notin Making /\ "participants" \in Making /\ "participants" \in Pcs
      BY <1>1 DEF Making, Pcs
    <2> HIDE DEF row
    <2>7. Fits(job'[r].op, "participants") /\ job'[r] \in RequestJobs
      BY <1>1 DEF Fits
    <2>8. /\ \A x \in Requests \ {r} : job'[x] = job[x] /\ chatOf'[x] = chatOf[x]
          /\ job' \in [Requests -> RequestJobs \cup {NoJob}] /\ faults' \in Nat
      BY <1>1, <2>5 DEF IInv, TypeOK
    <2>9. RowsAt("participants", job'[r], row) /\ row.is # "none" /\ row.is # "live"
      BY <2>3
    <2> QED
      BY <1>1, <2>1, <2>2, <2>3, <2>4, <2>5, <2>6, <2>7, <2>8, <2>9, ChatIInv
  <1> QED
    BY <1>2, <1>3

LEMMA PartsIInv ==
  ASSUME IInv, NEW r \in Requests, AddParticipants(r), unsure' \subseteq Matters
  PROVE  IInv'
  <1> DEFINE two == {job[r].user, job[r].peer}
  <1>1. pc[r] = "participants" /\ pc[r] \in Making /\ UNCHANGED <<contact, faults, said>>
        /\ faults' \in Nat
    BY DEF AddParticipants, Making, IInv, TypeOK
  <1>2. CASE chat' = RolledBack(r) /\ End(r)
    BY <1>1, <1>2, UndoIInv
  <1>3. CASE ~(chat' = RolledBack(r) /\ End(r))
    <2>1. /\ Cardinality(two) = 2 /\ two \subseteq Users
          /\ chat' = [chat EXCEPT ![chatOf[r]].participants = two]
          /\ pc' = [pc EXCEPT ![r] = "members"] /\ UNCHANGED <<job, chatOf>>
      BY <1>3 DEF AddParticipants, Goto
    <2>2. job[r].user # job[r].peer
      BY <2>1, Pairs
    <2> DEFINE k == chatOf[r]
               row == [chat[k] EXCEPT !.participants = two]
    <2>3. /\ k \in Chats /\ chat[k] \in Row /\ chat[k].is = "pending"
          /\ \A x \in Requests \ {r} : pc[x] \in Making => chatOf[x] # k
          /\ job[r] \in RequestJobs /\ job[r].op = "direct" /\ chat[k].members = {}
      BY <1>1, Owns DEF RowsAt
    <2>4. chat' = [chat EXCEPT ![k] = row] /\ (pc[r] \in Making => chatOf[r] = k)
          /\ chatOf'[r] = k
      BY <2>1
    <2>5. row \in Row /\ row.is = "pending" /\ row.participants = two /\ row.members = {}
      BY <2>1, <2>3 DEF Row
    <2>6. RowsAt("members", job'[r], row)
      BY <2>1, <2>2, <2>5 DEF RowsAt
    <2>7. /\ "members" \in Pcs /\ "members" \in Making
          /\ Fits(job'[r].op, "members") /\ job'[r] \in RequestJobs
      BY <2>1, <2>3 DEF Pcs, Making, Fits
    <2>8. /\ \A x \in Requests \ {r} : job'[x] = job[x] /\ chatOf'[x] = chatOf[x]
          /\ job' \in [Requests -> RequestJobs \cup {NoJob}]
          /\ chatOf' \in [Requests -> Chats \cup {None}]
      BY <2>1 DEF IInv, TypeOK
    <2> HIDE DEF row, k
    <2> QED
      BY <1>1, <2>1, <2>3, <2>4, <2>5, <2>6, <2>7, <2>8, ChatIInv
  <1> QED
    BY <1>2, <1>3

LEMMA MemberIInv ==
  ASSUME IInv, NEW r \in Requests, AddMember(r), unsure' \subseteq Matters
  PROVE  IInv'
  <1> DEFINE k == chatOf[r]
             next == IF job[r].user \in chat[k].members THEN job[r].peer ELSE job[r].user
             there == IF next = job[r].peer THEN "commit" ELSE "members"
             row == [chat[k] EXCEPT !.members = @ \cup {next}]
  <1>1. /\ pc[r] = "members" /\ pc[r] \in Making
        /\ UNCHANGED <<contact, job, chatOf, faults, said>>
        /\ chat' = [chat EXCEPT ![k].members = @ \cup {next}]
        /\ pc' = [pc EXCEPT ![r] = there]
    BY DEF AddMember, Making, Goto
  <1>2. /\ k \in Chats /\ chat[k] \in Row /\ chat[k].is = "pending"
        /\ \A x \in Requests \ {r} : pc[x] \in Making => chatOf[x] # k
        /\ job[r] \in RequestJobs /\ job[r].op = "direct"
        /\ RowsAt("members", job[r], chat[k])
    BY <1>1, Owns
  <1>3. /\ job[r].user # job[r].peer /\ chat[k].participants = {job[r].user, job[r].peer}
        /\ chat[k].members \in {{}, {job[r].user}}
    BY <1>2 DEF RowsAt
  <1>4. /\ row \in Row /\ row.is = "pending" /\ row.participants = {job[r].user, job[r].peer}
        /\ row.members = chat[k].members \cup {next}
    BY <1>2, <1>3 DEF Row
  <1>5. RowsAt(there, job[r], row)
    <2>1. CASE chat[k].members = {}
      BY <1>3, <1>4, <2>1 DEF RowsAt
    <2>2. CASE chat[k].members = {job[r].user}
      BY <1>3, <1>4, <2>2 DEF RowsAt
    <2> QED
      BY <1>3, <2>1, <2>2
  <1>6. /\ there \in Pcs /\ there \in Making /\ Fits(job[r].op, there)
    BY <1>2 DEF Pcs, Making, Fits
  <1>7. /\ chat' = [chat EXCEPT ![k] = row] /\ (pc[r] \in Making => chatOf[r] = k)
        /\ chatOf'[r] = k /\ faults' \in Nat /\ job'[r] = job[r]
        /\ \A x \in Requests \ {r} : job'[x] = job[x] /\ chatOf'[x] = chatOf[x]
        /\ job' \in [Requests -> RequestJobs \cup {NoJob}]
        /\ chatOf' \in [Requests -> Chats \cup {None}]
    BY <1>1 DEF IInv, TypeOK
  <1> HIDE DEF row, there, next, k
  <1> QED
    BY <1>1, <1>2, <1>4, <1>5, <1>6, <1>7, ChatIInv

LEMMA CommitIInv ==
  ASSUME IInv, NEW r \in Requests, Commit(r), unsure' \subseteq Matters
  PROVE  IInv'
  <1> DEFINE k == chatOf[r]
             row == [chat[k] EXCEPT !.is = "live"]
  <1>1. /\ pc[r] = "commit" /\ pc[r] \in Making
        /\ UNCHANGED <<contact, job, chatOf, faults, said>>
        /\ chat' = [chat EXCEPT ![k].is = "live"]
        /\ pc' = [pc EXCEPT ![r] = "dto"]
    BY DEF Commit, Making, Goto
  <1>2. /\ k \in Chats /\ chat[k] \in Row /\ chat[k].is = "pending"
        /\ \A x \in Requests \ {r} : pc[x] \in Making => chatOf[x] # k
        /\ job[r] \in RequestJobs /\ job[r].op = "direct" /\ job[r].user \in Users
        /\ RowsAt("commit", job[r], chat[k])
    BY <1>1, Owns
  <1>3. /\ job[r].user # job[r].peer /\ chat[k].participants = {job[r].user, job[r].peer}
        /\ chat[k].members = chat[k].participants
    BY <1>2 DEF RowsAt
  <1>4. job[r].peer \in Users
    BY <1>2, <1>3 DEF Row
  <1>5. /\ row \in Row /\ row.is = "live" /\ row.participants = {job[r].user, job[r].peer}
        /\ row.members = row.participants
    BY <1>2, <1>3 DEF Row
  <1>6. IsPair(row.participants)
    BY <1>2, <1>3, <1>4, <1>5 DEF IsPair
  <1>7. /\ "dto" \in Pcs /\ "dto" \notin Making /\ Fits(job[r].op, "dto")
        /\ RowsAt("dto", job[r], row)
    BY <1>2 DEF Pcs, Making, Fits, RowsAt
  <1>8. /\ chat' = [chat EXCEPT ![k] = row] /\ (pc[r] \in Making => chatOf[r] = k)
        /\ faults' \in Nat /\ job'[r] = job[r]
        /\ \A x \in Requests \ {r} : job'[x] = job[x] /\ chatOf'[x] = chatOf[x]
        /\ job' \in [Requests -> RequestJobs \cup {NoJob}]
        /\ chatOf' \in [Requests -> Chats \cup {None}]
    BY <1>1 DEF IInv, TypeOK
  <1> HIDE DEF row, k
  <1> QED
    BY <1>1, <1>2, <1>5, <1>6, <1>7, <1>8, ChatIInv

LEMMA FailIInv ==
  ASSUME IInv, NEW r \in Requests, Fail(r), unsure' \subseteq Matters
  PROVE  IInv'
  <1>1. faults' \in Nat /\ End(r) /\ UNCHANGED <<contact, said>>
    BY DEF Fail, IInv, TypeOK
  <1>2. CASE pc[r] \in Making
    <2>1. chat' = RolledBack(r)
      BY <1>2 DEF Fail, Making
    <2> QED
      BY <1>1, <1>2, <2>1, UndoIInv
  <1>3. CASE pc[r] \notin Making
    <2>1. UNCHANGED chat
      BY <1>3 DEF Fail, Making
    <2>2. /\ pc' = [pc EXCEPT ![r] = "done"] /\ "done" \in Pcs \ Making
          /\ \A x \in Requests \ {r} : job'[x] = job[x] /\ chatOf'[x] = chatOf[x]
          /\ job' \in [Requests -> RequestJobs \cup {NoJob}]
          /\ chatOf' \in [Requests -> Chats \cup {None}]
      BY <1>1 DEF End, Goto, IInv, TypeOK, Pcs, Making
    <2>3. /\ contact' \in [Users -> [Ids -> {"none", "friend", "blocked"}]]
          /\ said' \in [Users -> [Ids -> {"none", "friend", "blocked"}]]
      BY <1>1 DEF IInv, TypeOK
    <2> QED
      BY <1>1, <1>3, <2>1, <2>2, <2>3, ContactsIInv
  <1> QED
    BY <1>2, <1>3

LEMMA StepIInv == IInv /\ [Next]_vars => IInv'
  <1> SUFFICES ASSUME IInv, [Next]_vars PROVE IInv'
    OBVIOUS
  <1>1. CASE UNCHANGED vars
    BY <1>1 DEF IInv, TypeOK, Course, Begun, Made, Live, vars
  <1>2. CASE Next
    <2>1. unsure' \subseteq Matters
      BY <1>2, UnsureTypes DEF Next, IInv, TypeOK
    <2>2. PICK r \in Requests : Begin(r) \/ Contacts(r) \/ Direct(r) \/ Fail(r)
      BY <1>2 DEF Next
    <2>3. CASE Begin(r)
      BY <2>1, <2>3, BeginIInv
    <2>4. CASE Contacts(r) \/ BuildDto(r)
      BY <2>1, <2>4, AtContactsIInv
    <2>5. CASE Find(r)
      BY <2>1, <2>5, FindIInv
    <2>6. CASE AddParticipants(r)
      BY <2>1, <2>6, PartsIInv
    <2>7. CASE AddMember(r)
      BY <2>1, <2>7, MemberIInv
    <2>8. CASE Commit(r)
      BY <2>1, <2>8, CommitIInv
    <2>9. CASE Fail(r)
      BY <2>1, <2>9, FailIInv
    <2> QED
      BY <2>2, <2>3, <2>4, <2>5, <2>6, <2>7, <2>8, <2>9 DEF Direct
  <1> QED
    BY <1>1, <1>2

THEOREM AlwaysIInv == Spec => []IInv
  BY InitIInv, StepIInv, PTL DEF Spec

\* The types, and that a chat is pending exactly while one request makes it.
THEOREM TypesHold == Spec => []TypeOK
  <1>1. IInv => TypeOK
    BY DEF IInv
  <1> QED
    BY <1>1, AlwaysIInv, PTL

\* A direct chat that can be seen is a pair with its members, for any users and
\* requests: the transaction of ensure_direct_chat is all or nothing, and its
\* INSERT refuses a chat with oneself or with nobody.
THEOREM DirectChatsAlwaysPairs == Spec => []DirectChatsArePairs
  <1>1. IInv => DirectChatsArePairs
    <2> SUFFICES ASSUME IInv, NEW k \in Chats, Live(k)
                 PROVE  /\ Cardinality(chat[k].participants) = 2
                        /\ chat[k].members = chat[k].participants
      BY DEF DirectChatsArePairs
    <2>1. IsPair(chat[k].participants) /\ chat[k].members = chat[k].participants
      BY DEF IInv, Made, Sound, Live
    <2>2. PICK a, b \in Users : a # b /\ chat[k].participants = {a, b}
      BY <2>1 DEF IsPair
    <2>3. Cardinality({a, b}) = 2
      BY <2>2, Pairs
    <2> QED
      BY <2>1, <2>2, <2>3
  <1> QED
    BY <1>1, AlwaysIInv, PTL

\* A block ends only by an unblock_contact or another block_contact, whatever
\* add_contact and remove_contact do meanwhile.
THEOREM BlocksStay == Spec => BlockStays
  <1> DEFINE Undone(u, i) ==
        \E r \in Requests :
           /\ job[r].op \in {"block", "unblock"} /\ job[r].user = u /\ job[r].peer = i
           /\ pc[r] \in {"unlink", "delete"} /\ pc'[r] # pc[r]
  <1>1. ASSUME IInv, [Next]_vars, NEW u \in Users, NEW i \in Ids,
               contact[u][i] = "blocked", contact'[u][i] # "blocked"
        PROVE  Undone(u, i)
    <2>1. contact' # contact
      BY <1>1
    <2>2. PICK r \in Requests : Insert(r) \/ Delete(r) \/ Unlink(r) \/ Link(r)
      BY <1>1, <2>1 DEF Next, Begin, Contacts, Direct, Fail, Exists, Lookup, Answer, Find,
           AddParticipants, AddMember, Commit, BuildDto, vars
    <2>3. PICK status \in {"none", "friend", "blocked"} : Become(r, status)
      BY <2>1, <2>2 DEF Insert, Delete, Unlink, Link
    <2>4. contact \in [Users -> [Ids -> {"none", "friend", "blocked"}]] /\ pc \in [Requests -> Pcs]
      BY <1>1 DEF IInv, TypeOK
    <2>5. pc[r] \notin {"idle", "done"}
      BY <2>2 DEF Insert, Delete, Unlink, Link
    <2>6. Fits(job[r].op, pc[r]) /\ job[r].user \in Users /\ job[r].peer \in Ids
      BY <1>1, <2>5, ContactTypes DEF IInv, Course
    <2>7. job[r].user = u /\ job[r].peer = i
      BY <1>1, <2>3, <2>4, <2>6 DEF Become
    <2>8. Contact(r) = "blocked"
      BY <1>1, <2>7 DEF Contact
    <2>9. pc[r] \in {"unlink", "delete"} /\ pc'[r] # pc[r]
      BY <2>1, <2>2, <2>4, <2>8 DEF Insert, Added, Delete, Unlink, Link, Goto
    <2>10. job[r].op \in {"block", "unblock"}
      <3>1. CASE pc[r] = "unlink"
        BY <2>6, <3>1 DEF Fits
      <3>2. CASE pc[r] = "delete"
        BY <2>1, <2>2, <2>6, <2>8, <3>2 DEF Insert, Delete, Unlink, Link, Removes, Fits
      <3> QED
        BY <2>9, <3>1, <3>2
    <2> QED
      BY <2>7, <2>9, <2>10
  <1>2. IInv /\ [Next]_vars =>
          [\A u \in Users, i \in Ids :
             contact[u][i] = "blocked" /\ contact'[u][i] # "blocked" => Undone(u, i)]_vars
    BY <1>1
  <1> QED
    BY <1>2, AlwaysIInv, PTL DEF Spec, BlockStays

----------------------------------------------------------------------------
\* What one request at a time does

\* Two requests at once on one matter make it unsure.
Watched == Contended \subseteq unsure

LEMMA StepWatched ==
  ASSUME Watched, [Next]_vars
  PROVE  Watched' /\ unsure \subseteq unsure'
  <1>1. CASE UNCHANGED vars
    BY <1>1 DEF Watched, Contended, WorksOn, vars
  <1>2. CASE Next
    BY <1>2 DEF Next, Watched
  <1> QED
    BY <1>1, <1>2

LEMMA OneAtWork ==
  ASSUME Watched, IInv, NEW r \in Requests, NEW x \in Requests, r # x,
         pc[r] \notin {"idle", "done", "dto"}, pc[x] \notin {"idle", "done", "dto"},
         Matter(job[r]) = Matter(job[x])
  PROVE  Matter(job[r]) \in unsure
  <1>1. job[r] \in RequestJobs
    BY DEF IInv, Course
  <1>2. Matter(job[r]) \in Matters
    BY <1>1 DEF Matters
  <1>3. WorksOn(r, Matter(job[r])) /\ WorksOn(x, Matter(job[r]))
    BY DEF WorksOn
  <1> QED
    BY <1>2, <1>3 DEF Watched, Contended

\* The one request at work on a contact: its place, its operation, the contact
\* and what the answers made of it.
At(here, op, u, i, c, s) ==
  /\ here \in {"exists", "lookup", "insert", "delete", "unlink", "refused"} => c = s
  /\ here \in {"lookup", "insert"} => i \in Users
  /\ here \in {"insert", "link"} => c = "none"
  /\ here = "granted" => c = Granted(op) /\ (op \in {"add", "block"} => i \in Users)
  /\ here = "refused" =>
       CASE op = "add" -> i = u \/ i \notin Users \/ s # "none"
         [] op = "remove" -> s # "friend"
         [] op = "unblock" -> s # "blocked"

On(r, u, i) ==
  /\ pc[r] \notin {"idle", "done"} /\ job[r].op # "direct"
  /\ job[r].user = u /\ job[r].peer = i

Settled ==
  \A u \in Users, i \in Ids :
    <<u, i>> \notin unsure =>
      /\ i \notin Users => contact[u][i] = "none" /\ said[u][i] = "none"
      /\ \A r \in Requests :
           On(r, u, i) => At(pc[r], job[r].op, u, i, contact[u][i], said[u][i])
      /\ (~\E r \in Requests : On(r, u, i)) => contact[u][i] = said[u][i]

LEMMA OnlyOn ==
  ASSUME Watched, IInv, NEW u \in Users, NEW i \in Ids, <<u, i>> \notin unsure,
         NEW r \in Requests, NEW x \in Requests, On(r, u, i), On(x, u, i)
  PROVE  r = x
  <1>1. pc[r] # "dto" /\ pc[x] # "dto"
    BY DEF On, IInv, Course, Fits
  <1>2. Matter(job[r]) = <<u, i>> /\ Matter(job[x]) = <<u, i>>
    BY DEF On, Matter
  <1> QED
    BY <1>1, <1>2, OneAtWork DEF On

\* What a step of the request on a contact makes of it.
LEMMA StepAt ==
  ASSUME IInv, NEW r \in Requests, Contacts(r), NEW u \in Users, NEW i \in Ids, On(r, u, i),
         At(pc[r], job[r].op, u, i, contact[u][i], said[u][i]),
         i \notin Users => contact[u][i] = "none" /\ said[u][i] = "none"
  PROVE  /\ i \notin Users => contact'[u][i] = "none" /\ said'[u][i] = "none"
         /\ \/ /\ pc'[r] # "done" /\ job'[r] = job[r]
               /\ At(pc'[r], job[r].op, u, i, contact'[u][i], said'[u][i])
            \/ pc'[r] = "done" /\ contact'[u][i] = said'[u][i]
  <1>1. /\ contact \in [Users -> [Ids -> {"none", "friend", "blocked"}]]
        /\ said \in [Users -> [Ids -> {"none", "friend", "blocked"}]]
        /\ pc \in [Requests -> Pcs] /\ Fits(job[r].op, pc[r])
        /\ job[r].user = u /\ job[r].peer = i
    BY DEF IInv, TypeOK, Course, On
  <1> DEFINE c == contact[u][i]
             s == said[u][i]
  <1>2. ASSUME NEW status, Become(r, status)
        PROVE  contact'[u][i] = status
    BY <1>1, <1>2 DEF Become
  <1>3. CASE Exists(r)
    BY <1>1, <1>3 DEF Exists, Goto, At, Fits
  <1>4. CASE Lookup(r)
    BY <1>1, <1>4 DEF Lookup, Goto, At, Fits, Contact
  <1>5. CASE Insert(r)
    <2>1. pc[r] = "insert" /\ c = "none" /\ UNCHANGED said /\ job[r].op = "add" /\ i \in Users
      BY <1>1, <1>5 DEF Insert, At, Fits
    <2>2. Become(r, "friend") /\ pc' = [pc EXCEPT ![r] = "granted"] /\ UNCHANGED job
      BY <1>1, <1>5, <2>1 DEF Insert, Added, Contact, Goto
    <2>3. contact'[u][i] = "friend"
      BY <1>2, <2>2
    <2> QED
      BY <1>1, <2>1, <2>2, <2>3 DEF At, Granted
  <1>6. CASE Delete(r)
    <2>1. pc[r] = "delete" /\ c = s /\ UNCHANGED <<said, job>> /\ job[r].op \in {"remove", "unblock"}
      BY <1>1, <1>6 DEF Delete, At, Fits
    <2>2. CASE Become(r, "none") /\ Goto(r, "granted")
      <3>1. contact'[u][i] = "none"
        BY <1>2, <2>2
      <3> QED
        BY <1>1, <2>1, <2>2, <3>1 DEF At, Granted, Goto
    <2>3. CASE ~(Become(r, "none") /\ Goto(r, "granted"))
      <3>1. c \notin Removes(job[r].op) /\ pc' = [pc EXCEPT ![r] = "refused"] /\ UNCHANGED contact
        BY <1>1, <1>6, <2>3 DEF Delete, Contact, Goto
      <3> QED
        BY <1>1, <2>1, <3>1 DEF At, Removes
    <2> QED
      BY <2>2, <2>3
  <1>7. CASE Unlink(r)
    <2>1. Become(r, "none") /\ pc' = [pc EXCEPT ![r] = "link"] /\ UNCHANGED <<said, job>>
      BY <1>7 DEF Unlink, Goto
    <2>2. contact'[u][i] = "none"
      BY <1>2, <2>1
    <2> QED
      BY <1>1, <2>1, <2>2 DEF At
  <1>8. CASE Link(r)
    <2>1. pc[r] = "link" /\ c = "none" /\ UNCHANGED said /\ job[r].op = "block"
      BY <1>1, <1>8 DEF Link, At, Fits
    <2>2. CASE i \in Users
      <3>1. Become(r, "blocked") /\ pc' = [pc EXCEPT ![r] = "granted"] /\ UNCHANGED job
        BY <1>1, <1>8, <2>1, <2>2 DEF Link, Contact, Goto
      <3>2. contact'[u][i] = "blocked"
        BY <1>2, <3>1
      <3> QED
        BY <1>1, <2>1, <2>2, <3>1, <3>2 DEF At, Granted
    <2>3. CASE i \notin Users
      <3>1. pc' = [pc EXCEPT ![r] = "done"] /\ UNCHANGED contact
        BY <1>1, <1>8, <2>3 DEF Link, End, Goto
      <3> QED
        BY <1>1, <2>1, <2>3, <3>1
    <2> QED
      BY <2>2, <2>3
  <1>9. CASE Answer(r)
    <2>1. pc' = [pc EXCEPT ![r] = "done"] /\ UNCHANGED contact
      BY <1>9 DEF Answer, End, Goto
    <2>2. CASE pc[r] = "granted"
      <3>1. said'[u][i] = Granted(job[r].op)
        BY <1>1, <1>9, <2>2 DEF Answer
      <3>2. c = Granted(job[r].op)
        BY <2>2 DEF At
      <3> QED
        BY <1>1, <2>1, <3>1, <3>2
    <2>3. CASE pc[r] # "granted"
      <3>1. pc[r] = "refused" /\ UNCHANGED said /\ c = s
        BY <1>9, <2>3 DEF Answer, At
      <3> QED
        BY <1>1, <2>1, <3>1
    <2> QED
      BY <2>2, <2>3
  <1> QED
    BY <1>3, <1>4, <1>5, <1>6, <1>7, <1>8, <1>9 DEF Contacts

Act(r) == Begin(r) \/ Contacts(r) \/ Direct(r) \/ Fail(r)

LEMMA OthersWait ==
  ASSUME IInv, NEW r \in Requests, Act(r), NEW x \in Requests, x # r
  PROVE  pc'[x] = pc[x] /\ job'[x] = job[x]
  <1>1. pc \in [Requests -> Pcs] /\ job \in [Requests -> RequestJobs \cup {NoJob}]
    BY DEF IInv, TypeOK
  <1>2. \E there : Goto(r, there)
    BY DEF Act, Begin, Contacts, Direct, Fail, Exists, Lookup, Insert, Delete, Unlink, Link, Answer,
       Find, AddParticipants, AddMember, Commit, BuildDto, End
  <1>3. UNCHANGED job \/ \E j : job' = [job EXCEPT ![r] = j]
    BY DEF Act, Begin, Contacts, Direct, Fail, Exists, Lookup, Insert, Delete, Unlink, Link, Answer,
       Find, AddParticipants, AddMember, Commit, BuildDto, End
  <1> QED
    BY <1>1, <1>2, <1>3 DEF Goto

LEMMA OtherEntry ==
  ASSUME NEW V, NEW f \in [Users -> [Ids -> V]], NEW a \in Users, NEW b \in Ids,
         NEW u \in Users, NEW i \in Ids, a # u \/ b # i, NEW v
  PROVE  [f EXCEPT ![a][b] = v][u][i] = f[u][i]
  <1>1. CASE a # u
    BY <1>1
  <1>2. CASE a = u
    BY <1>2
  <1> QED
    BY <1>1, <1>2

\* A step of a request that is not on this contact.
LEMMA ElsewhereAt ==
  ASSUME IInv, NEW r \in Requests, Act(r), NEW u \in Users, NEW i \in Ids, ~On(r, u, i)
  PROVE  /\ contact'[u][i] = contact[u][i] /\ said'[u][i] = said[u][i]
         /\ On(r, u, i)' => Begin(r)
  <1>1. /\ contact \in [Users -> [Ids -> {"none", "friend", "blocked"}]]
        /\ said \in [Users -> [Ids -> {"none", "friend", "blocked"}]]
        /\ pc \in [Requests -> Pcs] /\ job \in [Requests -> RequestJobs \cup {NoJob}]
    BY DEF IInv, TypeOK
  <1>2. CASE Contacts(r)
    <2>1. pc[r] \in {"exists", "lookup", "insert", "delete", "unlink", "link", "granted", "refused"}
      BY <1>2 DEF Contacts, Exists, Lookup, Insert, Delete, Unlink, Link, Answer
    <2>2. /\ job[r].op # "direct" /\ job[r].user \in Users /\ job[r].peer \in Ids
      BY <2>1, ContactTypes DEF IInv, Course, Fits
    <2>3. job[r].user # u \/ job[r].peer # i
      BY <2>1, <2>2 DEF On
    <2>4. \/ UNCHANGED contact
          \/ \E status : contact' = [contact EXCEPT ![job[r].user][job[r].peer] = status]
      BY <1>2 DEF Contacts, Exists, Lookup, Insert, Delete, Unlink, Link, Answer, Become
    <2>5. \/ UNCHANGED said
          \/ \E status : said' = [said EXCEPT ![job[r].user][job[r].peer] = status]
      BY <1>2 DEF Contacts, Exists, Lookup, Insert, Delete, Unlink, Link, Answer
    <2>6. job'[r] = job[r] \/ pc'[r] = "done"
      BY <1>1, <1>2 DEF Contacts, Exists, Lookup, Insert, Delete, Unlink, Link, Answer, End, Goto
    <2>7. ~On(r, u, i)'
      BY <2>2, <2>3, <2>6 DEF On
    <2>8. contact'[u][i] = contact[u][i]
      <3>1. ASSUME NEW status, contact' = [contact EXCEPT ![job[r].user][job[r].peer] = status]
            PROVE  contact'[u][i] = contact[u][i]
        <4> DEFINE a == job[r].user
                   b == job[r].peer
        <4>1. a \in Users /\ b \in Ids /\ (a # u \/ b # i)
          BY <2>2, <2>3
        <4>2. contact' = [contact EXCEPT ![a][b] = status]
          BY <3>1
        <4> HIDE DEF a, b
        <4> QED
          BY <1>1, <4>1, <4>2, OtherEntry
      <3> QED
        BY <2>4, <3>1
    <2>9. said'[u][i] = said[u][i]
      <3>1. ASSUME NEW status, said' = [said EXCEPT ![job[r].user][job[r].peer] = status]
            PROVE  said'[u][i] = said[u][i]
        <4> DEFINE a == job[r].user
                   b == job[r].peer
        <4>1. a \in Users /\ b \in Ids /\ (a # u \/ b # i)
          BY <2>2, <2>3
        <4>2. said' = [said EXCEPT ![a][b] = status]
          BY <3>1
        <4> HIDE DEF a, b
        <4> QED
          BY <1>1, <4>1, <4>2, OtherEntry
      <3> QED
        BY <2>5, <3>1
    <2> QED
      BY <2>7, <2>8, <2>9
  <1>3. CASE Direct(r)
    <2>1. job[r].op = "direct" /\ UNCHANGED <<contact, said>>
      BY <1>3 DEF Direct, Find, AddParticipants, AddMember, Commit, BuildDto, IInv, Course, Fits
    <2>2. job'[r] = job[r] \/ pc'[r] = "done"
      BY <1>1, <1>3 DEF Direct, Find, AddParticipants, AddMember, Commit, BuildDto, End, Goto
    <2> QED
      BY <2>1, <2>2 DEF On
  <1>4. CASE Fail(r)
    BY <1>1, <1>4 DEF Fail, End, Goto, On
  <1>5. CASE Begin(r)
    BY <1>5 DEF Begin
  <1> QED
    BY <1>2, <1>3, <1>4, <1>5 DEF Act

LEMMA StepSettled ==
  ASSUME IInv, IInv', Watched, Settled, [Next]_vars
  PROVE  Settled'
  <1>1. CASE UNCHANGED vars
    BY <1>1 DEF Settled, On, vars
  <1>2. CASE Next
    <2>1. Watched' /\ unsure \subseteq unsure'
      BY StepWatched
    <2>2. PICK r \in Requests : Act(r)
      BY <1>2 DEF Next, Act
    <2> SUFFICES ASSUME NEW u \in Users, NEW i \in Ids, <<u, i>> \notin unsure'
                 PROVE  /\ i \notin Users => contact'[u][i] = "none" /\ said'[u][i] = "none"
                        /\ \A x \in Requests :
                             On(x, u, i)' => At(pc'[x], job'[x].op, u, i, contact'[u][i], said'[u][i])
                        /\ (~\E x \in Requests : On(x, u, i)') => contact'[u][i] = said'[u][i]
      BY DEF Settled
    <2>3. <<u, i>> \notin unsure
      BY <2>1
    <2>4. /\ i \notin Users => contact[u][i] = "none" /\ said[u][i] = "none"
          /\ \A x \in Requests :
               On(x, u, i) => At(pc[x], job[x].op, u, i, contact[u][i], said[u][i])
          /\ (~\E x \in Requests : On(x, u, i)) => contact[u][i] = said[u][i]
      BY <2>3 DEF Settled
    <2>5. \A x \in Requests \ {r} :
            pc'[x] = pc[x] /\ job'[x] = job[x] /\ (On(x, u, i)' <=> On(x, u, i))
      <3> SUFFICES ASSUME NEW x \in Requests \ {r}
                   PROVE  pc'[x] = pc[x] /\ job'[x] = job[x] /\ (On(x, u, i)' <=> On(x, u, i))
        OBVIOUS
      <3>1. pc'[x] = pc[x] /\ job'[x] = job[x]
        BY <2>2, OthersWait
      <3> QED
        BY <3>1 DEF On
    <2>6. CASE On(r, u, i)
      <3>1. ~Begin(r) /\ ~Direct(r)
        <4>1. job[r].op # "direct" /\ pc[r] # "idle"
          BY <2>6 DEF On
        <4>2. pc[r] \notin {"idle", "find", "participants", "members", "commit", "dto"}
          BY <4>1, <2>6 DEF On, IInv, Course, Fits
        <4> QED
          BY <4>2 DEF Begin, Direct, Find, AddParticipants, AddMember, Commit, BuildDto
      <3>2. ~Fail(r)
        <4> SUFFICES ASSUME Fail(r) PROVE FALSE
          OBVIOUS
        <4>1. faults' # faults /\ pc'[r] # pc[r]
          BY DEF Fail, End, Goto, IInv, TypeOK
        <4>2. Matter(job[r]) = <<u, i>> /\ job[r] \in RequestJobs /\ pc[r] # "dto"
          BY <2>6 DEF On, Matter, IInv, Course, Fits
        <4>3. <<u, i>> \in AtHand
          BY <2>6, <4>1, <4>2 DEF AtHand, WorksOn, Matters, On
        <4> QED
          BY <1>2, <4>1, <4>3 DEF Next
      <3>3. Contacts(r)
        BY <2>2, <3>1, <3>2 DEF Act
      <3>4. \A x \in Requests \ {r} : ~On(x, u, i)
        BY <2>3, <2>6, OnlyOn
      <3>5. At(pc[r], job[r].op, u, i, contact[u][i], said[u][i])
        BY <2>4, <2>6
      <3>6. /\ i \notin Users => contact'[u][i] = "none" /\ said'[u][i] = "none"
            /\ \/ /\ pc'[r] # "done" /\ job'[r] = job[r]
                  /\ At(pc'[r], job[r].op, u, i, contact'[u][i], said'[u][i])
               \/ pc'[r] = "done" /\ contact'[u][i] = said'[u][i]
        BY <2>4, <2>6, <3>3, <3>5, StepAt
      <3>7. CASE pc'[r] = "done"
        <4>1. ~On(r, u, i)'
          BY <3>7 DEF On
        <4> QED
          BY <2>5, <3>4, <3>6, <3>7, <4>1
      <3>8. CASE pc'[r] # "done"
        <4>1. pc'[r] # "idle"
          BY <3>3 DEF Contacts, Exists, Lookup, Insert, Delete, Unlink, Link, Answer, Goto, End,
             IInv, TypeOK
        <4>2. On(r, u, i)'
          BY <2>6, <3>6, <3>8, <4>1 DEF On
        <4> QED
          BY <2>5, <3>4, <3>6, <3>8, <4>2
      <3> QED
        BY <3>7, <3>8
    <2>7. CASE ~On(r, u, i)
      <3>1. contact'[u][i] = contact[u][i] /\ said'[u][i] = said[u][i]
            /\ (On(r, u, i)' => Begin(r))
        BY <2>2, <2>7, ElsewhereAt
      <3>2. CASE On(r, u, i)'
        <4>1. \A x \in Requests \ {r} : ~On(x, u, i)'
          <5> SUFFICES ASSUME NEW x \in Requests \ {r}, On(x, u, i)' PROVE FALSE
            OBVIOUS
          <5>1. /\ pc'[r] \notin {"idle", "done", "dto"} /\ pc'[x] \notin {"idle", "done", "dto"}
                /\ job'[r] \in RequestJobs
            BY <3>2 DEF On, IInv, Course, Fits
          <5>2. Matter(job'[r]) = <<u, i>> /\ Matter(job'[x]) = <<u, i>>
            BY <3>2 DEF On, Matter
          <5>3. <<u, i>> \in Matters
            BY <5>1, <5>2 DEF Matters
          <5>4. WorksOn(r, <<u, i>>)' /\ WorksOn(x, <<u, i>>)'
            BY <5>1, <5>2 DEF WorksOn
          <5> QED
            BY <2>1, <5>3, <5>4 DEF Watched, Contended
        <4>2. contact[u][i] = said[u][i]
          BY <2>4, <2>5, <2>7, <4>1
        <4>3. At(pc'[r], job'[r].op, u, i, contact[u][i], said[u][i])
          <5>1. PICK j \in RequestJobs :
                  /\ job' = [job EXCEPT ![r] = j]
                  /\ pc' = [pc EXCEPT ![r] =
                              IF j.op = "add" /\ j.peer = j.user THEN "refused" ELSE Start(j.op)]
            BY <3>1, <3>2 DEF Begin, Goto
          <5>2. job'[r] = j /\ j.user = u /\ j.peer = i /\ j.op # "direct" /\ j.op \in Ops
                /\ pc'[r] = IF j.op = "add" /\ j.peer = j.user THEN "refused" ELSE Start(j.op)
            BY <3>2, <5>1, JobTypes DEF On, IInv, TypeOK
          <5> QED
            BY <4>2, <5>2 DEF At, Start, Ops
        <4> QED
          BY <2>4, <2>5, <3>1, <3>2, <4>1, <4>3
      <3>3. CASE ~On(r, u, i)'
        BY <2>4, <2>5, <2>7, <3>1, <3>3
      <3> QED
        BY <3>2, <3>3
    <2> QED
      BY <2>6, <2>7
  <1> QED
    BY <1>1, <1>2


LEMMA InitSettled == Init => Watched /\ Settled
  <1> SUFFICES ASSUME Init PROVE Watched /\ Settled
    OBVIOUS
  <1>1. \A r \in Requests : pc[r] = "idle"
    BY DEF Init
  <1>2. \A u \in Users, i \in Ids : contact[u][i] = "none" /\ said[u][i] = "none"
    BY DEF Init
  <1>3. Contended = {}
    BY <1>1 DEF Contended, WorksOn
  <1> QED
    BY <1>1, <1>2, <1>3 DEF Watched, Settled, On

THEOREM AlwaysSettled == Spec => [](IInv /\ Watched /\ Settled)
  <1>1. IInv /\ Watched /\ Settled /\ [Next]_vars => (IInv /\ Watched /\ Settled)'
    BY StepIInv, StepWatched, StepSettled
  <1> QED
    BY <1>1, InitIInv, InitSettled, PTL DEF Spec

\* A contact is what its answers say and a refusal has its reason in them, for
\* any users and any number of failures, unless requests on it overlapped or
\* one of them failed.
THEOREM ContactsAlwaysAsAnswered == Spec => []ContactsAreAsAnswered
  <1>1. ASSUME IInv, Watched, Settled PROVE ContactsAreAsAnswered
    <2>1. ASSUME NEW u \in Users, NEW i \in Ids, <<u, i>> \notin unsure,
                 ~\E r \in Requests : WorksOn(r, <<u, i>>)
          PROVE  contact[u][i] = said[u][i]
      <3>1. ~\E r \in Requests : On(r, u, i)
        <4> SUFFICES ASSUME NEW r \in Requests, On(r, u, i) PROVE FALSE
          OBVIOUS
        <4>1. pc[r] # "dto"
          BY <1>1 DEF On, IInv, Course, Fits
        <4>2. WorksOn(r, <<u, i>>)
          BY <4>1 DEF On, WorksOn, Matter
        <4> QED
          BY <2>1, <4>2
      <3> QED
        BY <1>1, <2>1, <3>1 DEF Settled
    <2>2. ASSUME NEW r \in Requests, pc[r] = "refused", Matter(job[r]) \notin unsure
          PROVE  CASE job[r].op = "add" ->
                        \/ job[r].peer = job[r].user \/ job[r].peer \notin Users
                        \/ said[job[r].user][job[r].peer] # "none"
                   [] job[r].op = "remove" -> said[job[r].user][job[r].peer] # "friend"
                   [] job[r].op = "unblock" -> said[job[r].user][job[r].peer] # "blocked"
      <3> DEFINE u == job[r].user
                 i == job[r].peer
      <3>1. u \in Users /\ i \in Ids /\ job[r].op \in {"add", "remove", "unblock"}
        BY <1>1, <2>2, ContactTypes DEF IInv, Course, Fits
      <3>2. On(r, u, i) /\ <<u, i>> \notin unsure
        BY <2>2, <3>1 DEF On, Matter
      <3> HIDE DEF u, i
      <3>3. At("refused", job[r].op, u, i, contact[u][i], said[u][i])
        BY <1>1, <2>2, <3>1, <3>2 DEF Settled
      <3> USE DEF u, i
      <3> QED
        BY <3>1, <3>3 DEF At
    <2> QED
      BY <2>1, <2>2 DEF ContactsAreAsAnswered
  <1> QED
    BY <1>1, AlwaysSettled, PTL

----------------------------------------------------------------------------
\* One direct chat

Shown(k, S) == Live(k) /\ chat[k].participants = S

\* Two users whose requests never overlapped have one chat, and none while a
\* request is making theirs.
Single ==
  \A a, b \in Users :
    a # b /\ <<"direct", {a, b}>> \notin unsure =>
      /\ \A k, n \in Chats : Shown(k, {a, b}) /\ Shown(n, {a, b}) => k = n
      /\ \A r \in Requests, k \in Chats :
           pc[r] \in Making /\ {job[r].user, job[r].peer} = {a, b} => ~Shown(k, {a, b})

\* Which chats a step shows, and who begins to make one.
LEMMA StepShown ==
  ASSUME IInv, NEW r \in Requests, Act(r)
  PROVE  /\ \A S : \A k \in Chats :
              Shown(k, S)' =>
                \/ Shown(k, S)
                \/ /\ pc[r] = "commit" /\ k = chatOf[r] /\ S = {job[r].user, job[r].peer}
                   /\ pc'[r] \notin Making
         /\ pc'[r] \in Making /\ pc[r] \notin Making =>
              /\ job[r].op = "direct" /\ job'[r] = job[r] /\ pc[r] = "find"
              /\ \A k \in Chats : ~(Live(k) /\ Has(k, job[r].user, job[r].peer))
         /\ pc'[r] \in Making => job'[r] = job[r] /\ pc[r] \notin {"idle", "done", "dto"}
  <1>1. /\ chat \in [Chats -> Row] /\ pc \in [Requests -> Pcs]
        /\ job \in [Requests -> RequestJobs \cup {NoJob}]
    BY DEF IInv, TypeOK, Row
  <1>2. CASE Begin(r)
    <2>1. PICK there \in Pcs \ Making : pc' = [pc EXCEPT ![r] = there]
      <3>1. PICK j \in RequestJobs :
              pc' = [pc EXCEPT ![r] =
                       IF j.op = "add" /\ j.peer = j.user THEN "refused" ELSE Start(j.op)]
        BY <1>2 DEF Begin, Goto
      <3> DEFINE there == IF j.op = "add" /\ j.peer = j.user THEN "refused" ELSE Start(j.op)
      <3>2. there \in Pcs \ Making
        BY JobTypes DEF Start, Ops, Pcs, Making
      <3>3. pc' = [pc EXCEPT ![r] = there]
        BY <3>1
      <3> HIDE DEF there
      <3> QED
        BY <3>2, <3>3
    <2> QED
      BY <1>1, <1>2, <2>1 DEF Begin, Shown, Live
  <1>3. CASE Contacts(r) \/ BuildDto(r)
    <2>1. UNCHANGED chat
      BY <1>3 DEF Contacts, Exists, Lookup, Insert, Delete, Unlink, Link, Answer, BuildDto
    <2>2. pc'[r] \notin Making
      BY <1>1, <1>3 DEF Contacts, Exists, Lookup, Insert, Delete, Unlink, Link, Answer, BuildDto,
         Goto, End, Making
    <2> QED
      BY <2>1, <2>2 DEF Shown, Live
  <1>4. CASE Find(r)
    <2>1. pc[r] = "find" /\ job[r].op = "direct" /\ UNCHANGED job
      BY <1>4 DEF Find, IInv, Course, Fits
    <2>2. CASE Goto(r, "dto") /\ UNCHANGED chat
      BY <1>1, <2>2 DEF Goto, Making, Shown, Live
    <2>3. CASE ~(Goto(r, "dto") /\ UNCHANGED chat)
      <3>1. /\ \A k \in Chats : ~(Live(k) /\ Has(k, job[r].user, job[r].peer))
            /\ \E k \in Chats : chat' = [chat EXCEPT ![k].is = "pending"]
        BY <1>4, <2>3 DEF Find
      <3>2. \A S : \A k \in Chats : Shown(k, S)' => Shown(k, S)
        BY <1>1, <3>1 DEF Shown, Live, Row
      <3> QED
        BY <2>1, <3>1, <3>2
    <2> QED
      BY <2>2, <2>3
  <1>5. CASE pc[r] \in Making /\ chat' = RolledBack(r) /\ End(r)
    <2>1. \A S : \A k \in Chats : Shown(k, S)' => Shown(k, S)
      BY <1>1, <1>5, Owns DEF Shown, Live, RolledBack, NoChat
    <2>2. pc'[r] \notin Making
      BY <1>1, <1>5 DEF End, Goto, Making
    <2> QED
      BY <2>1, <2>2
  <1>6. CASE AddParticipants(r) /\ ~(chat' = RolledBack(r) /\ End(r))
    <2>1. /\ pc[r] \in Making /\ UNCHANGED job /\ pc[r] \notin {"idle", "done", "dto"}
          /\ chat' = [chat EXCEPT ![chatOf[r]].participants = {job[r].user, job[r].peer}]
      BY <1>6 DEF AddParticipants, Making
    <2>2. chatOf[r] \in Chats /\ chat[chatOf[r]].is = "pending"
      BY <2>1, Owns
    <2>3. \A S : \A k \in Chats : Shown(k, S)' => Shown(k, S)
      BY <1>1, <2>1, <2>2 DEF Shown, Live, Row
    <2> QED
      BY <2>1, <2>3
  <1>7. CASE AddMember(r)
    <2>1. /\ pc[r] \in Making /\ UNCHANGED job /\ pc[r] \notin {"idle", "done", "dto"}
          /\ \E m : chat' = [chat EXCEPT ![chatOf[r]].members = m]
      BY <1>7 DEF AddMember, Making
    <2>2. chatOf[r] \in Chats
      BY <2>1, Owns
    <2>3. \A S : \A k \in Chats : Shown(k, S)' => Shown(k, S)
      BY <1>1, <2>1, <2>2 DEF Shown, Live, Row
    <2> QED
      BY <2>1, <2>3
  <1>8. CASE Commit(r)
    <2>1. /\ pc[r] = "commit" /\ pc[r] \in Making /\ UNCHANGED job
          /\ chat' = [chat EXCEPT ![chatOf[r]].is = "live"] /\ pc'[r] \notin Making
      BY <1>1, <1>8 DEF Commit, Goto, Making
    <2>2. chatOf[r] \in Chats /\ chat[chatOf[r]].participants = {job[r].user, job[r].peer}
      BY <2>1, Owns DEF RowsAt
    <2>3. \A S : \A k \in Chats :
            Shown(k, S)' => Shown(k, S) \/ (k = chatOf[r] /\ S = {job[r].user, job[r].peer})
      <3>1. /\ \A k \in Chats \ {chatOf[r]} : chat'[k] = chat[k]
            /\ chat'[chatOf[r]].participants = {job[r].user, job[r].peer}
        BY <1>1, <2>1, <2>2 DEF Row
      <3> QED
        BY <3>1 DEF Shown, Live
    <2> QED
      BY <2>1, <2>3
  <1>9. CASE Fail(r) /\ pc[r] \notin Making
    BY <1>1, <1>9 DEF Fail, End, Goto, Making, Shown, Live
  <1>10. CASE Fail(r) /\ pc[r] \in Making
    BY <1>5, <1>10 DEF Fail, Making
  <1>11. CASE AddParticipants(r) /\ chat' = RolledBack(r) /\ End(r)
    BY <1>5, <1>11 DEF AddParticipants, Making
  <1> QED
    BY <1>2, <1>3, <1>4, <1>6, <1>7, <1>8, <1>9, <1>10, <1>11 DEF Act, Direct

LEMMA StepSingle ==
  ASSUME IInv, Watched, Single, [Next]_vars
  PROVE  Single'
  <1>1. CASE UNCHANGED vars
    BY <1>1 DEF Single, Shown, Live, vars
  <1>2. CASE Next
    <2>1. Watched' /\ unsure \subseteq unsure'
      BY StepWatched
    <2>2. PICK r \in Requests : Act(r)
      BY <1>2 DEF Next, Act
    <2> SUFFICES ASSUME NEW a \in Users, NEW b \in Users, a # b,
                        <<"direct", {a, b}>> \notin unsure'
                 PROVE  /\ \A k, n \in Chats :
                             Shown(k, {a, b})' /\ Shown(n, {a, b})' => k = n
                        /\ \A x \in Requests, k \in Chats :
                             pc'[x] \in Making /\ {job'[x].user, job'[x].peer} = {a, b}
                               => ~Shown(k, {a, b})'
      BY DEF Single
    <2> DEFINE S == {a, b}
    <2>3. /\ \A k, n \in Chats : Shown(k, S) /\ Shown(n, S) => k = n
          /\ \A x \in Requests, k \in Chats :
               pc[x] \in Making /\ {job[x].user, job[x].peer} = S => ~Shown(k, S)
      BY <2>1 DEF Single
    <2>4. \A x \in Requests \ {r} : pc'[x] = pc[x] /\ job'[x] = job[x]
      BY <2>2, OthersWait
    <2>5. \A x, y \in Requests :
            x # y /\ pc[x] \in Making /\ {job[x].user, job[x].peer} = S =>
              ~(pc[y] \in Making /\ {job[y].user, job[y].peer} = S)
      <3> SUFFICES ASSUME NEW x \in Requests, NEW y \in Requests, x # y,
                          pc[x] \in Making, {job[x].user, job[x].peer} = S,
                          pc[y] \in Making, {job[y].user, job[y].peer} = S
                   PROVE  FALSE
        OBVIOUS
      <3>1. Matter(job[x]) = <<"direct", S>> /\ Matter(job[y]) = <<"direct", S>>
        BY Owns DEF Matter
      <3>2. <<"direct", S>> \in unsure
        BY <3>1, OneAtWork DEF Making
      <3> QED
        BY <2>1, <3>2
    <2>6. \A k \in Chats :
            Shown(k, S)' =>
              Shown(k, S) \/ (pc[r] = "commit" /\ k = chatOf[r] /\ S = {job[r].user, job[r].peer}
                               /\ pc'[r] \notin Making)
      BY <2>2, StepShown
    <2>7. /\ pc'[r] \in Making /\ pc[r] \notin Making =>
               \A k \in Chats : ~(Live(k) /\ Has(k, job[r].user, job[r].peer))
          /\ pc'[r] \in Making => job'[r] = job[r]
      BY <2>2, StepShown
    <2>8. "commit" \in Making
      BY DEF Making
    <2> HIDE DEF S
    <2>9. ASSUME NEW k \in Chats, NEW n \in Chats, Shown(k, S)', Shown(n, S)'
          PROVE  k = n
      BY <2>3, <2>6, <2>8, <2>9
    <2>10. ASSUME NEW x \in Requests, NEW k \in Chats, pc'[x] \in Making,
                  {job'[x].user, job'[x].peer} = S, Shown(k, S)'
           PROVE  FALSE
      <3>1. CASE x # r
        BY <2>3, <2>4, <2>5, <2>6, <2>8, <2>10, <3>1
      <3>2. CASE x = r /\ pc[r] \in Making
        BY <2>3, <2>6, <2>7, <2>10, <3>2
      <3>3. CASE x = r /\ pc[r] \notin Making
        <4>1. Shown(k, S) /\ {job[r].user, job[r].peer} = S
          BY <2>6, <2>7, <2>8, <2>10, <3>3
        <4>2. Live(k) /\ Has(k, job[r].user, job[r].peer)
          BY <4>1 DEF Shown, Has
        <4> QED
          BY <2>7, <2>10, <3>3, <4>2
      <3> QED
        BY <3>1, <3>2, <3>3
    <2> USE DEF S
    <2> QED
      BY <2>9, <2>10
  <1> QED
    BY <1>1, <1>2

\* Two users have at most one direct chat that can be seen, unless two requests
\* for the two of them overlapped.
THEOREM DirectChatIsOne == Spec => []OneDirectChat
  <1>1. Init => Single
    BY DEF Init, Single, Shown, Live, NoChat
  <1>2. IInv /\ Watched /\ Single /\ [Next]_vars => (IInv /\ Watched /\ Single)'
    BY StepIInv, StepWatched, StepSingle
  <1>3. ASSUME Single PROVE OneDirectChat
    <2> SUFFICES ASSUME NEW a \in Users, NEW b \in Users, a # b,
                        <<"direct", {a, b}>> \notin unsure
                 PROVE  Cardinality({k \in Chats : Live(k) /\ chat[k].participants = {a, b}}) <= 1
      BY DEF OneDirectChat
    <2> DEFINE C == {k \in Chats : Live(k) /\ chat[k].participants = {a, b}}
    <2>1. \A k, n \in C : k = n
      BY <1>3 DEF Single, Shown
    <2> HIDE DEF C
    <2>2. Cardinality(C) <= 1
      <3>1. CASE C = {}
        BY <3>1, FS_EmptySet
      <3>2. CASE C # {}
        <4>1. PICK k : C = {k}
          BY <2>1, <3>2
        <4> QED
          BY <4>1, FS_Singleton
      <3> QED
        BY <3>1, <3>2
    <2> USE DEF C
    <2> QED
      BY <2>2
  <1> QED
    BY <1>1, <1>2, <1>3, InitIInv, InitSettled, PTL DEF Spec
=============================================================================
