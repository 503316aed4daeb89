--------------------------- MODULE MessagesProofs ---------------------------
(***************************************************************************)
(* Proofs about Messages, for any users, chats, requests and messages and  *)
(* any number of failures: its type invariant, that nothing dangles, that  *)
(* the barred stay out, that what is deleted stays untold, that an         *)
(* answered message is one its people were told of and that pages are      *)
(* complete.                                                               *)
(*                                                                         *)
(* None is inductive alone. Course says which operation is at each place;  *)
(* Checked, that what a request has looked at is still of the chat it saw  *)
(* it in, if it is there at all; Passed, which reasons not to write are    *)
(* gone after which check. PInv, for the pages, says where in time the     *)
(* rows of a page, those seen before it and those still to come lie.       *)
(***************************************************************************)
EXTENDS Messages, TLAPS

\* The operation of a request at a place.
Fits(op, here) ==
  \/ here \in {"member", "mute"} /\ op \in {"send", "forward"}
  \/ here \in {"reply", "store", "people", "mention"} /\ op = "send"
  \/ here \in {"source", "read", "copy"} /\ op = "forward"
  \/ here \in {"delete", "clear", "unpin", "chats"} /\ op = here
  \/ here \in {"pin", "setPin"} /\ op = "pin"
  \/ here = "mine" /\ op \in {"list", "clear_mentions"}
  \/ here = "forget" /\ op = "clear_mentions"
  \/ here \in {"rows", "replies", "page"} /\ op = "list"
  \/ here \in {"pinned", "first"} /\ op = "chats"

Working == Waiting \cup {"page"}

Course ==
  \A r \in Requests :
    /\ pc[r] \in Working => job[r] \in RequestJobs /\ Fits(job[r].op, pc[r])
    /\ pc[r] = "mention" => ctx[r].todo \subseteq Users
    /\ pc[r] = "idle" => job[r] = NoJob /\ ctx[r] = NoCtx /\ hist[r] = NoHist

\* What a pin or a reply has looked at is of its chat, as long as it is there.
Checked ==
  \A r \in Requests :
    pc[r] \in {"setPin", "store"} =>
      \A m \in job[r].about :
        msg[m].is # "none" /\ (Stored(m) => msg[m].chat = job[r].chat)

\* Which bars are lifted after which check.
Passed ==
  \A r \in Requests :
    /\ hist[r].bars \subseteq Bars(job[r])
    /\ pc[r] \in {"mute", "reply", "store", "source", "read", "copy"} =>
         hist[r].bars \cap {"left", "channel"} = {}
    /\ pc[r] \in {"reply", "store", "source", "read", "copy"} => "muted" \notin hist[r].bars
    /\ pc[r] \in {"read", "copy"} => "source" \notin hist[r].bars

\* What was deleted stays so, or goes.
StayDeleted == \A r \in Requests : \A m \in hist[r].dead : msg[m].is \in {"deleted", "gone"}

IInv ==
  /\ TypeOK /\ Course /\ Checked /\ NothingDangles
  /\ Passed /\ BarredStayOut
  /\ StayDeleted /\ DeletedStaysUntold

LEMMA JobTypes ==
  /\ \A j \in RequestJobs :
       /\ j.op \in Ops /\ j.user \in Users /\ j.chat \in Chats /\ j.from \in Chats
       /\ j.about \subseteq Messages /\ j.names \subseteq Names
  /\ None \notin Users \cup Messages
  BY MessagesAssumption DEF Jobs

LEMMA NoTypes == NoCtx \in Ctxs /\ NoHist \in Hists /\ NoMessage \in Rows
  BY DEF NoCtx, NoHist, NoMessage, Ctxs, Hists, Rows

LEMMA InitIInv == Init => IInv
  <1> SUFFICES ASSUME Init PROVE IInv
    OBVIOUS
  <1>1. /\ DOMAIN Said0 \subseteq Messages
        /\ Len(Said0) \in Nat /\ \A m \in DOMAIN Said0 : m \in Nat
        /\ \A m \in DOMAIN Said0 :
             /\ Said0[m].chat \in Chats /\ Said0[m].sender \in Users
             /\ Said0[m].reply \in Messages \cup {None}
             /\ Said0[m].reply # None =>
                  Said0[m].reply \in DOMAIN Said0 /\ Said0[Said0[m].reply].chat = Said0[m].chat
    <2>1. Said0 \in Seq([chat : Chats, sender : Users, reply : Messages \cup {None}])
      BY MessagesAssumption
    <2>2. DOMAIN Said0 = 1..Len(Said0) /\ Len(Said0) \in Nat /\ Len(Said0) <= MaxMessages
      BY <2>1, MessagesAssumption
    <2>3. \A m \in DOMAIN Said0 : Said0[m] \in [chat : Chats, sender : Users, reply : Messages \cup {None}]
      <3> DEFINE S == [chat : Chats, sender : Users, reply : Messages \cup {None}]
      <3>1. Said0 \in Seq(S)
        BY <2>1
      <3> HIDE DEF S
      <3>2. \A m \in DOMAIN Said0 : Said0[m] \in S
        BY <3>1
      <3> QED
        BY <3>2 DEF S
    <2>4. \A m \in DOMAIN Said0 : Said0[m].reply # None =>
            Said0[m].reply \in 1..(m - 1) /\ Said0[Said0[m].reply].chat = Said0[m].chat
      BY MessagesAssumption
    <2>5. DOMAIN Said0 \subseteq Messages /\ \A m \in DOMAIN Said0 : m \in Nat /\ 1..(m - 1) \subseteq DOMAIN Said0
      BY <2>2, MessagesAssumption DEF Messages
    <2> QED
      BY <2>2, <2>3, <2>4, <2>5
  <1>2. \A m \in Messages : msg[m] = IF m \notin DOMAIN Said0 THEN NoMessage
                ELSE [is |-> "live", chat |-> Said0[m].chat, sender |-> Said0[m].sender,
                      at |-> m, words |-> TRUE, reply |-> Said0[m].reply]
    BY DEF Init
  <1>3. \A m \in Messages : msg[m] \in Rows /\ (Stored(m) <=> m \in DOMAIN Said0)
    <2> TAKE m \in Messages
    <2>1. CASE m \in DOMAIN Said0
      <3>1. msg[m] = [is |-> "live", chat |-> Said0[m].chat, sender |-> Said0[m].sender,
                      at |-> m, words |-> TRUE, reply |-> Said0[m].reply]
        BY <1>2, <2>1
      <3>2. msg[m] \in Rows
        BY <1>1, <2>1, <3>1 DEF Rows
      <3> QED
        BY <2>1, <3>1, <3>2 DEF Stored
    <2>2. CASE m \notin DOMAIN Said0
      <3>1. msg[m] = NoMessage
        BY <1>2, <2>2
      <3> QED
        BY <2>2, <3>1, NoTypes DEF Stored, NoMessage
    <2> QED
      BY <2>1, <2>2
  <1>4. TypeOK
    BY <1>1, <1>2, <1>3, NoTypes, MessagesAssumption DEF Init, TypeOK
  <1>5. Course /\ Checked
    BY DEF Init, Course, Checked, Working, Waiting
  <1>6. NothingDangles
    BY <1>1, <1>2, <1>3 DEF Init, NothingDangles, In
  <1>7. Passed /\ BarredStayOut /\ StayDeleted /\ DeletedStaysUntold
    BY DEF Init, Passed, BarredStayOut, StayDeleted, DeletedStaysUntold, NoHist, NoCtx
  <1> QED
    BY <1>4, <1>5, <1>6, <1>7 DEF IInv

LEMMA RefuseIInv ==
  ASSUME IInv, NEW r \in Requests, Refuse(r), UNCHANGED people, faults' \in Nat
  PROVE  IInv'
  <1>1. /\ pc' = [pc EXCEPT ![r] = "done"] /\ job' = [job EXCEPT ![r] = NoJob]
        /\ ctx' = [ctx EXCEPT ![r] = NoCtx] /\ hist' = [hist EXCEPT ![r] = NoHist]
        /\ UNCHANGED <<msg, mention, pinned, clock, members, muted>>
    BY DEF Refuse, Goto, db, people
  <1>2. TypeOK'
    BY <1>1, NoTypes DEF IInv, TypeOK, Stored
  <1>3. Course' /\ Checked'
    BY <1>1 DEF IInv, TypeOK, Course, Checked, Working, Waiting, Stored
  <1>4. NothingDangles'
    BY <1>1 DEF IInv, NothingDangles, In, Stored
  <1>5. Passed' /\ BarredStayOut'
    BY <1>1 DEF IInv, TypeOK, Passed, BarredStayOut, Bars, NoHist
  <1>6. StayDeleted' /\ DeletedStaysUntold'
    BY <1>1 DEF IInv, TypeOK, StayDeleted, DeletedStaysUntold, NoHist, NoCtx
  <1> QED
    BY <1>2, <1>3, <1>4, <1>5, <1>6 DEF IInv

\* What a request may remember next: nothing of what was deleted before it began.
Told(r, c) == c \in Ctxs /\ \A p \in c.got : p[1] \in hist[r].dead => ~p[2]

\* Where a request may go next.
MayGoTo(r, there) ==
  /\ there \in Working \cup {"answered"}
  /\ there \in Working => job[r] \in RequestJobs /\ Fits(job[r].op, there)
  /\ there \in {"setPin", "store"} =>
       \A m \in job[r].about :
         msg[m].is # "none" /\ (Stored(m) => msg[m].chat = job[r].chat)
  /\ there \in {"mute", "reply", "store", "source", "read", "copy"} =>
       hist[r].bars \cap {"left", "channel"} = {}
  /\ there \in {"reply", "store", "source", "read", "copy"} => "muted" \notin hist[r].bars
  /\ there \in {"read", "copy"} => "source" \notin hist[r].bars
  /\ there = "mention" => ctx'[r].todo \subseteq Users

\* A statement that writes nothing, of which the history may keep something.
LEMMA RememberIInv ==
  ASSUME IInv, NEW r \in Requests, NEW there, NEW c \in Ctxs,
         UNCHANGED <<db, people, job, faults>>,
         pc' = [pc EXCEPT ![r] = there], ctx' = [ctx EXCEPT ![r] = c], MayGoTo(r, there),
         hist' \in [Requests -> Hists],
         \A x \in Requests \ {r} : hist'[x] = hist[x],
         hist'[r].bars = hist[r].bars, hist'[r].made = hist[r].made,
         hist'[r].dead \subseteq hist[r].dead \cup Deleted,
         \A p \in c.got : p[1] \in hist'[r].dead => ~p[2]
  PROVE  IInv'
  <1>1. UNCHANGED <<msg, mention, pinned, clock, members, muted, job, faults>>
    BY DEF db, people
  <1>2. TypeOK'
    BY <1>1 DEF IInv, TypeOK, Stored, MayGoTo, Working
  <1>3. Course' /\ Checked'
    BY <1>1 DEF IInv, TypeOK, Course, Checked, MayGoTo, Stored, Working, Waiting
  <1>4. NothingDangles'
    BY <1>1 DEF IInv, NothingDangles, In, Stored
  <1>5. Passed' /\ BarredStayOut'
    BY <1>1 DEF IInv, TypeOK, Passed, BarredStayOut, Bars, MayGoTo
  <1>6. StayDeleted' /\ DeletedStaysUntold'
    BY <1>1 DEF IInv, TypeOK, StayDeleted, DeletedStaysUntold, Deleted
  <1> QED
    BY <1>2, <1>3, <1>4, <1>5, <1>6 DEF IInv

LEMMA ReadIInv ==
  ASSUME IInv, NEW r \in Requests, NEW there, NEW c,
         UNCHANGED <<db, people, job, hist, faults>>,
         pc' = [pc EXCEPT ![r] = there], ctx' = [ctx EXCEPT ![r] = c],
         MayGoTo(r, there), Told(r, c)
  PROVE  IInv'
  BY RememberIInv DEF Told, IInv, TypeOK

LEMMA FloorTold ==
  ASSUME IInv, NEW r \in Requests
  PROVE  Told(r, [ctx[r] EXCEPT !.floor = clock])
  BY DEF IInv, TypeOK, DeletedStaysUntold, Told, Ctxs

LEMMA TestIInv ==
  ASSUME IInv, NEW r \in Requests, NEW here, NEW passes \in BOOLEAN, NEW there,
         Test(r, here, passes, there), passes => MayGoTo(r, there)
  PROVE  IInv'
  <1>1. CASE passes /\ ~Refuse(r)
    <2>1. /\ pc' = [pc EXCEPT ![r] = there]
          /\ ctx' = [ctx EXCEPT ![r] = [ctx[r] EXCEPT !.floor = clock]]
          /\ UNCHANGED <<db, people, job, hist, faults>>
      BY <1>1 DEF Test, Goto, Keep
    <2> QED
      BY <1>1, <2>1, FloorTold, ReadIInv
  <1>2. CASE Refuse(r)
    BY <1>2, RefuseIInv DEF Test, IInv, TypeOK
  <1> QED
    BY <1>1, <1>2 DEF Test

LEMMA ChecksIInv ==
  ASSUME IInv, NEW r \in Requests,
         CheckMember(r) \/ CheckMute(r) \/ CheckReply(r) \/ CheckSource(r) \/ CheckPin(r)
           \/ CheckMine(r)
  PROVE  IInv'
  <1>1. pc[r] \in Working => job[r] \in RequestJobs /\ Fits(job[r].op, pc[r]) /\ job[r].about \subseteq Messages
    BY JobTypes DEF IInv, Course
  <1>2. hist[r].bars \subseteq Bars(job[r])
    BY DEF IInv, Passed
  <1> USE DEF Working, Waiting
  <1>3. CASE CheckMember(r)
    <2> DEFINE passes == /\ job[r].user \in members[job[r].chat]
                         /\ job[r].chat \in Channels => Owner[job[r].chat] = job[r].user
    <2>1. Test(r, "member", passes, "mute") /\ passes \in BOOLEAN /\ pc[r] = "member"
      BY <1>3 DEF CheckMember, Test, At
    <2>2. passes => MayGoTo(r, "mute")
      BY <1>1, <1>2, <2>1 DEF Bars, MayGoTo, Fits
    <2> HIDE DEF passes
    <2> QED
      BY <2>1, <2>2, TestIInv
  <1>4. CASE CheckMute(r)
    <2> DEFINE passes == MayWrite(job[r])
               there == CASE job[r].op = "forward" -> "source"
                          [] job[r].op = "send" /\ job[r].about # {} -> "reply"
                          [] OTHER -> "store"
    <2>1. Test(r, "mute", passes, there) /\ passes \in BOOLEAN /\ pc[r] = "mute"
      BY <1>4 DEF CheckMute, Test, At, MayWrite
    <2>2. passes => hist[r].bars \cap {"left", "channel", "muted"} = {}
      BY <1>2, <2>1 DEF Bars, MayWrite, IInv, Passed
    <2>3. job[r].op \in {"send", "forward"}
      BY <1>1, <2>1 DEF Fits
    <2>4. passes => MayGoTo(r, there)
      BY <1>1, <2>1, <2>2, <2>3 DEF MayGoTo, Fits
    <2> HIDE DEF passes, there
    <2> QED
      BY <2>1, <2>4, TestIInv
  <1>5. CASE CheckReply(r)
    <2> DEFINE passes == job[r].about \subseteq In(job[r].chat)
    <2>1. Test(r, "reply", passes, "store") /\ passes \in BOOLEAN /\ pc[r] = "reply"
      BY <1>5 DEF CheckReply, Test, At
    <2>2. passes => MayGoTo(r, "store")
      BY <1>1, <2>1 DEF MayGoTo, Fits, In, Stored, IInv, Passed
    <2> HIDE DEF passes
    <2> QED
      BY <2>1, <2>2, TestIInv
  <1>6. CASE CheckSource(r)
    <2> DEFINE passes == job[r].user \in members[job[r].from]
    <2>1. Test(r, "source", passes, "read") /\ passes \in BOOLEAN /\ pc[r] = "source"
      BY <1>6 DEF CheckSource, Test, At
    <2>2. passes => MayGoTo(r, "read")
      BY <1>1, <1>2, <2>1 DEF MayGoTo, Fits, Bars, IInv, Passed
    <2> HIDE DEF passes
    <2> QED
      BY <2>1, <2>2, TestIInv
  <1>7. CASE CheckPin(r)
    <2> DEFINE passes == Authorised(job[r]) /\ job[r].about \subseteq In(job[r].chat)
    <2>1. Test(r, "pin", passes, "setPin") /\ passes \in BOOLEAN /\ pc[r] = "pin"
      BY <1>7 DEF CheckPin, Test, At
    <2>2. passes => MayGoTo(r, "setPin")
      BY <1>1, <2>1 DEF MayGoTo, Fits, In, Stored
    <2> HIDE DEF passes
    <2> QED
      BY <2>1, <2>2, TestIInv
  <1>8. CASE CheckMine(r)
    <2> DEFINE passes == job[r].user \in members[job[r].chat]
               there == IF job[r].op = "list" THEN "rows" ELSE "forget"
    <2>1. Test(r, "mine", passes, there) /\ passes \in BOOLEAN /\ pc[r] = "mine"
      BY <1>8 DEF CheckMine, Test, At
    <2>2. MayGoTo(r, there)
      BY <1>1, <2>1 DEF MayGoTo, Fits
    <2> HIDE DEF passes, there
    <2> QED
      BY <2>1, <2>2, TestIInv
  <1> QED
    BY <1>3, <1>4, <1>5, <1>6, <1>7, <1>8

LEMMA BeginIInv ==
  ASSUME IInv, NEW r \in Requests, Begin(r)
  PROVE  IInv'
  <1>1. PICK j \in RequestJobs :
          /\ job' = [job EXCEPT ![r] = j]
          /\ hist' = [hist EXCEPT ![r].bars = Bars(j), ![r].dead = Deleted]
          /\ pc' = [pc EXCEPT ![r] = Start(j.op)]
    BY DEF Begin, Goto
  <1>2. /\ pc[r] = "idle" /\ hist[r] = NoHist /\ ctx[r] = NoCtx
        /\ UNCHANGED <<msg, mention, pinned, clock, members, muted, ctx, faults>>
    BY DEF Begin, At, db, people, IInv, Course
  <1>3. Start(j.op) \in Waiting /\ Fits(j.op, Start(j.op))
        /\ Start(j.op) \notin {"setPin", "store", "mute", "reply", "source", "read", "copy", "idle",
                               "mention"}
    BY JobTypes DEF Start, Fits, Waiting, Ops
  <1>4. /\ hist'[r] = [NoHist EXCEPT !.bars = Bars(j), !.dead = Deleted]
        /\ \A x \in Requests \ {r} : hist'[x] = hist[x]
        /\ hist' \in [Requests -> Hists]
    <2>1. NoHist \in Hists /\ Bars(j) \subseteq {"left", "muted", "channel", "source"}
          /\ Deleted \subseteq Messages
      BY NoTypes DEF Bars, Deleted
    <2> QED
      BY <1>1, <1>2, <2>1 DEF IInv, TypeOK, Hists, NoHist
  <1>5. TypeOK'
    BY <1>1, <1>2, <1>3, <1>4 DEF IInv, TypeOK, Stored
  <1>6. Course' /\ Checked'
    BY <1>1, <1>2, <1>3, <1>4 DEF IInv, TypeOK, Course, Checked, Stored, Working
  <1>7. NothingDangles'
    BY <1>2 DEF IInv, NothingDangles, In, Stored
  <1>8. Passed' /\ BarredStayOut'
    <2>1. hist'[r].bars = Bars(j) /\ hist'[r].made = {}
      BY <1>4 DEF NoHist
    <2>2. \A x \in Requests \ {r} : job'[x] = job[x] /\ pc'[x] = pc[x]
      BY <1>1 DEF IInv, TypeOK
    <2>3. job'[r] = j /\ pc'[r] = Start(j.op)
      BY <1>1 DEF IInv, TypeOK
    <2>4. Bars(job[r])' = Bars(j) /\ \A x \in Requests \ {r} : Bars(job[x])' = Bars(job[x])
      BY <1>2, <2>2, <2>3 DEF Bars
    <2>5. BarredStayOut'
      BY <1>4, <2>1 DEF IInv, BarredStayOut
    <2>6. Passed'
      <3> SUFFICES ASSUME NEW x \in Requests
                   PROVE  /\ hist'[x].bars \subseteq Bars(job[x])'
                          /\ pc'[x] \in {"mute", "reply", "store", "source", "read", "copy"} =>
                               hist'[x].bars \cap {"left", "channel"} = {}
                          /\ pc'[x] \in {"reply", "store", "source", "read", "copy"} =>
                               "muted" \notin hist'[x].bars
                          /\ pc'[x] \in {"read", "copy"} => "source" \notin hist'[x].bars
        BY DEF Passed
      <3>1. CASE x = r
        BY <1>3, <2>1, <2>3, <2>4, <3>1
      <3>2. CASE x # r
        BY <1>4, <2>2, <2>4, <3>2 DEF IInv, Passed
      <3> QED
        BY <3>1, <3>2
    <2> QED
      BY <2>5, <2>6
  <1>9. StayDeleted' /\ DeletedStaysUntold'
    <2>1. hist'[r].dead = Deleted /\ ctx[r].got = {}
      BY <1>2, <1>4 DEF NoHist, NoCtx
    <2> QED
      BY <1>2, <1>4, <2>1 DEF IInv, StayDeleted, DeletedStaysUntold, Deleted
  <1> QED
    BY <1>5, <1>6, <1>7, <1>8, <1>9 DEF IInv

\* What is read of a message that was deleted before the request began is blank.
LEMMA WordsTold ==
  ASSUME IInv, NEW r \in Requests, NEW m \in Messages
  PROVE  Words(m) \in BOOLEAN /\ (m \in hist[r].dead => ~Words(m))
  BY DEF IInv, TypeOK, Rows, StayDeleted, Words

\* The reads of list_messages, list_chats and forward_messages.
LEMMA ReadsIInv ==
  ASSUME IInv, NEW r \in Requests,
         (ReadSources(r) /\ ~Refuse(r)) \/ LoadReplies(r) \/ ListChats(r) \/ LoadPinned(r) \/ LoadFirst(r)
  PROVE  IInv'
  <1>1. pc[r] \in Working => /\ job[r] \in RequestJobs /\ Fits(job[r].op, pc[r])
                             /\ job[r].user \in Users /\ job[r].about \subseteq Messages
    BY JobTypes DEF IInv, Course
  <1>2. ctx[r] \in Ctxs /\ clock \in Nat /\ \A p \in ctx[r].got : p[1] \in hist[r].dead => ~p[2]
    BY DEF IInv, TypeOK, DeletedStaysUntold
  <1>3. \A S \in SUBSET Messages :
          /\ {<<m, Words(m)>> : m \in S} \subseteq Messages \X BOOLEAN
          /\ \A p \in {<<m, Words(m)>> : m \in S} : p[1] \in hist[r].dead => ~p[2]
    BY WordsTold
  <1> USE DEF Working, Waiting
  <1>4. CASE ReadSources(r) /\ ~Refuse(r)
    <2> DEFINE S == job[r].about \cap In(job[r].from)
               c == [[ctx[r] EXCEPT !.got = {<<m, Words(m)>> : m \in S}] EXCEPT !.floor = clock]
    <2>1. /\ pc[r] = "read" /\ pc' = [pc EXCEPT ![r] = "copy"]
          /\ ctx' = [ctx EXCEPT ![r] = c] /\ UNCHANGED <<db, people, job, hist, faults>>
      BY <1>4 DEF ReadSources, At, Goto, Keep
    <2>2. Told(r, c)
      BY <1>1, <1>2, <1>3, <2>1 DEF Told, Ctxs, In
    <2>3. MayGoTo(r, "copy")
      BY <1>1, <2>1 DEF MayGoTo, Fits, IInv, Passed
    <2> HIDE DEF c
    <2> QED
      BY <2>1, <2>2, <2>3, ReadIInv
  <1>5. CASE LoadReplies(r)
    <2> DEFINE S == {m \in Messages : Stored(m) /\ \E k \in ctx[r].rows : msg[k].reply = m}
               c == [[ctx[r] EXCEPT !.got = @ \cup {<<m, Words(m)>> : m \in S}] EXCEPT !.floor = clock]
    <2>1. /\ pc[r] = "replies" /\ pc' = [pc EXCEPT ![r] = "page"]
          /\ ctx' = [ctx EXCEPT ![r] = c] /\ UNCHANGED <<db, people, job, hist, faults>>
      BY <1>5 DEF LoadReplies, At, Goto, Keep
    <2>2. Told(r, c)
      <3>1. S \subseteq Messages
        OBVIOUS
      <3> HIDE DEF S
      <3> QED
        BY <1>2, <1>3, <3>1 DEF Told, Ctxs
    <2>3. MayGoTo(r, "page")
      BY <1>1, <2>1 DEF MayGoTo, Fits
    <2> HIDE DEF c
    <2> QED
      BY <2>1, <2>2, <2>3, ReadIInv
  <1>6. CASE ListChats(r)
    <2> DEFINE own == {k \in Chats : job[r].user \in members[k]}
               rows == {m \in Messages : \E k \in own : pinned[k] = m}
               c == [[ctx[r] EXCEPT !.todo = own, !.rows = rows] EXCEPT !.floor = clock]
    <2>1. /\ pc[r] = "chats" /\ pc' = [pc EXCEPT ![r] = "pinned"]
          /\ ctx' = [ctx EXCEPT ![r] = c] /\ UNCHANGED <<db, people, job, hist, faults>>
      BY <1>6 DEF ListChats, At, Goto, Keep
    <2>2. Told(r, c)
      <3>1. own \subseteq Chats /\ rows \subseteq Messages
        OBVIOUS
      <3> HIDE DEF own, rows
      <3> QED
        BY <1>2, <3>1 DEF Told, Ctxs
    <2>3. MayGoTo(r, "pinned")
      BY <1>1, <2>1 DEF MayGoTo, Fits
    <2> HIDE DEF c
    <2> QED
      BY <2>1, <2>2, <2>3, ReadIInv
  <1>7. CASE LoadPinned(r)
    <2> DEFINE S == {k \in ctx[r].rows : Stored(k)}
               there == IF ctx[r].todo = {} THEN "answered" ELSE "first"
               c == [[ctx[r] EXCEPT !.got = {<<m, Words(m)>> : m \in S}] EXCEPT !.floor = clock]
    <2>1. /\ pc[r] = "pinned" /\ pc' = [pc EXCEPT ![r] = there]
          /\ ctx' = [ctx EXCEPT ![r] = c] /\ UNCHANGED <<db, people, job, hist, faults>>
      BY <1>7 DEF LoadPinned, At, Goto, Keep
    <2>2. Told(r, c)
      <3>1. S \subseteq Messages
        BY <1>2 DEF Ctxs
      <3> HIDE DEF S
      <3> QED
        BY <1>2, <1>3, <3>1 DEF Told, Ctxs
    <2>3. MayGoTo(r, there)
      BY <1>1, <2>1 DEF MayGoTo, Fits
    <2> HIDE DEF c, there
    <2> QED
      BY <2>1, <2>2, <2>3, ReadIInv
  <1>8. CASE LoadFirst(r)
    <2>1. PICK k \in ctx[r].todo, S \in SUBSET Messages :
            /\ S \subseteq In(k) \ Deleted
            /\ ctx' = [ctx EXCEPT ![r] =
                         [[ctx[r] EXCEPT !.todo = @ \ {k},
                                         !.got = @ \cup {<<m, msg[m].words>> : m \in S}]
                            EXCEPT !.floor = clock]]
            /\ pc' = [pc EXCEPT ![r] = IF ctx[r].todo = {k} THEN "answered" ELSE "first"]
      <3>1. PICK k \in ctx[r].todo :
              \E S \in SUBSET {m \in In(k) \ Deleted : \A l \in In(k) \ Deleted : msg[m].at <= msg[l].at} :
                /\ Keep(r, [ctx[r] EXCEPT !.todo = @ \ {k},
                                          !.got = @ \cup {<<m, msg[m].words>> : m \in S}])
                /\ Goto(r, IF ctx[r].todo = {k} THEN "answered" ELSE "first")
        BY <1>8 DEF LoadFirst
      <3> QED
        BY <3>1 DEF Keep, Goto, In
    <2> DEFINE there == IF ctx[r].todo = {k} THEN "answered" ELSE "first"
               got == {<<m, msg[m].words>> : m \in S}
               c == [[ctx[r] EXCEPT !.todo = @ \ {k}, !.got = @ \cup got] EXCEPT !.floor = clock]
    <2>2. pc[r] = "first" /\ UNCHANGED <<db, people, job, hist, faults>>
      BY <1>8 DEF LoadFirst, At
    <2>3. got \subseteq Messages \X BOOLEAN /\ \A p \in got : p[1] \notin hist[r].dead
      BY <2>1 DEF In, Stored, Deleted, IInv, TypeOK, Rows, StayDeleted
    <2>4. Told(r, c)
      <3> HIDE DEF got
      <3> QED
        BY <1>2, <2>3 DEF Told, Ctxs
    <2>5. MayGoTo(r, there)
      BY <1>1, <2>2 DEF MayGoTo, Fits
    <2>6. ctx' = [ctx EXCEPT ![r] = c] /\ pc' = [pc EXCEPT ![r] = there]
      BY <2>1
    <2> HIDE DEF c, there
    <2> QED
      BY <2>2, <2>4, <2>5, <2>6, ReadIInv
  <1> QED
    BY <1>4, <1>5, <1>6, <1>7, <1>8

LEMMA PagesIInv ==
  ASSUME IInv, NEW r \in Requests, ListRows(r) \/ NextPage(r) \/ ReadPeople(r)
  PROVE  IInv'
  <1>1. pc[r] \in Working => /\ job[r] \in RequestJobs /\ Fits(job[r].op, pc[r])
                             /\ job[r].user \in Users /\ job[r].chat \in Chats
    BY JobTypes DEF IInv, Course
  <1>2. ctx[r] \in Ctxs /\ clock \in Nat /\ \A p \in ctx[r].got : p[1] \in hist[r].dead => ~p[2]
    BY DEF IInv, TypeOK, DeletedStaysUntold
  <1>3. hist \in [Requests -> Hists]
    BY DEF IInv, TypeOK
  <1> USE DEF Working, Waiting
  <1>4. CASE ListRows(r)
    <2> DEFINE wanted == IF ctx[r].before = 0 THEN In(job[r].chat) ELSE hist[r].wanted
    <2>1. /\ pc[r] = "rows" /\ UNCHANGED <<db, people, job, faults>>
          /\ hist' = [hist EXCEPT ![r].wanted = wanted]
      BY <1>4 DEF ListRows, At
    <2>2. PICK there \in {"answered", "replies"}, c \in Ctxs :
            /\ pc' = [pc EXCEPT ![r] = there] /\ ctx' = [ctx EXCEPT ![r] = c]
            /\ \A p \in c.got : p[1] \in hist[r].dead => ~p[2]
      <3>1. CASE Goto(r, "answered") /\ Keep(r, ctx[r])
        <4> DEFINE c == [ctx[r] EXCEPT !.floor = clock]
        <4>1. c \in Ctxs /\ c.got = ctx[r].got
          BY <1>2 DEF Ctxs
        <4>2. ctx' = [ctx EXCEPT ![r] = c] /\ pc' = [pc EXCEPT ![r] = "answered"]
          BY <3>1 DEF Keep, Goto
        <4> HIDE DEF c
        <4> QED
          BY <1>2, <4>1, <4>2
      <3>2. CASE ~(Goto(r, "answered") /\ Keep(r, ctx[r]))
        <4>1. PICK S \in SUBSET Messages, last \in Messages :
                /\ Goto(r, "replies")
                /\ Keep(r, [ctx[r] EXCEPT !.rows = S, !.got = {<<m, Words(m)>> : m \in S},
                                          !.before = msg[last].at])
          BY <1>4, <3>2 DEF ListRows, In
        <4> DEFINE got == {<<m, Words(m)>> : m \in S}
                   c == [[ctx[r] EXCEPT !.rows = S, !.got = got, !.before = msg[last].at]
                           EXCEPT !.floor = clock]
        <4>2. got \subseteq Messages \X BOOLEAN /\ \A p \in got : p[1] \in hist[r].dead => ~p[2]
          BY WordsTold
        <4>3. msg[last].at \in Nat
          BY DEF IInv, TypeOK, Rows
        <4>4. c \in Ctxs /\ c.got = got
          <5> HIDE DEF got
          <5> QED
            BY <1>2, <4>2, <4>3 DEF Ctxs
        <4>5. ctx' = [ctx EXCEPT ![r] = c] /\ pc' = [pc EXCEPT ![r] = "replies"]
          BY <4>1 DEF Keep, Goto
        <4> HIDE DEF c, got
        <4> QED
          BY <4>2, <4>4, <4>5
      <3> QED
        BY <3>1, <3>2
    <2>3. /\ hist' \in [Requests -> Hists] /\ \A x \in Requests \ {r} : hist'[x] = hist[x]
          /\ hist'[r].bars = hist[r].bars /\ hist'[r].made = hist[r].made
          /\ hist'[r].dead = hist[r].dead
      <3>1. wanted \subseteq Messages
        BY <1>3 DEF Hists, In
      <3> HIDE DEF wanted
      <3>2. hist[r] \in Hists /\ hist'[r] = [hist[r] EXCEPT !.wanted = wanted]
        BY <1>3, <2>1
      <3>3. hist'[r] \in Hists /\ hist'[r].bars = hist[r].bars /\ hist'[r].made = hist[r].made
            /\ hist'[r].dead = hist[r].dead
        BY <3>1, <3>2 DEF Hists
      <3> QED
        BY <1>3, <2>1, <3>3
    <2>4. MayGoTo(r, there)
      BY <1>1, <2>1 DEF MayGoTo, Fits
    <2> QED
      BY <2>1, <2>2, <2>3, <2>4, RememberIInv
  <1>5. CASE NextPage(r)
    <2> DEFINE c == [[ctx[r] EXCEPT !.rows = {}, !.got = {}] EXCEPT !.floor = clock]
    <2>1. /\ pc[r] = "page" /\ pc' = [pc EXCEPT ![r] = "mine"]
          /\ ctx' = [ctx EXCEPT ![r] = c] /\ UNCHANGED <<db, people, job, faults>>
          /\ hist' = [hist EXCEPT ![r].seen = @ \cup ctx[r].rows, ![r].dead = Deleted]
      BY <1>5 DEF NextPage, At, Goto, Keep
    <2>2. c \in Ctxs /\ c.got = {}
      BY <1>2 DEF Ctxs
    <2>3. /\ hist' \in [Requests -> Hists] /\ hist'[r].dead = Deleted
          /\ \A x \in Requests \ {r} : hist'[x] = hist[x]
          /\ hist'[r].bars = hist[r].bars /\ hist'[r].made = hist[r].made
      <3>1. Deleted \subseteq Messages /\ ctx[r].rows \subseteq Messages
        BY <1>2 DEF Deleted, Ctxs
      <3>2. /\ hist[r] \in Hists
            /\ hist'[r] = [[hist[r] EXCEPT !.seen = @ \cup ctx[r].rows] EXCEPT !.dead = Deleted]
        BY <1>3, <2>1
      <3>3. /\ hist'[r] \in Hists /\ hist'[r].dead = Deleted
            /\ hist'[r].bars = hist[r].bars /\ hist'[r].made = hist[r].made
        BY <3>1, <3>2 DEF Hists
      <3> QED
        BY <1>3, <2>1, <3>3
    <2>4. MayGoTo(r, "mine")
      BY <1>1, <2>1 DEF MayGoTo, Fits
    <2> HIDE DEF c
    <2> QED
      BY <2>1, <2>2, <2>3, <2>4, RememberIInv
  <1>6. CASE ReadPeople(r)
    <2> DEFINE others == members[job[r].chat] \ {job[r].user}
    <2>1. PICK S \in SUBSET others :
            /\ Goto(r, IF S = {} THEN "answered" ELSE "mention")
            /\ Keep(r, [ctx[r] EXCEPT !.todo = S])
      BY <1>6 DEF ReadPeople
    <2> DEFINE c == [[ctx[r] EXCEPT !.todo = S] EXCEPT !.floor = clock]
               there == IF S = {} THEN "answered" ELSE "mention"
    <2>2. /\ pc[r] = "people" /\ UNCHANGED <<db, people, job, faults>>
          /\ hist' = [hist EXCEPT ![r].asked = others]
      BY <1>6 DEF ReadPeople, At
    <2>3. others \subseteq Users
      BY <1>1, <2>2 DEF IInv, TypeOK
    <2>4. c \in Ctxs /\ c.got = ctx[r].got
      BY <1>2, <2>3 DEF Ctxs
    <2>5. ctx' = [ctx EXCEPT ![r] = c] /\ pc' = [pc EXCEPT ![r] = there]
      BY <2>1 DEF Goto, Keep
    <2>6. /\ hist' \in [Requests -> Hists] /\ \A x \in Requests \ {r} : hist'[x] = hist[x]
          /\ hist'[r].bars = hist[r].bars /\ hist'[r].made = hist[r].made
          /\ hist'[r].dead = hist[r].dead
      BY <1>3, <2>2, <2>3 DEF Hists
    <2>7. MayGoTo(r, there)
      <3>1. ctx'[r].todo = S
        BY <1>2, <2>5, <2>1, <1>3 DEF IInv, TypeOK, Ctxs
      <3> QED
        BY <1>1, <2>2, <2>3, <3>1 DEF MayGoTo, Fits
    <2> HIDE DEF c, there, others
    <2> QED
      BY <1>2, <2>2, <2>4, <2>5, <2>6, <2>7, RememberIInv
  <1> QED
    BY <1>4, <1>5, <1>6

\* The INSERT of a message by one who has nothing against it.
LEMMA InsertIInv ==
  ASSUME IInv, NEW r \in Requests, NEW words \in BOOLEAN, NEW reply \in Messages \cup {None},
         NEW there, NEW c \in Ctxs,
         Insert(r, words, reply), UNCHANGED <<people, job, faults>>,
         pc' = [pc EXCEPT ![r] = there], ctx' = [ctx EXCEPT ![r] = c], c.got \subseteq ctx[r].got,
         MayGoTo(r, there), job[r] \in RequestJobs, hist[r].bars = {},
         there \notin {"setPin", "store"}, pc[r] # "idle",
         reply # None => Stored(reply) /\ msg[reply].chat = job[r].chat
  PROVE  IInv'
  <1>1. PICK n \in Messages, t \in ctx[r].floor .. (clock + 1) :
          /\ t > 0 /\ msg[n].is = "none"
          /\ msg' = [msg EXCEPT ![n] = [is |-> "live", chat |-> job[r].chat, sender |-> job[r].user,
                                        at |-> t, words |-> words, reply |-> reply]]
          /\ clock' = IF t > clock THEN t ELSE clock
          /\ hist' = [hist EXCEPT ![r].made = @ \cup {n}]
          /\ UNCHANGED <<mention, pinned>>
    BY DEF Insert
  <1>2. /\ job[r].chat \in Chats /\ job[r].user \in Users
        /\ ctx[r].floor \in Nat /\ clock \in Nat /\ t \in Nat
    BY JobTypes DEF IInv, TypeOK, Ctxs
  <1>3. /\ hist' \in [Requests -> Hists] /\ \A x \in Requests \ {r} : hist'[x] = hist[x]
        /\ hist'[r].bars = {} /\ hist'[r].dead = hist[r].dead
    <2>1. hist \in [Requests -> Hists] /\ hist[r] \in Hists
          /\ hist'[r] = [hist[r] EXCEPT !.made = @ \cup {n}]
      BY <1>1 DEF IInv, TypeOK
    <2>2. hist'[r] \in Hists /\ hist'[r].bars = hist[r].bars /\ hist'[r].dead = hist[r].dead
      BY <2>1 DEF Hists
    <2> QED
      BY <1>1, <2>1, <2>2
  <1>4. /\ msg'[n].is = "live" /\ msg'[n].chat = job[r].chat /\ msg'[n].reply = reply
        /\ msg'[n] \in Rows /\ msg'[n].sender \in Users
        /\ \A m \in Messages \ {n} : msg'[m] = msg[m]
        /\ \A m \in Messages : Stored(m) => m # n
        /\ \A m \in Messages : Stored(m)' <=> Stored(m) \/ m = n
    <2>1. msg \in [Messages -> Rows]
      BY DEF IInv, TypeOK
    <2>2. [is |-> "live", chat |-> job[r].chat, sender |-> job[r].user,
           at |-> t, words |-> words, reply |-> reply] \in Rows
      BY <1>2 DEF Rows
    <2> QED
      BY <1>1, <1>2, <2>1, <2>2 DEF Stored
  <1>5. UNCHANGED <<members, muted, job, faults>>
    BY DEF people
  <1>6. TypeOK'
    <2>1. msg' \in [Messages -> Rows] /\ clock' \in Nat
      BY <1>1, <1>2, <1>4 DEF IInv, TypeOK
    <2>2. there \in Waiting \cup {"idle", "page", "answered", "done"}
      BY DEF MayGoTo, Working
    <2> QED
      BY <1>1, <1>2, <1>3, <1>4, <1>5, <2>1, <2>2 DEF IInv, TypeOK
  <1>7. Course'
    BY <1>3, <1>5 DEF IInv, TypeOK, Course, MayGoTo, Working, Waiting
  <1>8. Checked'
    <2>1. \A x \in Requests : pc[x] \in {"setPin", "store"} => job[x].about \subseteq Messages
      BY JobTypes DEF IInv, Course, Working, Waiting
    <2> QED
      BY <1>1, <1>4, <1>5, <2>1 DEF IInv, TypeOK, Checked
  <1>9. NothingDangles'
    <2>1. \A k \in Chats : In(k) \subseteq In(k)'
      BY <1>4 DEF In
    <2>2. \A p \in mention' : Stored(p[2])'
      BY <1>1, <1>4 DEF IInv, TypeOK, NothingDangles
    <2>3. \A k \in Chats : pinned'[k] # None => pinned'[k] \in In(k)'
      BY <1>1, <2>1 DEF IInv, NothingDangles
    <2>4. ASSUME NEW m \in Messages, Stored(m)', msg'[m].reply # None
          PROVE  msg'[m].reply \in {k \in Messages : Stored(k)' /\ msg'[k].chat = msg'[m].chat}
      <3>1. CASE m = n
        BY <1>4, <2>4, <3>1
      <3>2. CASE m # n
        BY <1>4, <2>4, <3>2 DEF IInv, NothingDangles, In
      <3> QED
        BY <3>1, <3>2
    <2> QED
      BY <2>2, <2>3, <2>4 DEF NothingDangles, In
  <1>10. Passed' /\ BarredStayOut'
    <2>1. \A x \in Requests : Bars(job[x])' = Bars(job[x])
      BY <1>5 DEF Bars
    <2> QED
      BY <1>3, <2>1 DEF IInv, TypeOK, Passed, BarredStayOut
  <1>11. StayDeleted' /\ DeletedStaysUntold'
    <2>1. \A x \in Requests : hist'[x].dead = hist[x].dead /\ hist[x].dead \subseteq Messages
      BY <1>3 DEF IInv, TypeOK, Hists
    <2>2. \A x \in Requests : ctx'[x].got \subseteq ctx[x].got
      BY DEF IInv, TypeOK
    <2> QED
      BY <1>1, <1>4, <2>1, <2>2 DEF IInv, StayDeleted, DeletedStaysUntold
  <1> QED
    BY <1>6, <1>7, <1>8, <1>9, <1>10, <1>11 DEF IInv

LEMMA StoreIInv ==
  ASSUME IInv, NEW r \in Requests, Store(r) \/ Copy(r)
  PROVE  IInv'
  <1>1. pc[r] \in {"store", "copy"} /\ UNCHANGED <<people, faults>>
    BY DEF Store, Copy, At
  <1>2. job[r] \in RequestJobs /\ Fits(job[r].op, pc[r]) /\ job[r].about \subseteq Messages
    BY <1>1, JobTypes DEF IInv, Course, Working, Waiting
  <1>3. hist[r].bars = {}
    <2>1. hist[r].bars \subseteq {"left", "muted", "channel", "source"}
      BY DEF IInv, TypeOK, Hists
    <2>2. pc[r] = "store" => "source" \notin Bars(job[r])
      BY <1>2 DEF Bars, Fits
    <2> QED
      BY <1>1, <2>1, <2>2 DEF IInv, Passed
  <1>4. ctx[r] \in Ctxs /\ clock \in Nat /\ ctx \in [Requests -> Ctxs]
    BY DEF IInv, TypeOK
  <1>5. CASE Refuse(r)
    BY <1>1, <1>5, RefuseIInv DEF IInv, TypeOK
  <1>6. CASE Store(r) /\ ~Refuse(r)
    <2>1. PICK m \in job[r].about \cup {None} :
            /\ Refers(m) /\ Insert(r, TRUE, m)
            /\ pc' = [pc EXCEPT ![r] = IF job[r].names = {} THEN "answered" ELSE "people"]
            /\ UNCHANGED <<job, ctx>>
      BY <1>6 DEF Store, Goto
    <2> DEFINE there == IF job[r].names = {} THEN "answered" ELSE "people"
    <2>2. pc[r] = "store"
      BY <1>6 DEF Store, At
    <2>3. MayGoTo(r, there)
      BY <1>2, <2>2 DEF MayGoTo, Fits, Working, Waiting
    <2>4. m # None => Stored(m) /\ msg[m].chat = job[r].chat
      BY <2>1, <2>2 DEF Refers, IInv, Checked
    <2>5. pc' = [pc EXCEPT ![r] = there] /\ ctx' = [ctx EXCEPT ![r] = ctx[r]]
          /\ m \in Messages \cup {None}
      BY <1>2, <1>4, <2>1
    <2>6. there \notin {"setPin", "store"} /\ pc[r] # "idle"
      BY <2>2
    <2> HIDE DEF there
    <2> QED
      BY <1>1, <1>2, <1>3, <1>4, <2>1, <2>3, <2>4, <2>5, <2>6, InsertIInv
  <1>7. CASE Copy(r) /\ ~Refuse(r)
    <2>1. PICK p \in ctx[r].got :
            /\ Insert(r, p[2], None)
            /\ Goto(r, IF ctx[r].got = {p} THEN "answered" ELSE "copy")
            /\ Keep(r, [ctx[r] EXCEPT !.got = @ \ {p}])
            /\ UNCHANGED job
      BY <1>7 DEF Copy
    <2> DEFINE there == IF ctx[r].got = {p} THEN "answered" ELSE "copy"
               c == [[ctx[r] EXCEPT !.got = @ \ {p}] EXCEPT !.floor = clock]
    <2>2. pc[r] = "copy"
      BY <1>7 DEF Copy, At
    <2>3. MayGoTo(r, there)
      BY <1>2, <1>3, <2>2 DEF MayGoTo, Working, Waiting
    <2>4. pc' = [pc EXCEPT ![r] = there] /\ ctx' = [ctx EXCEPT ![r] = c]
      BY <2>1 DEF Goto, Keep
    <2>5. c \in Ctxs /\ c.got \subseteq ctx[r].got /\ p[2] \in BOOLEAN
      BY <1>4 DEF Ctxs
    <2>6. there \notin {"setPin", "store"} /\ pc[r] # "idle"
      BY <2>2
    <2> HIDE DEF there, c
    <2> QED
      BY <1>1, <1>2, <1>3, <2>1, <2>3, <2>4, <2>5, <2>6, InsertIInv
  <1> QED
    BY <1>5, <1>6, <1>7

\* A statement of r that changes mentions, pins or the rows of messages, none
\* of which comes to be there by it, and no other request's course.
LEMMA ChangeIInv ==
  ASSUME IInv, NEW r \in Requests, NEW there \in {"answered", "done", "mention"},
         NEW c \in Ctxs,
         pc' = [pc EXCEPT ![r] = there], ctx' = [ctx EXCEPT ![r] = c],
         c.got = ctx[r].got, pc[r] \in Working,
         there = "mention" => Fits(job[r].op, there) /\ c.todo \subseteq Users,
         UNCHANGED <<people, job, faults, clock>>,
         msg' \in [Messages -> Rows],
         \A m \in Messages :
           /\ msg'[m].is \in {"live", "deleted"} =>
                Stored(m) /\ msg'[m].chat = msg[m].chat /\ msg'[m].sender = msg[m].sender
           /\ msg[m].is # "none" => msg'[m].is # "none"
           /\ msg[m].is \in {"deleted", "gone"} => msg'[m].is \in {"deleted", "gone"},
         mention' \subseteq Users \X Messages, pinned' \in [Chats -> Messages \cup {None}],
         hist' \in [Requests -> Hists],
         \A x \in Requests :
           /\ hist'[x].bars = hist[x].bars /\ hist'[x].made = hist[x].made
           /\ hist'[x].dead = hist[x].dead /\ (hist[x] = NoHist => hist'[x] = NoHist),
         NothingDangles'
  PROVE  IInv'
  <1>1. UNCHANGED <<members, muted, job, faults, clock>>
    BY DEF people
  <1>2. TypeOK'
    BY <1>1 DEF IInv, TypeOK, Stored, Waiting
  <1>3. Course'
    BY <1>1 DEF IInv, TypeOK, Course, Working, Waiting
  <1>4. Checked'
    <2>1. \A x \in Requests : pc[x] \in {"setPin", "store"} => job[x].about \subseteq Messages
      BY JobTypes DEF IInv, Course, Working, Waiting
    <2> QED
      BY <1>1, <2>1 DEF IInv, TypeOK, Checked, Stored
  <1>5. Passed' /\ BarredStayOut'
    <2>1. \A x \in Requests : Bars(job[x])' = Bars(job[x])
      BY <1>1 DEF Bars
    <2>2. BarredStayOut'
      BY DEF IInv, BarredStayOut
    <2>3. Passed'
      BY <2>1 DEF IInv, TypeOK, Passed
    <2> QED
      BY <2>2, <2>3
  <1>6. StayDeleted' /\ DeletedStaysUntold'
    <2>1. \A x \in Requests : hist[x].dead \subseteq Messages
      BY DEF IInv, TypeOK, Hists
    <2>2. \A x \in Requests : ctx'[x].got = ctx[x].got
      BY DEF IInv, TypeOK
    <2> QED
      BY <2>1, <2>2 DEF IInv, StayDeleted, DeletedStaysUntold
  <1> QED
    BY <1>2, <1>3, <1>4, <1>5, <1>6 DEF IInv

LEMMA ChangesIInv ==
  ASSUME IInv, NEW r \in Requests, ~Refuse(r),
         Mention(r) \/ Delete(r) \/ Clear(r) \/ SetPin(r) \/ Unpin(r) \/ Forget(r)
  PROVE  IInv'
  <1>1. pc[r] \in Working /\ UNCHANGED <<people, faults>>
    BY DEF Mention, Delete, Clear, SetPin, Unpin, Forget, At, Working, Waiting
  <1>2. /\ job[r] \in RequestJobs /\ Fits(job[r].op, pc[r])
        /\ job[r].about \subseteq Messages /\ job[r].chat \in Chats
    BY <1>1, JobTypes DEF IInv, Course
  <1>3. /\ ctx[r] \in Ctxs /\ clock \in Nat /\ ctx \in [Requests -> Ctxs]
        /\ msg \in [Messages -> Rows] /\ hist \in [Requests -> Hists]
        /\ mention \subseteq Users \X Messages /\ pinned \in [Chats -> Messages \cup {None}]
    BY DEF IInv, TypeOK
  <1>4. /\ \A p \in mention : Stored(p[2])
        /\ \A k \in Chats : pinned[k] # None =>
             pinned[k] \in Messages /\ Stored(pinned[k]) /\ msg[pinned[k]].chat = k
        /\ \A m \in Messages : Stored(m) => msg[m].chat \in Chats
        /\ \A m \in Messages : Stored(m) /\ msg[m].reply # None =>
             msg[m].reply \in Messages /\ Stored(msg[m].reply) /\ msg[msg[m].reply].chat = msg[m].chat
    BY DEF IInv, TypeOK, NothingDangles, In
  <1>5. CASE Mention(r)
    <2>1. PICK u \in ctx[r].todo, m \in hist[r].made :
            /\ Refers(m)
            /\ mention' = mention \cup {<<u, m>>}
            /\ Keep(r, [ctx[r] EXCEPT !.todo = Left(@, u)])
            /\ Goto(r, IF Left(ctx[r].todo, u) = {} THEN "answered" ELSE "mention")
            /\ UNCHANGED <<msg, pinned, clock, job, hist>>
      BY <1>5 DEF Mention
    <2> DEFINE there == IF Left(ctx[r].todo, u) = {} THEN "answered" ELSE "mention"
               c == [[ctx[r] EXCEPT !.todo = Left(@, u)] EXCEPT !.floor = clock]
    <2>2. pc[r] = "mention" /\ ctx[r].todo \subseteq Users
      BY <1>5 DEF Mention, At, IInv, Course
    <2>3. c \in Ctxs /\ c.got = ctx[r].got /\ c.todo \subseteq Users
      BY <1>3, <2>2 DEF Ctxs, Left
    <2>4. pc' = [pc EXCEPT ![r] = there] /\ ctx' = [ctx EXCEPT ![r] = c]
      BY <2>1 DEF Goto, Keep
    <2>5. m \in Messages /\ Stored(m) /\ u \in Users
      BY <1>3, <2>1, <2>2, JobTypes DEF Hists, Refers
    <2>6. NothingDangles'
      BY <1>4, <2>1, <2>5 DEF NothingDangles, In, Stored
    <2>7. there = "mention" => Fits(job[r].op, there)
      BY <1>2, <2>2
    <2>8. there \in {"answered", "done", "mention"}
      OBVIOUS
    <2>9. mention' \subseteq Users \X Messages
      BY <1>3, <2>1, <2>5
    <2> HIDE DEF there, c
    <2> QED
      BY <1>1, <1>3, <2>1, <2>3, <2>4, <2>6, <2>7, <2>8, <2>9, ChangeIInv DEF Stored
  <1>6. CASE Delete(r)
    <2> DEFINE mine == {m \in job[r].about : Stored(m) /\ msg[m].sender = job[r].user}
               there == IF mine = {} THEN "done" ELSE "answered"
    <2>1. /\ msg' = [m \in Messages |-> IF m \in mine THEN SoftDeleted(msg[m]) ELSE msg[m]]
          /\ pc' = [pc EXCEPT ![r] = there] /\ ctx' = [ctx EXCEPT ![r] = ctx[r]]
          /\ UNCHANGED <<mention, pinned, clock, job, hist>>
      BY <1>3, <1>6 DEF Delete, Goto
    <2>2. /\ msg' \in [Messages -> Rows]
          /\ \A m \in Messages :
               /\ Stored(m)' <=> Stored(m)
               /\ msg'[m].chat = msg[m].chat /\ msg'[m].sender = msg[m].sender
               /\ msg'[m].reply = msg[m].reply
               /\ msg'[m].is = msg[m].is \/ (Stored(m) /\ msg'[m].is = "deleted")
      <3>1. \A m \in Messages :
              msg'[m] = msg[m] \/ (Stored(m) /\ msg'[m] = [msg[m] EXCEPT !.is = "deleted"])
        BY <2>1 DEF SoftDeleted
      <3>2. DOMAIN msg' = Messages /\ msg' = [m \in Messages |-> msg'[m]]
        BY <2>1
      <3>3. \A m \in Messages : msg'[m] \in Rows
        <4> TAKE m \in Messages
        <4>1. msg[m] \in Rows
          BY <1>3
        <4>2. [msg[m] EXCEPT !.is = "deleted"] \in Rows
          BY <4>1 DEF Rows
        <4> QED
          BY <3>1, <4>1, <4>2
      <3> QED
        BY <1>3, <3>1, <3>2, <3>3 DEF Rows, Stored
    <2>3. NothingDangles'
      <3>1. \A p \in mention' : Stored(p[2])'
        BY <1>3, <1>4, <2>1, <2>2
      <3>2. \A k \in Chats : pinned'[k] # None =>
              pinned'[k] \in {m \in Messages : Stored(m)' /\ msg'[m].chat = k}
        BY <1>4, <2>1, <2>2
      <3>3. \A m \in Messages : Stored(m)' /\ msg'[m].reply # None =>
              msg'[m].reply \in {k \in Messages : Stored(k)' /\ msg'[k].chat = msg'[m].chat}
        BY <1>4, <2>2
      <3> QED
        BY <3>1, <3>2, <3>3 DEF NothingDangles, In
    <2>4. \A m \in Messages :
           /\ msg'[m].is \in {"live", "deleted"} => Stored(m)
           /\ msg[m].is # "none" => msg'[m].is # "none"
           /\ msg[m].is \in {"deleted", "gone"} => msg'[m].is \in {"deleted", "gone"}
      BY <2>2 DEF Stored
    <2> HIDE DEF there, mine
    <2>5. there \in {"done", "answered"}
      BY DEF there
    <2> QED
      BY <1>1, <1>3, <2>1, <2>2, <2>3, <2>4, <2>5, ChangeIInv
  <1>7. CASE Clear(r)
    <2> DEFINE k == job[r].chat
    <2>1. /\ msg' = [m \in Messages |-> IF m \in In(k) THEN [NoMessage EXCEPT !.is = "gone"] ELSE msg[m]]
          /\ mention' = {p \in mention : p[2] \notin In(k)}
          /\ pinned' = [pinned EXCEPT ![k] = None]
          /\ pc' = [pc EXCEPT ![r] = "answered"] /\ ctx' = [ctx EXCEPT ![r] = ctx[r]]
          /\ UNCHANGED <<clock, job, hist>>
      BY <1>3, <1>7 DEF Clear, Goto
    <2>2. /\ msg' \in [Messages -> Rows]
          /\ \A m \in Messages : IF m \in In(k) THEN msg'[m].is = "gone" ELSE msg'[m] = msg[m]
      BY <1>3, <2>1, NoTypes DEF NoMessage, Rows
    <2>3. \A m \in Messages : Stored(m)' => Stored(m) /\ msg'[m] = msg[m] /\ msg[m].chat # k
      BY <2>2 DEF Stored, In
    <2>4. \A m \in Messages : Stored(m) /\ msg[m].chat # k => Stored(m)' /\ msg'[m] = msg[m]
      BY <2>2 DEF Stored, In
    <2>5. NothingDangles'
      <3>1. \A p \in mention' : Stored(p[2])'
        BY <1>3, <1>4, <2>1, <2>4 DEF In
      <3>2. \A i \in Chats : pinned'[i] # None =>
              pinned'[i] \in {m \in Messages : Stored(m)' /\ msg'[m].chat = i}
        BY <1>2, <1>3, <1>4, <2>1, <2>4
      <3>3. \A m \in Messages : Stored(m)' /\ msg'[m].reply # None =>
              msg'[m].reply \in {i \in Messages : Stored(i)' /\ msg'[i].chat = msg'[m].chat}
        BY <1>4, <2>3, <2>4
      <3> QED
        BY <3>1, <3>2, <3>3 DEF NothingDangles, In
    <2>6. \A m \in Messages :
           /\ msg'[m].is \in {"live", "deleted"} =>
                Stored(m) /\ msg'[m].chat = msg[m].chat /\ msg'[m].sender = msg[m].sender
           /\ msg[m].is # "none" => msg'[m].is # "none"
           /\ msg[m].is \in {"deleted", "gone"} => msg'[m].is \in {"deleted", "gone"}
      BY <2>2, <2>3 DEF Stored
    <2>7. mention' \subseteq Users \X Messages /\ pinned' \in [Chats -> Messages \cup {None}]
      BY <1>3, <2>1
    <2> QED
      BY <1>1, <1>3, <2>1, <2>2, <2>5, <2>6, <2>7, ChangeIInv
  <1>8. CASE SetPin(r) \/ Unpin(r)
    <2>1. PICK n \in job[r].about \cup {None} :
            /\ Refers(n)
            /\ pinned' = [pinned EXCEPT ![job[r].chat] = n]
            /\ pc' = [pc EXCEPT ![r] = "answered"]
            /\ UNCHANGED <<msg, mention, clock, job, ctx, hist>>
            /\ n # None => pc[r] = "setPin"
      BY <1>8 DEF SetPin, Unpin, Goto, At, Refers
    <2>2. ctx' = [ctx EXCEPT ![r] = ctx[r]]
      BY <1>3, <2>1
    <2>3. n # None => n \in Messages /\ Stored(n) /\ msg[n].chat = job[r].chat
      BY <1>2, <2>1 DEF Refers, IInv, Checked
    <2>4. pinned' \in [Chats -> Messages \cup {None}]
      BY <1>2, <1>3, <2>1, <2>3
    <2>5. NothingDangles'
      BY <1>2, <1>3, <1>4, <2>1, <2>3 DEF NothingDangles, In, Stored
    <2> QED
      BY <1>1, <1>3, <2>1, <2>2, <2>4, <2>5, ChangeIInv DEF Stored
  <1>9. CASE Forget(r)
    <2> DEFINE mine == {p \in mention : p[1] = job[r].user /\ msg[p[2]].chat = job[r].chat}
               gone(x) == {p \in mine : p[2] \in hist[x].made}
    <2>1. /\ mention' = mention \ mine
          /\ hist' = [x \in Requests |-> [hist[x] EXCEPT !.cleared = @ \cup gone(x)]]
          /\ pc' = [pc EXCEPT ![r] = "answered"] /\ ctx' = [ctx EXCEPT ![r] = ctx[r]]
          /\ UNCHANGED <<msg, pinned, clock, job>>
      BY <1>3, <1>9 DEF Forget, Goto
    <2>2. ASSUME NEW x \in Requests
          PROVE  /\ hist'[x] \in Hists /\ hist'[x].bars = hist[x].bars
                 /\ hist'[x].made = hist[x].made /\ hist'[x].dead = hist[x].dead
                 /\ hist[x] = NoHist => hist'[x] = NoHist
      <3>1. gone(x) \subseteq Users \X Messages /\ (hist[x] = NoHist => gone(x) = {})
        BY <1>3 DEF NoHist
      <3>2. hist'[x] = [hist[x] EXCEPT !.cleared = @ \cup gone(x)]
        BY <2>1
      <3> HIDE DEF gone
      <3>3. hist[x] = NoHist => hist'[x] = NoHist
        BY <3>1, <3>2 DEF NoHist
      <3> QED
        BY <1>3, <3>1, <3>2, <3>3 DEF Hists
    <2>3. NothingDangles' /\ mention' \subseteq Users \X Messages
      BY <1>3, <1>4, <2>1 DEF NothingDangles, In, Stored
    <2>4. hist' \in [Requests -> Hists]
      BY <2>1, <2>2
    <2> HIDE DEF mine, gone
    <2> QED
      BY <1>1, <1>3, <2>1, <2>2, <2>3, <2>4, ChangeIInv DEF Stored
  <1> QED
    BY <1>5, <1>6, <1>7, <1>8, <1>9

\* Someone comes, goes, is muted or no longer is.
LEMMA OutsideIInv ==
  ASSUME IInv, ComeAndGo \/ ToggleMute, Relieve
  PROVE  IInv'
  <1>1. UNCHANGED <<msg, mention, pinned, clock, pc, job, ctx, faults>>
    BY DEF ComeAndGo, ToggleMute, db
  <1>2. members' \in [Chats -> SUBSET Users] /\ muted' \subseteq Chats \X Users
    <2>1. members \in [Chats -> SUBSET Users] /\ muted \subseteq Chats \X Users
      BY DEF IInv, TypeOK
    <2>2. CASE ComeAndGo
      <3>1. PICK m \in Comings :
              members' = [members EXCEPT ![m[1]] = IF m[2] \in @ THEN @ \ {m[2]} ELSE @ \cup {m[2]}]
        BY <2>2 DEF ComeAndGo
      <3>2. m[1] \in Chats /\ m[2] \in Users
        BY MessagesAssumption
      <3> QED
        BY <2>1, <2>2, <3>1, <3>2 DEF ComeAndGo
    <2>3. CASE ToggleMute
      BY <2>1, <2>3, MessagesAssumption DEF ToggleMute
    <2> QED
      BY <2>2, <2>3
  <1>3. \A x \in Requests :
          /\ hist'[x].bars \subseteq hist[x].bars /\ hist'[x].bars \subseteq Bars(job[x])'
          /\ hist'[x].made = hist[x].made /\ hist'[x].dead = hist[x].dead
          /\ hist'[x] \in Hists /\ (hist[x] = NoHist => hist'[x] = NoHist)
    <2> TAKE x \in Requests
    <2> DEFINE bars == {b \in hist[x].bars : b \in Bars(job[x])'}
    <2>1. hist'[x] = [hist[x] EXCEPT !.bars = bars] /\ hist[x] \in Hists
      BY DEF Relieve, IInv, TypeOK
    <2>2. bars \subseteq hist[x].bars /\ bars \subseteq Bars(job[x])'
      OBVIOUS
    <2>3. hist[x] = NoHist => bars = {}
      BY <2>2 DEF NoHist
    <2> HIDE DEF bars
    <2>4. hist[x] = NoHist => hist'[x] = NoHist
      BY <2>1, <2>3 DEF NoHist
    <2>5. /\ hist'[x] \in Hists /\ hist'[x].bars = bars
          /\ hist'[x].made = hist[x].made /\ hist'[x].dead = hist[x].dead
      BY <2>1, <2>2 DEF Hists
    <2> QED
      BY <2>2, <2>4, <2>5
  <1>4. hist' \in [Requests -> Hists]
    BY <1>3 DEF Relieve
  <1>5. TypeOK'
    BY <1>1, <1>2, <1>4 DEF IInv, TypeOK, Stored
  <1>6. Course' /\ Checked'
    BY <1>1, <1>3 DEF IInv, Course, Checked, Stored
  <1>7. NothingDangles'
    BY <1>1 DEF IInv, NothingDangles, In, Stored
  <1>8. Passed'
    BY <1>1, <1>3 DEF IInv, Passed
  <1>9. BarredStayOut' /\ StayDeleted' /\ DeletedStaysUntold'
    BY <1>1, <1>3 DEF IInv, BarredStayOut, StayDeleted, DeletedStaysUntold
  <1> QED
    BY <1>5, <1>6, <1>7, <1>8, <1>9 DEF IInv

LEMMA NextIInv == IInv /\ [Next]_vars => IInv'
  <1> SUFFICES ASSUME IInv, [Next]_vars PROVE IInv'
    OBVIOUS
  <1>1. ASSUME NEW r \in Requests, Begin(r) \/ Writes(r) \/ Reads(r) \/ Fail(r) PROVE IInv'
    <2>1. CASE Refuse(r)
      <3>1. Writes(r) => UNCHANGED <<people, faults>>
        BY DEF Writes, CheckMember, CheckMute, CheckReply, CheckSource, ReadSources, Store,
           Copy, ReadPeople, Mention, Delete, Clear, CheckPin, SetPin, Unpin, Test
      <3>2. Reads(r) => UNCHANGED <<people, faults>>
        BY DEF Reads, CheckMine, Forget, ListRows, LoadReplies, NextPage, ListChats,
           LoadPinned, LoadFirst, Test
      <3>3. UNCHANGED people /\ faults' \in Nat
        BY <1>1, <3>1, <3>2 DEF Begin, Fail, IInv, TypeOK
      <3> QED
        BY <2>1, <3>3, RefuseIInv
    <2>2. CASE ~Refuse(r)
      BY <1>1, <2>2, BeginIInv, ChecksIInv, ReadsIInv, PagesIInv, StoreIInv, ChangesIInv
      DEF Writes, Reads, Fail
    <2> QED
      BY <2>1, <2>2
  <1>2. CASE UNCHANGED vars
    BY <1>2 DEF vars, db, people, IInv, TypeOK, Course, Checked, NothingDangles, Passed, Bars,
       BarredStayOut, StayDeleted, DeletedStaysUntold, In, Stored
  <1> QED
    BY <1>1, <1>2, OutsideIInv DEF Next

THEOREM AlwaysIInv == Spec => []IInv
  BY InitIInv, NextIInv, PTL DEF Spec

\* TypeOK in every behaviour: every variable has its type and a row that is
\* there is whole.
THEOREM TypesHold == Spec => []TypeOK
  BY AlwaysIInv, PTL DEF IInv

\* NothingDangles in every behaviour, with clear_messages between any two
\* statements of a send, a forward or a pin.
THEOREM NothingEverDangles == Spec => []NothingDangles
  BY AlwaysIInv, PTL DEF IInv

\* BarredStayOut in every behaviour: what kept a request from writing when it
\* began, and still does, has kept it from writing.
THEOREM BarredNeverWrite == Spec => []BarredStayOut
  BY AlwaysIInv, PTL DEF IInv

\* DeletedStaysUntold in every behaviour: no request that begins after a
\* message was deleted is told what was in it.
THEOREM DeletedIsNeverTold == Spec => []DeletedStaysUntold
  BY AlwaysIInv, PTL DEF IInv
----------------------------------------------------------------------------
\* What a send that is answered has mentioned

\* Where no message is stored and nobody is asked for yet, or ever.
Before == Working \ {"copy", "people", "mention"}

\* Every name that was asked for is mentioned, or is among those still to be.
Named(r) ==
  \A m \in hist[r].made : \A u \in hist[r].asked :
    Stored(m) /\ Name[u] \in job[r].names =>
      \E v \in hist[r].asked :
        /\ Name[v] = Name[u]
        /\ \/ <<v, m>> \in mention \cup hist[r].cleared
           \/ pc[r] = "mention" /\ v \in ctx[r].todo

Asked(r) ==
  /\ \A m \in hist[r].made : msg[m].is # "none"
  /\ pc[r] \in Before => hist[r].made = {}
  /\ pc[r] \in Working \ {"mention"} => hist[r].asked = {}
  /\ pc[r] \in {"people", "mention"} => \A m, k \in hist[r].made : m = k
  /\ pc[r] = "mention" => ctx[r].todo \subseteq hist[r].asked
  /\ pc[r] \in {"mention", "answered"} => Named(r)

MInv == IInv /\ \A r \in Requests : Asked(r)

LEMMA MInvAnswers == MInv => AnsweredIsMentioned
  <1> SUFFICES ASSUME MInv, NEW r \in Requests, NEW m \in hist[r].made,
                      pc[r] = "answered", Stored(m), NEW u \in hist[r].asked,
                      Name[u] \in job[r].names
               PROVE  \E v \in hist[r].asked :
                        Name[v] = Name[u] /\ <<v, m>> \in mention \cup hist[r].cleared
    BY DEF AnsweredIsMentioned
  <1>1. Named(r)
    BY DEF MInv, Asked
  <1> QED
    BY <1>1 DEF Named

\* A request that has stored nothing and asked for nobody.
LEMMA NothingAsked ==
  ASSUME NEW r \in Requests, hist'[r].made = {}, hist'[r].asked = {}, pc'[r] # "mention"
  PROVE  Asked(r)'
  BY DEF Asked, Named

\* What a step does to a request that does not make it.
Aside(x) ==
  /\ pc'[x] = pc[x] /\ job'[x] = job[x] /\ ctx'[x] = ctx[x]
  /\ hist'[x].made = hist[x].made /\ hist'[x].asked = hist[x].asked
  /\ hist[x].cleared \subseteq hist'[x].cleared
  /\ \A p \in mention : p[2] \in hist[x].made /\ Stored(p[2])' => p \in mention' \cup hist'[x].cleared

\* No row comes back, and none is there again.
RowsGoOn ==
  \A m \in Messages :
    msg[m].is # "none" => msg'[m].is # "none" /\ (Stored(m)' => Stored(m))

LEMMA AsideAsked ==
  ASSUME TypeOK, NEW x \in Requests, Asked(x), Aside(x), RowsGoOn
  PROVE  Asked(x)'
  <1>1. hist[x].made \subseteq Messages
    BY DEF TypeOK, Hists
  <1>2. Named(x) => Named(x)'
    BY <1>1 DEF Named, Aside, Asked, RowsGoOn
  <1> QED
    BY <1>1, <1>2 DEF Asked, Aside, RowsGoOn

LEMMA RefuseAsked ==
  ASSUME MInv, NEW r \in Requests, Refuse(r)
  PROVE  \A x \in Requests : Asked(x)'
  <1>1. /\ pc' = [pc EXCEPT ![r] = "done"] /\ job' = [job EXCEPT ![r] = NoJob]
        /\ ctx' = [ctx EXCEPT ![r] = NoCtx] /\ hist' = [hist EXCEPT ![r] = NoHist]
        /\ UNCHANGED <<msg, mention>>
    BY DEF Refuse, Goto, db
  <1>2. Asked(r)'
    <2>1. hist'[r] = NoHist /\ pc'[r] = "done"
      BY <1>1 DEF MInv, IInv, TypeOK
    <2> QED
      BY <2>1, NothingAsked DEF NoHist
  <1>3. RowsGoOn /\ \A x \in Requests \ {r} : Aside(x)
    BY <1>1 DEF MInv, IInv, TypeOK, RowsGoOn, Aside, Stored
  <1> QED
    BY <1>2, <1>3, AsideAsked DEF MInv, IInv

\* The others, in a step that stores and takes nothing.
LEMMA OthersAside ==
  ASSUME TypeOK, NEW r \in Requests, UNCHANGED <<msg, mention>>,
         \A x \in Requests \ {r} :
           pc'[x] = pc[x] /\ job'[x] = job[x] /\ ctx'[x] = ctx[x] /\ hist'[x] = hist[x]
  PROVE  RowsGoOn /\ \A x \in Requests \ {r} : Aside(x)
  BY DEF RowsGoOn, Aside, Stored

\* Steps that read and test, or begin.
LEMMA ReadingAsked ==
  ASSUME MInv, NEW r \in Requests, ~Refuse(r),
         \/ Begin(r) \/ CheckMember(r) \/ CheckMute(r) \/ CheckReply(r) \/ CheckSource(r)
         \/ ReadSources(r) \/ CheckPin(r) \/ CheckMine(r) \/ ListRows(r) \/ LoadReplies(r)
         \/ NextPage(r) \/ ListChats(r) \/ LoadPinned(r) \/ LoadFirst(r)
  PROVE  \A x \in Requests : Asked(x)'
  <1>1. /\ hist \in [Requests -> Hists] /\ pc \in [Requests -> Waiting \cup {"idle", "page", "answered", "done"}]
        /\ DOMAIN job = Requests /\ DOMAIN ctx = Requests
    BY DEF MInv, IInv, TypeOK
  <1>2. hist[r].made = {} /\ hist[r].asked = {}
    <2>1. CASE pc[r] = "idle"
      BY <2>1 DEF MInv, IInv, Course, NoHist
    <2>2. CASE pc[r] \in Before
      BY <2>2 DEF MInv, Asked, Before
    <2> QED
      BY <2>1, <2>2 DEF Begin, CheckMember, CheckMute, CheckReply, CheckSource, ReadSources,
         CheckPin, CheckMine, ListRows, LoadReplies, NextPage, ListChats, LoadPinned, LoadFirst,
         Test, At, Before, Working, Waiting
  <1>3. /\ UNCHANGED <<msg, mention>>
        /\ \A x \in Requests \ {r} :
             pc'[x] = pc[x] /\ job'[x] = job[x] /\ ctx'[x] = ctx[x] /\ hist'[x] = hist[x]
        /\ hist'[r].made = hist[r].made /\ hist'[r].asked = hist[r].asked
        /\ pc'[r] # "mention"
    <2>1. CASE Begin(r)
      <3>1. PICK j \in RequestJobs :
              /\ job' = [job EXCEPT ![r] = j]
              /\ hist' = [hist EXCEPT ![r].bars = Bars(j), ![r].dead = Deleted]
              /\ pc' = [pc EXCEPT ![r] = Start(j.op)]
        BY <2>1 DEF Begin, Goto
      <3>2. Start(j.op) # "mention"
        BY JobTypes DEF Start, Ops
      <3>3. /\ hist[r] \in Hists
            /\ hist'[r] = [[hist[r] EXCEPT !.bars = Bars(j)] EXCEPT !.dead = Deleted]
            /\ \A x \in Requests \ {r} : hist'[x] = hist[x]
        BY <1>1, <3>1
      <3>4. hist'[r].made = hist[r].made /\ hist'[r].asked = hist[r].asked
        BY <3>3 DEF Hists
      <3>5. pc'[r] = Start(j.op) /\ \A x \in Requests \ {r} : pc'[x] = pc[x] /\ job'[x] = job[x]
        BY <1>1, <3>1
      <3> QED
        BY <2>1, <3>2, <3>3, <3>4, <3>5 DEF Begin, db
    <2>2. CASE CheckMember(r) \/ CheckMute(r) \/ CheckReply(r) \/ CheckSource(r) \/ CheckPin(r)
                 \/ CheckMine(r) \/ ReadSources(r)
      BY <1>1, <2>2 DEF CheckMember, CheckMute, CheckReply, CheckSource, CheckPin, CheckMine,
         ReadSources, Test, Goto, Keep, db
    <2>3. CASE ListRows(r)
      <3>1. PICK there \in {"answered", "replies"} : \E k : Goto(r, there) /\ Keep(r, k)
        BY <2>3 DEF ListRows
      <3> DEFINE wanted == IF ctx[r].before = 0 THEN In(job[r].chat) ELSE hist[r].wanted
      <3>2. /\ hist[r] \in Hists /\ hist'[r] = [hist[r] EXCEPT !.wanted = wanted]
            /\ \A x \in Requests \ {r} : hist'[x] = hist[x]
        BY <1>1, <2>3 DEF ListRows
      <3> HIDE DEF wanted
      <3>3. hist'[r].made = hist[r].made /\ hist'[r].asked = hist[r].asked
        BY <3>2 DEF Hists
      <3> QED
        BY <1>1, <2>3, <3>1, <3>2, <3>3 DEF ListRows, Goto, Keep, db
    <2>4. CASE NextPage(r)
      BY <1>1, <2>4 DEF NextPage, Goto, Keep, db, Hists
    <2>5. CASE LoadReplies(r) \/ ListChats(r) \/ LoadPinned(r)
      BY <1>1, <2>5 DEF LoadReplies, ListChats, LoadPinned, Goto, Keep, db
    <2>6. CASE LoadFirst(r)
      <3>1. PICK there \in {"answered", "first"} : \E k : Goto(r, there) /\ Keep(r, k)
        BY <2>6 DEF LoadFirst
      <3> QED
        BY <1>1, <2>6, <3>1 DEF LoadFirst, Goto, Keep, db
    <2> QED
      BY <2>1, <2>2, <2>3, <2>4, <2>5, <2>6
  <1>4. Asked(r)'
    BY <1>2, <1>3, NothingAsked
  <1> QED
    BY <1>3, <1>4, OthersAside, AsideAsked DEF MInv, IInv

\* A message is stored: its number was free.
LEMMA InsertAsked ==
  ASSUME MInv, NEW r \in Requests, NEW words, NEW reply, NEW there, NEW k,
         Insert(r, words, reply), UNCHANGED job,
         pc' = [pc EXCEPT ![r] = there], ctx' = [ctx EXCEPT ![r] = k],
         there \in {"answered", "people", "copy"},
         there = "people" => hist[r].made = {},
         hist[r].asked = {}
  PROVE  \A x \in Requests : Asked(x)'
  <1>1. PICK n \in Messages, t \in ctx[r].floor .. (clock + 1) :
          /\ msg[n].is = "none"
          /\ msg' = [msg EXCEPT ![n] = [is |-> "live", chat |-> job[r].chat, sender |-> job[r].user,
                                        at |-> t, words |-> words, reply |-> reply]]
          /\ hist' = [hist EXCEPT ![r].made = @ \cup {n}]
          /\ UNCHANGED mention
    BY DEF Insert
  <1>2. /\ hist \in [Requests -> Hists] /\ DOMAIN pc = Requests /\ DOMAIN ctx = Requests
        /\ msg \in [Messages -> Rows]
    BY DEF MInv, IInv, TypeOK
  <1>3. /\ hist'[r].made = hist[r].made \cup {n} /\ hist'[r].asked = {}
        /\ \A x \in Requests \ {r} : hist'[x] = hist[x]
    BY <1>1, <1>2 DEF Hists
  <1>4. msg'[n].is = "live" /\ \A m \in Messages \ {n} : msg'[m] = msg[m]
    BY <1>1, <1>2
  <1>5. RowsGoOn
    BY <1>1, <1>4 DEF RowsGoOn, Stored
  <1>6. Asked(r)'
    <2>1. \A m \in hist'[r].made : msg'[m].is # "none"
      BY <1>2, <1>3, <1>4 DEF MInv, Asked, Hists
    <2>2. pc'[r] = there
      BY <1>2
    <2> QED
      BY <1>3, <2>1, <2>2 DEF Asked, Named, Before, Working, Waiting
  <1>7. \A x \in Requests \ {r} : Aside(x)
    BY <1>1, <1>2, <1>3 DEF Aside
  <1> QED
    BY <1>5, <1>6, <1>7, AsideAsked DEF MInv, IInv

LEMMA StoreAsked ==
  ASSUME MInv, NEW r \in Requests, ~Refuse(r), Store(r) \/ Copy(r)
  PROVE  \A x \in Requests : Asked(x)'
  <1>1. DOMAIN ctx = Requests /\ ctx = [x \in Requests |-> ctx[x]]
    BY DEF MInv, IInv, TypeOK
  <1>2. CASE Store(r)
    <2>1. PICK m : Insert(r, TRUE, m) /\ UNCHANGED <<job, ctx>>
                   /\ Goto(r, IF job[r].names = {} THEN "answered" ELSE "people")
      BY <1>2 DEF Store
    <2> DEFINE there == IF job[r].names = {} THEN "answered" ELSE "people"
    <2>2. hist[r].made = {} /\ hist[r].asked = {}
      BY <1>2 DEF Store, At, MInv, Asked, Before, Working, Waiting
    <2>3. pc' = [pc EXCEPT ![r] = there] /\ ctx' = [ctx EXCEPT ![r] = ctx[r]]
          /\ there \in {"answered", "people", "copy"}
      BY <1>1, <2>1 DEF Goto
    <2> HIDE DEF there
    <2> QED
      BY <2>1, <2>2, <2>3, InsertAsked
  <1>3. CASE Copy(r)
    <2>1. PICK p \in ctx[r].got :
            /\ Insert(r, p[2], None)
            /\ Goto(r, IF ctx[r].got = {p} THEN "answered" ELSE "copy")
            /\ Keep(r, [ctx[r] EXCEPT !.got = @ \ {p}])
            /\ UNCHANGED job
      BY <1>3 DEF Copy
    <2> DEFINE there == IF ctx[r].got = {p} THEN "answered" ELSE "copy"
               k == [[ctx[r] EXCEPT !.got = @ \ {p}] EXCEPT !.floor = clock]
    <2>2. hist[r].asked = {}
      BY <1>3 DEF Copy, At, MInv, Asked, Working, Waiting
    <2>3. /\ pc' = [pc EXCEPT ![r] = there] /\ ctx' = [ctx EXCEPT ![r] = k]
          /\ there \in {"answered", "people", "copy"} /\ there # "people"
      BY <2>1 DEF Goto, Keep
    <2> HIDE DEF there, k
    <2> QED
      BY <2>1, <2>2, <2>3, InsertAsked
  <1> QED
    BY <1>2, <1>3

\* The participants are asked for, once the message is stored.
LEMMA PeopleAsked ==
  ASSUME MInv, NEW r \in Requests, ReadPeople(r)
  PROVE  \A x \in Requests : Asked(x)'
  <1> DEFINE others == members[job[r].chat] \ {job[r].user}
             named == {u \in others : Name[u] \in job[r].names}
  <1>1. PICK S \in SUBSET named :
          /\ \A u \in named : \E v \in S : Name[v] = Name[u]
          /\ Goto(r, IF S = {} THEN "answered" ELSE "mention")
          /\ Keep(r, [ctx[r] EXCEPT !.todo = S])
    BY DEF ReadPeople
  <1>2. /\ hist \in [Requests -> Hists] /\ DOMAIN pc = Requests /\ ctx \in [Requests -> Ctxs]
    BY DEF MInv, IInv, TypeOK
  <1>3. /\ hist' = [hist EXCEPT ![r].asked = others] /\ UNCHANGED <<msg, mention, job>>
        /\ pc[r] = "people"
    BY DEF ReadPeople, db, At
  <1>4. /\ hist'[r].made = hist[r].made /\ hist'[r].asked = others
        /\ \A x \in Requests \ {r} : hist'[x] = hist[x]
    BY <1>2, <1>3 DEF Hists
  <1>5. /\ pc'[r] = IF S = {} THEN "answered" ELSE "mention"
        /\ ctx'[r].todo = S
        /\ \A x \in Requests \ {r} : pc'[x] = pc[x] /\ ctx'[x] = ctx[x]
    BY <1>1, <1>2 DEF Goto, Keep, Ctxs
  <1>6. Asked(r)'
    <2>1. /\ \A m \in hist'[r].made : msg'[m].is # "none"
          /\ \A m, k \in hist'[r].made : m = k
      BY <1>3, <1>4 DEF MInv, Asked
    <2>2. Named(r)'
      <3> SUFFICES ASSUME NEW m \in hist'[r].made, NEW u \in others, Name[u] \in job[r].names
                   PROVE  \E v \in others : Name[v] = Name[u] /\ pc'[r] = "mention" /\ v \in ctx'[r].todo
        BY <1>3, <1>4 DEF Named
      <3>1. PICK v \in S : Name[v] = Name[u]
        BY <1>1
      <3>2. pc'[r] = "mention" /\ v \in others
        BY <1>5, <3>1
      <3> QED
        BY <1>5, <3>1, <3>2
    <2>3. S \subseteq others
      OBVIOUS
    <2> HIDE DEF others, named
    <2> QED
      BY <1>4, <1>5, <2>1, <2>2, <2>3 DEF Asked, Before, Working, Waiting
  <1>7. RowsGoOn /\ \A x \in Requests \ {r} : Aside(x)
    BY <1>3, <1>4, <1>5, OthersAside DEF MInv, IInv
  <1> QED
    BY <1>6, <1>7, AsideAsked DEF MInv, IInv

LEMMA MentionAsked ==
  ASSUME MInv, NEW r \in Requests, ~Refuse(r), Mention(r)
  PROVE  \A x \in Requests : Asked(x)'
  <1>1. PICK u \in ctx[r].todo, n \in hist[r].made :
          /\ mention' = mention \cup {<<u, n>>}
          /\ Keep(r, [ctx[r] EXCEPT !.todo = Left(@, u)])
          /\ Goto(r, IF Left(ctx[r].todo, u) = {} THEN "answered" ELSE "mention")
          /\ UNCHANGED <<msg, job, hist>>
    BY DEF Mention
  <1>2. /\ DOMAIN pc = Requests /\ ctx \in [Requests -> Ctxs] /\ Asked(r) /\ pc[r] = "mention"
    BY DEF MInv, IInv, TypeOK, Mention, At
  <1>3. /\ pc'[r] = IF ctx[r].todo \ {u} = {} THEN "answered" ELSE "mention"
        /\ ctx'[r].todo = ctx[r].todo \ {u}
        /\ \A x \in Requests \ {r} : pc'[x] = pc[x] /\ ctx'[x] = ctx[x]
    BY <1>1, <1>2 DEF Goto, Keep, Ctxs, Left
  <1>4. Named(r)'
    <2> SUFFICES ASSUME NEW m \in hist[r].made, NEW w \in hist[r].asked, Stored(m),
                        Name[w] \in job[r].names
                 PROVE  \E v \in hist[r].asked :
                          /\ Name[v] = Name[w]
                          /\ \/ <<v, m>> \in mention' \cup hist[r].cleared
                             \/ pc'[r] = "mention" /\ v \in ctx'[r].todo
      BY <1>1 DEF Named, Stored
    <2>1. PICK v \in hist[r].asked :
            /\ Name[v] = Name[w]
            /\ <<v, m>> \in mention \cup hist[r].cleared \/ v \in ctx[r].todo
      BY <1>2 DEF Asked, Named
    <2>2. m = n
      BY <1>2 DEF Asked
    <2>3. CASE v = u
      BY <1>1, <2>1, <2>2, <2>3
    <2>4. CASE v # u /\ v \in ctx[r].todo
      BY <1>3, <2>1, <2>4
    <2> QED
      BY <1>1, <2>1, <2>3, <2>4
  <1>5. Asked(r)'
    BY <1>1, <1>2, <1>3, <1>4 DEF Asked, Before, Working, Waiting
  <1>6. RowsGoOn /\ \A x \in Requests \ {r} : Aside(x)
    BY <1>1, <1>3 DEF RowsGoOn, Aside, Stored
  <1> QED
    BY <1>5, <1>6, AsideAsked DEF MInv, IInv

\* What is deleted, cleared, pinned or forgotten.
LEMMA ChangesAsked ==
  ASSUME MInv, NEW r \in Requests, ~Refuse(r),
         Delete(r) \/ Clear(r) \/ SetPin(r) \/ Unpin(r) \/ Forget(r)
  PROVE  \A x \in Requests : Asked(x)'
  <1>1. /\ hist \in [Requests -> Hists] /\ DOMAIN pc = Requests /\ msg \in [Messages -> Rows]
        /\ hist[r].made = {} /\ hist[r].asked = {}
    BY DEF MInv, IInv, TypeOK, Asked, Before, Working, Waiting, At, Delete, Clear, SetPin, Unpin,
       Forget
  <1>2. /\ UNCHANGED <<job, ctx>>
        /\ \A x \in Requests \ {r} : pc'[x] = pc[x]
        /\ pc'[r] \in {"answered", "done"}
    BY <1>1 DEF Delete, Clear, SetPin, Unpin, Forget, Goto
  <1>3. \A x \in Requests :
          /\ hist'[x].made = hist[x].made /\ hist'[x].asked = hist[x].asked
          /\ hist[x].cleared \subseteq hist'[x].cleared
    <2>1. CASE Forget(r)
      BY <1>1, <2>1 DEF Forget, Hists
    <2> QED
      BY <2>1 DEF Delete, Clear, SetPin, Unpin
  <1>4. RowsGoOn
    <2>1. CASE Delete(r)
      BY <1>1, <2>1 DEF Delete, SoftDeleted, RowsGoOn, Stored, Rows
    <2>2. CASE Clear(r)
      BY <1>1, <2>2 DEF Clear, NoMessage, RowsGoOn, Stored
    <2> QED
      BY <2>1, <2>2 DEF SetPin, Unpin, Forget, RowsGoOn, Stored
  <1>5. \A x \in Requests : \A p \in mention :
          p[2] \in hist[x].made /\ Stored(p[2])' => p \in mention' \cup hist'[x].cleared
    <2>1. CASE Clear(r)
      <3>1. \A m \in In(job[r].chat) : msg'[m].is = "gone"
        BY <1>1, <2>1 DEF Clear, NoMessage, In
      <3> QED
        BY <2>1, <3>1 DEF Clear, Stored
    <2>2. CASE Forget(r)
      <3> DEFINE mine == {p \in mention : p[1] = job[r].user /\ msg[p[2]].chat = job[r].chat}
                 gone(x) == {p \in mine : p[2] \in hist[x].made}
      <3>1. /\ mention' = mention \ mine
            /\ hist' = [x \in Requests |-> [hist[x] EXCEPT !.cleared = @ \cup gone(x)]]
        BY <2>2 DEF Forget
      <3>2. ASSUME NEW x \in Requests PROVE hist'[x].cleared = hist[x].cleared \cup gone(x)
        <4>1. hist'[x] = [hist[x] EXCEPT !.cleared = @ \cup gone(x)] /\ hist[x] \in Hists
          BY <1>1, <3>1
        <4> HIDE DEF gone
        <4> QED
          BY <4>1 DEF Hists
      <3> QED
        BY <3>1, <3>2
    <2> QED
      BY <2>1, <2>2 DEF Delete, SetPin, Unpin
  <1>6. \A x \in Requests \ {r} : Aside(x)
    BY <1>2, <1>3, <1>5 DEF Aside
  <1>7. Asked(r)'
    BY <1>1, <1>2, <1>3, NothingAsked
  <1> QED
    BY <1>4, <1>6, <1>7, AsideAsked DEF MInv, IInv

LEMMA NextMInv == MInv /\ [Next]_vars => MInv'
  <1> SUFFICES ASSUME MInv, [Next]_vars PROVE MInv'
    OBVIOUS
  <1>1. IInv'
    BY NextIInv DEF MInv
  <1>2. ASSUME NEW r \in Requests, Begin(r) \/ Writes(r) \/ Reads(r) \/ Fail(r)
        PROVE  \A x \in Requests : Asked(x)'
    <2>1. CASE Refuse(r)
      BY <2>1, RefuseAsked
    <2>2. CASE ~Refuse(r)
      BY <1>2, <2>2, ReadingAsked, StoreAsked, PeopleAsked, MentionAsked, ChangesAsked
      DEF Writes, Reads, Fail
    <2> QED
      BY <2>1, <2>2
  <1>3. CASE (ComeAndGo \/ ToggleMute) /\ Relieve
    <2>1. UNCHANGED <<msg, mention, pc, job, ctx>>
      BY <1>3 DEF ComeAndGo, ToggleMute, db
    <2>2. \A x \in Requests : /\ hist'[x].made = hist[x].made /\ hist'[x].asked = hist[x].asked
                              /\ hist'[x].cleared = hist[x].cleared
      <3> TAKE x \in Requests
      <3> DEFINE bars == {b \in hist[x].bars : b \in Bars(job[x])'}
      <3>1. hist'[x] = [hist[x] EXCEPT !.bars = bars] /\ hist[x] \in Hists
        BY <1>3 DEF Relieve, MInv, IInv, TypeOK
      <3> HIDE DEF bars
      <3> QED
        BY <3>1 DEF Hists
    <2>3. RowsGoOn /\ \A x \in Requests : Aside(x)
      BY <2>1, <2>2 DEF RowsGoOn, Aside, Stored
    <2> QED
      BY <1>1, <2>3, AsideAsked DEF MInv, IInv
  <1>4. CASE UNCHANGED vars
    BY <1>1, <1>4 DEF vars, db, people, MInv, Asked, Named, Stored
  <1> QED
    BY <1>1, <1>2, <1>3, <1>4 DEF Next, MInv

LEMMA InitMInv == Init => MInv
  <1> SUFFICES ASSUME Init PROVE MInv
    OBVIOUS
  <1>1. \A r \in Requests : Asked(r)
    BY DEF Init, Asked, Named, NoHist
  <1> QED
    BY <1>1, InitIInv DEF MInv

(***************************************************************************)
(* AnsweredIsMentioned in every behaviour: a send that is answered has a   *)
(* row in member_mentions for every name in it that another participant    *)
(* had when it asked, whatever is cleared, deleted or failing meanwhile    *)
(* (messages.rs lines 87, 549-594).                                        *)
(***************************************************************************)
THEOREM AnswersMention == Spec => []AnsweredIsMentioned
  <1>1. Spec => []MInv
    BY InitMInv, NextMInv, PTL DEF Spec
  <1> QED
    BY <1>1, MInvAnswers, PTL

----------------------------------------------------------------------------
\* What a client that pages back is given

\* What it was given, with the page it is getting.
Shown(r) == ctx[r].rows \cup hist[r].seen

\* The one message of its chat with its created_at.
Alone(m, c) == m \in In(c) /\ \A k \in In(c) : msg[k].at = msg[m].at => k = m

(***************************************************************************)
(* Of a list that goes on: nothing it was given is before the created_at   *)
(* it goes on from, and what it has still to be given is.  It was given    *)
(* nothing as long as there is none to go on from.                         *)
(***************************************************************************)
Paged(r) ==
  /\ ctx[r].rows \cap hist[r].seen = {}
  /\ pc[r] \notin {"replies", "page"} => ctx[r].rows = {}
  /\ ctx[r].before = 0 => Shown(r) = {} /\ hist[r].wanted = {}
  /\ \A m \in Shown(r) \cup hist[r].wanted : msg[m].is # "none"
  /\ \A m \in Shown(r) \cap In(job[r].chat) : msg[m].at >= ctx[r].before
  /\ \A m \in hist[r].wanted :
       Alone(m, job[r].chat) => m \in Shown(r) \/ msg[m].at < ctx[r].before
  /\ pc[r] = "answered" =>
       \A m \in hist[r].wanted : Alone(m, job[r].chat) => m \in hist[r].seen

\* No row has the created_at 0, which stands for "from the newest".
Timed == \A m \in Messages : Stored(m) => msg[m].at > 0

AllPaged == \A r \in Requests : job[r].op = "list" => Paged(r)

PInv == IInv /\ Timed /\ AllPaged

LEMMA PInvPages == PInv => PagesAreComplete
  <1> SUFFICES ASSUME PInv, NEW r \in Requests, job[r].op = "list"
               PROVE  /\ ctx[r].rows \cap hist[r].seen = {}
                      /\ pc[r] = "answered" =>
                           \A m \in hist[r].wanted \cap In(job[r].chat) :
                             (\A k \in In(job[r].chat) : msg[k].at = msg[m].at => k = m)
                               => m \in hist[r].seen
    BY DEF PagesAreComplete
  <1>1. Paged(r)
    BY DEF PInv, AllPaged
  <1> QED
    BY <1>1 DEF Paged, Alone

\* The rows of a chat go all at once; until then none goes or gets another
\* created_at, and what comes was never there.
RowsHold ==
  /\ \A m \in Messages : msg[m].is # "none" => msg'[m].is # "none"
  /\ \A c \in Chats :
       \/ In(c)' = {}
       \/ /\ In(c) \subseteq In(c)'
          /\ \A m \in In(c)' : \/ msg[m].is = "none"
                               \/ m \in In(c) /\ msg'[m].at = msg[m].at

\* What a step leaves of a request that does not make it.
Unturned(x) ==
  /\ pc'[x] = pc[x] /\ job'[x] = job[x]
  /\ ctx'[x] = ctx[x]
  /\ hist'[x].seen = hist[x].seen /\ hist'[x].wanted = hist[x].wanted

LEMMA UnturnedPaged ==
  ASSUME TypeOK, RowsHold, NEW x \in Requests, Unturned(x), job[x].op = "list", Paged(x)
  PROVE  Paged(x)'
  <1>1. /\ job[x].chat \in Chats
        /\ hist[x].seen \subseteq Messages /\ hist[x].wanted \subseteq Messages
        /\ ctx[x].rows \subseteq Messages
    BY JobTypes DEF TypeOK, Hists, Ctxs, NoJob
  <1> SUFFICES ASSUME NEW c \in Chats, job[x].chat = c PROVE Paged(x)'
    BY <1>1
  <1>2. Shown(x)' = Shown(x) /\ job'[x].chat = c /\ hist'[x].wanted = hist[x].wanted
    BY DEF Shown, Unturned
  <1>3. \A m \in Shown(x) \cup hist[x].wanted : msg[m].is # "none" /\ msg'[m].is # "none"
    BY <1>1 DEF Paged, RowsHold, Shown
  <1>4. ASSUME NEW m \in Shown(x) \cup hist[x].wanted, m \in In(c)'
        PROVE  m \in In(c) /\ msg'[m].at = msg[m].at
    BY <1>1, <1>3, <1>4 DEF RowsHold
  <1>5. ASSUME NEW m \in hist[x].wanted, Alone(m, c)' PROVE Alone(m, c)
    <2>1. m \in In(c) /\ msg'[m].at = msg[m].at
      BY <1>4, <1>5 DEF Alone
    <2>2. ASSUME NEW k \in In(c), msg[k].at = msg[m].at PROVE k = m
      <3>1. k \in Messages /\ msg[k].is # "none"
        BY DEF In, Stored
      <3>2. k \in In(c)' /\ msg'[k].at = msg[k].at
        BY <1>1, <1>5, <2>2, <3>1 DEF RowsHold, Alone
      <3> QED
        BY <1>5, <2>1, <2>2, <3>2 DEF Alone
    <2> QED
      BY <2>1, <2>2 DEF Alone
  <1>6. \A m \in hist[x].wanted : Alone(m, c)' => msg'[m].at = msg[m].at
    BY <1>4 DEF Alone
  <1>7. \A m \in Shown(x)' \cap In(c)' : msg'[m].at >= ctx'[x].before
    BY <1>2, <1>4 DEF Paged, Unturned
  <1>8. \A m \in hist'[x].wanted :
          Alone(m, c)' => m \in Shown(x)' \/ msg'[m].at < ctx'[x].before
    BY <1>2, <1>5, <1>6 DEF Paged, Unturned
  <1>9. pc'[x] = "answered" => \A m \in hist'[x].wanted : Alone(m, c)' => m \in hist'[x].seen
    BY <1>2, <1>5 DEF Paged, Unturned
  <1> QED
    BY <1>2, <1>3, <1>7, <1>8, <1>9 DEF Paged, Unturned

LEMMA OthersUnturned ==
  ASSUME TypeOK, NEW r \in Requests, Begin(r) \/ Writes(r) \/ Reads(r) \/ Fail(r),
         NEW x \in Requests \ {r}
  PROVE  Unturned(x)
  <1>1. /\ hist \in [Requests -> Hists] /\ DOMAIN pc = Requests
        /\ DOMAIN job = Requests /\ DOMAIN ctx = Requests
    BY DEF TypeOK
  <1>2. CASE Refuse(r)
    BY <1>1, <1>2 DEF Refuse, Goto, Unturned
  <1>3. CASE ~Refuse(r) /\ Forget(r)
    <2> DEFINE gone == {p \in {q \in mention : q[1] = job[r].user /\ msg[q[2]].chat = job[r].chat} :
                          p[2] \in hist[x].made}
    <2>1. hist'[x] = [hist[x] EXCEPT !.cleared = @ \cup gone] /\ hist[x] \in Hists
      BY <1>1, <1>3 DEF Forget
    <2> HIDE DEF gone
    <2>2. hist'[x].seen = hist[x].seen /\ hist'[x].wanted = hist[x].wanted
      BY <2>1 DEF Hists
    <2> QED
      BY <1>1, <1>3, <2>2 DEF Forget, Goto, Unturned
  <1>4. CASE ~Refuse(r) /\ (Store(r) \/ Copy(r))
    <2>1. PICK w, k : Insert(r, w, k)
      BY <1>4 DEF Store, Copy
    <2>2. hist'[x] = hist[x]
      BY <1>1, <2>1 DEF Insert
    <2>3. pc'[x] = pc[x] /\ ctx'[x] = ctx[x] /\ job' = job
      <3>1. CASE Store(r)
        <4>1. PICK m : UNCHANGED <<job, ctx>> /\ Goto(r, IF job[r].names = {} THEN "answered" ELSE "people")
          BY <1>4, <3>1 DEF Store
        <4> QED
          BY <1>1, <4>1 DEF Goto
      <3>2. CASE Copy(r)
        <4>1. PICK p \in ctx[r].got : /\ Goto(r, IF ctx[r].got = {p} THEN "answered" ELSE "copy")
                                      /\ Keep(r, [ctx[r] EXCEPT !.got = @ \ {p}])
                                      /\ UNCHANGED job
          BY <1>4, <3>2 DEF Copy
        <4> QED
          BY <1>1, <4>1 DEF Goto, Keep
      <3> QED
        BY <1>4, <3>1, <3>2
    <2> QED
      BY <2>2, <2>3 DEF Unturned
  <1>5. CASE ~Refuse(r) /\ Begin(r)
    <2>1. PICK j : /\ job' = [job EXCEPT ![r] = j]
                   /\ hist' = [hist EXCEPT ![r].bars = Bars(j), ![r].dead = Deleted]
                   /\ Goto(r, Start(j.op)) /\ UNCHANGED ctx
      BY <1>5 DEF Begin
    <2> QED
      BY <1>1, <2>1 DEF Goto, Unturned
  <1>6. CASE ~Refuse(r) /\ (CheckMember(r) \/ CheckMute(r) \/ CheckReply(r) \/ CheckSource(r)
                            \/ ReadSources(r) \/ CheckPin(r) \/ CheckMine(r))
    BY <1>1, <1>6
    DEF CheckMember, CheckMute, CheckReply, CheckSource, ReadSources, CheckPin, CheckMine, Test,
       Goto, Keep, Unturned
  <1>7. CASE ~Refuse(r) /\ (Delete(r) \/ Clear(r) \/ SetPin(r) \/ Unpin(r))
    BY <1>1, <1>7 DEF Delete, Clear, SetPin, Unpin, Goto, Unturned
  <1>8. CASE ~Refuse(r) /\ Mention(r)
    <2>1. PICK k, there : Keep(r, k) /\ Goto(r, there) /\ UNCHANGED <<job, hist>>
      BY <1>8 DEF Mention
    <2> QED
      BY <1>1, <2>1 DEF Goto, Keep, Unturned
  <1>9. CASE ReadPeople(r)
    <2>1. PICK k, there : Keep(r, k) /\ Goto(r, there)
      BY <1>9 DEF ReadPeople
    <2>2. hist'[x] = hist[x] /\ job' = job
      BY <1>1, <1>9 DEF ReadPeople
    <2> QED
      BY <1>1, <2>1, <2>2 DEF Goto, Keep, Unturned
  <1>10. CASE ListRows(r)
    <2>1. PICK there \in {"answered", "replies"} : \E k : Goto(r, there) /\ Keep(r, k)
      BY <1>10 DEF ListRows
    <2> DEFINE wanted == IF ctx[r].before = 0 THEN In(job[r].chat) ELSE hist[r].wanted
    <2>2. hist' = [hist EXCEPT ![r].wanted = wanted] /\ job' = job
      BY <1>1, <1>10 DEF ListRows
    <2> HIDE DEF wanted
    <2> QED
      BY <1>1, <2>1, <2>2 DEF Goto, Keep, Unturned
  <1>11. CASE LoadReplies(r) \/ NextPage(r) \/ ListChats(r) \/ LoadPinned(r)
    BY <1>1, <1>11 DEF LoadReplies, NextPage, ListChats, LoadPinned, Goto, Keep, Unturned
  <1>12. CASE LoadFirst(r)
    <2>1. PICK there \in {"answered", "first"} : \E k : Goto(r, there) /\ Keep(r, k)
      BY <1>12 DEF LoadFirst
    <2> QED
      BY <1>1, <1>12, <2>1 DEF LoadFirst, db, Goto, Keep, Unturned
  <1> QED
    BY <1>2, <1>3, <1>4, <1>5, <1>6, <1>7, <1>8, <1>9, <1>10, <1>11, <1>12
    DEF Writes, Reads, Fail

\* The table, in a step that stores.
LEMMA InsertHolds ==
  ASSUME TypeOK, Timed, NEW r \in Requests, NEW words, NEW reply, Insert(r, words, reply)
  PROVE  RowsHold /\ Timed'
  <1>1. PICK n \in Messages, t \in ctx[r].floor .. (clock + 1) :
          /\ t > 0 /\ msg[n].is = "none"
          /\ msg' = [msg EXCEPT ![n] = [is |-> "live", chat |-> job[r].chat, sender |-> job[r].user,
                                        at |-> t, words |-> words, reply |-> reply]]
    BY DEF Insert
  <1>2. msg \in [Messages -> Rows]
    BY DEF TypeOK
  <1>3. msg'[n].is = "live" /\ msg'[n].at = t /\ \A m \in Messages \ {n} : msg'[m] = msg[m]
    BY <1>1, <1>2
  <1>4. \A c : In(c) \subseteq In(c)' /\ \A m \in In(c)' : m = n \/ m \in In(c)
    BY <1>1, <1>3 DEF In, Stored
  <1>5. \A c : n \notin In(c)
    BY <1>1 DEF In, Stored
  <1>6. \A c : \A m \in In(c) : m \in Messages \ {n} /\ msg'[m].at = msg[m].at
    BY <1>3, <1>5 DEF In
  <1>7. RowsHold
    BY <1>1, <1>3, <1>4, <1>6 DEF RowsHold
  <1> QED
    BY <1>1, <1>3, <1>7 DEF Timed, Stored

LEMMA StepHolds ==
  ASSUME TypeOK, Timed, NEW r \in Requests, Begin(r) \/ Writes(r) \/ Reads(r) \/ Fail(r)
  PROVE  RowsHold /\ Timed'
  <1>1. msg \in [Messages -> Rows]
    BY DEF TypeOK
  <1>2. CASE msg' = msg
    BY <1>2 DEF RowsHold, In, Stored, Timed
  <1>3. CASE Delete(r)
    <2>1. \A m \in Messages : /\ msg'[m].at = msg[m].at /\ msg'[m].chat = msg[m].chat
                              /\ Stored(m)' <=> Stored(m)
                              /\ msg[m].is # "none" => msg'[m].is # "none"
      BY <1>1, <1>3 DEF Delete, SoftDeleted, Stored, Rows
    <2> QED
      BY <2>1 DEF RowsHold, In, Timed
  <1>4. CASE Clear(r) /\ ~Refuse(r)
    <2> DEFINE c == job[r].chat
    <2>1. \A m \in Messages : msg'[m] = IF m \in In(c) THEN [NoMessage EXCEPT !.is = "gone"] ELSE msg[m]
      BY <1>4 DEF Clear
    <2>2. \A m \in In(c) : msg'[m].is = "gone" /\ m \in Messages
      BY <2>1 DEF NoMessage, In
    <2>3. \A m \in Messages \ In(c) : msg'[m] = msg[m]
      BY <2>1
    <2>4. \A m \in Messages : Stored(m)' => m \notin In(c)
      BY <2>2 DEF Stored
    <2>5. \A m \in Messages : msg[m].is # "none" => msg'[m].is # "none"
      BY <2>2, <2>3
    <2>6. Timed'
      BY <2>3, <2>4 DEF Timed, Stored
    <2>7. \A d \in Chats : In(d)' \subseteq In(d) \ In(c)
      BY <2>3, <2>4 DEF In, Stored
    <2>8. \A d \in Chats : \A m \in In(d) : m \in Messages /\ msg[m].chat = d
      BY DEF In
    <2>9. \A d \in Chats : d = c => In(d)' = {}
      BY <2>7
    <2>10. \A d \in Chats : d # c => In(d) \cap In(c) = {}
      BY DEF In
    <2>11. \A d \in Chats : d # c => In(d) \subseteq In(d)'
      BY <2>3, <2>10 DEF In, Stored
    <2>12. \A d \in Chats : \A m \in In(d)' : m \in In(d) /\ msg'[m].at = msg[m].at
      BY <2>3, <2>7, <2>8
    <2> HIDE DEF c
    <2> QED
      BY <2>5, <2>6, <2>9, <2>11, <2>12 DEF RowsHold
  <1>5. CASE (Store(r) \/ Copy(r)) /\ ~Refuse(r)
    <2>1. PICK w, k : Insert(r, w, k)
      BY <1>5 DEF Store, Copy
    <2> QED
      BY <2>1, InsertHolds
  <1>6. CASE Refuse(r)
    BY <1>2, <1>6 DEF Refuse, db
  <1>7. CASE ~Refuse(r) /\ ~Delete(r) /\ ~Clear(r) /\ ~Store(r) /\ ~Copy(r)
    <2>1. CASE Begin(r) \/ CheckMember(r) \/ CheckMute(r) \/ CheckReply(r) \/ CheckSource(r)
                 \/ ReadSources(r) \/ CheckPin(r) \/ CheckMine(r)
      BY <1>2, <1>7, <2>1
      DEF Begin, CheckMember, CheckMute, CheckReply, CheckSource, ReadSources, CheckPin, CheckMine,
         Test, db
    <2>2. CASE ReadPeople(r) \/ ListRows(r) \/ LoadReplies(r) \/ NextPage(r) \/ ListChats(r)
                 \/ LoadPinned(r) \/ LoadFirst(r)
      <3>1. UNCHANGED db
        BY <2>2
        DEF ReadPeople, ListRows, LoadReplies, NextPage, ListChats, LoadPinned, LoadFirst
      <3> QED
        BY <1>2, <3>1 DEF db
    <2>3. CASE Mention(r) \/ SetPin(r) \/ Unpin(r) \/ Forget(r)
      BY <1>2, <1>7, <2>3 DEF Mention, SetPin, Unpin, Forget
    <2> QED
      BY <1>7, <2>1, <2>2, <2>3 DEF Writes, Reads, Fail
  <1> QED
    BY <1>3, <1>4, <1>5, <1>6, <1>7

LEMMA RefuseUnlisted ==
  ASSUME TypeOK, NEW r \in Requests, Refuse(r)
  PROVE  job'[r].op # "list"
  BY DEF Refuse, NoJob, TypeOK

\* The operations that are not a list.
LEMMA BesidesUnlisted ==
  ASSUME IInv, NEW r \in Requests, ~Refuse(r),
         Writes(r) \/ Forget(r) \/ ListChats(r) \/ LoadPinned(r) \/ LoadFirst(r)
  PROVE  job'[r].op # "list"
  <1>1. /\ pc[r] \in Waiting \ {"mine", "rows", "replies"}
        /\ job' = job
    <2>1. CASE CheckMember(r) \/ CheckMute(r) \/ CheckReply(r) \/ CheckSource(r)
                 \/ ReadSources(r) \/ CheckPin(r)
      BY <2>1
      DEF CheckMember, CheckMute, CheckReply, CheckSource, ReadSources, CheckPin, Test, At, Waiting
    <2>2. CASE Delete(r) \/ Clear(r) \/ SetPin(r) \/ Unpin(r) \/ Forget(r) \/ ListChats(r)
                 \/ LoadPinned(r)
      BY <2>2 DEF Delete, Clear, SetPin, Unpin, Forget, ListChats, LoadPinned, At, Waiting
    <2>3. CASE Store(r)
      BY <2>3 DEF Store, At, Waiting
    <2>4. CASE Copy(r)
      BY <2>4 DEF Copy, At, Waiting
    <2>5. CASE ReadPeople(r)
      BY <2>5 DEF ReadPeople, At, Waiting
    <2>6. CASE Mention(r)
      BY <2>6 DEF Mention, At, Waiting
    <2>7. CASE LoadFirst(r)
      BY <2>7 DEF LoadFirst, At, Waiting
    <2> QED
      BY <2>1, <2>2, <2>3, <2>4, <2>5, <2>6, <2>7 DEF Writes
  <1>2. Fits(job[r].op, pc[r])
    BY <1>1 DEF IInv, Course, Working
  <1> QED
    BY <1>1, <1>2 DEF Fits, Waiting

LEMMA BeginPaged ==
  ASSUME IInv, NEW r \in Requests, Begin(r)
  PROVE  Paged(r)'
  <1>1. PICK j \in RequestJobs :
          /\ job' = [job EXCEPT ![r] = j]
          /\ hist' = [hist EXCEPT ![r].bars = Bars(j), ![r].dead = Deleted]
          /\ pc' = [pc EXCEPT ![r] = Start(j.op)] /\ UNCHANGED ctx
    BY DEF Begin, Goto
  <1>2. ctx[r] = NoCtx /\ hist[r] = NoHist
    BY DEF Begin, At, IInv, Course
  <1>3. pc'[r] # "answered"
    BY <1>1, JobTypes DEF IInv, TypeOK, Start, Ops
  <1>4. hist'[r].seen = {} /\ hist'[r].wanted = {}
    <2>1. hist'[r] = [[NoHist EXCEPT !.bars = Bars(j)] EXCEPT !.dead = Deleted]
      BY <1>1, <1>2 DEF IInv, TypeOK
    <2>2. hist'[r].seen = NoHist.seen /\ hist'[r].wanted = NoHist.wanted
      BY <2>1, NoTypes DEF Hists
    <2> QED
      BY <2>2 DEF NoHist
  <1>5. /\ ctx'[r].rows = {} /\ ctx'[r].before = 0
        /\ hist'[r].seen = {} /\ hist'[r].wanted = {}
    <2>1. ctx'[r] = NoCtx
      BY <1>2 DEF Begin
    <2> QED
      BY <1>4, <2>1 DEF NoCtx
  <1> QED
    BY <1>3, <1>5 DEF Paged, Shown

LEMMA CheckMinePaged ==
  ASSUME PInv, NEW r \in Requests, CheckMine(r), ~Refuse(r), job[r].op = "list"
  PROVE  Paged(r)'
  <1>1. /\ pc[r] = "mine" /\ pc' = [pc EXCEPT ![r] = "rows"]
        /\ ctx' = [ctx EXCEPT ![r] = [ctx[r] EXCEPT !.floor = clock]]
        /\ UNCHANGED <<msg, job, hist>>
    BY DEF CheckMine, Test, At, Goto, Keep, db
  <1>2. pc'[r] = "rows" /\ ctx'[r].rows = ctx[r].rows /\ ctx'[r].before = ctx[r].before
    BY <1>1 DEF PInv, IInv, TypeOK, Ctxs
  <1>3. Paged(r)
    BY DEF PInv, AllPaged
  <1> QED
    BY <1>1, <1>2, <1>3 DEF Paged, Shown, Alone, In, Stored

LEMMA LoadRepliesPaged ==
  ASSUME PInv, NEW r \in Requests, LoadReplies(r), job[r].op = "list"
  PROVE  Paged(r)'
  <1> DEFINE got == ctx[r].got \cup
                      {<<m, Words(m)>> : m \in {n \in Messages : Stored(n) /\ \E k \in ctx[r].rows : msg[k].reply = n}}
  <1>1. /\ pc[r] = "replies" /\ pc' = [pc EXCEPT ![r] = "page"]
        /\ ctx' = [ctx EXCEPT ![r] = [[ctx[r] EXCEPT !.got = got] EXCEPT !.floor = clock]]
        /\ UNCHANGED <<msg, job, hist>>
    BY DEF LoadReplies, At, Goto, Keep, db
  <1> HIDE DEF got
  <1>2. pc'[r] = "page" /\ ctx'[r].rows = ctx[r].rows /\ ctx'[r].before = ctx[r].before
    BY <1>1 DEF PInv, IInv, TypeOK, Ctxs
  <1>3. Paged(r)
    BY DEF PInv, AllPaged
  <1> QED
    BY <1>1, <1>2, <1>3 DEF Paged, Shown, Alone, In, Stored

LEMMA NextPagePaged ==
  ASSUME PInv, NEW r \in Requests, NextPage(r), job[r].op = "list"
  PROVE  Paged(r)'
  <1>1. /\ pc[r] = "page" /\ pc' = [pc EXCEPT ![r] = "mine"]
        /\ ctx' = [ctx EXCEPT ![r] = [[ctx[r] EXCEPT !.rows = {}, !.got = {}] EXCEPT !.floor = clock]]
        /\ UNCHANGED <<msg, job>>
    BY DEF NextPage, At, Goto, Keep, db
  <1>2. pc'[r] = "mine" /\ ctx'[r].rows = {} /\ ctx'[r].before = ctx[r].before
    BY <1>1 DEF PInv, IInv, TypeOK, Ctxs
  <1>3. hist'[r].seen = Shown(r) /\ hist'[r].wanted = hist[r].wanted
    <2>1. /\ hist[r] \in Hists
          /\ hist'[r] = [hist[r] EXCEPT !.seen = @ \cup ctx[r].rows, !.dead = Deleted]
      BY DEF NextPage, PInv, IInv, TypeOK
    <2>2. hist'[r].seen = hist[r].seen \cup ctx[r].rows /\ hist'[r].wanted = hist[r].wanted
      BY <2>1 DEF Hists
    <2> QED
      BY <2>2 DEF Shown
  <1>4. Shown(r)' = Shown(r)
    BY <1>2, <1>3 DEF Shown
  <1>5. Paged(r)
    BY DEF PInv, AllPaged
  <1> QED
    BY <1>1, <1>2, <1>3, <1>4, <1>5 DEF Paged, Alone, In, Stored

\* A page: the newest of what is before the last row of the page before it.
LEMMA ListRowsPaged ==
  ASSUME PInv, NEW r \in Requests, ListRows(r), job[r].op = "list"
  PROVE  Paged(r)'
  <1> DEFINE b == ctx[r].before
             wanted == IF b = 0 THEN In(job[r].chat) ELSE hist[r].wanted
  <1> SUFFICES ASSUME NEW c, c = job[r].chat PROVE Paged(r)'
    OBVIOUS
  <1> DEFINE V == {m \in In(c) : b = 0 \/ msg[m].at < b}
  <1>1. /\ pc[r] = "rows" /\ UNCHANGED <<msg, job>>
        /\ hist' = [hist EXCEPT ![r].wanted = wanted]
    BY DEF ListRows, At, db
  <1>2. /\ msg \in [Messages -> Rows] /\ ctx[r] \in Ctxs /\ b \in Nat /\ hist[r] \in Hists
        /\ DOMAIN pc = Requests /\ DOMAIN ctx = Requests /\ DOMAIN hist = Requests
    BY DEF PInv, IInv, TypeOK, Ctxs
  <1>3. /\ ctx[r].rows = {} /\ Shown(r) = hist[r].seen /\ Paged(r)
    BY <1>1 DEF PInv, AllPaged, Paged, Shown
  <1>4. hist'[r].seen = hist[r].seen /\ hist'[r].wanted = wanted
    <2> HIDE DEF wanted
    <2> QED
      BY <1>1, <1>2 DEF Hists
  <1>5. \A m \in wanted : msg[m].is # "none"
    BY <1>3 DEF Paged, In, Stored
  <1>6. \A m \in Messages : msg[m].at \in Nat
    BY <1>2 DEF Rows
  <1>7. \A m \in wanted : Alone(m, c) => m \in hist[r].seen \/ m \in V
    BY <1>3 DEF Paged, Alone
  <1>8. \A m \in hist[r].seen \cap In(c) : b # 0 /\ msg[m].at >= b
    BY <1>3 DEF Paged, Shown
  <1>9. (\A m : Alone(m, c)' <=> Alone(m, c)) /\ In(c)' = In(c) /\ job'[r].chat = c
    BY <1>1 DEF Alone, In, Stored
  <1>10. CASE /\ V = {} /\ pc' = [pc EXCEPT ![r] = "answered"]
              /\ ctx' = [ctx EXCEPT ![r] = [ctx[r] EXCEPT !.floor = clock]]
    <2>1. pc'[r] = "answered" /\ ctx'[r].rows = {} /\ ctx'[r].before = b
      BY <1>2, <1>3, <1>10 DEF Ctxs
    <2>2. Shown(r)' = hist[r].seen
      BY <1>4, <2>1 DEF Shown
    <2>3. b = 0 => wanted = {}
      BY <1>10
    <2>4. \A m \in wanted : Alone(m, c) => m \in hist[r].seen
      BY <1>7, <1>10
    <2>5. b = 0 => hist[r].seen = {}
      BY <1>3 DEF Paged
    <2>6. \A m \in hist[r].seen : msg[m].is # "none"
      BY <1>3 DEF Paged
    <2> HIDE DEF V, wanted, b
    <2> QED
      BY <1>1, <1>4, <1>5, <1>8, <1>9, <2>1, <2>2, <2>3, <2>4, <2>5, <2>6 DEF Paged
  <1>11. ASSUME NEW S \in SUBSET V, NEW last \in S, IsPage(S, V),
                \A m \in S : msg[last].at <= msg[m].at,
                pc' = [pc EXCEPT ![r] = "replies"],
                NEW got,
                ctx' = [ctx EXCEPT ![r] = [[ctx[r] EXCEPT !.rows = S, !.got = got,
                                                          !.before = msg[last].at] EXCEPT !.floor = clock]]
         PROVE  Paged(r)'
    <2>1. pc'[r] = "replies" /\ ctx'[r].rows = S /\ ctx'[r].before = msg[last].at
      BY <1>2, <1>11 DEF Ctxs
    <2>2. Shown(r)' = S \cup hist[r].seen
      BY <1>4, <2>1 DEF Shown
    <2>3. last \in Messages /\ last \in In(c) /\ Stored(last) /\ msg[last].at > 0
      BY DEF In, PInv, Timed
    <2>4. S \cap hist[r].seen = {}
      <3>1. \A m \in S : m \in In(c) /\ m \in Messages /\ (b = 0 \/ msg[m].at < b)
        BY DEF In
      <3> QED
        BY <1>2, <1>6, <1>8, <3>1
    <2>5. \A m \in S \cup hist[r].seen : msg[m].is # "none"
      BY <1>3 DEF Paged, In, Stored
    <2>6. \A m \in (S \cup hist[r].seen) \cap In(c) : msg[m].at >= msg[last].at
      <3>1. \A m \in S : msg[m].at >= msg[last].at
        BY <1>6, <1>11, <2>3 DEF In
      <3>2. \A m \in hist[r].seen \cap In(c) : m \in Messages /\ msg[m].at >= b /\ msg[last].at < b
        BY <1>8 DEF In
      <3> QED
        BY <1>2, <1>6, <2>3, <3>1, <3>2
    <2>7. ASSUME NEW m \in wanted, Alone(m, c)
          PROVE  m \in S \cup hist[r].seen \/ msg[m].at < msg[last].at
      <3>1. CASE m \in V \ S
        <4>1. msg[last].at >= msg[m].at
          BY <1>11, <3>1 DEF IsPage
        <4>2. m \in Messages /\ last # m
          BY <3>1 DEF In
        <4>3. msg[last].at # msg[m].at
          BY <2>3, <2>7, <4>2 DEF Alone
        <4> QED
          BY <1>6, <2>3, <4>1, <4>2, <4>3
      <3> QED
        BY <1>7, <2>7, <3>1
    <2> HIDE DEF V, wanted, b
    <2> QED
      BY <1>1, <1>4, <1>5, <1>9, <2>1, <2>2, <2>3, <2>4, <2>5, <2>6, <2>7 DEF Paged
  <1>12. \/ /\ V = {} /\ pc' = [pc EXCEPT ![r] = "answered"]
            /\ ctx' = [ctx EXCEPT ![r] = [ctx[r] EXCEPT !.floor = clock]]
         \/ \E S \in SUBSET V, last \in V :
              /\ IsPage(S, V) /\ last \in S
              /\ \A m \in S : msg[last].at <= msg[m].at
              /\ pc' = [pc EXCEPT ![r] = "replies"]
              /\ \E got : ctx' = [ctx EXCEPT ![r] = [[ctx[r] EXCEPT !.rows = S, !.got = got,
                                                          !.before = msg[last].at] EXCEPT !.floor = clock]]
    <2>1. V = {m \in In(job[r].chat) : ctx[r].before = 0 \/ msg[m].at < ctx[r].before}
      OBVIOUS
    <2>2. CASE V = {} /\ Goto(r, "answered") /\ Keep(r, ctx[r])
      BY <2>2 DEF Goto, Keep
    <2>3. ASSUME NEW S \in SUBSET V, NEW last \in V, IsPage(S, V), last \in S,
                 \A m \in S : msg[last].at <= msg[m].at,
                 Goto(r, "replies"),
                 Keep(r, [ctx[r] EXCEPT !.rows = S, !.got = {<<m, Words(m)>> : m \in S},
                                        !.before = msg[last].at])
          PROVE  /\ pc' = [pc EXCEPT ![r] = "replies"]
                 /\ \E got : ctx' = [ctx EXCEPT ![r] = [[ctx[r] EXCEPT !.rows = S, !.got = got,
                                                          !.before = msg[last].at] EXCEPT !.floor = clock]]
      <3> DEFINE got == {<<m, Words(m)>> : m \in S}
      <3>1. ctx' = [ctx EXCEPT ![r] = [[ctx[r] EXCEPT !.rows = S, !.got = got,
                                                     !.before = msg[last].at] EXCEPT !.floor = clock]]
        BY <2>3 DEF Keep
      <3> HIDE DEF got
      <3> QED
        BY <2>3, <3>1 DEF Goto
    <2>4. \/ V = {} /\ Goto(r, "answered") /\ Keep(r, ctx[r])
          \/ \E S \in SUBSET V, last \in V :
               /\ IsPage(S, V)
               /\ last \in S /\ \A m \in S : msg[last].at <= msg[m].at
               /\ Goto(r, "replies")
               /\ Keep(r, [ctx[r] EXCEPT !.rows = S, !.got = {<<m, Words(m)>> : m \in S},
                                         !.before = msg[last].at])
      BY <2>1 DEF ListRows
    <2> HIDE DEF V
    <2> QED
      BY <2>2, <2>3, <2>4 DEF Goto, Keep
  <1> QED
    <2> HIDE DEF V, wanted, b
    <2> QED
      BY <1>10, <1>11, <1>12

LEMMA NextPInv == PInv /\ [Next]_vars => PInv'
  <1> SUFFICES ASSUME PInv, [Next]_vars PROVE PInv'
    OBVIOUS
  <1>1. IInv'
    BY NextIInv DEF PInv
  <1>2. ASSUME NEW r \in Requests, Begin(r) \/ Writes(r) \/ Reads(r) \/ Fail(r)
        PROVE  Timed' /\ AllPaged'
    <2>1. RowsHold /\ Timed'
      BY <1>2, StepHolds DEF PInv, IInv
    <2>2. ASSUME NEW x \in Requests \ {r}, job'[x].op = "list" PROVE Paged(x)'
      <3>1. Unturned(x)
        BY <1>2, OthersUnturned DEF PInv, IInv
      <3>2. job[x].op = "list" /\ Paged(x)
        BY <2>2, <3>1 DEF Unturned, PInv, AllPaged
      <3> QED
        BY <2>1, <3>1, <3>2, UnturnedPaged DEF PInv, IInv
    <2>3. ASSUME job'[r].op = "list" PROVE Paged(r)'
      <3>1. ~Refuse(r)
        BY <2>3, RefuseUnlisted DEF PInv, IInv
      <3>2. \/ Begin(r) \/ CheckMine(r) \/ ListRows(r) \/ LoadReplies(r) \/ NextPage(r)
        BY <1>2, <2>3, <3>1, BesidesUnlisted DEF PInv, Reads, Fail
      <3>3. Begin(r) \/ job'[r] = job[r]
        BY <3>1, <3>2 DEF CheckMine, ListRows, LoadReplies, NextPage, Test
      <3> QED
        BY <2>3, <3>1, <3>2, <3>3, BeginPaged, CheckMinePaged, ListRowsPaged, LoadRepliesPaged,
           NextPagePaged
        DEF PInv
    <2> QED
      BY <2>1, <2>2, <2>3 DEF AllPaged
  <1>3. CASE (ComeAndGo \/ ToggleMute) /\ Relieve
    <2>1. UNCHANGED <<msg, pc, job, ctx>>
      BY <1>3 DEF ComeAndGo, ToggleMute, db
    <2>2. ASSUME NEW x \in Requests PROVE Unturned(x)
      <3> DEFINE bars == {b \in hist[x].bars : b \in Bars(job[x])'}
      <3>1. hist'[x] = [hist[x] EXCEPT !.bars = bars] /\ hist[x] \in Hists
        BY <1>3 DEF Relieve, PInv, IInv, TypeOK
      <3> HIDE DEF bars
      <3>2. hist'[x].seen = hist[x].seen /\ hist'[x].wanted = hist[x].wanted
        BY <3>1 DEF Hists
      <3> QED
        BY <2>1, <3>2 DEF Unturned
    <2>3. RowsHold /\ Timed'
      BY <2>1 DEF RowsHold, In, Stored, Timed, PInv
    <2>4. AllPaged'
      BY <2>1, <2>2, <2>3, UnturnedPaged DEF AllPaged, PInv, IInv
    <2> QED
      BY <1>1, <2>3, <2>4 DEF PInv
  <1>4. CASE UNCHANGED vars
    <2>1. RowsHold /\ Timed' /\ \A x \in Requests : Unturned(x)
      BY <1>4 DEF vars, db, RowsHold, In, Stored, Timed, Unturned, PInv
    <2>2. AllPaged'
      BY <2>1, UnturnedPaged DEF AllPaged, PInv, IInv, Unturned
    <2> QED
      BY <1>1, <2>1, <2>2 DEF PInv
  <1> QED
    BY <1>1, <1>2, <1>3, <1>4 DEF Next, PInv

LEMMA InitPInv == Init => PInv
  <1> SUFFICES ASSUME Init PROVE PInv
    OBVIOUS
  <1>1. Timed
    BY DEF Init, Timed, Stored, NoMessage, Messages
  <1>2. AllPaged
    BY DEF Init, AllPaged, NoJob
  <1> QED
    BY <1>1, <1>2, InitIInv DEF PInv

(***************************************************************************)
(* PagesAreComplete in every behaviour: paging back by the created_at of   *)
(* the last row loses no message that keeps its place and gives none       *)
(* twice, however many requests store, delete and clear between two pages  *)
(* (list_messages, chats.rs lines 555-576).                                *)
(***************************************************************************)
THEOREM PagesMissNothing == Spec => []PagesAreComplete
  <1>1. Spec => []PInv
    BY InitPInv, NextPInv, PTL DEF Spec
  <1> QED
    BY <1>1, PInvPages, PTL

=============================================================================
