--------------------------- MODULE WsHubProofs ---------------------------
(***************************************************************************)
(* Theorems about WsHub for any users, chats, connections, requests,       *)
(* shards, memberships and bounds: the type invariant, that the hub        *)
(* implements EventStream, so keeps the order of sequence numbers and no   *)
(* event is lost, that the clients map, the presence map and the shard     *)
(* guards agree, that new messages reach only their audience, what alone   *)
(* can park the server and take a connected user offline, that handlers    *)
(* advance, and when the last presence_update or message_edited is true.   *)
(*                                                                         *)
(* The audience needs AudienceInv: Placed says what has been stored, and   *)
(* who may hear of it, when a handler is at each of its awaits; OneWriter, *)
(* that no two handlers write one message; MembersHear, that whoever is in *)
(* a chat may hear of what is in it.  Parking and advancing need           *)
(* CourseInv: which command is at which await, and which of them holds a   *)
(* guard there.  What was told last is a history variable of this module.  *)
(***************************************************************************)
EXTENDS WsHub, TLAPS

Stream_ == INSTANCE EventStreamProofs WITH counter <- seqCounter,
                                           pending <- queue, seen <- received

----------------------------------------------------------------------------
\* Types

LEMMA StepType ==
  ASSUME TaskType, EnvType, NEW t \in Tasks, NEW here \in Pcs, NEW there \in Pcs,
         there \in InHandler => here \in InHandler, Step(t, here, there)
  PROVE  TaskType' /\ EnvType'
BY DEF TaskType, EnvType, Step, At, Goto, env

LEMMA FinishType ==
  ASSUME TaskType, NEW t \in Tasks, Finish(t)
  PROVE  TaskType'
BY DEF TaskType, Finish, Goto, Rest, Contents, Pcs, InHandler, AwaitingDb, AtRest, Tasks

LEMMA ReturnType ==
  ASSUME TaskType, EnvType, NEW t \in Tasks, NEW here, Return(t, here)
  PROVE  TaskType' /\ EnvType'
BY FinishType DEF EnvType, Return, env

LEMMA AppendType ==
  ASSUME NEW q \in [Sessions -> Seq(Event)], NEW R, NEW n \in Nat, NEW b \in Bodies
  PROVE  Push(q, R, Event_(n, b)) \in [Sessions -> Seq(Event)]
<1>1. Event_(n, b) \in Event
  BY DEF Event, Event_
<1> QED BY <1>1 DEF Push

LEMMA BroadcastType ==
  ASSUME ChanType, NEW R, NEW b \in Bodies, Broadcast(R, b)
  PROVE  ChanType'
<1>1. /\ queue' = Push(queue, R, Event_(seqCounter, b))
      /\ seqCounter' = seqCounter + 1
      /\ received' = received
  BY DEF Broadcast
<1>2. Push(queue, R, Event_(seqCounter, b)) \in [Sessions -> Seq(Event)]
  BY AppendType DEF ChanType
<1>3. queue' \in [Sessions -> Seq(Event)]
  BY <1>1, <1>2
<1>4. seqCounter' \in Nat /\ received' \in [Sessions -> Seq(Event)]
  BY <1>1 DEF ChanType
<1> QED BY <1>3, <1>4 DEF ChanType

LEMMA AckBody == \A s \in Sessions : Body("ack", Me(s), None) \in Bodies
BY HubAssumption DEF Body, Bodies, Me

LEMMA BroadcastAndAckType ==
  ASSUME ChanType, NEW s \in Sessions, NEW R, NEW b \in Bodies, BroadcastAndAck(s, R, b)
  PROVE  ChanType'
<1>1. CASE job[s].ack /\ clients[Me(s)] # None
  <2> DEFINE q == Push(queue, R, Event_(seqCounter, b))
             a == Body("ack", Me(s), None)
  <2>1. a \in Bodies
    BY AckBody DEF Bodies
  <2>2. q \in [Sessions -> Seq(Event)]
    BY AppendType DEF ChanType
  <2>3. /\ queue' = Push(q, {Me(s)}, Event_(seqCounter + 1, a))
        /\ seqCounter' = seqCounter + 2
        /\ received' = received
    BY <1>1 DEF BroadcastAndAck
  <2>4. seqCounter + 1 \in Nat
    BY DEF ChanType
  <2> HIDE DEF q, a
  <2>5. Push(q, {Me(s)}, Event_(seqCounter + 1, a)) \in [Sessions -> Seq(Event)]
    BY <2>1, <2>2, <2>4, AppendType
  <2>6. queue' \in [Sessions -> Seq(Event)]
    BY <2>3, <2>5
  <2>7. seqCounter' \in Nat /\ received' \in [Sessions -> Seq(Event)]
    BY <2>3 DEF ChanType
  <2> QED BY <2>6, <2>7 DEF ChanType
<1>2. CASE ~(job[s].ack /\ clients[Me(s)] # None)
  BY <1>2, BroadcastType DEF BroadcastAndAck
<1> QED BY <1>1, <1>2

LEMMA ReplyType ==
  ASSUME ChanType, NEW s \in Sessions, NEW b \in Bodies, Reply(s, b)
  PROVE  ChanType'
<1>1. CASE clients[Me(s)] # None
  BY <1>1, BroadcastType DEF Reply
<1>2. CASE clients[Me(s)] = None
  BY <1>2 DEF Reply, ChanType, chan
<1> QED BY <1>1, <1>2

LEMMA WriteType ==
  ASSUME ChanType, NEW s \in Sessions, Write(s)
  PROVE  ChanType'
<1>1. queue[s] \in Seq(Event) /\ queue[s] # <<>> /\ received[s] \in Seq(Event)
  BY DEF Write, ChanType
<1>2. Tail(queue[s]) \in Seq(Event) /\ Append(received[s], Head(queue[s])) \in Seq(Event)
  BY <1>1
<1> QED BY <1>2 DEF Write, ChanType

\* The turns that only move a task on.
LEMMA QuietTurn ==
  ASSUME MemType, DbType, ChanType, UNCHANGED <<mem, db, chan>>
  PROVE  MemType' /\ DbType' /\ ChanType'
BY DEF MemType, DbType, ChanType, mem, db, chan

LEMMA InitType == Init => TypeOK
<1> SUFFICES ASSUME Init PROVE TypeOK
  OBVIOUS
<1> USE HubAssumption DEF Init
<1>1. MemType
  BY DEF MemType
<1>2. DbType
  BY DEF DbType, MsgRows, MsgStates, Contents
<1>3. ChanType
  BY DEF ChanType
<1>4. TaskType
  BY DEF TaskType, Pcs, AtRest, InHandler, AwaitingDb, Contents, Tasks
<1>5. EnvType
  BY DEF EnvType
<1> QED BY <1>1, <1>2, <1>3, <1>4, <1>5 DEF TypeOK

\* A task inside a handler holds a well-typed command.
LEMMA InHand ==
  ASSUME TaskType, NEW t \in Tasks, NEW here \in InHandler, pc[t] = here
  PROVE  /\ job[t] \in Jobs
         /\ job[t].chat \in Chats /\ job[t].msg \in Messages
         /\ job[t].by \in Users /\ job[t].user \in Users
BY DEF TaskType, Jobs

LEMMA InsertType ==
  ASSUME DbType, NEW j \in Jobs, Insert(j)
  PROVE  DbType'
<1>1. j.msg \in Messages /\ j.chat \in Chats /\ j.by \in Users
  BY DEF Jobs
<1>2. [state |-> "live", chat |-> j.chat, sender |-> j.by, content |-> None] \in MsgRows
  BY <1>1 DEF MsgRows, MsgStates, Contents
<1>3. msgs' \in [Messages -> MsgRows]
  BY <1>1, <1>2 DEF DbType, Insert
<1>4. audience' \in [Messages -> SUBSET Users]
  BY <1>1 DEF DbType, Insert
<1> QED BY <1>3, <1>4 DEF DbType, Insert

LEMMA FetchParticipantsType ==
  ASSUME TypeOK, NEW t \in Tasks, FetchParticipants(t)
  PROVE  TypeOK'
<1> USE DEF TypeOK
<1>1. job[t].chat \in Chats
  BY InHand DEF FetchParticipants, At, InHandler, AwaitingDb
<1>2. Recipients(job[t]) \in SUBSET Users
  BY <1>1 DEF Recipients, DbType
<1>3. MemType' /\ DbType' /\ ChanType'
  BY QuietTurn DEF FetchParticipants
<1>4. TaskType'
  BY <1>2 DEF FetchParticipants, TaskType, At, Goto, Pcs, InHandler, AwaitingDb
<1>5. EnvType'
  BY DEF FetchParticipants, EnvType, env
<1> QED BY <1>3, <1>4, <1>5

LEMMA SessionTurnType ==
  ASSUME TypeOK, NEW s \in Sessions, SessionStep(s) \/ Receive(s) \/ ClientStep(s)
  PROVE  TypeOK'
<1> USE DEF TypeOK
<1>s. s \in Tasks /\ Me(s) \in Users
  BY HubAssumption DEF Tasks, Me
<1>1. CASE Connect(s)
  <2>1. TaskType' /\ EnvType'
    BY <1>1, <1>s, StepType DEF Connect, Pcs, AtRest, InHandler, AwaitingDb
  <2>2. MemType'
    BY <1>1, <1>s DEF Connect, MemType
  <2>3. DbType' /\ ChanType'
    BY <1>1 DEF Connect, DbType, ChanType, db, chan
  <2> QED BY <2>1, <2>2, <2>3
<1>2. CASE ConnectParks(s) \/ DisconnectParks(s)
  <2>1. Park(s)
    BY <1>2 DEF ConnectParks, DisconnectParks
  <2>2. MemType' /\ DbType' /\ ChanType'
    BY <2>1, QuietTurn DEF Park
  <2>3. TaskType' /\ EnvType'
    BY <2>1 DEF Park, TaskType, EnvType, env
  <2> QED BY <2>2, <2>3
<1>3. CASE FetchCommon(s)
  <2>1. MemType' /\ DbType' /\ ChanType'
    BY <1>3, QuietTurn DEF FetchCommon
  <2>2. CommonUsers(Me(s)) \in SUBSET Users
    BY DEF CommonUsers
  <2>3. TaskType'
    BY <1>3, <1>s, <2>2
       DEF FetchCommon, TaskType, At, Goto, Pcs, AtRest, InHandler, AwaitingDb
  <2>4. EnvType'
    BY <1>3 DEF FetchCommon, EnvType, env
  <2> QED BY <2>1, <2>3, <2>4
<1>4. CASE AnnounceOnline(s) \/ AnnounceOffline(s)
  <2>1. /\ Body("presence_update", Me(s), "online") \in Bodies
        /\ Body("presence_update", Me(s), "offline") \in Bodies
    BY <1>s DEF Body, Bodies
  <2>2. ChanType'
    BY <1>4, <2>1, BroadcastType DEF AnnounceOnline, AnnounceOffline
  <2>3. MemType' /\ DbType' /\ EnvType'
    BY <1>4 DEF AnnounceOnline, AnnounceOffline, MemType, DbType, EnvType, mem, db, env
  <2>4. TaskType'
    BY <1>4, <1>s DEF AnnounceOnline, AnnounceOffline, TaskType, At, Goto,
                      Pcs, AtRest, InHandler, AwaitingDb
  <2> QED BY <2>2, <2>3, <2>4
<1>5. CASE Deliver(s)
  <2>1. ChanType'
    BY <1>5, WriteType DEF Deliver
  <2>2. MemType' /\ DbType' /\ EnvType' /\ TaskType'
    BY <1>5 DEF Deliver, MemType, DbType, EnvType, TaskType, mem, db, env, task
  <2> QED BY <2>1, <2>2
<1>6. CASE StreamEnds(s) \/ Suspend(s)
  <2>1. MemType' /\ DbType' /\ ChanType'
    BY <1>6, QuietTurn DEF StreamEnds, Suspend
  <2>2. TaskType' /\ EnvType'
    BY <1>6, <1>s, StepType DEF StreamEnds, Suspend, Pcs, AtRest, InHandler, AwaitingDb
  <2> QED BY <2>1, <2>2
<1>7. CASE Disconnect(s)
  <2>1. MemType'
    BY <1>7, <1>s DEF Disconnect, MemType
  <2>2. DbType' /\ ChanType' /\ EnvType'
    BY <1>7 DEF Disconnect, DbType, ChanType, EnvType, db, chan, env
  <2>3. TaskType'
    BY <1>7, <1>s DEF Disconnect, Closing, Writing, TaskType, Goto,
                      Pcs, AtRest, InHandler, AwaitingDb
  <2> QED BY <2>1, <2>2, <2>3
<1>8. CASE StartCommand(s)
  <2>1. MemType' /\ DbType' /\ ChanType'
    BY <1>8, QuietTurn DEF StartCommand
  <2>2. EnvType'
    BY <1>8 DEF StartCommand, EnvType, env
  <2>3. PICK j \in SessionJobs : job' = [job EXCEPT ![s] = j]
    BY <1>8 DEF StartCommand
  <2>4. TaskType'
    BY <1>8, <1>s, <2>3, HubAssumption
       DEF StartCommand, TaskType, Goto, Pcs, AtRest, InHandler, AwaitingDb
  <2> QED BY <2>1, <2>2, <2>4
<1>9. CASE Sync(s)
  <2>1. Body("sync_response", Me(s), None) \in Bodies
    BY <1>s DEF Body, Bodies
  <2>2. ChanType'
    BY <1>9, <2>1, BroadcastType DEF Sync
  <2>3. MemType' /\ DbType' /\ EnvType' /\ TaskType'
    BY <1>9 DEF Sync, MemType, DbType, EnvType, TaskType, mem, db, env, task
  <2> QED BY <2>2, <2>3
<1>10. CASE CheckMember(s) \/ LoadMeta(s) \/ CheckMute(s) \/ ReadChatType(s)
            \/ CountReads(s) \/ ReadCountFails(s) \/ FindSenderFails(s)
  <2>1. MemType' /\ DbType' /\ ChanType'
    BY <1>10, QuietTurn
       DEF CheckMember, LoadMeta, CheckMute, ReadChatType, CountReads, ReadCountFails,
           FindSenderFails
  <2>2. PICK here \in InHandler, there \in InHandler :
          Step(s, here, there) \/ Return(s, here)
    BY <1>10 DEF CheckMember, LoadMeta, CheckMute, ReadChatType, CountReads,
                 ReadCountFails, FindSenderFails, InHandler, AwaitingDb
  <2>3. TaskType' /\ EnvType'
    BY <1>s, <2>2, StepType, ReturnType DEF Pcs
  <2> QED BY <2>1, <2>3
<1>11. CASE Reject(s)
  <2>1. Body("error", Me(s), None) \in Bodies
    BY <1>s DEF Body, Bodies
  <2>2. ChanType'
    BY <1>11, <2>1, ReplyType DEF Reject
  <2>3. TaskType' /\ EnvType'
    BY <1>11, <1>s, ReturnType DEF Reject
  <2>4. MemType' /\ DbType'
    BY <1>11 DEF Reject, MemType, DbType, mem, db
  <2> QED BY <2>2, <2>3, <2>4
<1>12. CASE InsertMessage(s)
  <2>1. job[s] \in Jobs
    BY <1>12, <1>s, InHand DEF InsertMessage, Step, At, InHandler, AwaitingDb
  <2>2. DbType'
    BY <1>12, <2>1, InsertType DEF InsertMessage
  <2>3. TaskType' /\ EnvType'
    BY <1>12, <1>s, StepType DEF InsertMessage, Pcs, InHandler, AwaitingDb
  <2>4. MemType' /\ ChanType'
    BY <1>12 DEF InsertMessage, MemType, ChanType, mem, chan
  <2> QED BY <2>2, <2>3, <2>4
<1>13. CASE BroadcastMessage(s) \/ BroadcastTyping(s) \/ PushRead(s)
  <2>1. PICK here \in {"broadcast", "pushRead"} : Return(s, here)
    BY <1>13 DEF BroadcastMessage, BroadcastTyping, PushRead
  <2>2. job[s].msg \in Messages /\ job[s].chat \in Chats
    BY <2>1, <1>s, InHand DEF Return, At, InHandler, AwaitingDb
  <2>3. /\ Body("new_message", job[s].msg, None) \in Bodies
        /\ Body("typing_indicator", job[s].chat, Me(s)) \in Bodies
        /\ Body("messages_read", Me(s), job[s].msg) \in Bodies
    BY <1>s, <2>2 DEF Body, Bodies, Contents
  <2>4. ChanType'
    BY <1>13, <2>3, BroadcastAndAckType DEF BroadcastMessage, BroadcastTyping, PushRead
  <2>5. TaskType' /\ EnvType'
    BY <2>1, <1>s, ReturnType
  <2>6. MemType' /\ DbType'
    BY <1>13 DEF BroadcastMessage, BroadcastTyping, PushRead, MemType, DbType, mem, db
  <2> QED BY <2>4, <2>5, <2>6
<1>14. CASE LookupName(s)
  <2>1. job[s].chat \in Chats
    BY <1>14, <1>s, InHand DEF LookupName, Step, At, InHandler, AwaitingDb
  <2>2. MemType'
    BY <1>14, <1>s, <2>1 DEF LookupName, MemType
  <2>3. TaskType' /\ EnvType'
    BY <1>14, <1>s, StepType DEF LookupName, Pcs, InHandler, AwaitingDb
  <2>4. DbType' /\ ChanType'
    BY <1>14 DEF LookupName, DbType, ChanType, db, chan
  <2> QED BY <2>2, <2>3, <2>4
<1>15. CASE UpdateLastRead(s)
  <2>1. job[s].chat \in Chats /\ job[s].msg \in Messages
    BY <1>15, <1>s, InHand DEF UpdateLastRead, At, InHandler, AwaitingDb
  <2>2. lastRead' \in [Chats -> [Users -> Messages \cup {None}]]
    BY <1>15, <1>s, <2>1 DEF UpdateLastRead, DbType
  <2>3. DbType'
    BY <1>15, <2>2 DEF UpdateLastRead, DbType
  <2>4. Step(s, "update", "chatType") \/ Return(s, "update")
    BY <1>15 DEF UpdateLastRead
  <2>5. TaskType' /\ EnvType'
    BY <2>4, <1>s, StepType, ReturnType DEF Pcs, InHandler, AwaitingDb
  <2>6. MemType' /\ ChanType'
    BY <1>15 DEF UpdateLastRead, MemType, ChanType, mem, chan
  <2> QED BY <2>3, <2>5, <2>6
<1>16. CASE FindSender(s)
  <2>1. job[s].msg \in Messages
    BY <1>16, <1>s, InHand DEF FindSender, At, InHandler, AwaitingDb
  <2>2. msgs[job[s].msg].sender \in Users \cup {None}
    BY <2>1 DEF DbType, MsgRows
  <2>3. MemType' /\ DbType' /\ ChanType'
    BY <1>16, QuietTurn DEF FindSender
  <2>4. TaskType'
    BY <1>16, <1>s, <2>2, HubAssumption
       DEF FindSender, TaskType, At, Goto, Pcs, InHandler, AwaitingDb, Contents, Tasks
  <2>5. EnvType'
    BY <1>16 DEF FindSender, EnvType, env
  <2> QED BY <2>3, <2>4, <2>5
<1>17. CASE SenderAway(s)
  <2>1. Body("ack", Me(s), None) \in Bodies
    BY AckBody DEF Bodies
  <2>2. ChanType'
    <3>1. CASE job[s].ack
      BY <1>17, <2>1, <3>1, ReplyType DEF SenderAway
    <3>2. CASE ~job[s].ack
      BY <1>17, <3>2 DEF SenderAway, ChanType, chan
    <3> QED BY <3>1, <3>2
  <2>3. TaskType' /\ EnvType'
    BY <1>17, <1>s, ReturnType DEF SenderAway
  <2>4. MemType' /\ DbType'
    BY <1>17 DEF SenderAway, MemType, DbType, mem, db
  <2> QED BY <2>2, <2>3, <2>4
<1>18. CASE TakeGuard(s)
  <2>1. MemType' /\ DbType' /\ ChanType'
    BY <1>18, QuietTurn DEF TakeGuard
  <2>2. pc' = [pc EXCEPT ![s] = "countReads"] \/ pc' = [pc EXCEPT ![s] = "pushRead"]
    BY <1>18 DEF TakeGuard, Goto
  <2>3. TaskType'
    BY <1>18, <1>s, <2>2
       DEF TakeGuard, TaskType, At, Pcs, InHandler, AwaitingDb
  <2>4. EnvType'
    BY <1>18 DEF TakeGuard, EnvType, env
  <2> QED BY <2>1, <2>3, <2>4
<1>19. CASE FetchParticipants(s)
  BY <1>19, <1>s, FetchParticipantsType
<1>20. CASE Written(s)
  <2>1. ChanType'
    BY <1>20, WriteType DEF Written
  <2>2. MemType' /\ DbType'
    BY <1>20 DEF Written, MemType, DbType, mem, db
  <2>3. TaskType' /\ EnvType'
    BY <1>20, <1>s, StepType DEF Written, Pcs, AtRest, InHandler, AwaitingDb
  <2> QED BY <2>1, <2>2, <2>3
<1> QED
  BY <1>1, <1>2, <1>3, <1>4, <1>5, <1>6, <1>7, <1>8, <1>9, <1>10, <1>11, <1>12,
     <1>13, <1>14, <1>15, <1>16, <1>17, <1>18, <1>19, <1>20
     DEF SessionStep, Receive, ClientStep

LEMMA ChangeBodyType ==
  ASSUME TypeOK, NEW r \in Requests, At(r, "broadcast")
  PROVE  ChangeBody(job[r], row[r]) \in Bodies
<1> DEFINE j == job[r]
           v == row[r]
<1>1. /\ j.chat \in Chats /\ j.msg \in Messages /\ j.user \in Users
  BY InHand DEF TypeOK, At, InHandler, AwaitingDb, Tasks
<1>2. v \in Contents
  BY DEF TypeOK, TaskType
<1>3. /\ Body("message_edited", j.msg, v) \in Bodies
      /\ Body("message_deleted", j.msg, None) \in Bodies
      /\ Body("chat_action", j.msg, v) \in Bodies
      /\ Body("chat_action", j.chat, None) \in Bodies
      /\ Body("chat_action", j.chat, j.user) \in Bodies
  BY <1>1, <1>2 DEF Body, Bodies, Contents
<1> HIDE DEF j, v
<1> QED BY <1>3 DEF ChangeBody, j, v

LEMMA RequestTurnType ==
  ASSUME TypeOK, NEW r \in Requests, RequestStep(r) \/ StartRequest(r)
  PROVE  TypeOK'
<1> USE DEF TypeOK
<1>r. r \in Tasks
  BY DEF Tasks
<1>1. CASE StartRequest(r)
  <2>1. MemType' /\ DbType' /\ ChanType'
    BY <1>1, QuietTurn DEF StartRequest
  <2>2. EnvType'
    BY <1>1 DEF StartRequest, EnvType, env
  <2>3. PICK j \in RequestJobs : job' = [job EXCEPT ![r] = j]
    BY <1>1 DEF StartRequest
  <2>4. TaskType'
    BY <1>1, <1>r, <2>3, HubAssumption
       DEF StartRequest, TaskType, Goto, Pcs, AtRest, InHandler, AwaitingDb
  <2> QED BY <2>1, <2>2, <2>4
<1>2. CASE EditMessage(r) \/ DeleteMessage(r) \/ PinMessage(r) \/ UnpinMessage(r)
           \/ RemoveParticipant(r) \/ CheckCanSend(r)
  <2> DEFINE j == job[r]
  <2>1. At(r, "effect")
    BY <1>2 DEF EditMessage, DeleteMessage, PinMessage, UnpinMessage,
                RemoveParticipant, CheckCanSend, Effect
  <2>2. /\ j.chat \in Chats /\ j.msg \in Messages
        /\ j.by \in Users /\ j.user \in Users
    BY <2>1, <1>r, InHand DEF At, InHandler, AwaitingDb
  <2>3. \/ Step(r, "effect", "reread") \/ Step(r, "effect", "participants")
        \/ Step(r, "effect", "store") \/ Return(r, "effect")
    BY <1>2 DEF EditMessage, DeleteMessage, PinMessage, UnpinMessage,
                RemoveParticipant, CheckCanSend
  <2>4. TaskType' /\ EnvType'
    BY <2>3, <1>r, StepType, ReturnType DEF Pcs, InHandler, AwaitingDb
  <2>5. MemType' /\ ChanType'
    BY <1>2 DEF EditMessage, DeleteMessage, PinMessage, UnpinMessage,
                RemoveParticipant, CheckCanSend, MemType, ChanType, mem, chan
  <2>6. DbType'
    <3>1. CASE EditMessage(r)
      BY <3>1, <2>2 DEF EditMessage, DbType, MsgRows, Contents
    <3>2. CASE DeleteMessage(r)
      <4>1. /\ msgs' = msgs \/ msgs' = [msgs EXCEPT ![j.msg].state = "deleted"]
            /\ UNCHANGED <<participants, muted, pinned, lastRead, audience>>
        BY <3>2 DEF DeleteMessage
      <4> HIDE DEF j
      <4>2. msgs' \in [Messages -> MsgRows]
        <5> DEFINE k == j.msg
                   gone == [msgs[k] EXCEPT !.state = "deleted"]
        <5>1. k \in Messages /\ msgs \in [Messages -> MsgRows]
          BY <2>2 DEF DbType
        <5>2. gone \in MsgRows
          BY <5>1 DEF MsgRows, MsgStates
        <5>3. msgs' = msgs \/ msgs' = [msgs EXCEPT ![k] = gone]
          BY <4>1
        <5> HIDE DEF k, gone
        <5> QED BY <5>1, <5>2, <5>3
      <4> QED BY <4>1, <4>2 DEF DbType
    <3>3. CASE PinMessage(r)
      BY <3>3, <2>2 DEF PinMessage, DbType
    <3>4. CASE UnpinMessage(r)
      BY <3>4, <2>2 DEF UnpinMessage, DbType
    <3>5. CASE RemoveParticipant(r)
      <4>1. \/ participants' = [participants EXCEPT ![j.chat] = @ \ {j.user}]
            \/ participants' = participants
        BY <3>5 DEF RemoveParticipant
      <4>2. \/ lastRead' = [lastRead EXCEPT ![j.chat][j.user] = None]
            \/ lastRead' = lastRead
        BY <3>5 DEF RemoveParticipant
      <4>3. UNCHANGED <<muted, msgs, pinned, audience>>
        BY <3>5 DEF RemoveParticipant
      <4> HIDE DEF j
      <4>4. participants' \in [Chats -> SUBSET Users]
        BY <4>1, <2>2 DEF DbType
      <4>5. lastRead' \in [Chats -> [Users -> Messages \cup {None}]]
        BY <4>2, <2>2 DEF DbType
      <4> QED BY <4>3, <4>4, <4>5 DEF DbType
    <3>6. CASE CheckCanSend(r)
      BY <3>6 DEF CheckCanSend, DbType, db
    <3> QED BY <1>2, <3>1, <3>2, <3>3, <3>4, <3>5, <3>6
  <2> QED BY <2>4, <2>5, <2>6
<1>3. CASE PostMessage(r)
  <2>1. job[r] \in Jobs
    BY <1>3, <1>r, InHand DEF PostMessage, Return, At, InHandler, AwaitingDb
  <2>2. DbType'
    BY <1>3, <2>1, InsertType DEF PostMessage
  <2>3. TaskType' /\ EnvType'
    BY <1>3, <1>r, ReturnType DEF PostMessage
  <2>4. MemType' /\ ChanType'
    BY <1>3 DEF PostMessage, MemType, ChanType, mem, chan
  <2> QED BY <2>2, <2>3, <2>4
<1>4. CASE Reread(r)
  <2>1. job[r].msg \in Messages
    BY <1>4, <1>r, InHand DEF Reread, At, InHandler, AwaitingDb
  <2>2. msgs[job[r].msg].content \in Contents
    BY <2>1 DEF DbType, MsgRows
  <2>3. MemType' /\ DbType' /\ ChanType'
    BY <1>4, QuietTurn DEF Reread
  <2>4. TaskType'
    BY <1>4, <1>r, <2>2, HubAssumption
       DEF Reread, TaskType, At, Goto, Pcs, InHandler, AwaitingDb, Tasks
  <2>5. EnvType'
    BY <1>4 DEF Reread, EnvType, env
  <2> QED BY <2>3, <2>4, <2>5
<1>5. CASE FetchParticipants(r)
  BY <1>5, <1>r, FetchParticipantsType
<1>6. CASE BroadcastChange(r)
  <2>1. ChangeBody(job[r], row[r]) \in Bodies
    BY <1>6, ChangeBodyType DEF BroadcastChange, Return
  <2>2. ChanType'
    BY <1>6, <2>1, BroadcastType DEF BroadcastChange
  <2>3. TaskType' /\ EnvType'
    BY <1>6, <1>r, ReturnType DEF BroadcastChange
  <2>4. MemType' /\ DbType'
    BY <1>6 DEF BroadcastChange, MemType, DbType, mem, db
  <2> QED BY <2>2, <2>3, <2>4
<1> QED
  BY <1>1, <1>2, <1>3, <1>4, <1>5, <1>6 DEF RequestStep

LEMMA FaultType ==
  ASSUME TypeOK, NEW t \in Tasks, Fault(t)
  PROVE  TypeOK'
<1> USE DEF TypeOK
<1>1. TaskType'
  BY FinishType DEF Fault
<1>2. EnvType'
  BY DEF Fault, EnvType
<1>3. MemType' /\ DbType' /\ ChanType'
  BY QuietTurn DEF Fault
<1> QED BY <1>1, <1>2, <1>3

LEMMA RosterType ==
  ASSUME TypeOK, AddParticipant \/ ToggleMute
  PROVE  TypeOK'
<1> USE DEF TypeOK
<1>1. MemType' /\ ChanType' /\ EnvType' /\ TaskType'
  BY DEF AddParticipant, ToggleMute, MemType, ChanType, EnvType, TaskType,
         mem, chan, env, task
<1>2. CASE AddParticipant
  BY <1>1, <1>2 DEF AddParticipant, DbType
<1>3. CASE ToggleMute
  BY <1>1, <1>3, HubAssumption DEF ToggleMute, DbType
<1> QED BY <1>2, <1>3

LEMMA RestartType ==
  ASSUME TypeOK, Restart
  PROVE  TypeOK'
<1> USE DEF TypeOK
<1>1. MemType'
  BY DEF Restart, MemType
<1>2. DbType'
  BY DEF Restart, DbType, db
<1>3. ChanType'
  BY DEF Restart, ChanType
<1>4. TaskType'
  BY DEF Restart, TaskType, Pcs, AtRest, InHandler, AwaitingDb, Contents, Tasks
<1>5. EnvType'
  BY DEF Restart, EnvType
<1> QED BY <1>1, <1>2, <1>3, <1>4, <1>5

LEMMA NextType == TypeOK /\ [Next]_vars => TypeOK'
<1>1. ASSUME TypeOK, Next PROVE TypeOK'
  BY <1>1, SessionTurnType, RequestTurnType, FaultType, RosterType, RestartType DEF Next
<1>2. ASSUME TypeOK, UNCHANGED vars PROVE TypeOK'
  BY <1>2 DEF TypeOK, MemType, DbType, ChanType, TaskType, EnvType, vars, mem, db,
              chan, env, task
<1> QED BY <1>1, <1>2

(***************************************************************************)
(* Every reachable state of the hub is well typed, whatever the users,     *)
(* connections, jobs and bounds: no turn of any task leaves a malformed    *)
(* registry, row, event or task.                                           *)
(***************************************************************************)
THEOREM TypeCorrect == Spec => []TypeOK
BY InitType, NextType, PTL DEF Spec

----------------------------------------------------------------------------
\* The hub implements EventStream

\* The sessions registered for the users of R.
Registered(R) == {s \in Sessions : \E u \in R : clients[u] = s}

LEMMA PushIsQueued ==
  ASSUME NEW q, NEW R, NEW n, NEW b
  PROVE  Push(q, R, Event_(n, b)) =
           Events!Queued(q, Registered(R), Events!Stamped(n, b))
BY DEF Push, Event_, Registered, Events!Queued, Events!Stamped

LEMMA BroadcastPublishes ==
  ASSUME NEW R, NEW b \in Bodies, Broadcast(R, b)
  PROVE  Events!Publish
<1>1. Registered(R) \in SUBSET Sessions
  BY DEF Registered
<1>2. queue' = Events!Queued(queue, Registered(R), Events!Stamped(seqCounter, b))
  BY PushIsQueued DEF Broadcast
<1> QED BY <1>1, <1>2 DEF Broadcast, Events!Publish

LEMMA BroadcastAndAckPublishes ==
  ASSUME TypeOK, NEW s \in Sessions, NEW R, NEW b \in Bodies, BroadcastAndAck(s, R, b)
  PROVE  Events!Publish \/ Events!PublishAndReply
<1>1. CASE job[s].ack /\ clients[Me(s)] # None
  <2> DEFINE a == Body("ack", Me(s), None)
             x == clients[Me(s)]
             q == Push(queue, R, Event_(seqCounter, b))
  <2>1. a \in Bodies /\ x \in Sessions
    BY <1>1, AckBody, HubAssumption DEF TypeOK, MemType, Me
  <2>2. Registered({Me(s)}) = {x}
    BY <2>1 DEF Registered
  <2>3. Registered(R) \in SUBSET Sessions
    BY DEF Registered
  <2>4. q = Events!Queued(queue, Registered(R), Events!Stamped(seqCounter, b))
    BY PushIsQueued
  <2>5. /\ queue' = Push(q, {Me(s)}, Event_(seqCounter + 1, a))
        /\ seqCounter' = seqCounter + 2
        /\ UNCHANGED received
    BY <1>1 DEF BroadcastAndAck
  <2> HIDE DEF a, x, q
  <2>6. queue' = Events!Queued(q, {x}, Events!Stamped(seqCounter + 1, a))
    BY <2>2, <2>5, PushIsQueued
  <2>7. queue' = Events!Queued(Events!Queued(queue, Registered(R),
                                             Events!Stamped(seqCounter, b)),
                               {x}, Events!Stamped(seqCounter + 1, a))
    BY <2>4, <2>6
  <2> QED BY <2>1, <2>3, <2>5, <2>7 DEF Events!PublishAndReply
<1>2. CASE ~(job[s].ack /\ clients[Me(s)] # None)
  BY <1>2, BroadcastPublishes DEF BroadcastAndAck
<1> QED BY <1>1, <1>2

LEMMA ReplyPublishes ==
  ASSUME NEW s \in Sessions, NEW b \in Bodies, Reply(s, b)
  PROVE  Events!Publish \/ UNCHANGED chan
BY BroadcastPublishes DEF Reply

\* Something is queued or handed to a socket.
Flows ==
  \/ Events!Publish
  \/ Events!PublishAndReply
  \/ \E s \in Sessions : Events!Deliver(s)

LEMMA SessionTurnMaps ==
  ASSUME TypeOK, NEW s \in Sessions, SessionStep(s) \/ Receive(s) \/ ClientStep(s)
  PROVE  Flows \/ UNCHANGED chan
<1>s. s \in Tasks /\ Me(s) \in Users
  BY HubAssumption DEF Tasks, Me
<1>1. CASE AnnounceOnline(s) \/ AnnounceOffline(s) \/ Sync(s)
  <2>1. /\ Body("presence_update", Me(s), "online") \in Bodies
        /\ Body("presence_update", Me(s), "offline") \in Bodies
        /\ Body("sync_response", Me(s), None) \in Bodies
    BY <1>s DEF Body, Bodies
  <2> QED BY <1>1, <2>1, BroadcastPublishes
          DEF AnnounceOnline, AnnounceOffline, Sync, Flows
<1>2. CASE Reject(s)
  <2>1. Body("error", Me(s), None) \in Bodies
    BY <1>s DEF Body, Bodies
  <2> QED BY <1>2, <2>1, ReplyPublishes DEF Reject, Flows
<1>3. CASE BroadcastMessage(s) \/ BroadcastTyping(s) \/ PushRead(s)
  <2>1. pc[s] \in {"broadcast", "pushRead"}
    BY <1>3 DEF BroadcastMessage, BroadcastTyping, PushRead, Return, At
  <2>2. job[s].msg \in Messages /\ job[s].chat \in Chats
    BY <2>1, <1>s, InHand DEF TypeOK, InHandler, AwaitingDb
  <2>3. /\ Body("new_message", job[s].msg, None) \in Bodies
        /\ Body("typing_indicator", job[s].chat, Me(s)) \in Bodies
        /\ Body("messages_read", Me(s), job[s].msg) \in Bodies
    BY <1>s, <2>2 DEF Body, Bodies, Contents
  <2> QED BY <1>3, <2>3, BroadcastAndAckPublishes
          DEF BroadcastMessage, BroadcastTyping, PushRead, Flows
<1>4. CASE SenderAway(s)
  <2>1. Body("ack", Me(s), None) \in Bodies
    BY AckBody DEF Bodies
  <2> QED BY <1>4, <2>1, ReplyPublishes DEF SenderAway, Flows
<1>5. CASE Deliver(s) \/ Written(s)
  <2>1. Events!Deliver(s)
    BY <1>5 DEF Deliver, Written, Write, Events!Deliver
  <2> QED BY <2>1 DEF Flows
<1>6. CASE \/ Connect(s) \/ ConnectParks(s) \/ StreamEnds(s) \/ Suspend(s)
           \/ Disconnect(s) \/ DisconnectParks(s) \/ StartCommand(s) \/ FetchCommon(s)
           \/ CheckMember(s) \/ LoadMeta(s) \/ CheckMute(s) \/ InsertMessage(s)
           \/ LookupName(s) \/ UpdateLastRead(s) \/ ReadChatType(s)
           \/ FindSender(s) \/ TakeGuard(s) \/ CountReads(s)
           \/ ReadCountFails(s) \/ FindSenderFails(s)
           \/ FetchParticipants(s)
  BY <1>6 DEF Connect, ConnectParks, StreamEnds, Suspend, Disconnect, DisconnectParks, Park,
              StartCommand, FetchCommon, CheckMember, LoadMeta, CheckMute,
              InsertMessage, LookupName, UpdateLastRead, ReadChatType, FindSender,
              TakeGuard, CountReads, ReadCountFails, FindSenderFails, FetchParticipants, chan
<1> QED BY <1>1, <1>2, <1>3, <1>4, <1>5, <1>6 DEF SessionStep, Receive, ClientStep

LEMMA RequestTurnMaps ==
  ASSUME TypeOK, NEW r \in Requests, RequestStep(r) \/ StartRequest(r)
  PROVE  Flows \/ UNCHANGED chan
<1>1. CASE BroadcastChange(r)
  <2>1. ChangeBody(job[r], row[r]) \in Bodies
    BY <1>1, ChangeBodyType DEF BroadcastChange, Return
  <2> QED BY <1>1, <2>1, BroadcastPublishes DEF BroadcastChange, Flows
<1>2. CASE ~BroadcastChange(r)
  BY <1>2 DEF RequestStep, StartRequest, EditMessage, DeleteMessage, PinMessage,
              UnpinMessage, RemoveParticipant, CheckCanSend, PostMessage, Reread,
              FetchParticipants, chan
<1> QED BY <1>1, <1>2

LEMMA TurnMaps ==
  ASSUME TypeOK, Next
  PROVE  Flows \/ Restart \/ UNCHANGED chan
<1>1. ASSUME (\E t \in Tasks : Fault(t)) \/ AddParticipant \/ ToggleMute
      PROVE  UNCHANGED chan
  BY <1>1 DEF Fault, AddParticipant, ToggleMute
<1> QED BY <1>1, SessionTurnMaps, RequestTurnMaps DEF Next

LEMMA NextMaps == TypeOK /\ [Next]_vars => [Events!Next]_(Events!vars)
<1>1. ASSUME Restart PROVE Events!Next
  BY <1>1 DEF Restart, Events!Restart, Events!Next
<1>2. ASSUME Flows PROVE Events!Next
  BY <1>2 DEF Flows, Events!Next
<1>3. ASSUME UNCHANGED vars PROVE UNCHANGED chan
  BY <1>3 DEF vars
<1> QED BY <1>1, <1>2, <1>3, TurnMaps DEF chan, Events!vars

(***************************************************************************)
(* The hub implements EventStream, for any number of users, connections    *)
(* and requests: number and sends are one indivisible step of every        *)
(* handler, whatever it awaited before (ws.rs, messages.rs, pin.rs,        *)
(* chats.rs).                                                              *)
(***************************************************************************)
THEOREM HubImplementsEventStream == Spec => ImplementsEventStream
<1>1. Init => Events!Init
  BY DEF Init, Events!Init
<1> QED BY <1>1, TypeCorrect, NextMaps, PTL DEF Spec, ImplementsEventStream, Events!Spec

(***************************************************************************)
(* API_SPEC.md line 564 for every instance: on each connection sequence    *)
(* numbers only go up.  Proved of EventStream, inherited by the hub.       *)
(***************************************************************************)
THEOREM HubStreamsAreOrdered == Spec => []StreamsOrdered
<1>1. Init => Stream_!Inv
  <2>1. Init => Stream_!Init
    BY DEF Init, Stream_!Init
  <2> QED BY <2>1, Stream_!InvInit
<1>2. Stream_!Inv /\ TypeOK /\ [Next]_vars => Stream_!Inv'
  <2>1. TypeOK /\ [Next]_vars => [Stream_!Next]_(Stream_!vars)
    BY NextMaps DEF Events!Next, Events!Publish, Events!PublishAndReply, Events!Deliver,
       Events!Restart, Events!vars, Events!Queued, Events!Stamped,
       Stream_!Next, Stream_!Publish, Stream_!PublishAndReply, Stream_!Deliver,
       Stream_!Restart, Stream_!vars, Stream_!Queued, Stream_!Stamped
  <2> QED BY <2>1, Stream_!InvNext
<1>3. Stream_!Inv => StreamsOrdered
  BY DEF Stream_!Inv, Stream_!Ordered, StreamsOrdered, Events!StreamsOrdered,
         Events!Increasing, Events!Below, Events!Before,
         Stream_!Increasing, Stream_!Below, Stream_!Before
<1> QED BY <1>1, <1>2, <1>3, TypeCorrect, PTL DEF Spec

\* What was queued or handed over stays, in its place.
Lengthens(p, q) == \E t \in Seq(Event) : q = p \o t

StreamsLengthen ==
  \A s \in Sessions :
    Lengthens(received[s], received'[s]) /\ Lengthens(Stream(s), Stream(s)')

(***************************************************************************)
(* What QueuedIsDelivered does not say: nothing queued for a connection is *)
(* lost, doubled or overtaken by anything a handler, a fault, a write that *)
(* has to wait or another connection does.  Unless the process restarts,   *)
(* the stream of each connection, whose beginning is what its client got,  *)
(* changes only by getting longer at its end (ws.rs lines 140-143 and      *)
(* every tx.send).                                                         *)
(***************************************************************************)
THEOREM HubStreamsGrow == Spec => [][StreamsLengthen \/ Restart]_vars
<1>1. ASSUME TypeOK, Flows PROVE StreamsLengthen
  <2>1. Stream_!TypeOK
    BY <1>1 DEF TypeOK, ChanType, Event, Stream_!TypeOK, Stream_!Event
  <2>2. Stream_!Publish \/ Stream_!PublishAndReply \/ \E s \in Sessions : Stream_!Deliver(s)
    BY <1>1 DEF Flows, Events!Publish, Events!PublishAndReply, Events!Deliver, Events!Queued,
                Events!Stamped, Stream_!Publish, Stream_!PublishAndReply, Stream_!Deliver,
                Stream_!Queued, Stream_!Stamped
  <2>3. Stream_!Grows
    BY <2>1, <2>2, Stream_!FlowGrows
  <2> QED BY <2>3 DEF Stream_!Grows, Stream_!Extends, Stream_!Line, Stream_!Event,
                      StreamsLengthen, Lengthens, Stream, Event
<1>2. ASSUME TypeOK, UNCHANGED chan PROVE StreamsLengthen
  <2>1. ASSUME NEW s \in Sessions
        PROVE  /\ received'[s] = received[s] /\ Stream(s)' = Stream(s)
               /\ received[s] \in Seq(Event) /\ Stream(s) \in Seq(Event)
    BY <1>2 DEF chan, Stream, TypeOK, ChanType
  <2>2. ASSUME NEW p \in Seq(Event) PROVE Lengthens(p, p)
    <3>1. <<>> \in Seq(Event) /\ p = p \o <<>>
      OBVIOUS
    <3> QED BY <3>1 DEF Lengthens
  <2> QED BY <2>1, <2>2 DEF StreamsLengthen
<1>3. TypeOK /\ [Next]_vars => [StreamsLengthen \/ Restart]_vars
  BY <1>1, <1>2, TurnMaps
<1> QED BY <1>3, TypeCorrect, PTL DEF Spec

----------------------------------------------------------------------------
\* The clients map, the presence map and the shard guards

\* Where a session is registered for nobody.
Closed == {"new", "farewell", "announceOffline", "done"}

\* What every turn keeps, except those that connect, disconnect or restart:
\* the two maps, the sessions whose loop runs, and the guards but for one
\* taken on an entry that is there.
Keeps ==
  /\ UNCHANGED <<clients, presence>>
  /\ \A x \in Sessions : Open(x)' <=> Open(x)
  /\ \A t \in Tasks : \/ guard'[t] \in {None, guard[t]}
                      \/ clients[guard'[t]] # None

LEMMA MoveKeeps ==
  ASSUME TaskType, NEW t \in Tasks, NEW here, NEW there, At(t, here), Goto(t, there),
         here \in Closed <=> there \in Closed, UNCHANGED <<clients, presence, guard>>
  PROVE  Keeps
BY DEF TaskType, At, Goto, Keeps, Open, Closed

LEMMA StepKeeps ==
  ASSUME TaskType, NEW t \in Tasks, NEW here, NEW there, Step(t, here, there),
         here \notin Closed, there \notin Closed, UNCHANGED <<clients, presence>>
  PROVE  Keeps
BY MoveKeeps DEF Step

LEMMA FinishKeeps ==
  ASSUME TaskType, NEW t \in Tasks, pc[t] \notin Closed, Finish(t),
         UNCHANGED <<clients, presence>>
  PROVE  Keeps
BY HubAssumption DEF TaskType, Finish, Goto, Rest, Keeps, Open, Tasks, Closed

LEMMA ReturnKeeps ==
  ASSUME TaskType, NEW t \in Tasks, NEW here, here \notin Closed, Return(t, here),
         UNCHANGED <<clients, presence>>
  PROVE  Keeps
BY FinishKeeps DEF Return, At

\* The command handlers of a session.
LEMMA SessionStepKeeps ==
  ASSUME TaskType, NEW s \in Sessions, SessionStep(s)
  PROVE  Keeps
<1>0. s \in Tasks
  BY DEF Tasks
<1>1. UNCHANGED <<clients, presence>>
  BY DEF SessionStep, FetchCommon, AnnounceOnline, AnnounceOffline, CheckMember, Reject,
         LoadMeta, CheckMute, InsertMessage, BroadcastMessage, LookupName,
         BroadcastTyping, UpdateLastRead, ReadChatType, FindSender, SenderAway,
         TakeGuard, CountReads, ReadCountFails, FindSenderFails, PushRead, FetchParticipants, mem
<1>2. ASSUME NEW here, here \notin Closed, Return(s, here) PROVE Keeps
  BY <1>0, <1>1, <1>2, ReturnKeeps
<1>3. CASE FetchCommon(s) \/ AnnounceOnline(s) \/ AnnounceOffline(s)
  <2>1. guard' = guard
    BY <1>3 DEF FetchCommon, AnnounceOnline, AnnounceOffline
  <2>2. \/ At(s, "greet") /\ Goto(s, "announceOnline")
        \/ At(s, "farewell") /\ Goto(s, "announceOffline")
        \/ At(s, "announceOnline") /\ Goto(s, "loop")
        \/ At(s, "announceOffline") /\ Goto(s, "done")
    BY <1>3 DEF FetchCommon, AnnounceOnline, AnnounceOffline
  <2> QED BY <1>0, <1>1, <2>1, <2>2, MoveKeeps DEF Closed
<1>4. CASE CheckMember(s)
  BY <1>0, <1>1, <1>2, <1>4, StepKeeps DEF CheckMember, Closed
<1>5. CASE LoadMeta(s) \/ CheckMute(s)
  BY <1>0, <1>1, <1>2, <1>5, StepKeeps DEF LoadMeta, CheckMute, Closed
<1>6. CASE InsertMessage(s) \/ LookupName(s) \/ CountReads(s)
  BY <1>0, <1>1, <1>6, StepKeeps DEF InsertMessage, LookupName, CountReads, Closed
<1>7. CASE UpdateLastRead(s) \/ ReadChatType(s)
  BY <1>0, <1>1, <1>2, <1>7, StepKeeps DEF UpdateLastRead, ReadChatType, Closed
<1>8. CASE FindSender(s) \/ FetchParticipants(s)
  <2>1. /\ guard' = guard
        /\ At(s, "sender") \/ At(s, "participants")
        /\ Goto(s, "peek") \/ Goto(s, "broadcast")
    BY <1>8 DEF FindSender, FetchParticipants
  <2> QED BY <1>0, <1>1, <2>1, MoveKeeps DEF Closed
<1>9. CASE TakeGuard(s)
  BY <1>0, <1>1, <1>9 DEF TakeGuard, At, Goto, TaskType, Keeps, Open
<1>10. CASE Reject(s) \/ BroadcastMessage(s) \/ BroadcastTyping(s) \/ SenderAway(s)
            \/ ReadCountFails(s) \/ FindSenderFails(s) \/ PushRead(s)
  BY <1>2, <1>10 DEF Reject, BroadcastMessage, BroadcastTyping, SenderAway,
                     ReadCountFails, FindSenderFails, PushRead, Closed
<1> QED BY <1>3, <1>4, <1>5, <1>6, <1>7, <1>8, <1>9, <1>10 DEF SessionStep

LEMMA RequestTurnKeeps ==
  ASSUME TaskType, NEW r \in Requests, RequestStep(r) \/ StartRequest(r)
  PROVE  Keeps
<1>0. r \in Tasks
  BY DEF Tasks
<1>1. UNCHANGED <<clients, presence>>
  BY DEF RequestStep, StartRequest, EditMessage, DeleteMessage, PinMessage, UnpinMessage,
         RemoveParticipant, CheckCanSend, PostMessage, Reread, FetchParticipants,
         BroadcastChange, mem
<1>2. ASSUME NEW here, here \notin Closed, Return(r, here) PROVE Keeps
  BY <1>0, <1>1, <1>2, ReturnKeeps
<1>3. ASSUME NEW there, Step(r, "effect", there),
             there \in {"reread", "participants", "store"}
      PROVE  Keeps
  BY <1>0, <1>1, <1>3, StepKeeps DEF Closed
<1>4. CASE EditMessage(r) \/ DeleteMessage(r)
  BY <1>2, <1>3, <1>4 DEF EditMessage, DeleteMessage, Closed
<1>5. CASE PinMessage(r) \/ UnpinMessage(r)
  BY <1>2, <1>3, <1>5 DEF PinMessage, UnpinMessage, Closed
<1>6. CASE RemoveParticipant(r) \/ CheckCanSend(r)
  BY <1>2, <1>3, <1>6 DEF RemoveParticipant, CheckCanSend, Closed
<1>7. CASE PostMessage(r) \/ BroadcastChange(r)
  BY <1>2, <1>7 DEF PostMessage, BroadcastChange, Closed
<1>8. CASE StartRequest(r) \/ Reread(r) \/ FetchParticipants(r)
  <2>1. /\ guard' = guard
        /\ At(r, "idle") \/ At(r, "reread") \/ At(r, "participants")
        /\ Goto(r, "effect") \/ Goto(r, "participants") \/ Goto(r, "broadcast")
    BY <1>8 DEF StartRequest, Reread, FetchParticipants
  <2> QED BY <1>0, <1>1, <2>1, MoveKeeps DEF Closed
<1> QED BY <1>4, <1>5, <1>6, <1>7, <1>8 DEF RequestStep

\* Everything but a connection that comes or goes and the end of the process.
LEMMA QuietTurnKeeps ==
  ASSUME TaskType, [Next]_vars,
         ~\E s \in Sessions : Connect(s) \/ Disconnect(s), ~Restart
  PROVE  Keeps
<1>1. ASSUME NEW s \in Sessions, SessionStep(s) PROVE Keeps
  BY <1>1, SessionStepKeeps
<1>2. ASSUME NEW s \in Sessions,
             Deliver(s) \/ Sync(s) \/ ConnectParks(s) \/ DisconnectParks(s)
      PROVE  Keeps
  BY <1>2 DEF Deliver, Sync, ConnectParks, DisconnectParks, Park, mem, task, Keeps, Open
<1>3. ASSUME NEW s \in Sessions,
             StreamEnds(s) \/ Suspend(s) \/ Written(s) \/ StartCommand(s)
      PROVE  Keeps
  <2>1. s \in Tasks
    BY DEF Tasks
  <2>2. CASE StreamEnds(s) \/ Suspend(s) \/ Written(s)
    BY <2>1, <2>2, StepKeeps DEF StreamEnds, Suspend, Written, mem, Closed
  <2>3. CASE StartCommand(s)
    BY <2>1, <2>3, MoveKeeps DEF StartCommand, mem, Closed
  <2> QED BY <1>3, <2>2, <2>3
<1>4. ASSUME NEW r \in Requests, RequestStep(r) \/ StartRequest(r) PROVE Keeps
  BY <1>4, RequestTurnKeeps
<1>5. ASSUME NEW t \in Tasks, Fault(t) PROVE Keeps
  BY <1>5, FinishKeeps DEF Fault, AwaitingDb, mem, Closed
<1>6. ASSUME AddParticipant \/ ToggleMute \/ UNCHANGED vars PROVE Keeps
  BY <1>6 DEF AddParticipant, ToggleMute, vars, mem, task, Keeps, Open
<1> QED BY <1>1, <1>2, <1>3, <1>4, <1>5, <1>6 DEF Next, Receive, ClientStep

Agreement ==
  RegistryPointsAtOpenSession /\ PresenceFollowsRegistry /\ GuardedEntryStays

LEMMA AgreementNext == TypeOK /\ Agreement /\ [Next]_vars => Agreement'
<1> SUFFICES ASSUME TypeOK, Agreement, [Next]_vars PROVE Agreement'
  OBVIOUS
<1> USE DEF TypeOK
<1>1. CASE Keeps
  BY <1>1 DEF Keeps, Agreement, RegistryPointsAtOpenSession, PresenceFollowsRegistry,
              GuardedEntryStays, MemType, TaskType
<1>2. ASSUME NEW s \in Sessions, Connect(s) PROVE Agreement'
  <2>1. /\ s \in Tasks /\ Me(s) \in Users /\ s # None /\ guard' = guard
        /\ clients' = [clients EXCEPT ![Me(s)] = s]
        /\ presence' = [presence EXCEPT ![Me(s)] = "online"]
        /\ pc' = [pc EXCEPT ![s] = "greet"]
    BY <1>2, HubAssumption DEF Connect, Step, Goto, Tasks, Me
  <2>2. RegistryPointsAtOpenSession'
    BY <2>1 DEF Agreement, RegistryPointsAtOpenSession, Open, Me, MemType, TaskType
  <2>3. PresenceFollowsRegistry'
    BY <2>1 DEF Agreement, PresenceFollowsRegistry, MemType
  <2>4. GuardedEntryStays'
    BY <2>1 DEF Agreement, GuardedEntryStays, MemType, TaskType
  <2> QED BY <2>2, <2>3, <2>4 DEF Agreement
<1>3. ASSUME NEW s \in Sessions, Disconnect(s) PROVE Agreement'
  <2>1. /\ s \in Tasks /\ Me(s) \in Users /\ guard' = guard
        /\ clients' = [clients EXCEPT ![Me(s)] = None]
        /\ presence' = [presence EXCEPT ![Me(s)] = "offline"]
        /\ pc' = [pc EXCEPT ![s] = "farewell"]
    BY <1>3, HubAssumption DEF Disconnect, Goto, Tasks, Me
  <2>2. RegistryPointsAtOpenSession'
    BY <2>1 DEF Agreement, RegistryPointsAtOpenSession, Open, Me, MemType, TaskType
  <2>3. PresenceFollowsRegistry'
    BY <2>1 DEF Agreement, PresenceFollowsRegistry, MemType
  <2>4. \A t \in Tasks : guard[t] # None => guard[t] # Me(s)
    BY <1>3 DEF Disconnect, ShardHeld
  <2>5. GuardedEntryStays'
    BY <2>1, <2>4 DEF Agreement, GuardedEntryStays, MemType, TaskType
  <2> QED BY <2>2, <2>3, <2>5 DEF Agreement
<1>4. CASE Restart
  BY <1>4 DEF Restart, Agreement, RegistryPointsAtOpenSession, PresenceFollowsRegistry,
              GuardedEntryStays
<1> QED BY <1>1, <1>2, <1>3, <1>4, QuietTurnKeeps

LEMMA AgreementInit == Init => Agreement
BY DEF Init, Agreement, RegistryPointsAtOpenSession, PresenceFollowsRegistry,
       GuardedEntryStays

(***************************************************************************)
(* Nothing is ever queued for a session that has left its loop: a          *)
(* registered sender belongs to a session of that user whose loop runs.    *)
(***************************************************************************)
THEOREM RegistryIsSound == Spec => []RegistryPointsAtOpenSession
BY AgreementInit, AgreementNext, TypeCorrect, PTL DEF Spec, Agreement

(***************************************************************************)
(* The presence map and the clients map agree, however the sessions of one *)
(* user overlap.                                                           *)
(***************************************************************************)
THEOREM PresenceIsRegistry == Spec => []PresenceFollowsRegistry
BY AgreementInit, AgreementNext, TypeCorrect, PTL DEF Spec, Agreement

(***************************************************************************)
(* The entry a suspended mark_as_read holds a guard on does not go away.   *)
(***************************************************************************)
THEOREM GuardedEntriesStay == Spec => []GuardedEntryStays
BY AgreementInit, AgreementNext, TypeCorrect, PTL DEF Spec, Agreement


----------------------------------------------------------------------------
\* Who hears of a message

Writes(t) == job[t] # None /\ job[t].op \in {"send_message", "post"}

\* Where a task has not stored its message yet, and where it has.
Ahead == {"member", "meta", "mute", "insert", "effect", "store"}
Behind == {"participants", "broadcast"}

\* What is true of a task's command at the place it has reached.
Placed(t) ==
  /\ pc[t] \in {"meta", "mute", "insert"} => job[t].op = "send_message"
  /\ pc[t] = "store" => job[t].op = "post"
  /\ pc[t] \in {"reread", "username"} => job[t].op # "send_message"
  /\ pc[t] \in Ahead /\ Writes(t) => msgs[job[t].msg].state = "none"
  /\ pc[t] \in Behind /\ job[t].op = "send_message" =>
       /\ msgs[job[t].msg].state # "none"
       /\ msgs[job[t].msg].chat = job[t].chat
  /\ pc[t] = "broadcast" /\ job[t].op = "send_message" =>
       rcpt[t] \subseteq audience[job[t].msg]

\* No two tasks write one message.
OneWriter ==
  \A t, u \in Tasks : Writes(t) /\ Writes(u) /\ t # u => job[t].msg # job[u].msg

\* Whoever is in the chat of a message may hear of it.
MembersHear ==
  \A m \in Messages :
    IF msgs[m].state = "none"
    THEN msgs[m].sender = None
    ELSE msgs[m].chat \in Chats /\ participants[msgs[m].chat] \subseteq audience[m]

\* An event that s may be sent.
Fit(s, b) ==
  b.kind = "new_message" => b.topic \in Messages /\ msgs[b.topic].state # "none"
                            /\ Me(s) \in audience[b.topic]

Told(q) == \A s \in Sessions : \A i \in DOMAIN q[s] : Fit(s, q[s][i].body)

AudienceInv ==
  /\ OneWriter /\ MembersHear
  /\ \A t \in Tasks : Placed(t)
  /\ Told(queue) /\ Told(received)

\* What is stored stays stored, in its chat, and its audience only grows.
Grows ==
  \A m \in Messages : msgs[m].state # "none" =>
    /\ msgs'[m].state # "none" /\ msgs'[m].chat = msgs[m].chat
    /\ audience[m] \subseteq audience'[m]

\* Nothing new is stored.
NothingNew == \A m \in Messages : msgs[m].state = "none" => msgs'[m].state = "none"

LEMMA RowsStay ==
  ASSUME MembersHear, UNCHANGED <<msgs, participants, audience>>
  PROVE  MembersHear' /\ Grows /\ NothingNew
BY DEF MembersHear, Grows, NothingNew

LEMMA InsertRows ==
  ASSUME TypeOK, MembersHear, NEW j \in Jobs, msgs[j.msg].state = "none", Insert(j)
  PROVE  /\ MembersHear' /\ Grows
         /\ msgs'[j.msg].state # "none" /\ msgs'[j.msg].chat = j.chat
         /\ \A m \in Messages : m # j.msg => msgs'[m] = msgs[m]
<1>1. j.msg \in Messages /\ j.chat \in Chats
  BY DEF Jobs
<1>2. /\ participants' = participants
      /\ audience'[j.msg] = participants[j.chat]
      /\ msgs'[j.msg].state = "live" /\ msgs'[j.msg].chat = j.chat
      /\ \A m \in Messages : m # j.msg => msgs'[m] = msgs[m] /\ audience'[m] = audience[m]
  BY <1>1 DEF Insert, TypeOK, DbType
<1>3. MembersHear'
  BY <1>1, <1>2 DEF MembersHear
<1> QED BY <1>2, <1>3 DEF Grows

\* An edit, a deletion and a removal change what is there, never its chat.
LEMMA ChangeRows ==
  ASSUME TypeOK, MembersHear, NEW r \in Requests,
         EditMessage(r) \/ DeleteMessage(r) \/ RemoveParticipant(r)
  PROVE  MembersHear' /\ Grows /\ NothingNew
<1> DEFINE j == job[r]
<1>1. At(r, "effect")
  BY DEF EditMessage, DeleteMessage, RemoveParticipant, Effect
<1>2. /\ j.chat \in Chats /\ j.msg \in Messages
      /\ j.by \in Users /\ j.user \in Users
  BY <1>1, InHand DEF At, InHandler, AwaitingDb, Tasks, TypeOK
<1>3. CASE EditMessage(r) \/ DeleteMessage(r)
  <2>1. /\ UNCHANGED <<participants, audience>>
        /\ \/ msgs' = msgs
           \/ /\ msgs[j.msg].sender = j.by
              /\ \/ msgs' = [msgs EXCEPT ![j.msg].content = r]
                 \/ msgs' = [msgs EXCEPT ![j.msg].state = "deleted"]
    BY <1>3 DEF EditMessage, DeleteMessage
  <2>2. CASE msgs' = msgs
    BY <2>1, <2>2, RowsStay
  <2>3. CASE msgs' # msgs
    <3> DEFINE k == j.msg
    <3>1. k \in Messages /\ msgs \in [Messages -> MsgRows] /\ msgs[k].sender # None
      BY <1>2, <2>1, <2>3, HubAssumption DEF TypeOK, DbType
    <3>2. msgs[k].state # "none"
      BY <3>1 DEF MembersHear
    <3>3. /\ msgs'[k].state # "none" /\ msgs'[k].chat = msgs[k].chat
          /\ \A m \in Messages : m # k => msgs'[m] = msgs[m]
      <4>1. CASE msgs' = [msgs EXCEPT ![k].content = r]
        BY <3>1, <3>2, <4>1 DEF MsgRows
      <4>2. CASE msgs' = [msgs EXCEPT ![k].state = "deleted"]
        BY <3>1, <4>2 DEF MsgRows
      <4> QED BY <2>1, <2>3, <4>1, <4>2
    <3> HIDE DEF k
    <3>4. MembersHear'
      BY <2>1, <3>1, <3>2, <3>3 DEF MembersHear
    <3> QED BY <2>1, <3>2, <3>3, <3>4 DEF Grows, NothingNew
  <2> QED BY <2>2, <2>3
<1>4. CASE RemoveParticipant(r)
  <2>1. /\ UNCHANGED <<msgs, audience>>
        /\ \/ participants' = [participants EXCEPT ![j.chat] = @ \ {j.user}]
           \/ participants' = participants
    BY <1>4 DEF RemoveParticipant
  <2>2. \A c \in Chats : participants'[c] \subseteq participants[c]
    BY <1>2, <2>1 DEF TypeOK, DbType
  <2> QED BY <2>1, <2>2 DEF MembersHear, Grows, NothingNew
<1> QED BY <1>3, <1>4

LEMMA JoinRows ==
  ASSUME TypeOK, MembersHear, AddParticipant
  PROVE  MembersHear' /\ Grows /\ NothingNew
<1>1. PICK c \in Chats, u \in Users :
        /\ participants' = [participants EXCEPT ![c] = @ \cup {u}]
        /\ audience' = [m \in Messages |-> IF msgs[m].chat = c THEN audience[m] \cup {u}
                                                               ELSE audience[m]]
  BY DEF AddParticipant
<1>2. msgs' = msgs
  BY DEF AddParticipant
<1>3. ASSUME NEW d \in Chats
      PROVE  participants'[d] = IF d = c THEN participants[d] \cup {u} ELSE participants[d]
  BY <1>1 DEF TypeOK, DbType
<1>4. ASSUME NEW m \in Messages
      PROVE  audience'[m] = IF msgs[m].chat = c THEN audience[m] \cup {u} ELSE audience[m]
  BY <1>1
<1> QED BY <1>2, <1>3, <1>4 DEF MembersHear, Grows, NothingNew

\* Every turn that stores no message.
LEMMA OtherRows ==
  ASSUME TypeOK, MembersHear, [Next]_vars,
         ~\E s \in Sessions : InsertMessage(s), ~\E r \in Requests : PostMessage(r)
  PROVE  MembersHear' /\ Grows /\ NothingNew
<1>1. ASSUME NEW s \in Sessions, SessionStep(s) \/ Receive(s) \/ ClientStep(s)
      PROVE  UNCHANGED <<msgs, participants, audience>>
  <2>1. ~InsertMessage(s)
    OBVIOUS
  <2> QED BY <1>1, <2>1
    DEF SessionStep, Receive, ClientStep, Deliver, Suspend, Written, Connect,
        ConnectParks, StreamEnds, Disconnect, DisconnectParks, Park, StartCommand, Sync,
        FetchCommon, AnnounceOnline, AnnounceOffline, CheckMember, Reject, LoadMeta, CheckMute,
        BroadcastMessage,
        LookupName, BroadcastTyping, UpdateLastRead, ReadChatType, FindSender, SenderAway,
        TakeGuard, CountReads, ReadCountFails, FindSenderFails, PushRead, FetchParticipants, db
<1>2. ASSUME NEW r \in Requests, RequestStep(r) \/ StartRequest(r)
      PROVE  MembersHear' /\ Grows /\ NothingNew
  <2>1. CASE EditMessage(r) \/ DeleteMessage(r) \/ RemoveParticipant(r)
    BY <2>1, ChangeRows
  <2>2. CASE \/ PinMessage(r) \/ UnpinMessage(r) \/ CheckCanSend(r) \/ Reread(r)
             \/ FetchParticipants(r) \/ BroadcastChange(r) \/ StartRequest(r)
    BY <2>2, RowsStay DEF PinMessage, UnpinMessage, CheckCanSend, Reread,
                          FetchParticipants, BroadcastChange, StartRequest, db
  <2> QED BY <1>2, <2>1, <2>2 DEF RequestStep
<1>3. ASSUME \/ \E t \in Tasks : Fault(t)
             \/ ToggleMute \/ Restart \/ UNCHANGED vars
      PROVE  UNCHANGED <<msgs, participants, audience>>
  BY <1>3 DEF Fault, ToggleMute, Restart, vars, db
<1> QED BY <1>1, <1>2, <1>3, RowsStay, JoinRows DEF Next


\* Only t has moved.
Alone(t) ==
  \A u \in Tasks : u # t => pc'[u] = pc[u] /\ job'[u] = job[u] /\ rcpt'[u] = rcpt[u]

\* Who has not moved is still placed if what it is to store is not stored yet.
LEMMA StillPlaced ==
  ASSUME TypeOK, Grows, NEW u \in Tasks, Placed(u),
         pc'[u] = pc[u], job'[u] = job[u], rcpt'[u] = rcpt[u],
         \A m \in Messages : Writes(u) /\ m = job[u].msg /\ msgs[m].state = "none"
                               => msgs'[m].state = "none"
  PROVE  Placed(u)'
<1>1. pc[u] \in Ahead \cup Behind => job[u].msg \in Messages
  BY InHand DEF TypeOK, InHandler, AwaitingDb, Ahead, Behind
<1>2. Writes(u)' <=> Writes(u)
  BY DEF Writes
<1>3. /\ pc[u] \in Ahead /\ Writes(u) => msgs'[job[u].msg].state = "none"
      /\ pc[u] \in Behind /\ job[u].op = "send_message" =>
           /\ msgs'[job[u].msg].state # "none"
           /\ msgs'[job[u].msg].chat = job[u].chat
      /\ pc[u] = "broadcast" /\ job[u].op = "send_message" =>
           rcpt[u] \subseteq audience'[job[u].msg]
  BY <1>1 DEF Placed, Grows, Behind
<1> QED BY <1>2, <1>3 DEF Placed

\* A task that has returned has nothing to be placed by.
LEMMA FinishPlaced ==
  ASSUME TypeOK, NEW t \in Tasks, Finish(t)
  PROVE  Placed(t)' /\ Alone(t) /\ ~Writes(t)'
<1>1. pc'[t] \in {"loop", "done"} /\ job'[t] = None
  BY DEF Finish, Goto, Rest, TypeOK, TaskType
<1>2. Alone(t)
  BY DEF Finish, Goto, TypeOK, TaskType, Alone
<1> QED BY <1>1, <1>2 DEF Placed, Ahead, Behind, Writes

LEMMA StepAlone ==
  ASSUME TypeOK, NEW t \in Tasks, NEW here, NEW there, Step(t, here, there)
  PROVE  /\ Alone(t) /\ pc[t] = here /\ pc'[t] = there
         /\ job'[t] = job[t] /\ rcpt'[t] = rcpt[t]
BY DEF TypeOK, TaskType, Step, At, Goto, Alone

\* A step to a place where no more is asked of the command.
LEMMA StepPlaced ==
  ASSUME TypeOK, Grows, NothingNew, NEW t \in Tasks, Placed(t), NEW here, NEW there,
         Step(t, here, there), there \notin Behind,
         there \in Ahead => here \in Ahead,
         there \in {"meta", "mute", "insert"} => job[t].op = "send_message",
         there = "store" => job[t].op = "post",
         there \in {"reread", "username"} => job[t].op # "send_message"
  PROVE  Placed(t)' /\ Alone(t) /\ job'[t] = job[t]
<1>1. /\ Alone(t) /\ pc[t] = here /\ pc'[t] = there /\ job'[t] = job[t]
  BY StepAlone
<1>2. pc[t] \in Ahead => job[t].msg \in Messages
  BY InHand DEF TypeOK, InHandler, AwaitingDb, Ahead
<1>3. there \in Ahead /\ Writes(t) => msgs'[job[t].msg].state = "none"
  BY <1>1, <1>2 DEF Placed, NothingNew
<1>4. Writes(t)' <=> Writes(t)
  BY <1>1 DEF Writes
<1> QED BY <1>1, <1>3, <1>4 DEF Placed, Behind

\* A task outside every handler, or where nothing is said of its command.
LEMMA ElsewherePlaced ==
  ASSUME NEW t, pc'[t] \notin Ahead \cup Behind \cup {"reread", "username"}
  PROVE  Placed(t)'
BY DEF Placed, Ahead, Behind

\* One turn of t: it is placed, nobody else has moved, and either its command
\* is what it was or it writes nothing.
Turn(t) == Placed(t)' /\ Alone(t) /\ (job'[t] = job[t] \/ ~Writes(t)')

LEMMA ReturnTurn ==
  ASSUME TypeOK, NEW t \in Tasks, NEW here, Return(t, here)
  PROVE  Turn(t)
BY FinishPlaced DEF Return, Turn

LEMMA InsertTurn ==
  ASSUME TypeOK, MembersHear, NEW s \in Sessions, Placed(s), InsertMessage(s)
  PROVE  /\ Turn(s) /\ MembersHear' /\ Grows /\ Writes(s)
         /\ \A m \in Messages : m # job[s].msg => msgs'[m] = msgs[m]
<1>1. s \in Tasks /\ pc[s] = "insert"
  BY DEF Tasks, InsertMessage, Step, At
<1>2. job[s] \in Jobs /\ job[s] # None
  BY <1>1, InHand, HubAssumption DEF TypeOK, InHandler, AwaitingDb
<1>3. job[s].op = "send_message" /\ Writes(s) /\ msgs[job[s].msg].state = "none"
  BY <1>1, <1>2 DEF Placed, Writes, Ahead
<1>4. /\ MembersHear' /\ Grows
      /\ msgs'[job[s].msg].state # "none" /\ msgs'[job[s].msg].chat = job[s].chat
      /\ \A m \in Messages : m # job[s].msg => msgs'[m] = msgs[m]
  BY <1>2, <1>3, InsertRows DEF InsertMessage
<1>5. Alone(s) /\ pc'[s] = "participants" /\ job'[s] = job[s]
  BY <1>1, StepAlone DEF InsertMessage
<1> QED BY <1>3, <1>4, <1>5 DEF Turn, Placed, Ahead, Behind

LEMMA PostTurn ==
  ASSUME TypeOK, MembersHear, NEW r \in Requests, Placed(r), PostMessage(r)
  PROVE  /\ Turn(r) /\ MembersHear' /\ Grows /\ Writes(r)
         /\ \A m \in Messages : m # job[r].msg => msgs'[m] = msgs[m]
<1>1. r \in Tasks /\ pc[r] = "store"
  BY DEF Tasks, PostMessage, Return, At
<1>2. job[r] \in Jobs /\ job[r] # None
  BY <1>1, InHand, HubAssumption DEF TypeOK, InHandler, AwaitingDb
<1>3. Writes(r) /\ msgs[job[r].msg].state = "none"
  BY <1>1, <1>2 DEF Placed, Writes, Ahead
<1>4. /\ MembersHear' /\ Grows
      /\ \A m \in Messages : m # job[r].msg => msgs'[m] = msgs[m]
  BY <1>2, <1>3, InsertRows DEF PostMessage
<1> QED BY <1>1, <1>3, <1>4, ReturnTurn DEF PostMessage

LEMMA FetchTurn ==
  ASSUME TypeOK, MembersHear, NEW t \in Tasks, Placed(t), FetchParticipants(t)
  PROVE  Turn(t)
<1>1. /\ pc[t] = "participants" /\ pc'[t] = "broadcast" /\ job'[t] = job[t]
      /\ rcpt'[t] = Recipients(job[t]) /\ Alone(t)
      /\ UNCHANGED <<msgs, participants, audience>>
  BY DEF FetchParticipants, At, Goto, TypeOK, TaskType, Alone, db
<1>2. job[t].msg \in Messages
  BY <1>1, InHand DEF TypeOK, InHandler, AwaitingDb
<1>3. Recipients(job[t]) \subseteq participants[job[t].chat]
  BY DEF Recipients
<1>4. job[t].op = "send_message" =>
        /\ msgs[job[t].msg].state # "none" /\ msgs[job[t].msg].chat = job[t].chat
        /\ Recipients(job[t]) \subseteq audience[job[t].msg]
  BY <1>1, <1>2, <1>3 DEF Placed, Behind, MembersHear
<1> QED BY <1>1, <1>4 DEF Turn, Placed, Ahead, Behind

\* Every turn of a session but the two that take up a command or store one.
LEMMA SessionTurn ==
  ASSUME TypeOK, MembersHear, Grows, NothingNew, NEW s \in Sessions, Placed(s),
         SessionStep(s) \/ Receive(s) \/ ClientStep(s),
         ~StartCommand(s), ~InsertMessage(s)
  PROVE  Turn(s)
<1>0. s \in Tasks
  BY DEF Tasks
<1>1. ASSUME NEW here, Return(s, here) PROVE Turn(s)
  BY <1>0, <1>1, ReturnTurn
<1>2. CASE CheckMember(s) \/ LoadMeta(s) \/ CheckMute(s)
  <2>1. \/ job[s].op = "send_message" /\ Step(s, "member", "meta")
        \/ job[s].op = "start_typing" /\ Step(s, "member", "username")
        \/ Step(s, "member", "update")
        \/ Step(s, "member", "reject") \/ Step(s, "meta", "reject") \/ Step(s, "mute", "reject")
        \/ Step(s, "meta", "mute") \/ Step(s, "mute", "insert")
        \/ Return(s, "member") \/ Return(s, "meta")
    BY <1>2 DEF CheckMember, LoadMeta, CheckMute
  <2>2. ASSUME Step(s, "meta", "mute") \/ Step(s, "mute", "insert")
        PROVE  job[s].op = "send_message"
    BY <2>2 DEF Step, At, Placed
  <2> QED BY <1>0, <1>1, <2>1, <2>2, StepPlaced DEF Ahead, Behind, Turn
<1>3. CASE LookupName(s)
  <2>1. /\ Alone(s) /\ pc[s] = "username" /\ pc'[s] = "participants"
        /\ job'[s] = job[s]
    BY <1>0, <1>3, StepAlone DEF LookupName
  <2> QED BY <2>1 DEF Turn, Placed, Ahead, Behind
<1>4. CASE \/ UpdateLastRead(s) \/ ReadChatType(s) \/ CountReads(s) \/ Connect(s)
           \/ StreamEnds(s) \/ Suspend(s) \/ Written(s)
  <2>1. \/ Step(s, "update", "chatType") \/ Step(s, "chatType", "sender")
        \/ Step(s, "countReads", "readCount") \/ Step(s, "loop", "drain")
        \/ Step(s, "loop", "writing") \/ Step(s, "drain", "drainWriting")
        \/ Step(s, "writing", "loop") \/ Step(s, "drainWriting", "drain")
        \/ Step(s, "new", "greet")
        \/ Return(s, "update") \/ Return(s, "chatType")
    BY <1>4 DEF UpdateLastRead, ReadChatType, CountReads, StreamEnds, Suspend, Written,
                Connect
  <2> QED BY <1>0, <1>1, <2>1, StepPlaced DEF Ahead, Behind, Turn
<1>5. CASE \/ Reject(s) \/ BroadcastMessage(s) \/ BroadcastTyping(s) \/ SenderAway(s)
           \/ ReadCountFails(s) \/ FindSenderFails(s) \/ PushRead(s)
  BY <1>1, <1>5 DEF Reject, BroadcastMessage, BroadcastTyping, SenderAway,
                    ReadCountFails, FindSenderFails, PushRead
<1>6. CASE \/ FetchCommon(s) \/ AnnounceOnline(s) \/ AnnounceOffline(s)
           \/ FindSender(s) \/ TakeGuard(s) \/ Disconnect(s)
  <2>1. PICK there \in {"announceOnline", "announceOffline", "loop", "done", "peek",
                        "countReads", "pushRead", "farewell"} : Goto(s, there)
    BY <1>6 DEF FetchCommon, AnnounceOnline, AnnounceOffline, FindSender, TakeGuard,
                Disconnect
  <2>2. /\ job' = job
        /\ rcpt' = rcpt \/ rcpt' = [rcpt EXCEPT ![s] = CommonUsers(Me(s))]
                        \/ rcpt' = [rcpt EXCEPT ![s] = {}]
    BY <1>6 DEF FetchCommon, AnnounceOnline, AnnounceOffline, FindSender, TakeGuard,
                Disconnect
  <2>3. Alone(s) /\ pc'[s] = there
    BY <1>0, <2>1, <2>2 DEF Goto, TypeOK, TaskType, Alone
  <2> QED BY <2>2, <2>3, ElsewherePlaced DEF Turn, Ahead, Behind
<1>7. CASE FetchParticipants(s)
  BY <1>0, <1>7, FetchTurn
<1>8. CASE Deliver(s) \/ Sync(s) \/ ConnectParks(s) \/ DisconnectParks(s)
  <2>1. UNCHANGED <<pc, job, rcpt>>
    BY <1>8 DEF Deliver, Sync, ConnectParks, DisconnectParks, Park, task
  <2> QED BY <1>0, <2>1, StillPlaced DEF Turn, Alone, NothingNew
<1> QED
  BY <1>2, <1>3, <1>4, <1>5, <1>6, <1>7, <1>8 DEF SessionStep, Receive, ClientStep

LEMMA RequestTurn ==
  ASSUME TypeOK, MembersHear, Grows, NothingNew, NEW r \in Requests, Placed(r),
         RequestStep(r), ~PostMessage(r)
  PROVE  Turn(r)
<1>0. r \in Tasks
  BY DEF Tasks
<1>1. ASSUME NEW here, Return(r, here) PROVE Turn(r)
  BY <1>0, <1>1, ReturnTurn
<1>2. CASE EditMessage(r) \/ DeleteMessage(r) \/ PinMessage(r) \/ RemoveParticipant(r)
           \/ CheckCanSend(r)
  <2>1. \/ job[r].op # "send_message" /\ Step(r, "effect", "reread")
        \/ job[r].op = "post" /\ Step(r, "effect", "store")
        \/ Return(r, "effect")
    BY <1>2 DEF EditMessage, DeleteMessage, PinMessage, RemoveParticipant, CheckCanSend,
                Effect
  <2> QED BY <1>0, <1>1, <2>1, StepPlaced DEF Ahead, Behind, Turn
<1>3. CASE UnpinMessage(r)
  <2>1. CASE Return(r, "effect")
    BY <1>1, <2>1
  <2>2. CASE Step(r, "effect", "participants")
    <3>1. Alone(r) /\ pc'[r] = "participants" /\ job'[r] = job[r]
      BY <1>0, <2>2, StepAlone
    <3>2. job[r].op = "unpin"
      BY <1>3 DEF UnpinMessage, Effect
    <3> QED BY <3>1, <3>2 DEF Turn, Placed, Ahead, Behind
  <2> QED BY <1>3, <2>1, <2>2 DEF UnpinMessage
<1>4. CASE Reread(r)
  <2>1. /\ pc[r] = "reread" /\ pc'[r] = "participants" /\ job'[r] = job[r] /\ Alone(r)
    BY <1>0, <1>4 DEF Reread, At, Goto, TypeOK, TaskType, Alone
  <2> QED BY <2>1 DEF Turn, Placed, Ahead, Behind
<1>5. CASE FetchParticipants(r)
  BY <1>0, <1>5, FetchTurn
<1>6. CASE BroadcastChange(r)
  BY <1>1, <1>6 DEF BroadcastChange
<1> QED BY <1>2, <1>3, <1>4, <1>5, <1>6 DEF RequestStep

\* What one turn does to all tasks.
LEMMA TurnTasks ==
  ASSUME TypeOK, OneWriter, Grows, NEW t \in Tasks, Turn(t), \A u \in Tasks : Placed(u),
         \A m \in Messages : \/ msgs[m].state = "none" => msgs'[m].state = "none"
                             \/ Writes(t) /\ m = job[t].msg
  PROVE  OneWriter' /\ \A u \in Tasks : Placed(u)'
<1>1. OneWriter'
  BY DEF OneWriter, Turn, Alone, Writes
<1>2. ASSUME NEW u \in Tasks, u # t PROVE Placed(u)'
  <2>1. pc'[u] = pc[u] /\ job'[u] = job[u] /\ rcpt'[u] = rcpt[u]
    BY <1>2 DEF Turn, Alone
  <2>2. \A m \in Messages : Writes(u) /\ m = job[u].msg /\ msgs[m].state = "none"
                              => msgs'[m].state = "none"
    BY <1>2 DEF OneWriter
  <2> QED BY <2>1, <2>2, StillPlaced
<1> QED BY <1>1, <1>2 DEF Turn

\* A command is taken up with a message that nobody has.
LEMMA StartTasks ==
  ASSUME TypeOK, AudienceInv, NEW t \in Tasks, NEW j \in Jobs,
         Acceptable(j), job' = [job EXCEPT ![t] = j],
         Goto(t, "member") \/ Goto(t, "effect"), UNCHANGED <<rcpt, db>>
  PROVE  OneWriter' /\ \A u \in Tasks : Placed(u)'
<1>1. /\ job'[t] = j /\ pc'[t] \in {"member", "effect"} /\ Alone(t)
      /\ UNCHANGED <<msgs, audience>>
  BY DEF Goto, TypeOK, TaskType, Alone, db
<1>2. OneWriter'
  BY <1>1 DEF AudienceInv, OneWriter, Acceptable, Fresh, Writes, Alone
<1>3. Placed(t)'
  BY <1>1 DEF Placed, Ahead, Behind, Writes, Acceptable, Fresh
<1>4. ASSUME NEW u \in Tasks, u # t PROVE Placed(u)'
  BY <1>1, <1>4, StillPlaced DEF AudienceInv, Alone, Grows
<1> QED BY <1>2, <1>3, <1>4


LEMMA AudienceRows ==
  ASSUME TypeOK, AudienceInv, [Next]_vars
  PROVE  /\ MembersHear' /\ Grows /\ OneWriter'
         /\ \A t \in Tasks : Placed(t)'
<1> USE DEF AudienceInv
<1>1. CASE \E s \in Sessions : InsertMessage(s)
  <2>1. PICK s \in Sessions : InsertMessage(s)
    BY <1>1
  <2>2. s \in Tasks
    BY DEF Tasks
  <2> QED BY <2>1, <2>2, InsertTurn, TurnTasks
<1>2. CASE \E r \in Requests : PostMessage(r)
  <2>1. PICK r \in Requests : PostMessage(r)
    BY <1>2
  <2>2. r \in Tasks
    BY DEF Tasks
  <2> QED BY <2>1, <2>2, PostTurn, TurnTasks
<1>3. CASE ~(\E s \in Sessions : InsertMessage(s)) /\ ~(\E r \in Requests : PostMessage(r))
  <2>1. MembersHear' /\ Grows /\ NothingNew
    BY <1>3, OtherRows
  <2>2. ASSUME NEW t \in Tasks, Turn(t)
        PROVE  OneWriter' /\ \A u \in Tasks : Placed(u)'
    BY <2>1, <2>2, TurnTasks DEF NothingNew
  <2>3. ASSUME NEW s \in Sessions, SessionStep(s) \/ Receive(s) \/ ClientStep(s),
               ~StartCommand(s)
        PROVE  OneWriter' /\ \A u \in Tasks : Placed(u)'
    BY <1>3, <2>1, <2>2, <2>3, SessionTurn DEF Tasks
  <2>4. ASSUME NEW r \in Requests, RequestStep(r)
        PROVE  OneWriter' /\ \A u \in Tasks : Placed(u)'
    BY <1>3, <2>1, <2>2, <2>4, RequestTurn DEF Tasks
  <2>5. ASSUME NEW s \in Sessions, StartCommand(s)
        PROVE  OneWriter' /\ \A u \in Tasks : Placed(u)'
    <3>1. PICK j \in SessionJobs : Acceptable(j) /\ job' = [job EXCEPT ![s] = j]
      BY <2>5 DEF StartCommand
    <3>2. j \in Jobs /\ s \in Tasks
      BY HubAssumption DEF Tasks
    <3> QED BY <2>5, <3>1, <3>2, StartTasks DEF StartCommand
  <2>6. ASSUME NEW r \in Requests, StartRequest(r)
        PROVE  OneWriter' /\ \A u \in Tasks : Placed(u)'
    <3>1. PICK j \in RequestJobs : Acceptable(j) /\ job' = [job EXCEPT ![r] = j]
      BY <2>6 DEF StartRequest
    <3>2. j \in Jobs /\ r \in Tasks
      BY HubAssumption DEF Tasks
    <3> QED BY <2>6, <3>1, <3>2, StartTasks DEF StartRequest
  <2>7. ASSUME NEW t \in Tasks, Fault(t)
        PROVE  OneWriter' /\ \A u \in Tasks : Placed(u)'
    BY <2>2, <2>7, FinishPlaced DEF Fault, Turn
  <2>8. ASSUME AddParticipant \/ ToggleMute \/ UNCHANGED vars
        PROVE  OneWriter' /\ \A u \in Tasks : Placed(u)'
    <3>1. UNCHANGED <<pc, job, rcpt>>
      BY <2>8 DEF AddParticipant, ToggleMute, vars, task
    <3>2. OneWriter'
      BY <3>1 DEF OneWriter, Writes
    <3> QED BY <2>1, <3>1, <3>2, StillPlaced DEF NothingNew
  <2>9. ASSUME Restart
        PROVE  OneWriter' /\ \A u \in Tasks : Placed(u)'
    <3>1. \A u \in Tasks : job'[u] = None /\ pc'[u] \in {"new", "idle", "done"}
      BY <2>9 DEF Restart
    <3>2. \A u \in Tasks : Placed(u)'
      BY <3>1 DEF Placed, Ahead, Behind
    <3> QED BY <3>1, <3>2 DEF OneWriter, Writes
  <2> QED BY <2>1, <2>3, <2>4, <2>5, <2>6, <2>7, <2>8, <2>9 DEF Next, ClientStep
<1> QED BY <1>1, <1>2, <1>3

\* An event of another kind, or one to people who may hear it.
Addressed(R, b) == \A s \in Sessions : (\E u \in R : clients[u] = s) => Fit(s, b)

LEMMA PushTold ==
  ASSUME NEW q \in [Sessions -> Seq(Event)], Told(q), NEW R, NEW n, NEW b, Addressed(R, b)
  PROVE  Told(Push(q, R, Event_(n, b)))
<1> SUFFICES ASSUME NEW s \in Sessions,
                    NEW i \in DOMAIN Push(q, R, Event_(n, b))[s]
             PROVE  Fit(s, Push(q, R, Event_(n, b))[s][i].body)
  BY DEF Told
<1>1. CASE \E u \in R : clients[u] = s
  <2>1. Push(q, R, Event_(n, b))[s] = Append(q[s], Event_(n, b))
    BY <1>1 DEF Push
  <2>2. q[s] \in Seq(Event)
    OBVIOUS
  <2>3. CASE i \in DOMAIN q[s]
    BY <2>1, <2>2, <2>3 DEF Told
  <2>4. CASE i \notin DOMAIN q[s]
    <3>1. Append(q[s], Event_(n, b))[i] = Event_(n, b)
      BY <2>1, <2>2, <2>4
    <3> QED BY <1>1, <2>1, <3>1 DEF Addressed, Event_
  <2> QED BY <2>3, <2>4
<1>2. CASE ~\E u \in R : clients[u] = s
  <2>1. Push(q, R, Event_(n, b))[s] = q[s]
    BY <1>2 DEF Push
  <2> QED BY <2>1 DEF Told
<1> QED BY <1>1, <1>2

LEMMA BroadcastTold ==
  ASSUME TypeOK, Told(queue), NEW R, NEW b, Addressed(R, b), Broadcast(R, b)
  PROVE  Told(queue') /\ received' = received
BY PushTold DEF Broadcast, TypeOK, ChanType

LEMMA BroadcastAndAckTold ==
  ASSUME TypeOK, Told(queue), NEW s \in Sessions, NEW R, NEW b \in Bodies, Addressed(R, b),
         BroadcastAndAck(s, R, b)
  PROVE  Told(queue') /\ received' = received
<1>1. CASE job[s].ack /\ clients[Me(s)] # None
  <2> DEFINE q == Push(queue, R, Event_(seqCounter, b))
             a == Body("ack", Me(s), None)
  <2>1. q \in [Sessions -> Seq(Event)]
    BY AppendType DEF TypeOK, ChanType
  <2>2. Told(q)
    BY PushTold DEF TypeOK, ChanType
  <2>3. Addressed({Me(s)}, a)
    BY DEF Addressed, Fit, Body
  <2>4. queue' = Push(q, {Me(s)}, Event_(seqCounter + 1, a)) /\ received' = received
    BY <1>1 DEF BroadcastAndAck
  <2> HIDE DEF q, a
  <2> QED BY <2>1, <2>2, <2>3, <2>4, PushTold
<1>2. CASE ~(job[s].ack /\ clients[Me(s)] # None)
  BY <1>2, BroadcastTold DEF BroadcastAndAck
<1> QED BY <1>1, <1>2

LEMMA ReplyTold ==
  ASSUME TypeOK, Told(queue), NEW s \in Sessions, NEW b, b.kind # "new_message", Reply(s, b)
  PROVE  Told(queue') /\ received' = received
<1>1. Addressed({Me(s)}, b)
  BY DEF Addressed, Fit
<1> QED BY <1>1, BroadcastTold DEF Reply, chan

\* What is told stays fit while audiences only grow.
LEMMA ToldStays ==
  ASSUME Grows, UNCHANGED chan, Told(queue), Told(received)
  PROVE  Told(queue)' /\ Told(received)'
BY DEF Told, Fit, Grows, chan, Me

LEMMA WriteTold ==
  ASSUME TypeOK, Told(queue), Told(received), NEW s \in Sessions, Write(s)
  PROVE  Told(queue') /\ Told(received')
<1>1. queue[s] \in Seq(Event) /\ queue[s] # <<>> /\ received[s] \in Seq(Event)
  BY DEF Write, TypeOK, ChanType
<1>2. /\ queue' = [queue EXCEPT ![s] = Tail(queue[s])]
      /\ received' = [received EXCEPT ![s] = Append(received[s], Head(queue[s]))]
  BY DEF Write
<1>3. \A i \in DOMAIN Tail(queue[s]) : Fit(s, Tail(queue[s])[i].body)
  BY <1>1 DEF Told
<1>4. Fit(s, Head(queue[s]).body)
  BY <1>1 DEF Told
<1>5. \A i \in DOMAIN Append(received[s], Head(queue[s])) :
        Fit(s, Append(received[s], Head(queue[s]))[i].body)
  BY <1>1, <1>4 DEF Told
<1>6. Told(queue')
  BY <1>2, <1>3 DEF Told, TypeOK, ChanType
<1>7. Told(received')
  BY <1>2, <1>5 DEF Told, TypeOK, ChanType
<1> QED BY <1>6, <1>7

\* The one turn that pushes a new message.
LEMMA MessageTold ==
  ASSUME TypeOK, RegistryPointsAtOpenSession, AudienceInv, NEW s \in Sessions,
         BroadcastMessage(s)
  PROVE  Told(queue') /\ received' = received
<1> DEFINE m == job[s].msg
           b == Body("new_message", m, None)
<1>1. s \in Tasks /\ pc[s] = "broadcast" /\ job[s].op = "send_message"
  BY DEF BroadcastMessage, Return, At, Tasks
<1>2. m \in Messages
  BY <1>1, InHand DEF TypeOK, InHandler, AwaitingDb
<1>3. b \in Bodies
  BY <1>2 DEF Body, Bodies, Contents
<1>4. msgs[m].state # "none" /\ rcpt[s] \subseteq audience[m]
  BY <1>1 DEF AudienceInv, Placed, Behind
<1>5. rcpt[s] \subseteq Users
  BY <1>1 DEF TypeOK, TaskType
<1>6. Addressed(rcpt[s], b)
  <2> SUFFICES ASSUME NEW x \in Sessions, NEW u \in rcpt[s], clients[u] = x
               PROVE  Fit(x, b)
    BY DEF Addressed
  <2>1. Me(x) = u
    BY <1>5, HubAssumption DEF RegistryPointsAtOpenSession, Me
  <2> QED BY <1>2, <1>4, <2>1 DEF Fit, Body
<1>7. BroadcastAndAck(s, rcpt[s], b)
  BY DEF BroadcastMessage
<1> HIDE DEF b
<1> QED BY <1>3, <1>6, <1>7, BroadcastAndAckTold DEF AudienceInv

LEMMA SessionTold ==
  ASSUME TypeOK, RegistryPointsAtOpenSession, AudienceInv, NEW s \in Sessions,
         SessionStep(s) \/ Receive(s) \/ ClientStep(s)
  PROVE  UNCHANGED chan \/ (UNCHANGED db /\ Told(queue') /\ Told(received'))
<1> USE DEF AudienceInv
<1>1. ASSUME NEW R, NEW b, b.kind # "new_message" PROVE Addressed(R, b)
  BY <1>1 DEF Addressed, Fit
<1>2. CASE AnnounceOnline(s) \/ AnnounceOffline(s) \/ Sync(s)
  <2>1. \A v : Body("presence_update", Me(s), v).kind # "new_message"
    BY DEF Body
  <2>2. Body("sync_response", Me(s), None).kind # "new_message"
    BY DEF Body
  <2>3. UNCHANGED db
    BY <1>2 DEF AnnounceOnline, AnnounceOffline, Sync
  <2> QED BY <1>1, <1>2, <2>1, <2>2, <2>3, BroadcastTold
          DEF AnnounceOnline, AnnounceOffline, Sync
<1>3. CASE Reject(s) \/ SenderAway(s)
  <2>1. /\ Body("error", Me(s), None).kind # "new_message"
        /\ Body("ack", Me(s), None).kind # "new_message"
    BY DEF Body
  <2>2. CASE Reject(s)
    BY <2>1, <2>2, ReplyTold DEF Reject
  <2>3. CASE SenderAway(s)
    BY <2>1, <2>3, ReplyTold DEF SenderAway
  <2> QED BY <1>3, <2>2, <2>3
<1>4. CASE BroadcastTyping(s) \/ PushRead(s)
  <2>1. pc[s] \in {"broadcast", "pushRead"}
    BY <1>4 DEF BroadcastTyping, PushRead, Return, At
  <2>2. job[s].msg \in Messages /\ job[s].chat \in Chats /\ Me(s) \in Users
    BY <2>1, InHand, HubAssumption DEF TypeOK, InHandler, AwaitingDb, Tasks, Me
  <2>3. /\ Body("typing_indicator", job[s].chat, Me(s)) \in Bodies
        /\ Body("messages_read", Me(s), job[s].msg) \in Bodies
    BY <2>2 DEF Body, Bodies
  <2>4. /\ Body("typing_indicator", job[s].chat, Me(s)).kind # "new_message"
        /\ Body("messages_read", Me(s), job[s].msg).kind # "new_message"
    BY DEF Body
  <2>5. UNCHANGED db
    BY <1>4 DEF BroadcastTyping, PushRead
  <2> QED BY <1>1, <1>4, <2>3, <2>4, <2>5, BroadcastAndAckTold DEF BroadcastTyping, PushRead
<1>5. CASE BroadcastMessage(s)
  BY <1>5, MessageTold DEF BroadcastMessage
<1>6. CASE Deliver(s) \/ Written(s)
  BY <1>6, WriteTold DEF Deliver, Written
<1>7. CASE \/ Connect(s) \/ ConnectParks(s) \/ StreamEnds(s) \/ Suspend(s)
           \/ Disconnect(s) \/ DisconnectParks(s) \/ StartCommand(s) \/ FetchCommon(s)
           \/ CheckMember(s) \/ LoadMeta(s) \/ CheckMute(s) \/ InsertMessage(s)
           \/ LookupName(s) \/ UpdateLastRead(s) \/ ReadChatType(s)
           \/ FindSender(s) \/ TakeGuard(s) \/ CountReads(s)
           \/ ReadCountFails(s) \/ FindSenderFails(s)
           \/ FetchParticipants(s)
  BY <1>7 DEF Connect, ConnectParks, StreamEnds, Suspend, Disconnect, DisconnectParks, Park,
              StartCommand, FetchCommon, CheckMember, LoadMeta, CheckMute,
              InsertMessage, LookupName, UpdateLastRead, ReadChatType, FindSender,
              TakeGuard, CountReads, ReadCountFails, FindSenderFails, FetchParticipants, chan
<1> QED BY <1>2, <1>3, <1>4, <1>5, <1>6, <1>7 DEF SessionStep, Receive, ClientStep

LEMMA RequestTold ==
  ASSUME TypeOK, AudienceInv, NEW r \in Requests, RequestStep(r) \/ StartRequest(r)
  PROVE  UNCHANGED chan \/ (UNCHANGED db /\ Told(queue') /\ Told(received'))
<1>1. CASE BroadcastChange(r)
  <2> DEFINE j == job[r]
             v == row[r]
  <2>1. /\ Body("message_edited", j.msg, v).kind # "new_message"
        /\ Body("message_deleted", j.msg, None).kind # "new_message"
        /\ Body("chat_action", j.msg, v).kind # "new_message"
        /\ Body("chat_action", j.chat, None).kind # "new_message"
        /\ Body("chat_action", j.chat, j.user).kind # "new_message"
    BY DEF Body
  <2> HIDE DEF j, v
  <2>2. ChangeBody(j, v).kind # "new_message"
    BY <2>1 DEF ChangeBody
  <2>3. Addressed(rcpt[r], ChangeBody(j, v))
    BY <2>2 DEF Addressed, Fit
  <2> QED BY <1>1, <2>3, BroadcastTold DEF BroadcastChange, AudienceInv, j, v
<1>2. CASE ~BroadcastChange(r)
  BY <1>2 DEF RequestStep, StartRequest, EditMessage, DeleteMessage, PinMessage,
              UnpinMessage, RemoveParticipant, CheckCanSend, PostMessage, Reread,
              FetchParticipants, chan
<1> QED BY <1>1, <1>2

LEMMA AudienceNext ==
  TypeOK /\ RegistryPointsAtOpenSession /\ AudienceInv /\ [Next]_vars => AudienceInv'
<1> SUFFICES ASSUME TypeOK, RegistryPointsAtOpenSession, AudienceInv, [Next]_vars
             PROVE  AudienceInv'
  OBVIOUS
<1>1. MembersHear' /\ Grows /\ OneWriter' /\ \A t \in Tasks : Placed(t)'
  BY AudienceRows
<1>2. ASSUME UNCHANGED chan PROVE Told(queue)' /\ Told(received)'
  BY <1>1, <1>2, ToldStays DEF AudienceInv
<1>3. ASSUME UNCHANGED db, Told(queue'), Told(received') PROVE Told(queue)' /\ Told(received)'
  BY <1>3 DEF Told, Fit, db, Me
<1>4. CASE Restart
  <2>1. \A s \in Sessions : queue'[s] = <<>> /\ received'[s] = <<>>
    BY <1>4 DEF Restart
  <2>2. Told(queue)' /\ Told(received)'
    BY <2>1 DEF Told
  <2> QED BY <1>1, <2>2 DEF AudienceInv
<1>5. ASSUME (\E t \in Tasks : Fault(t)) \/ AddParticipant \/ ToggleMute \/ UNCHANGED vars
      PROVE  UNCHANGED chan
  BY <1>5 DEF Fault, AddParticipant, ToggleMute, vars
<1>6. ASSUME ~Restart PROVE Told(queue)' /\ Told(received)'
  BY <1>2, <1>3, <1>5, <1>6, SessionTold, RequestTold DEF Next
<1> QED BY <1>1, <1>4, <1>6 DEF AudienceInv

LEMMA AudienceInit == Init => AudienceInv
<1> SUFFICES ASSUME Init PROVE AudienceInv
  OBVIOUS
<1>1. OneWriter /\ MembersHear /\ \A t \in Tasks : Placed(t)
  BY DEF Init, OneWriter, MembersHear, Writes, Placed, Ahead, Behind
<1>2. Told(queue) /\ Told(received)
  BY DEF Init, Told
<1> QED BY <1>1, <1>2 DEF AudienceInv

\* An element of two sequences put together is one of either.
LEMMA Joined ==
  ASSUME NEW p \in Seq(Event), NEW q \in Seq(Event), NEW i \in DOMAIN (p \o q)
  PROVE  \/ i \in DOMAIN p /\ (p \o q)[i] = p[i]
         \/ \E k \in DOMAIN q : (p \o q)[i] = q[k]
<1>1. /\ Len(p) \in Nat /\ DOMAIN p = 1 .. Len(p)
      /\ Len(q) \in Nat /\ DOMAIN q = 1 .. Len(q)
  OBVIOUS
<1>2. p \o q \in Seq(Event) /\ Len(p \o q) = Len(p) + Len(q)
  OBVIOUS
<1>3. DOMAIN (p \o q) = 1 .. (Len(p) + Len(q))
  BY <1>2
<1>4. CASE i <= Len(p)
  BY <1>1, <1>3, <1>4
<1>5. CASE i > Len(p)
  <2>1. i - Len(p) \in DOMAIN q
    BY <1>1, <1>3, <1>5
  <2> QED BY <1>1, <1>3, <1>5, <2>1
<1> QED BY <1>1, <1>3, <1>4, <1>5

LEMMA AudienceHears == TypeOK /\ AudienceInv => NewMessageOnlyToAudience
<1> SUFFICES ASSUME TypeOK, AudienceInv, NEW s \in Sessions, NEW i \in DOMAIN Stream(s)
             PROVE  Fit(s, Stream(s)[i].body)
  BY DEF NewMessageOnlyToAudience, Fit, Me
<1>1. received[s] \in Seq(Event) /\ queue[s] \in Seq(Event)
  BY DEF TypeOK, ChanType
<1>2. \/ i \in DOMAIN received[s] /\ Stream(s)[i] = received[s][i]
      \/ \E k \in DOMAIN queue[s] : Stream(s)[i] = queue[s][k]
  BY <1>1, Joined DEF Stream
<1> QED BY <1>2 DEF AudienceInv, Told

LEMMA AudienceKept == Spec => []AudienceInv
<1>1. Spec => []RegistryPointsAtOpenSession
  BY RegistryIsSound
<1> QED BY <1>1, AudienceInit, AudienceNext, TypeCorrect, PTL DEF Spec

(***************************************************************************)
(* Whoever left a chat before a message was stored is never told of it     *)
(* (ws.rs lines 227-256), whatever joins, removals, sessions that change   *)
(* hands and failures come between the INSERT and the push.                *)
(***************************************************************************)
THEOREM MessagesReachTheirAudience == Spec => []NewMessageOnlyToAudience
BY AudienceHears, AudienceKept, TypeCorrect, PTL

----------------------------------------------------------------------------
\* The course of a handler

\* Where mark_as_read holds the guard of clients.get, knows that the chat is no
\* direct one, or is at all after its first check.
Holding == {"countReads", "readCount", "pushRead"}
Typed == {"sender", "peek"} \cup Holding
Reading == {"update", "chatType"} \cup Typed

SessionRests == {"new", "greet", "announceOnline", "loop", "drain", "writing",
                 "drainWriting", "farewell", "announceOffline", "done"}

SessionFits(op, here) ==
  \/ here = "member" /\ op \in SessionOps \ {"sync"}
  \/ here \in {"meta", "mute", "insert", "reject"} /\ op = "send_message"
  \/ here = "username" /\ op = "start_typing"
  \/ here \in {"participants", "broadcast"} /\ op \in {"send_message", "start_typing"}
  \/ here \in Reading /\ op = "mark_as_read"

RequestFits(op, here) ==
  \/ here = "effect" /\ op \in RequestOps
  \/ here = "reread" /\ op \in {"edit", "delete", "pin", "kick"}
  \/ here = "store" /\ op = "post"
  \/ here \in {"participants", "broadcast"} /\ op \in RequestOps \ {"post"}

\* What a task that is at this place is doing.
OnCourse(t) ==
  /\ IF t \in Sessions
     THEN \/ pc[t] \in SessionRests
          \/ job[t] \in SessionJobs /\ SessionFits(job[t].op, pc[t])
     ELSE \/ pc[t] \in {"idle", "done"}
          \/ job[t] \in RequestJobs /\ RequestFits(job[t].op, pc[t])
  /\ pc[t] \in Typed => ChatKind[job[t].chat] # "direct"
  /\ guard[t] # None => pc[t] \in Holding

\* Only t has moved.
Only(t) ==
  \A u \in Tasks : u # t => pc'[u] = pc[u] /\ job'[u] = job[u] /\ guard'[u] = guard[u]

\* A turn of t, after which it is on course.
Turns(t) == Only(t) /\ OnCourse(t)' /\ parked' = parked

LEMMA FinishCourse ==
  ASSUME TypeOK, NEW t \in Tasks, Finish(t)
  PROVE  Turns(t)
<1>1. /\ pc' = [pc EXCEPT ![t] = Rest(t)] /\ job' = [job EXCEPT ![t] = None]
      /\ guard' = [guard EXCEPT ![t] = None] /\ parked' = parked
  BY DEF Finish, Goto
<1>2. pc'[t] = Rest(t) /\ guard'[t] = None /\ Only(t)
  BY <1>1 DEF TypeOK, TaskType, Only
<1> QED BY <1>1, <1>2 DEF Turns, OnCourse, Rest, SessionRests, Typed, Holding

LEMMA StepCourse ==
  ASSUME TypeOK, NEW t \in Tasks, OnCourse(t), NEW here, NEW there, Step(t, here, there),
         IF t \in Sessions
         THEN \/ there \in SessionRests
              \/ job[t] \in SessionJobs /\ SessionFits(job[t].op, there)
         ELSE job[t] \in RequestJobs /\ RequestFits(job[t].op, there),
         there \in Typed => ChatKind[job[t].chat] # "direct",
         here \in Holding => there \in Holding
  PROVE  Turns(t)
<1>1. /\ pc[t] = here /\ pc'[t] = there /\ job' = job /\ guard' = guard /\ Only(t)
      /\ parked' = parked
  BY DEF Step, At, Goto, TypeOK, TaskType, Only
<1> QED BY <1>1 DEF Turns, OnCourse

LEMMA SessionCourse ==
  ASSUME TypeOK, NEW s \in Sessions, OnCourse(s), SessionStep(s)
  PROVE  Turns(s)
<1>0. s \in Tasks
  BY DEF Tasks
<1>1. ASSUME NEW here, Return(s, here) PROVE Turns(s)
  BY <1>0, <1>1, FinishCourse DEF Return
<1>2. ASSUME pc[s] \notin SessionRests
      PROVE  job[s] \in SessionJobs /\ SessionFits(job[s].op, pc[s]) /\ job[s].op \in SessionOps
  BY <1>2, HubAssumption DEF OnCourse
<1>3. CASE FetchCommon(s) \/ AnnounceOnline(s) \/ AnnounceOffline(s)
  <2>1. PICK there \in {"announceOnline", "announceOffline", "loop", "done"} : Goto(s, there)
    BY <1>3 DEF FetchCommon, AnnounceOnline, AnnounceOffline
  <2>2. UNCHANGED <<job, guard, parked>>
    BY <1>3 DEF FetchCommon, AnnounceOnline, AnnounceOffline
  <2>3. pc'[s] = there /\ Only(s)
    BY <1>0, <2>1, <2>2 DEF Goto, TypeOK, TaskType, Only
  <2>4. guard[s] = None
    BY <1>3 DEF FetchCommon, AnnounceOnline, AnnounceOffline, At, OnCourse, Holding
  <2> QED BY <2>2, <2>3, <2>4 DEF Turns, OnCourse, SessionRests, Typed, Holding
<1>4. CASE CheckMember(s)
  <2>1. \/ job[s].op = "send_message" /\ Step(s, "member", "meta")
        \/ job[s].op = "start_typing" /\ Step(s, "member", "username")
        \/ job[s].op = "mark_as_read" /\ Step(s, "member", "update")
        \/ job[s].op = "send_message" /\ Step(s, "member", "reject")
        \/ Return(s, "member")
    BY <1>4 DEF CheckMember
  <2>2. pc[s] = "member"
    BY <1>4 DEF CheckMember, At
  <2> QED
    BY <1>0, <1>1, <1>2, <2>1, <2>2, StepCourse
    DEF SessionFits, SessionRests, Reading, Typed, Holding
<1>5. CASE LoadMeta(s) \/ CheckMute(s)
  <2>1. \/ Step(s, "meta", "reject") \/ Step(s, "meta", "mute") \/ Step(s, "mute", "reject")
        \/ Step(s, "mute", "insert") \/ Return(s, "meta")
    BY <1>5 DEF LoadMeta, CheckMute
  <2>2. pc[s] \in {"meta", "mute"}
    BY <1>5 DEF LoadMeta, CheckMute, At
  <2> QED
    BY <1>0, <1>1, <1>2, <2>1, <2>2, StepCourse
    DEF SessionFits, SessionRests, Reading, Typed, Holding
<1>6. CASE InsertMessage(s) \/ LookupName(s)
  <2>1. Step(s, "insert", "participants") \/ Step(s, "username", "participants")
    BY <1>6 DEF InsertMessage, LookupName
  <2>2. pc[s] \in {"insert", "username"}
    BY <2>1 DEF Step, At
  <2> QED
    BY <1>0, <1>2, <2>1, <2>2, StepCourse DEF SessionFits, SessionRests, Reading, Typed, Holding
<1>7. CASE UpdateLastRead(s) \/ ReadChatType(s)
  <2>1. \/ Step(s, "update", "chatType")
        \/ ChatKind[job[s].chat] # "direct" /\ Step(s, "chatType", "sender")
        \/ Return(s, "update") \/ Return(s, "chatType")
    BY <1>7 DEF UpdateLastRead, ReadChatType, ChatTypeColumn
  <2>2. pc[s] \in {"update", "chatType"}
    BY <1>7 DEF UpdateLastRead, ReadChatType, At
  <2> QED
    BY <1>0, <1>1, <1>2, <2>1, <2>2, StepCourse
    DEF SessionFits, SessionRests, Reading, Typed, Holding
<1>8. CASE FindSender(s) \/ FetchParticipants(s)
  <2>1. \/ pc[s] = "sender" /\ Goto(s, "peek")
        \/ pc[s] = "participants" /\ Goto(s, "broadcast")
    BY <1>8 DEF FindSender, FetchParticipants, At
  <2>2. UNCHANGED <<job, guard, parked>>
    BY <1>8 DEF FindSender, FetchParticipants
  <2>3. Only(s) /\ (pc[s] = "sender" => pc'[s] = "peek")
        /\ (pc[s] = "participants" => pc'[s] = "broadcast")
    BY <1>0, <2>1, <2>2 DEF Goto, TypeOK, TaskType, Only
  <2>4. guard[s] = None /\ (pc[s] = "sender" => ChatKind[job[s].chat] # "direct")
    BY <2>1 DEF OnCourse, Holding, Typed
  <2>5. job[s] \in SessionJobs /\ SessionFits(job[s].op, pc'[s])
    BY <1>2, <2>1, <2>3 DEF SessionFits, SessionRests, Reading, Typed, Holding
  <2> QED BY <2>1, <2>2, <2>3, <2>4, <2>5 DEF Turns, OnCourse, Typed, Holding
<1>9. CASE TakeGuard(s)
  <2>1. /\ pc[s] = "peek" /\ guard' = [guard EXCEPT ![s] = row[s]] /\ UNCHANGED <<job, parked>>
        /\ pc' = [pc EXCEPT ![s] = IF Small(job[s].chat) THEN "countReads" ELSE "pushRead"]
    BY <1>9 DEF TakeGuard, At, Goto
  <2>2. pc'[s] \in {"countReads", "pushRead"} /\ Only(s)
    BY <1>0, <2>1 DEF TypeOK, TaskType, Only
  <2>3. /\ job[s] \in SessionJobs /\ SessionFits(job[s].op, pc'[s])
        /\ ChatKind[job[s].chat] # "direct"
    BY <1>2, <2>1, <2>2 DEF SessionFits, SessionRests, Reading, Typed, Holding, OnCourse
  <2> QED BY <2>1, <2>2, <2>3 DEF Turns, OnCourse, Typed, Holding
<1>10. CASE CountReads(s)
  <2>1. Step(s, "countReads", "readCount") /\ pc[s] = "countReads"
    BY <1>10 DEF CountReads, Step, At
  <2>2. ChatKind[job[s].chat] # "direct"
    BY <2>1 DEF OnCourse, Typed, Holding
  <2> QED
    BY <1>0, <1>2, <2>1, <2>2, StepCourse DEF SessionFits, SessionRests, Reading, Typed, Holding
<1>11. CASE Reject(s) \/ BroadcastMessage(s) \/ BroadcastTyping(s) \/ SenderAway(s)
            \/ ReadCountFails(s) \/ FindSenderFails(s) \/ PushRead(s)
  BY <1>1, <1>11 DEF Reject, BroadcastMessage, BroadcastTyping, SenderAway, ReadCountFails,
                     FindSenderFails, PushRead
<1> QED BY <1>3, <1>4, <1>5, <1>6, <1>7, <1>8, <1>9, <1>10, <1>11 DEF SessionStep

LEMMA RequestCourse ==
  ASSUME TypeOK, NEW r \in Requests, OnCourse(r), RequestStep(r)
  PROVE  Turns(r)
<1>0. r \in Tasks /\ r \notin Sessions
  BY HubAssumption DEF Tasks
<1>1. ASSUME NEW here, Return(r, here) PROVE Turns(r)
  BY <1>0, <1>1, FinishCourse DEF Return
<1>2. ASSUME pc[r] \notin {"idle", "done"}
      PROVE  job[r] \in RequestJobs /\ RequestFits(job[r].op, pc[r])
  BY <1>0, <1>2 DEF OnCourse
<1>3. CASE EditMessage(r) \/ DeleteMessage(r) \/ PinMessage(r) \/ RemoveParticipant(r)
           \/ CheckCanSend(r) \/ UnpinMessage(r)
  <2>1. \/ job[r].op \in {"edit", "delete", "pin", "kick"} /\ Step(r, "effect", "reread")
        \/ job[r].op = "post" /\ Step(r, "effect", "store")
        \/ job[r].op = "unpin" /\ Step(r, "effect", "participants")
        \/ Return(r, "effect")
    BY <1>3 DEF EditMessage, DeleteMessage, PinMessage, RemoveParticipant, CheckCanSend,
                UnpinMessage, Effect
  <2>2. pc[r] = "effect"
    BY <1>3 DEF EditMessage, DeleteMessage, PinMessage, RemoveParticipant, CheckCanSend,
                UnpinMessage, Effect, At
  <2>3. job[r] \in RequestJobs
    BY <1>2, <2>2
  <2> QED
    BY <1>0, <1>1, <2>1, <2>3, StepCourse DEF RequestFits, RequestOps, Typed, Holding
<1>4. CASE PostMessage(r) \/ BroadcastChange(r)
  BY <1>1, <1>4 DEF PostMessage, BroadcastChange
<1>5. CASE Reread(r) \/ FetchParticipants(r)
  <2>1. \/ pc[r] = "reread" /\ Goto(r, "participants")
        \/ pc[r] = "participants" /\ Goto(r, "broadcast")
    BY <1>5 DEF Reread, FetchParticipants, At
  <2>2. UNCHANGED <<job, guard, parked>>
    BY <1>5 DEF Reread, FetchParticipants
  <2>3. Only(r) /\ (pc[r] = "reread" => pc'[r] = "participants")
        /\ (pc[r] = "participants" => pc'[r] = "broadcast")
    BY <1>0, <2>1, <2>2 DEF Goto, TypeOK, TaskType, Only
  <2>4. guard[r] = None
    BY <2>1 DEF OnCourse, Holding
  <2>5. job[r] \in RequestJobs /\ RequestFits(job[r].op, pc'[r])
    BY <1>2, <2>1, <2>3 DEF RequestFits, RequestOps
  <2> QED BY <1>0, <2>1, <2>2, <2>3, <2>4, <2>5 DEF Turns, OnCourse, Typed, Holding
<1> QED BY <1>3, <1>4, <1>5 DEF RequestStep

\* The task that is parked waits for a guard of its shard, which some
\* mark_as_read holds.
Blocked ==
  \E t \in Sessions :
    /\ guard[t] # None /\ ShardOf[guard[t]] = ShardOf[Me(parked)]
    /\ pc[t] \in Holding /\ job[t].op = "mark_as_read"
    /\ job[t] \in SessionJobs /\ ChatKind[job[t].chat] # "direct"

CourseInv == (\A t \in Tasks : OnCourse(t)) /\ (parked # None => Blocked)

\* One turn of a task, while nobody is parked.
LEMMA TurnCourse ==
  ASSUME TypeOK, CourseInv, NEW t \in Tasks, Turns(t), parked = None
  PROVE  CourseInv'
<1>1. ASSUME NEW u \in Tasks PROVE OnCourse(u)'
  BY <1>1 DEF Turns, Only, CourseInv, OnCourse
<1> QED BY <1>1 DEF CourseInv, Turns

\* Whoever holds a guard is in mark_as_read.
LEMMA HeldByReader ==
  ASSUME CourseInv, NEW s \in Sessions, ShardHeld(Me(s)), parked' = s,
         UNCHANGED <<pc, job, row, rcpt, guard>>
  PROVE  Blocked'
<1>1. PICK t \in Tasks : guard[t] # None /\ ShardOf[guard[t]] = ShardOf[Me(s)]
  BY DEF ShardHeld
<1>2. OnCourse(t) /\ pc[t] \in Holding
  BY <1>1 DEF CourseInv, OnCourse
<1>3. t \in Sessions
  BY <1>2 DEF OnCourse, Holding, RequestFits
<1>4. /\ job[t] \in SessionJobs /\ job[t].op = "mark_as_read"
      /\ ChatKind[job[t].chat] # "direct"
  BY <1>2, <1>3 DEF OnCourse, SessionFits, SessionRests, Holding, Typed, Reading
<1> QED BY <1>1, <1>2, <1>3, <1>4 DEF Blocked, Me

LEMMA CourseNext == TypeOK /\ CourseInv /\ [Next]_vars => CourseInv'
<1> SUFFICES ASSUME TypeOK, CourseInv, [Next]_vars PROVE CourseInv'
  OBVIOUS
<1>1. ASSUME NEW s \in Sessions, SessionStep(s) PROVE CourseInv'
  <2>1. parked = None
    BY <1>1
    DEF SessionStep, FetchCommon, AnnounceOnline, AnnounceOffline, CheckMember, Reject, LoadMeta,
        CheckMute, InsertMessage, BroadcastMessage, LookupName, BroadcastTyping, UpdateLastRead,
        ReadChatType, FindSender, SenderAway, TakeGuard, CountReads, ReadCountFails,
        FindSenderFails, PushRead, FetchParticipants, Step, Return, At
  <2> QED BY <1>1, <2>1, SessionCourse, TurnCourse DEF CourseInv, Tasks
<1>2. ASSUME NEW r \in Requests, RequestStep(r) PROVE CourseInv'
  <2>1. parked = None
    BY <1>2
    DEF RequestStep, EditMessage, DeleteMessage, PinMessage, UnpinMessage, RemoveParticipant,
        CheckCanSend, PostMessage, Reread, FetchParticipants, BroadcastChange, Effect, Step,
        Return, At
  <2> QED BY <1>2, <2>1, RequestCourse, TurnCourse DEF CourseInv, Tasks
<1>3. ASSUME NEW s \in Sessions,
             Connect(s) \/ StreamEnds(s) \/ Suspend(s) \/ Written(s)
      PROVE  CourseInv'
  <2>1. s \in Tasks /\ OnCourse(s) /\ parked = None
    BY <1>3 DEF Tasks, CourseInv, Connect, StreamEnds, Suspend, Written, Step, At
  <2>2. \/ Step(s, "new", "greet") \/ Step(s, "loop", "drain")
        \/ Step(s, "loop", "writing") \/ Step(s, "drain", "drainWriting")
        \/ Step(s, "writing", "loop") \/ Step(s, "drainWriting", "drain")
    BY <1>3 DEF Connect, StreamEnds, Suspend, Written
  <2>3. Turns(s)
    BY <2>1, <2>2, StepCourse DEF SessionRests, Typed, Holding
  <2> QED BY <2>1, <2>3, TurnCourse
<1>4. ASSUME NEW s \in Sessions, Disconnect(s) PROVE CourseInv'
  <2>1. /\ s \in Tasks /\ parked = None
        /\ pc[s] \in {"loop", "drain", "writing", "drainWriting"}
        /\ pc' = [pc EXCEPT ![s] = "farewell"] /\ UNCHANGED <<job, guard, parked>>
    BY <1>4 DEF Tasks, Disconnect, Closing, Writing, Goto
  <2>2. pc'[s] = "farewell" /\ Only(s) /\ guard[s] = None
    BY <2>1 DEF Only, TypeOK, TaskType, CourseInv, OnCourse, Holding
  <2>3. Turns(s)
    BY <2>1, <2>2 DEF Turns, OnCourse, SessionRests, Typed, Holding
  <2> QED BY <2>1, <2>3, TurnCourse
<1>5. ASSUME NEW s \in Sessions, ConnectParks(s) \/ DisconnectParks(s) PROVE CourseInv'
  <2>1. ShardHeld(Me(s)) /\ parked' = s /\ UNCHANGED <<pc, job, row, rcpt, guard>>
    BY <1>5 DEF ConnectParks, DisconnectParks, Park
  <2>2. Blocked'
    BY <2>1, HeldByReader
  <2> QED BY <2>1, <2>2 DEF CourseInv, OnCourse
<1>6. ASSUME NEW s \in Sessions, StartCommand(s) PROVE CourseInv'
  <2>1. PICK j \in SessionJobs :
          /\ j.op # "sync" /\ job' = [job EXCEPT ![s] = j]
          /\ pc' = [pc EXCEPT ![s] = "member"] /\ UNCHANGED <<guard, parked>>
          /\ parked = None /\ pc[s] = "loop"
    BY <1>6 DEF StartCommand, Goto, At
  <2>2. s \in Tasks /\ pc'[s] = "member" /\ job'[s] = j /\ Only(s) /\ guard[s] = None
    BY <2>1 DEF Tasks, Only, TypeOK, TaskType, CourseInv, OnCourse, Holding
  <2>3. SessionFits(j.op, "member")
    BY <2>1, HubAssumption DEF SessionFits
  <2>4. Turns(s)
    BY <2>1, <2>2, <2>3 DEF Turns, OnCourse, Typed, Holding
  <2> QED BY <2>1, <2>2, <2>4, TurnCourse
<1>7. ASSUME NEW r \in Requests, StartRequest(r) PROVE CourseInv'
  <2>1. PICK j \in RequestJobs :
          /\ job' = [job EXCEPT ![r] = j]
          /\ pc' = [pc EXCEPT ![r] = "effect"] /\ UNCHANGED <<guard, parked>>
          /\ parked = None /\ pc[r] = "idle"
    BY <1>7 DEF StartRequest, Goto, At
  <2>2. /\ r \in Tasks /\ r \notin Sessions
        /\ pc'[r] = "effect" /\ job'[r] = j /\ Only(r) /\ guard[r] = None
    BY <2>1, HubAssumption DEF Tasks, Only, TypeOK, TaskType, CourseInv, OnCourse, Holding
  <2>3. RequestFits(j.op, "effect")
    BY <2>1, HubAssumption DEF RequestFits
  <2>4. Turns(r)
    BY <2>1, <2>2, <2>3 DEF Turns, OnCourse, Typed, Holding
  <2> QED BY <2>1, <2>2, <2>4, TurnCourse
<1>8. ASSUME NEW t \in Tasks, Fault(t) PROVE CourseInv'
  BY <1>8, FinishCourse, TurnCourse DEF Fault
<1>9. CASE Restart
  <2>1. /\ parked' = None
        /\ \A t \in Tasks : guard'[t] = None /\ pc'[t] = IF pc[t] \in {"new", "idle"} THEN pc[t] ELSE "done"
    BY <1>9 DEF Restart
  <2>2. ASSUME NEW t \in Tasks PROVE OnCourse(t)'
    BY <2>1 DEF CourseInv, OnCourse, SessionRests, Typed, Holding, SessionFits, RequestFits, Reading
  <2> QED BY <2>1, <2>2 DEF CourseInv
<1>10. CASE \/ \E s \in Sessions : Deliver(s) \/ Sync(s)
            \/ AddParticipant \/ ToggleMute \/ UNCHANGED vars
  <2>1. UNCHANGED task
    BY <1>10 DEF Deliver, Sync, AddParticipant, ToggleMute, vars
  <2> QED BY <2>1 DEF task, CourseInv, OnCourse, Blocked
<1> QED
  BY <1>1, <1>2, <1>3, <1>4, <1>5, <1>6, <1>7, <1>8, <1>9, <1>10
     DEF Next, Receive, ClientStep

LEMMA CourseInit == Init => CourseInv
<1> SUFFICES ASSUME Init PROVE CourseInv
  OBVIOUS
<1>1. ASSUME NEW t \in Tasks
      PROVE  guard[t] = None /\ pc[t] = IF t \in Sessions THEN "new" ELSE "idle"
  BY DEF Init
<1> QED BY <1>1 DEF Init, CourseInv, OnCourse, SessionRests, Typed, Holding

THEOREM AlwaysOnCourse == Spec => []CourseInv
BY CourseInit, CourseNext, TypeCorrect, PTL DEF Spec

(***************************************************************************)
(* What can stop the server: the worker thread is parked only while a      *)
(* mark_as_read in a group or channel, suspended in its COUNT or its       *)
(* chat_type branch, holds a guard of the shard (ws.rs lines 360-386, 101  *)
(* and 148).                                                               *)
(***************************************************************************)
THEOREM ParkedByMarkAsRead == Spec => [](parked # None => Blocked)
BY AlwaysOnCourse, PTL DEF CourseInv

\* The hub without the one command that holds a guard: nothing parks it.
THEOREM OnlyMarkAsReadParks ==
  ASSUME \A j \in SessionJobs : j.op = "mark_as_read" => ChatKind[j.chat] = "direct"
  PROVE  Spec => [](parked = None)
<1>1. CourseInv => parked = None
  BY DEF CourseInv, Blocked
<1> QED BY <1>1, AlwaysOnCourse, PTL

----------------------------------------------------------------------------
\* Who is online

\* The connections of one user do not overlap: a device that comes back does
\* so after the session it had has ended.
OneAtATime ==
  \A s, x \in Sessions : Me(s) = Me(x) /\ Open(s) /\ Open(x) => s = x

\* Whoever is connected is registered.
OpenIsRegistered == \A s \in Sessions : Open(s) => clients[Me(s)] = s

LEMMA RegisteredNext ==
  ASSUME TypeOK, CourseInv, OpenIsRegistered, OneAtATime, OneAtATime', [Next]_vars
  PROVE  OpenIsRegistered'
<1> USE DEF TypeOK
<1>1. CASE Keeps
  BY <1>1 DEF Keeps, OpenIsRegistered
<1>2. ASSUME NEW s \in Sessions, Connect(s) PROVE OpenIsRegistered'
  <2>1. /\ s \in Tasks /\ Me(s) \in Users
        /\ clients' = [clients EXCEPT ![Me(s)] = s]
        /\ pc' = [pc EXCEPT ![s] = "greet"]
    BY <1>2, HubAssumption DEF Connect, Step, Goto, Tasks, Me
  <2>2. Open(s)'
    BY <2>1 DEF Open, TaskType
  <2>3. \A x \in Sessions \ {s} : Open(x)' => Open(x) /\ Me(x) # Me(s)
    BY <2>1, <2>2 DEF Open, TaskType, OneAtATime, Me
  <2> QED BY <2>1, <2>3 DEF OpenIsRegistered, MemType, Me
<1>3. ASSUME NEW s \in Sessions, Disconnect(s) PROVE OpenIsRegistered'
  <2>1. /\ s \in Tasks /\ Me(s) \in Users /\ Open(s)
        /\ clients' = [clients EXCEPT ![Me(s)] = None]
        /\ pc' = [pc EXCEPT ![s] = "farewell"]
    BY <1>3, HubAssumption DEF Disconnect, Closing, Writing, Goto, Open, Tasks, Me
  <2>2. \A x \in Sessions : Open(x)' => Open(x) /\ x # s
    BY <2>1 DEF Open, TaskType
  <2>3. \A x \in Sessions : Open(x)' => Me(x) # Me(s)
    BY <2>1, <2>2 DEF OneAtATime
  <2> QED BY <2>1, <2>2, <2>3 DEF OpenIsRegistered, MemType, Me
<1>4. CASE Restart
  <2>1. \A s \in Sessions : pc[s] # "idle"
    BY DEF CourseInv, OnCourse, SessionRests, SessionFits, Reading, Typed, Holding, Tasks
  <2> QED BY <1>4, <2>1 DEF Restart, OpenIsRegistered, Open, Tasks
<1> QED BY <1>1, <1>2, <1>3, <1>4, QuietTurnKeeps

(***************************************************************************)
(* What API_SPEC.md line 727 promises, a connected user is online, and     *)
(* what it takes: it holds of every behaviour, with reconnections, faults  *)
(* and restarts, in which the sessions of one user never overlap; ws.rs    *)
(* lines 148-155 break it only for a user who connects a second time       *)
(* before the first session has ended.                                     *)
(***************************************************************************)
THEOREM OnlineUnlessSessionsOverlap == Spec /\ []OneAtATime => []OnlineWhileConnected
<1>1. Init => OpenIsRegistered
  BY DEF Init, OpenIsRegistered, Open, Tasks
<1>2. TypeOK /\ CourseInv /\ OneAtATime /\ OneAtATime' /\ OpenIsRegistered
      /\ [Next]_vars => OpenIsRegistered'
  BY RegisteredNext
<1>3. TypeOK /\ OpenIsRegistered /\ PresenceFollowsRegistry => OnlineWhileConnected
  BY HubAssumption
     DEF OpenIsRegistered, PresenceFollowsRegistry, OnlineWhileConnected, Open, Me
<1> QED BY <1>1, <1>2, <1>3, TypeCorrect, AlwaysOnCourse, PresenceIsRegistry, PTL DEF Spec

----------------------------------------------------------------------------
\* Handlers advance: what there is of HandlersReturn without fairness

\* At most so many turns of its own, and a handler is at rest.
TurnsLeft(here) ==
  CASE here = "member" -> 7
    [] here = "update" -> 6
    [] here \in {"meta", "chatType"} -> 5
    [] here \in {"mute", "sender", "effect"} -> 4
    [] here \in {"insert", "peek", "username", "reread"} -> 3
    [] here \in {"participants", "countReads", "greet", "farewell"} -> 2
    [] here \in AtRest -> 0
    [] OTHER -> 1

\* A task moves towards its end, or from rest.
Advances(t) ==
  pc[t] \in AtRest \/ pc'[t] = pc[t] \/ TurnsLeft(pc'[t]) < TurnsLeft(pc[t])

LEMMA FinishAdvances ==
  ASSUME TaskType, NEW t \in Tasks, Finish(t)
  PROVE  \A u \in Tasks : Advances(u)
<1>1. /\ pc'[t] \in {"loop", "done"} /\ \A u \in Tasks : u # t => pc'[u] = pc[u]
  BY DEF Finish, Goto, Rest, TaskType
<1>2. pc[t] \in Pcs
  BY DEF TaskType
<1>3. pc'[t] \in AtRest /\ TurnsLeft(pc'[t]) = 0
  BY <1>1 DEF TurnsLeft, AtRest
<1>4. pc[t] \in AtRest \/ TurnsLeft(pc[t]) > 0
  BY <1>2 DEF TurnsLeft, Pcs, AtRest, InHandler, AwaitingDb
<1> QED BY <1>1, <1>3, <1>4 DEF Advances

LEMMA MoveAdvances ==
  ASSUME TaskType, NEW t \in Tasks, NEW here, NEW there, pc[t] = here,
         Goto(t, there), here \in AtRest \/ TurnsLeft(there) < TurnsLeft(here)
  PROVE  \A u \in Tasks : Advances(u)
BY DEF Goto, TaskType, Advances

LEMMA SessionAdvances ==
  ASSUME TaskType, NEW s \in Sessions, SessionStep(s)
  PROVE  \A u \in Tasks : Advances(u)
<1>0. s \in Tasks
  BY DEF Tasks
<1>1. ASSUME NEW here, Return(s, here) PROVE \A u \in Tasks : Advances(u)
  BY <1>0, <1>1, FinishAdvances DEF Return
<1>2. ASSUME NEW here, NEW there, Step(s, here, there), TurnsLeft(there) < TurnsLeft(here)
      PROVE  \A u \in Tasks : Advances(u)
  BY <1>0, <1>2, MoveAdvances DEF Step, At
<1>3. CASE CheckMember(s) \/ LoadMeta(s) \/ CheckMute(s)
  <2>1. \/ Step(s, "member", "meta") \/ Step(s, "member", "username")
        \/ Step(s, "member", "update") \/ Step(s, "member", "reject")
        \/ Step(s, "meta", "reject") \/ Step(s, "meta", "mute")
        \/ Step(s, "mute", "reject") \/ Step(s, "mute", "insert")
        \/ Return(s, "member") \/ Return(s, "meta")
    BY <1>3 DEF CheckMember, LoadMeta, CheckMute
  <2> QED BY <1>1, <1>2, <2>1 DEF TurnsLeft, AtRest
<1>4. CASE InsertMessage(s) \/ LookupName(s) \/ UpdateLastRead(s) \/ ReadChatType(s)
           \/ CountReads(s)
  <2>1. \/ Step(s, "insert", "participants") \/ Step(s, "username", "participants")
        \/ Step(s, "update", "chatType") \/ Step(s, "chatType", "sender")
        \/ Step(s, "countReads", "readCount")
        \/ Return(s, "update") \/ Return(s, "chatType")
    BY <1>4 DEF InsertMessage, LookupName, UpdateLastRead, ReadChatType, CountReads
  <2> QED BY <1>1, <1>2, <2>1 DEF TurnsLeft, AtRest
<1>5. CASE Reject(s) \/ BroadcastMessage(s) \/ BroadcastTyping(s) \/ SenderAway(s)
           \/ ReadCountFails(s) \/ FindSenderFails(s) \/ PushRead(s)
  BY <1>1, <1>5 DEF Reject, BroadcastMessage, BroadcastTyping, SenderAway, ReadCountFails,
                    FindSenderFails, PushRead
<1>6. CASE FetchCommon(s) \/ AnnounceOnline(s) \/ AnnounceOffline(s)
  <2>1. \/ pc[s] = "greet" /\ Goto(s, "announceOnline")
        \/ pc[s] = "farewell" /\ Goto(s, "announceOffline")
        \/ pc[s] = "announceOnline" /\ Goto(s, "loop")
        \/ pc[s] = "announceOffline" /\ Goto(s, "done")
    BY <1>6 DEF FetchCommon, AnnounceOnline, AnnounceOffline, At
  <2> QED BY <1>0, <2>1, MoveAdvances DEF TurnsLeft, AtRest
<1>7. CASE FindSender(s) \/ FetchParticipants(s) \/ TakeGuard(s)
  <2>1. \/ pc[s] = "sender" /\ Goto(s, "peek")
        \/ pc[s] = "participants" /\ Goto(s, "broadcast")
        \/ pc[s] = "peek" /\ Goto(s, "countReads")
        \/ pc[s] = "peek" /\ Goto(s, "pushRead")
    BY <1>7 DEF FindSender, FetchParticipants, TakeGuard, At
  <2> QED BY <1>0, <2>1, MoveAdvances DEF TurnsLeft, AtRest
<1> QED BY <1>3, <1>4, <1>5, <1>6, <1>7 DEF SessionStep

LEMMA RequestAdvances ==
  ASSUME TaskType, NEW r \in Requests, RequestStep(r)
  PROVE  \A u \in Tasks : Advances(u)
<1>0. r \in Tasks
  BY DEF Tasks
<1>1. ASSUME NEW here, Return(r, here) PROVE \A u \in Tasks : Advances(u)
  BY <1>0, <1>1, FinishAdvances DEF Return
<1>2. ASSUME NEW there, Step(r, "effect", there), there \in {"reread", "participants", "store"}
      PROVE  \A u \in Tasks : Advances(u)
  BY <1>0, <1>2, MoveAdvances DEF Step, At, TurnsLeft, AtRest
<1>3. CASE EditMessage(r) \/ DeleteMessage(r) \/ PinMessage(r)
  BY <1>1, <1>2, <1>3 DEF EditMessage, DeleteMessage, PinMessage
<1>4. CASE UnpinMessage(r) \/ RemoveParticipant(r) \/ CheckCanSend(r)
  BY <1>1, <1>2, <1>4 DEF UnpinMessage, RemoveParticipant, CheckCanSend
<1>5. CASE PostMessage(r) \/ BroadcastChange(r)
  BY <1>1, <1>5 DEF PostMessage, BroadcastChange
<1>6. CASE Reread(r) \/ FetchParticipants(r)
  <2>1. \/ pc[r] = "reread" /\ Goto(r, "participants")
        \/ pc[r] = "participants" /\ Goto(r, "broadcast")
    BY <1>6 DEF Reread, FetchParticipants, At
  <2> QED BY <1>0, <2>1, MoveAdvances DEF TurnsLeft, AtRest
<1> QED BY <1>3, <1>4, <1>5, <1>6 DEF RequestStep

LEMMA NextAdvances == TypeOK /\ [Next]_vars => \A t \in Tasks : Advances(t)
<1> SUFFICES ASSUME TypeOK, [Next]_vars PROVE \A t \in Tasks : Advances(t)
  OBVIOUS
<1>0. TaskType
  BY DEF TypeOK
<1>1. ASSUME NEW s \in Sessions,
             \/ Connect(s) \/ StreamEnds(s) \/ Suspend(s) \/ Written(s)
             \/ Disconnect(s) \/ StartCommand(s)
      PROVE  \A t \in Tasks : Advances(t)
  <2>1. s \in Tasks
    BY DEF Tasks
  <2>2. pc[s] \in AtRest /\ \E there : Goto(s, there)
    BY <1>1 DEF Connect, StreamEnds, Suspend, Written, Disconnect, StartCommand, Closing,
                Writing, Step, At, AtRest
  <2> QED BY <1>0, <2>1, <2>2, MoveAdvances
<1>2. ASSUME NEW r \in Requests, StartRequest(r) PROVE \A t \in Tasks : Advances(t)
  BY <1>0, <1>2, MoveAdvances DEF StartRequest, At, AtRest, Tasks
<1>3. ASSUME NEW s \in Sessions, Deliver(s) \/ Sync(s) \/ ConnectParks(s) \/ DisconnectParks(s)
      PROVE  UNCHANGED pc
  BY <1>3 DEF Deliver, Sync, ConnectParks, DisconnectParks, Park, task
<1>4. CASE AddParticipant \/ ToggleMute \/ UNCHANGED vars
  BY <1>4 DEF AddParticipant, ToggleMute, vars, task, Advances
<1>5. CASE Restart
  <2>1. ASSUME NEW t \in Tasks PROVE Advances(t)
    <3>1. pc'[t] = IF pc[t] \in {"new", "idle"} THEN pc[t] ELSE "done"
      BY <1>5 DEF Restart
    <3>2. TurnsLeft("done") = 0
      BY DEF TurnsLeft, AtRest
    <3>3. pc[t] \in AtRest \/ TurnsLeft(pc[t]) > 0
      BY <1>0 DEF TurnsLeft, TaskType, Pcs, AtRest, InHandler, AwaitingDb
    <3> QED BY <3>1, <3>2, <3>3 DEF Advances
  <2> QED BY <2>1
<1>6. ASSUME NEW t \in Tasks, Fault(t) PROVE \A u \in Tasks : Advances(u)
  BY <1>0, <1>6, FinishAdvances DEF Fault
<1> QED
  BY <1>0, <1>1, <1>2, <1>3, <1>4, <1>5, <1>6, SessionAdvances, RequestAdvances
  DEF Next, Receive, ClientStep, Advances

\* ENABLED SessionStep(t), or of RequestStep(t), by the guards of their actions.
HasTurn(t) ==
  /\ parked = None
  /\ IF t \in Sessions
     THEN \/ pc[t] \in InHandler \ {"member", "broadcast", "effect", "reread", "store"}
          \/ pc[t] \in {"greet", "announceOnline", "farewell", "announceOffline"}
          \/ pc[t] = "member" /\ job[t].op \in SessionOps \ {"sync"}
          \/ pc[t] = "broadcast" /\ job[t] # None /\ job[t].op \in {"send_message", "start_typing"}
     ELSE \/ pc[t] \in {"reread", "participants", "broadcast", "store"}
          \/ pc[t] = "effect" /\ job[t] # None /\ job[t].op \in RequestOps

LEMMA CourseHasTurns ==
  ASSUME TypeOK, CourseInv, parked = None, NEW t \in Tasks, pc[t] \notin AtRest
  PROVE  HasTurn(t)
<1>1. OnCourse(t) /\ pc[t] \in Pcs
  BY DEF CourseInv, TypeOK, TaskType
<1>2. CASE t \in Sessions
  <2>1. CASE pc[t] \in SessionRests
    BY <1>2, <2>1 DEF SessionRests, AtRest, HasTurn
  <2>2. CASE pc[t] \notin SessionRests
    <3>1. job[t] \in SessionJobs /\ SessionFits(job[t].op, pc[t]) /\ job[t] # None
      BY <1>1, <1>2, <2>2, HubAssumption DEF OnCourse
    <3> QED
      BY <1>2, <3>1 DEF SessionFits, HasTurn, Reading, Typed, Holding, InHandler, AwaitingDb
  <2> QED BY <2>1, <2>2
<1>3. CASE t \notin Sessions
  <2>1. job[t] \in RequestJobs /\ RequestFits(job[t].op, pc[t]) /\ job[t] # None
    BY <1>1, <1>3, HubAssumption DEF OnCourse, AtRest
  <2> QED BY <1>3, <2>1 DEF RequestFits, HasTurn
<1> QED BY <1>2, <1>3

(***************************************************************************)
(* HandlersReturn but for fairness, which alone is left to TLC: unless the *)
(* worker is parked, whoever is inside a handler has a turn of its own,    *)
(* whatever the others do; and nothing ever moves a handler but towards    *)
(* its end, of which it is at most seven turns away (handle_ws_text and    *)
(* the HTTP handlers).                                                     *)
(***************************************************************************)
THEOREM HandlersAdvance ==
  Spec => /\ []\A t \in Tasks : parked = None /\ pc[t] \notin AtRest => HasTurn(t)
          /\ [][\A t \in Tasks : Advances(t)]_vars
<1>1. TypeOK /\ CourseInv => \A t \in Tasks : parked = None /\ pc[t] \notin AtRest => HasTurn(t)
  BY CourseHasTurns
<1>2. TypeOK /\ [Next]_vars => [\A t \in Tasks : Advances(t)]_vars
  BY NextAdvances
<1> QED BY <1>1, <1>2, TypeCorrect, AlwaysOnCourse, PTL DEF Spec

----------------------------------------------------------------------------
\* What is told last: two variables that record what was announced

VARIABLES
  told,   \* history: user -> the presence announced last, "absent" until one is
  heard   \* history: message -> the text its last message_edited carried

\* The handler of an edit of m that has changed the row and not yet told so.
Edits(r, m) ==
  /\ job[r] # None /\ job[r].op = "edit" /\ job[r].msg = m
  /\ pc[r] \in {"reread", "participants", "broadcast"}

\* The turn that broadcasts a message_edited.
TellsEdit(r) == BroadcastChange(r) /\ job[r].op = "edit"

Listening ==
  /\ told' = [u \in Users |->
       IF \E s \in Sessions : Me(s) = u /\ AnnounceOnline(s) THEN "online"
       ELSE IF \E s \in Sessions : Me(s) = u /\ AnnounceOffline(s) THEN "offline"
       ELSE IF presence'[u] = "absent" THEN "absent" ELSE told[u]]
  /\ \/ \E r \in Requests : TellsEdit(r) /\ heard' = [heard EXCEPT ![job[r].msg] = row[r]]
     \/ (\A r \in Requests : ~TellsEdit(r)) /\ heard' = heard

ListenedSpec ==
  /\ Init
  /\ told = [u \in Users |-> "absent"] /\ heard = [m \in Messages |-> None]
  /\ [][Next /\ Listening]_<<vars, told, heard>>

\* The two variables follow the hub and never hold it up.
LEMMA ListenedIsHub == ListenedSpec => Spec
<1>1. [Next /\ Listening]_<<vars, told, heard>> => [Next]_vars
  OBVIOUS
<1> QED BY <1>1, PTL DEF ListenedSpec, Spec

\* From its connection until its last announcement a session is there; around
\* its two announcements it has changed the maps and not said so yet.
There(s) == pc[s] \notin {"new", "done"}
Talk == {"greet", "announceOnline", "farewell", "announceOffline"}

\* A user connects again only after the session before has said its farewell.
Apart ==
  \A s, x \in Sessions : Me(s) = Me(x) /\ There(s) /\ There(x) => s = x

Hushed(u) == \A s \in Sessions : Me(s) = u => pc[s] \notin Talk

AnnouncedIsTrue == \A u \in Users : Hushed(u) => told[u] = presence[u]

ToldInv ==
  /\ AnnouncedIsTrue
  /\ \A s \in Sessions : pc[s] \in {"greet", "announceOnline"} => presence[Me(s)] = "online"
  /\ \A s \in Sessions : pc[s] \in {"farewell", "announceOffline"} => presence[Me(s)] = "offline"

\* A turn that takes no session to or from an announcement.
Silent == \A x \in Sessions : pc[x] \in Talk \/ pc'[x] \in Talk => pc'[x] = pc[x]

LEMMA GotoSilent ==
  ASSUME TaskType, NEW t \in Tasks, NEW here, NEW there, pc[t] = here, Goto(t, there),
         here \notin Talk, there \notin Talk
  PROVE  Silent
BY DEF Goto, TaskType, Silent, Tasks

LEMMA FinishSilent ==
  ASSUME TaskType, NEW t \in Tasks, pc[t] \notin Talk, Finish(t)
  PROVE  Silent
BY GotoSilent DEF Finish, Rest, Talk

LEMMA SessionStepSilent ==
  ASSUME TaskType, NEW s \in Sessions, SessionStep(s),
         ~FetchCommon(s), ~AnnounceOnline(s), ~AnnounceOffline(s)
  PROVE  Silent
<1>0. s \in Tasks
  BY DEF Tasks
<1>1. ASSUME NEW here, here \notin Talk, Return(s, here) PROVE Silent
  BY <1>0, <1>1, FinishSilent DEF Return, At
<1>2. ASSUME NEW here, here \notin Talk, NEW there, there \notin Talk, Step(s, here, there)
      PROVE  Silent
  BY <1>0, <1>2, GotoSilent DEF Step, At
<1>3. CASE CheckMember(s) \/ LoadMeta(s) \/ CheckMute(s)
  BY <1>1, <1>2, <1>3 DEF CheckMember, LoadMeta, CheckMute, Talk
<1>4. CASE InsertMessage(s) \/ LookupName(s) \/ UpdateLastRead(s) \/ ReadChatType(s)
           \/ CountReads(s)
  BY <1>1, <1>2, <1>4 DEF InsertMessage, LookupName, UpdateLastRead, ReadChatType,
                          CountReads, Talk
<1>5. CASE Reject(s) \/ BroadcastMessage(s) \/ BroadcastTyping(s) \/ SenderAway(s)
           \/ ReadCountFails(s) \/ FindSenderFails(s) \/ PushRead(s)
  BY <1>1, <1>5 DEF Reject, BroadcastMessage, BroadcastTyping, SenderAway, ReadCountFails,
                    FindSenderFails, PushRead, Talk
<1>6. CASE FindSender(s) \/ FetchParticipants(s) \/ TakeGuard(s)
  <2>1. \/ pc[s] = "sender" /\ Goto(s, "peek")
        \/ pc[s] = "participants" /\ Goto(s, "broadcast")
        \/ pc[s] = "peek" /\ Goto(s, "countReads")
        \/ pc[s] = "peek" /\ Goto(s, "pushRead")
    BY <1>6 DEF FindSender, FetchParticipants, TakeGuard, At
  <2> QED BY <1>0, <2>1, GotoSilent DEF Talk
<1> QED BY <1>3, <1>4, <1>5, <1>6 DEF SessionStep

\* A turn of a request moves no session.
LEMMA RequestTurnSilent ==
  ASSUME TaskType, NEW r \in Requests, RequestStep(r) \/ StartRequest(r)
  PROVE  Silent
<1>1. ASSUME NEW there, Goto(r, there) PROVE Silent
  BY <1>1, HubAssumption DEF Goto, TaskType, Silent, Tasks
<1>2. \E there : Goto(r, there)
  BY DEF RequestStep, StartRequest, EditMessage, DeleteMessage, PinMessage, UnpinMessage,
         RemoveParticipant, CheckCanSend, PostMessage, Reread, FetchParticipants,
         BroadcastChange, Step, Return, Finish
<1> QED BY <1>1, <1>2

LEMMA QuietTurnSilent ==
  ASSUME TaskType, [Next]_vars, ~Restart,
         ~\E s \in Sessions : \/ Connect(s) \/ Disconnect(s) \/ FetchCommon(s)
                              \/ AnnounceOnline(s) \/ AnnounceOffline(s)
  PROVE  Silent
<1>1. ASSUME NEW s \in Sessions, SessionStep(s) PROVE Silent
  BY <1>1, SessionStepSilent
<1>2. ASSUME NEW s \in Sessions,
             Deliver(s) \/ Sync(s) \/ ConnectParks(s) \/ DisconnectParks(s)
      PROVE  Silent
  BY <1>2 DEF Deliver, Sync, ConnectParks, DisconnectParks, Park, task, Silent
<1>3. ASSUME NEW s \in Sessions,
             StreamEnds(s) \/ Suspend(s) \/ Written(s) \/ StartCommand(s)
      PROVE  Silent
  BY <1>3, GotoSilent DEF StreamEnds, Suspend, Written, StartCommand, Step, At, Tasks, Talk
<1>4. ASSUME NEW r \in Requests, RequestStep(r) \/ StartRequest(r) PROVE Silent
  BY <1>4, RequestTurnSilent
<1>5. ASSUME NEW t \in Tasks, Fault(t) PROVE Silent
  BY <1>5, FinishSilent DEF Fault, AwaitingDb, Talk
<1>6. ASSUME AddParticipant \/ ToggleMute \/ UNCHANGED vars PROVE Silent
  BY <1>6 DEF AddParticipant, ToggleMute, vars, task, Silent
<1> QED BY <1>1, <1>2, <1>3, <1>4, <1>5, <1>6 DEF Next, Receive, ClientStep

\* An announcement of s is the turn of s after which it is in its loop or done.
LEMMA AnnouncingMoves ==
  ASSUME TaskType, NEW s \in Sessions, AnnounceOnline(s) \/ AnnounceOffline(s)
  PROVE  /\ IF AnnounceOnline(s) THEN pc[s] = "announceOnline" /\ pc'[s] = "loop"
                                 ELSE pc[s] = "announceOffline" /\ pc'[s] = "done"
         /\ AnnounceOnline(s) => ~AnnounceOffline(s)
         /\ \A x \in Sessions : x # s => pc'[x] = pc[x]
         /\ UNCHANGED <<presence, restarts>>
<1>1. s \in Tasks
  BY DEF Tasks
<1>2. /\ AnnounceOnline(s) => pc[s] = "announceOnline" /\ pc' = [pc EXCEPT ![s] = "loop"]
      /\ AnnounceOffline(s) => pc[s] = "announceOffline" /\ pc' = [pc EXCEPT ![s] = "done"]
      /\ UNCHANGED <<presence, restarts>>
  BY DEF AnnounceOnline, AnnounceOffline, At, Goto, mem, env
<1> QED BY <1>1, <1>2 DEF TaskType, Tasks

\* In any other turn nothing new is said.
LEMMA NothingTold ==
  ASSUME Listening, NEW u \in Users, presence'[u] # "absent",
         ~\E s \in Sessions : AnnounceOnline(s) \/ AnnounceOffline(s)
  PROVE  told'[u] = told[u]
BY DEF Listening

LEMMA ToldNext ==
  ASSUME TypeOK, ToldInv, Apart', Next, Listening
  PROVE  ToldInv'
<1> USE DEF TypeOK
<1>a. TaskType /\ \A s \in Sessions : Me(s) \in Users /\ s \in Tasks
  BY HubAssumption DEF Me, Tasks
<1>1. ASSUME Silent, Keeps PROVE ToldInv'
  <2>1. presence' = presence /\ \A x \in Sessions : pc'[x] \in Talk <=> pc[x] \in Talk
    BY <1>1 DEF Silent, Keeps
  <2>2. \A x \in Sessions : pc'[x] \in Talk => pc'[x] = pc[x]
    BY <1>1 DEF Silent
  <2>3. ~\E s \in Sessions : AnnounceOnline(s) \/ AnnounceOffline(s)
    BY <1>a, <1>1, AnnouncingMoves DEF Silent, Talk
  <2>4. ASSUME NEW u \in Users, Hushed(u)' PROVE told'[u] = presence'[u]
    <3>1. told[u] = presence[u]
      BY <2>1, <2>4 DEF Hushed, ToldInv, AnnouncedIsTrue
    <3>2. CASE presence'[u] = "absent"
      BY <2>3, <3>2 DEF Listening
    <3> QED BY <2>1, <2>3, <3>1, <3>2, NothingTold
  <2> QED BY <2>1, <2>2, <2>4 DEF ToldInv, AnnouncedIsTrue, Talk
<1>2. ASSUME NEW s \in Sessions, FetchCommon(s) PROVE ToldInv'
  <2>1. /\ presence' = presence
        /\ \/ pc[s] = "greet" /\ pc' = [pc EXCEPT ![s] = "announceOnline"]
           \/ pc[s] = "farewell" /\ pc' = [pc EXCEPT ![s] = "announceOffline"]
    BY <1>2 DEF FetchCommon, At, Goto, mem
  <2>2. \A x \in Sessions : IF x = s THEN pc'[x] \in Talk /\ pc[x] \in Talk ELSE pc'[x] = pc[x]
    BY <1>a, <2>1 DEF TaskType, Talk
  <2>3. ~\E x \in Sessions : AnnounceOnline(x) \/ AnnounceOffline(x)
    BY <1>a, <2>2, AnnouncingMoves DEF Talk
  <2>4. ASSUME NEW u \in Users, Hushed(u)' PROVE told'[u] = presence'[u]
    <3>1. Hushed(u)
      BY <2>2, <2>4 DEF Hushed
    <3>2. told[u] = presence[u]
      BY <3>1 DEF ToldInv, AnnouncedIsTrue
    <3>3. CASE presence'[u] = "absent"
      BY <2>3, <3>3 DEF Listening
    <3> QED BY <2>1, <2>3, <3>2, <3>3, NothingTold
  <2>5. ASSUME NEW x \in Sessions
        PROVE  /\ pc'[x] \in {"greet", "announceOnline"} => presence'[Me(x)] = "online"
               /\ pc'[x] \in {"farewell", "announceOffline"} => presence'[Me(x)] = "offline"
    BY <1>a, <2>1 DEF TaskType, ToldInv
  <2> QED BY <2>4, <2>5 DEF ToldInv, AnnouncedIsTrue
<1>3. ASSUME NEW s \in Sessions, AnnounceOnline(s) \/ AnnounceOffline(s) PROVE ToldInv'
  <2>1. /\ \A x \in Sessions : x # s => pc'[x] = pc[x]
        /\ presence' = presence /\ pc[s] \in Talk /\ pc'[s] \notin Talk
    BY <1>a, <1>3, AnnouncingMoves DEF Talk
  <2>2. \A x \in Sessions : x # s => ~AnnounceOnline(x) /\ ~AnnounceOffline(x)
    BY <1>a, <2>1, AnnouncingMoves
  <2>3. ASSUME NEW u \in Users, u # Me(s), Hushed(u)' PROVE told'[u] = presence'[u]
    <3>1. Hushed(u)
      BY <2>1, <2>3 DEF Hushed, Me
    <3>2. told[u] = presence[u]
      BY <3>1 DEF ToldInv, AnnouncedIsTrue
    <3>3. told'[u] = IF presence'[u] = "absent" THEN "absent" ELSE told[u]
      BY <2>2, <2>3 DEF Listening
    <3> QED BY <2>1, <3>2, <3>3
  <2>4. told'[Me(s)] = presence'[Me(s)]
    <3>1. CASE AnnounceOnline(s)
      <4>1. told'[Me(s)] = "online"
        BY <1>a, <3>1 DEF Listening
      <4>2. presence[Me(s)] = "online"
        BY <1>a, <3>1, AnnouncingMoves DEF ToldInv
      <4> QED BY <2>1, <4>1, <4>2
    <3>2. CASE ~AnnounceOnline(s)
      <4>1. told'[Me(s)] = "offline"
        BY <1>a, <1>3, <2>2, <3>2 DEF Listening
      <4>2. presence[Me(s)] = "offline"
        BY <1>a, <1>3, <3>2, AnnouncingMoves DEF ToldInv
      <4> QED BY <2>1, <4>1, <4>2
    <3> QED BY <3>1, <3>2
  <2> QED BY <2>1, <2>3, <2>4 DEF ToldInv, AnnouncedIsTrue, Talk
<1>4. ASSUME NEW s \in Sessions, Connect(s) \/ Disconnect(s) PROVE ToldInv'
  <2>1. \/ /\ pc' = [pc EXCEPT ![s] = "greet"]
           /\ presence' = [presence EXCEPT ![Me(s)] = "online"]
           /\ pc[s] = "new"
        \/ /\ pc' = [pc EXCEPT ![s] = "farewell"]
           /\ presence' = [presence EXCEPT ![Me(s)] = "offline"]
           /\ pc[s] \in {"loop", "drain", "writing", "drainWriting"}
    BY <1>4 DEF Connect, Disconnect, Closing, Writing, Step, At, Goto
  <2>2. /\ pc'[s] \in {"greet", "farewell"}
        /\ presence'[Me(s)] = IF pc'[s] = "greet" THEN "online" ELSE "offline"
        /\ \A x \in Sessions : x # s => pc'[x] = pc[x]
        /\ \A u \in Users : u # Me(s) => presence'[u] = presence[u]
    BY <1>a, <2>1 DEF TaskType, MemType
  <2>3. \A x \in Sessions : Me(x) = Me(s) /\ x # s => pc'[x] \in {"new", "done"}
    BY <2>2 DEF Apart, There, Me
  <2>4. ~\E x \in Sessions : AnnounceOnline(x) \/ AnnounceOffline(x)
    BY <1>a, <2>1, <2>2, AnnouncingMoves
  <2>5. ASSUME NEW u \in Users, Hushed(u)' PROVE told'[u] = presence'[u]
    <3>1. u # Me(s)
      BY <2>2, <2>5 DEF Hushed, Talk, Me
    <3>2. Hushed(u)
      BY <2>2, <2>5, <3>1 DEF Hushed, Me
    <3>3. told[u] = presence[u]
      BY <3>2 DEF ToldInv, AnnouncedIsTrue
    <3>4. CASE presence'[u] = "absent"
      BY <2>4, <3>4 DEF Listening
    <3> QED BY <2>2, <2>4, <3>1, <3>3, <3>4, NothingTold
  <2>6. ASSUME NEW x \in Sessions
        PROVE  /\ pc'[x] \in {"greet", "announceOnline"} => presence'[Me(x)] = "online"
               /\ pc'[x] \in {"farewell", "announceOffline"} => presence'[Me(x)] = "offline"
    BY <1>a, <2>2, <2>3 DEF ToldInv
  <2> QED BY <2>5, <2>6 DEF ToldInv, AnnouncedIsTrue, Me
<1>5. CASE Restart
  <2>1. /\ \A u \in Users : presence'[u] = "absent"
        /\ \A x \in Sessions : pc'[x] \in {"new", "idle", "done"}
        /\ restarts' # restarts
    BY <1>a, <1>5 DEF Restart, EnvType
  <2>2. ~\E x \in Sessions : AnnounceOnline(x) \/ AnnounceOffline(x)
    BY <1>a, <2>1, AnnouncingMoves
  <2>3. \A u \in Users : told'[u] = "absent"
    BY <2>1, <2>2 DEF Listening
  <2> QED BY <2>1, <2>3 DEF ToldInv, AnnouncedIsTrue
<1> QED BY <1>a, <1>1, <1>2, <1>3, <1>4, <1>5, QuietTurnKeeps, QuietTurnSilent

(***************************************************************************)
(* Who is told last is told the truth (ws.rs lines 101-122 and 148-169):   *)
(* the maps change before the await that reads whom to tell and the event  *)
(* is numbered after it, and still, whenever no session of a user is       *)
(* between the two, the presence_update numbered last of this user says    *)
(* what the presence map says - in every behaviour, with faults, parked    *)
(* workers and restarts, in which a user connects again only once the      *)
(* session before has made its last announcement.  Overlapping sessions    *)
(* are all that can leave a peer with the older of two announcements.      *)
(***************************************************************************)
THEOREM LastAnnouncedIsTrue == ListenedSpec /\ []Apart => []AnnouncedIsTrue
<1>1. Init /\ told = [u \in Users |-> "absent"] => ToldInv
  BY HubAssumption DEF Init, ToldInv, AnnouncedIsTrue, Tasks
<1>2. TypeOK /\ ToldInv /\ Apart' /\ [Next /\ Listening]_<<vars, told, heard>> => ToldInv'
  <2>1. TypeOK /\ ToldInv /\ Apart' /\ Next /\ Listening => ToldInv'
    BY ToldNext
  <2>2. ToldInv /\ UNCHANGED <<vars, told, heard>> => ToldInv'
    BY DEF vars, mem, task, ToldInv, AnnouncedIsTrue, Hushed
  <2> QED BY <2>1, <2>2
<1>3. ToldInv => AnnouncedIsTrue
  BY DEF ToldInv
<1> QED BY <1>1, <1>2, <1>3, ListenedIsHub, TypeCorrect, PTL DEF ListenedSpec

\* No two edits of one message are between their UPDATE and their broadcast.
EditsApart ==
  \A q, r \in Requests, m \in Messages : Edits(q, m) /\ Edits(r, m) => q = r

\* An edit that has changed the row ends by telling so: no statement of it
\* fails afterwards and the process stays up.
EditsEnd ==
  \A r \in Requests, m \in Messages : Edits(r, m) /\ ~Edits(r, m)' => BroadcastChange(r)

Unedited(m) == \A r \in Requests : ~Edits(r, m)

LastEditIsTold == \A m \in Messages : Unedited(m) => heard[m] = msgs[m].content

EditInv ==
  /\ heard \in [Messages -> Contents] /\ LastEditIsTold
  /\ \A m \in Messages : msgs[m].state = "none" => Unedited(m) /\ msgs[m].content = None
  /\ \A r \in Requests, m \in Messages :
       Edits(r, m) /\ pc[r] # "reread" => row[r] = msgs[m].content

\* A turn that neither changes a text nor takes an edit on its way.
Calm ==
  /\ \A m \in Messages : /\ msgs'[m].content = msgs[m].content
                         /\ msgs'[m].state = "none" => msgs[m].state = "none"
  /\ \A r \in Requests, m \in Messages :
       /\ Edits(r, m)' <=> Edits(r, m)
       /\ Edits(r, m) => row'[r] = row[r] /\ pc'[r] = pc[r]

\* A turn of t leaves the other requests alone.
Besides(t) ==
  \A q \in Requests : q # t => pc'[q] = pc[q] /\ job'[q] = job[q] /\ row'[q] = row[q]

TextsStay ==
  \A m \in Messages : /\ msgs'[m].content = msgs[m].content
                      /\ msgs'[m].state = "none" => msgs[m].state = "none"

LEMMA StepBesides ==
  ASSUME TaskType, NEW t \in Tasks, NEW here, NEW there, Step(t, here, there)
  PROVE  Besides(t)
BY DEF Step, Goto, TaskType, Besides, Tasks

LEMMA FinishBesides ==
  ASSUME TaskType, NEW t \in Tasks, Finish(t)
  PROVE  Besides(t)
BY DEF Finish, Goto, TaskType, Besides, Tasks

LEMMA SessionStepBesides ==
  ASSUME TaskType, NEW s \in Sessions, SessionStep(s)
  PROVE  Besides(s)
<1>0. s \in Tasks
  BY DEF Tasks
<1>1. ASSUME NEW here, Return(s, here) PROVE Besides(s)
  BY <1>0, <1>1, FinishBesides DEF Return
<1>2. ASSUME NEW here, NEW there, Step(s, here, there) PROVE Besides(s)
  BY <1>0, <1>2, StepBesides
<1>3. CASE CheckMember(s) \/ LoadMeta(s) \/ CheckMute(s)
  BY <1>1, <1>2, <1>3 DEF CheckMember, LoadMeta, CheckMute
<1>4. CASE InsertMessage(s) \/ LookupName(s) \/ UpdateLastRead(s) \/ ReadChatType(s)
           \/ CountReads(s)
  BY <1>1, <1>2, <1>4 DEF InsertMessage, LookupName, UpdateLastRead, ReadChatType, CountReads
<1>5. CASE Reject(s) \/ BroadcastMessage(s) \/ BroadcastTyping(s) \/ SenderAway(s)
           \/ ReadCountFails(s) \/ FindSenderFails(s) \/ PushRead(s)
  BY <1>1, <1>5 DEF Reject, BroadcastMessage, BroadcastTyping, SenderAway, ReadCountFails,
                    FindSenderFails, PushRead
<1>6. CASE FindSender(s) \/ FetchParticipants(s) \/ TakeGuard(s) \/ FetchCommon(s)
           \/ AnnounceOnline(s) \/ AnnounceOffline(s)
  <2>1. /\ job' = job /\ \E there : Goto(s, there)
        /\ row' = row \/ \E v : row' = [row EXCEPT ![s] = v]
    BY <1>6 DEF FindSender, FetchParticipants, TakeGuard, FetchCommon, AnnounceOnline,
                AnnounceOffline
  <2> QED BY <1>0, <2>1 DEF Goto, TaskType, Besides, Tasks
<1> QED BY <1>3, <1>4, <1>5, <1>6 DEF SessionStep

LEMMA BesidesSession ==
  ASSUME NEW s \in Sessions, Besides(s), TextsStay
  PROVE  Calm
<1>1. \A q \in Requests : pc'[q] = pc[q] /\ job'[q] = job[q] /\ row'[q] = row[q]
  BY HubAssumption DEF Besides
<1> QED BY <1>1 DEF Calm, Edits, TextsStay

\* A message is stored where none was, without an edited text.
LEMMA InsertText ==
  ASSUME TypeOK, AudienceInv, EditInv, NEW t \in Tasks, pc[t] \in {"insert", "store"},
         Insert(job[t])
  PROVE  TextsStay
<1>1. job[t] \in Jobs /\ job[t] # None
  BY HubAssumption DEF TypeOK, TaskType, InHandler, AwaitingDb
<1>2. job[t].msg \in Messages /\ msgs[job[t].msg].state = "none"
  <2>1. Placed(t)
    BY DEF AudienceInv
  <2> QED BY <1>1, <2>1 DEF Placed, Writes, Ahead, Jobs
<1>3. msgs[job[t].msg].content = None
  BY <1>2 DEF EditInv
<1>4. /\ msgs'[job[t].msg].content = None /\ msgs'[job[t].msg].state = "live"
      /\ \A m \in Messages : m # job[t].msg => msgs'[m] = msgs[m]
  BY <1>2 DEF Insert, TypeOK, DbType
<1> QED BY <1>2, <1>3, <1>4 DEF TextsStay

LEMMA SessionCalm ==
  ASSUME TypeOK, AudienceInv, EditInv, NEW s \in Sessions, SessionStep(s)
  PROVE  Calm
<1>1. Besides(s)
  BY SessionStepBesides DEF TypeOK
<1>2. CASE InsertMessage(s)
  <2>1. s \in Tasks /\ pc[s] = "insert" /\ Insert(job[s])
    BY <1>2 DEF InsertMessage, Step, At, Tasks
  <2> QED BY <1>1, <2>1, InsertText, BesidesSession
<1>3. CASE ~InsertMessage(s)
  <2>1. msgs' = msgs
    BY <1>3
    DEF SessionStep, FetchCommon, AnnounceOnline, AnnounceOffline, CheckMember, Reject,
        LoadMeta, CheckMute, BroadcastMessage, LookupName, BroadcastTyping, UpdateLastRead,
        ReadChatType, FindSender, SenderAway, TakeGuard, CountReads, ReadCountFails,
        FindSenderFails, PushRead, FetchParticipants, db
  <2> QED BY <1>1, <2>1, BesidesSession DEF TextsStay
<1> QED BY <1>2, <1>3

\* A turn of a request that is no edit, or whose edit is not under way.
LEMMA BesidesRequest ==
  ASSUME NEW r \in Requests, Besides(r), TextsStay,
         \A m \in Messages : ~Edits(r, m) /\ ~Edits(r, m)'
  PROVE  Calm
BY DEF Besides, TextsStay, Calm, Edits

\* What the requests do that has nothing to do with an edit.
LEMMA RequestCalm ==
  ASSUME TypeOK, CourseInv, AudienceInv, EditInv, NEW r \in Requests,
         RequestStep(r) \/ StartRequest(r),
         ~EditMessage(r), \A m \in Messages : ~Edits(r, m)
  PROVE  Calm
<1>0. r \in Tasks /\ TaskType /\ OnCourse(r) /\ r \notin Sessions
  BY HubAssumption DEF Tasks, TypeOK, CourseInv
<1>1. ASSUME NEW here, Return(r, here), TextsStay PROVE Calm
  <2>1. pc'[r] = "done" /\ Besides(r)
    BY <1>0, <1>1, FinishBesides DEF Return, Finish, Goto, Rest, TaskType
  <2> QED BY <1>1, <2>1, BesidesRequest DEF Edits
<1>2. ASSUME NEW here, NEW there, Step(r, here, there), TextsStay,
             there = "store" \/ job[r].op # "edit"
      PROVE  Calm
  <2>1. job' = job /\ pc'[r] = there /\ Besides(r)
    BY <1>0, <1>2, StepBesides DEF Step, Goto, TaskType
  <2> QED BY <1>2, <2>1, BesidesRequest DEF Edits
<1>3. ASSUME msgs' = msgs PROVE TextsStay
  BY <1>3 DEF TextsStay
<1>4. CASE DeleteMessage(r)
  <2>1. job[r] \in Jobs /\ job[r].op = "delete"
    BY <1>0, <1>4, InHand DEF DeleteMessage, Effect, At, InHandler, AwaitingDb
  <2>2. msgs' = msgs \/ msgs' = [msgs EXCEPT ![job[r].msg].state = "deleted"]
    BY <1>4 DEF DeleteMessage
  <2>3. job[r].msg \in Messages /\ msgs \in [Messages -> MsgRows]
    BY <2>1 DEF Jobs, TypeOK, DbType
  <2>4. TextsStay
    BY <2>2, <2>3 DEF TextsStay, MsgRows
  <2> QED BY <1>1, <1>2, <1>4, <2>1, <2>4 DEF DeleteMessage
<1>5. CASE PinMessage(r) \/ UnpinMessage(r) \/ RemoveParticipant(r) \/ CheckCanSend(r)
  BY <1>1, <1>2, <1>3, <1>5
     DEF PinMessage, UnpinMessage, RemoveParticipant, CheckCanSend, Effect, db
<1>6. CASE PostMessage(r)
  BY <1>0, <1>1, <1>6, InsertText DEF PostMessage, Return, At
<1>7. CASE BroadcastChange(r)
  BY <1>1, <1>3, <1>7 DEF BroadcastChange, db
<1>8. CASE Reread(r) \/ FetchParticipants(r)
  <2>1. /\ pc[r] \in {"reread", "participants"} /\ job' = job /\ msgs' = msgs
        /\ \E there : Goto(r, there)
        /\ row' = row \/ \E v : row' = [row EXCEPT ![r] = v]
    BY <1>8 DEF Reread, FetchParticipants, At, db
  <2>2. Besides(r)
    BY <1>0, <2>1 DEF Goto, TaskType, Besides, Tasks
  <2>3. job[r] # None /\ job[r] \in Jobs
    BY <1>0, <2>1, HubAssumption DEF TaskType, InHandler, AwaitingDb
  <2>4. job[r].op # "edit"
    BY <2>1, <2>3 DEF Edits, Jobs
  <2> QED BY <1>3, <2>1, <2>2, <2>4, BesidesRequest DEF Edits
<1>9. CASE StartRequest(r)
  <2>1. pc'[r] = "effect" /\ msgs' = msgs /\ Besides(r)
    BY <1>0, <1>9 DEF StartRequest, Goto, TaskType, Besides, Tasks, db
  <2> QED BY <1>3, <2>1, BesidesRequest DEF Edits
<1> QED BY <1>4, <1>5, <1>6, <1>7, <1>8, <1>9 DEF RequestStep

\* Everything but the turns of an edit under way and the one that begins it.
LEMMA OtherwiseCalm ==
  ASSUME TypeOK, CourseInv, AudienceInv, EditInv, EditsEnd, [Next]_vars,
         \A r \in Requests : (RequestStep(r) \/ StartRequest(r)) =>
            ~EditMessage(r) /\ \A m \in Messages : ~Edits(r, m)
  PROVE  Calm
<1>1. ASSUME NEW s \in Sessions, SessionStep(s) PROVE Calm
  BY <1>1, SessionCalm
<1>2. ASSUME NEW s \in Sessions, Receive(s) \/ ClientStep(s) PROVE Calm
  <2>1. msgs' = msgs /\ s \in Tasks
    BY <1>2 DEF Receive, Deliver, Suspend, Written, ClientStep, Connect, ConnectParks,
                StreamEnds, Disconnect, DisconnectParks, Park, StartCommand, Sync, db, Tasks
  <2>2. /\ row' = row
        /\ pc' = pc \/ \E there : Goto(s, there)
        /\ job' = job \/ \E j : job' = [job EXCEPT ![s] = j]
    BY <1>2 DEF Receive, Deliver, Suspend, Written, ClientStep, Connect, ConnectParks,
                StreamEnds, Disconnect, DisconnectParks, Park, StartCommand, Sync, Step, task
  <2>3. Besides(s)
    BY <2>1, <2>2 DEF Goto, Besides, TypeOK, TaskType, Tasks
  <2> QED BY <2>1, <2>3, BesidesSession DEF TextsStay
<1>3. ASSUME NEW r \in Requests, RequestStep(r) \/ StartRequest(r) PROVE Calm
  BY <1>3, RequestCalm
<1>4. ASSUME NEW t \in Tasks, Fault(t) PROVE Calm
  <2>1. msgs' = msgs /\ seqCounter' = seqCounter /\ Finish(t) /\ TaskType
    BY <1>4 DEF Fault, db, chan, TypeOK
  <2>2. Besides(t) /\ pc'[t] \in {"loop", "done"}
    BY <2>1, FinishBesides DEF Finish, Goto, Rest, TaskType
  <2>3. CASE t \in Sessions
    BY <2>1, <2>2, <2>3, BesidesSession DEF TextsStay
  <2>4. CASE t \in Requests
    <3>1. ASSUME NEW m \in Messages PROVE ~Edits(t, m) /\ ~Edits(t, m)'
      <4>1. ~Edits(t, m)'
        BY <2>2 DEF Edits
      <4>2. ~BroadcastChange(t)
        BY <2>1 DEF BroadcastChange, Broadcast, TypeOK, ChanType
      <4> QED BY <2>4, <4>1, <4>2 DEF EditsEnd
    <3> QED BY <2>1, <2>2, <2>4, <3>1, BesidesRequest DEF TextsStay
  <2> QED BY <2>3, <2>4 DEF Tasks
<1>5. CASE Restart
  <2>1. msgs' = msgs /\ \A t \in Tasks : job'[t] = None
    BY <1>5 DEF Restart, db
  <2>2. \A r \in Requests : ~BroadcastChange(r)
    <3>1. restarts' # restarts
      BY <1>5 DEF Restart, TypeOK, EnvType
    <3> QED BY <3>1 DEF BroadcastChange, Return, env
  <2>3. \A r \in Requests, m \in Messages : ~Edits(r, m) /\ ~Edits(r, m)'
    BY <2>1, <2>2 DEF EditsEnd, Edits, Tasks
  <2> QED BY <2>1, <2>3 DEF Calm
<1>6. CASE AddParticipant \/ ToggleMute \/ UNCHANGED vars
  BY <1>6 DEF AddParticipant, ToggleMute, vars, task, db, Calm, Edits
<1> QED BY <1>1, <1>2, <1>3, <1>4, <1>5, <1>6 DEF Next

\* An edit is told by the turn after which it is over.
LEMMA TellingMoves ==
  ASSUME TaskType, NEW r \in Requests, BroadcastChange(r)
  PROVE  pc[r] = "broadcast" /\ pc'[r] = "done" /\ Besides(r) /\ msgs' = msgs
<1>1. r \in Tasks /\ r \notin Sessions
  BY HubAssumption DEF Tasks
<1> QED BY <1>1, FinishBesides DEF BroadcastChange, Return, At, Finish, Goto, Rest, TaskType, db

\* An edit that is told has been under way, and is so no more.
LEMMA TellsEditMoves ==
  ASSUME TaskType, NEW r \in Requests, TellsEdit(r)
  PROVE  job[r].msg \in Messages /\ Edits(r, job[r].msg) /\ \A m \in Messages : ~Edits(r, m)'
<1>1. pc[r] = "broadcast" /\ pc'[r] = "done"
  BY TellingMoves DEF TellsEdit
<1>2. job[r] \in Jobs /\ job[r] # None
  BY <1>1, HubAssumption DEF TaskType, InHandler, AwaitingDb, Tasks
<1> QED BY <1>1, <1>2 DEF TellsEdit, Edits, Jobs

LEMMA EditNext ==
  ASSUME TypeOK, CourseInv, AudienceInv, EditInv, EditsApart, EditsApart', EditsEnd,
         Next, Listening
  PROVE  EditInv'
<1>a. TaskType /\ \A r \in Requests : r \in Tasks /\ r \notin Sessions
  BY HubAssumption DEF Tasks, TypeOK
<1>1. CASE Calm
  <2>0. heard' = heard
    BY <1>a, <1>1, TellsEditMoves DEF Calm, Listening
  <2>1. ASSUME NEW m \in Messages, Unedited(m)' PROVE heard'[m] = msgs'[m].content
    <3>1. Unedited(m)
      BY <1>1, <2>1 DEF Calm, Unedited
    <3> QED BY <1>1, <2>0, <3>1 DEF Calm, EditInv, LastEditIsTold
  <2> QED BY <1>1, <2>0, <2>1 DEF Calm, EditInv, LastEditIsTold, Unedited
<1>2. ASSUME NEW r \in Requests, NEW k \in Messages, Edits(r, k),
             RequestStep(r) \/ StartRequest(r)
      PROVE  EditInv'
  <2>1. /\ job[r].op = "edit" /\ job[r].msg = k /\ job[r] # None
        /\ pc[r] \in {"reread", "participants", "broadcast"}
    BY <1>2 DEF Edits
  <2>2. Reread(r) \/ FetchParticipants(r) \/ BroadcastChange(r)
    BY <1>2, <2>1 DEF RequestStep, StartRequest, EditMessage, DeleteMessage, PinMessage,
                      UnpinMessage, RemoveParticipant, CheckCanSend, PostMessage, Effect,
                      Return, At
  <2>3. msgs' = msgs /\ Besides(r)
    <3>1. CASE Reread(r) \/ FetchParticipants(r)
      BY <1>a, <3>1 DEF Reread, FetchParticipants, Goto, TaskType, Besides, Tasks, db
    <3> QED BY <1>a, <2>2, <3>1, TellingMoves
  <2>4. \A q \in Requests, m \in Messages : q # r => Edits(q, m)' = Edits(q, m) /\ row'[q] = row[q] /\ pc'[q] = pc[q]
    BY <2>3 DEF Besides, Edits
  <2>5. \A m \in Messages : m # k => ~Edits(r, m) /\ ~Edits(r, m)'
    BY <1>a, <2>1, <2>2, TellingMoves DEF Reread, FetchParticipants, Edits
  <2>6. \A q \in Requests : q # r => ~BroadcastChange(q)
    <3>1. pc'[r] # pc[r]
      BY <1>a, <2>2, TellingMoves DEF Reread, FetchParticipants, At, Goto, TaskType
    <3> QED BY <3>1, <1>a, TellingMoves DEF Besides
  <2>7. /\ heard' \in [Messages -> Contents]
        /\ \A m \in Messages : m # k => heard'[m] = heard[m]
        /\ BroadcastChange(r) => heard'[k] = row[r]
    BY <1>a, <2>1, <2>6 DEF Listening, TellsEdit, EditInv, TaskType
  <2>8. ASSUME NEW m \in Messages, m # k, Unedited(m)' PROVE heard'[m] = msgs'[m].content
    <3>1. Unedited(m)
      BY <2>4, <2>5, <2>8 DEF Unedited
    <3> QED BY <2>3, <2>7, <2>8, <3>1 DEF EditInv, LastEditIsTold
  <2>9. ASSUME Unedited(k)' PROVE heard'[k] = msgs'[k].content
    <3>1. ~Edits(r, k)'
      BY <2>9 DEF Unedited
    <3>2. BroadcastChange(r)
      BY <1>2, <3>1 DEF EditsEnd
    <3>3. heard'[k] = row[r]
      BY <2>7, <3>2
    <3>4. row[r] = msgs[k].content
      BY <1>2, <3>2, <1>a, TellingMoves DEF EditInv
    <3> QED BY <2>3, <3>3, <3>4
  <2>10. ASSUME Edits(r, k)', pc'[r] # "reread" PROVE row'[r] = msgs'[k].content
    <3>1. CASE Reread(r)
      BY <1>a, <2>1, <2>3, <3>1 DEF Reread, TaskType
    <3>2. CASE FetchParticipants(r)
      BY <1>2, <2>3, <3>2 DEF FetchParticipants, At, EditInv
    <3>3. CASE BroadcastChange(r)
      BY <1>a, <2>10, <3>3, TellingMoves DEF Edits
    <3> QED BY <2>2, <3>1, <3>2, <3>3
  <2>11. ASSUME NEW m \in Messages, msgs'[m].state = "none"
         PROVE  Unedited(m)' /\ msgs'[m].content = None
    <3>1. Unedited(m) /\ msgs[m].content = None
      BY <2>3, <2>11 DEF EditInv
    <3>2. m # k
      BY <1>2, <3>1 DEF Unedited
    <3> QED BY <2>3, <2>4, <2>5, <3>1, <3>2 DEF Unedited
  <2>12. ASSUME NEW q \in Requests, NEW m \in Messages, Edits(q, m)', pc'[q] # "reread"
         PROVE  row'[q] = msgs'[m].content
    <3>1. CASE q = r
      BY <2>5, <2>10, <2>12, <3>1
    <3>2. CASE q # r
      BY <2>3, <2>4, <2>12, <3>2 DEF EditInv
    <3> QED BY <3>1, <3>2
  <2> QED BY <2>7, <2>8, <2>9, <2>11, <2>12 DEF EditInv, LastEditIsTold
<1>3. ASSUME NEW r \in Requests, EditMessage(r), ~Calm PROVE EditInv'
  <2>1. job[r] \in Jobs /\ job[r] # None /\ job[r].op = "edit" /\ pc[r] = "effect"
    BY <1>a, <1>3, InHand DEF EditMessage, Effect, At, InHandler, AwaitingDb
  <2>2. PICK k \in Messages : job[r].msg = k
    BY <2>1 DEF Jobs
  <2>3. CASE Return(r, "effect")
    <3>1. pc'[r] = "done" /\ Besides(r)
      BY <1>a, <2>3, FinishBesides DEF Return, Finish, Goto, Rest, TaskType
    <3>2. msgs' = msgs
      BY <1>3, <3>1, <1>a DEF EditMessage, Step, Goto, TaskType
    <3>3. \A m \in Messages : ~Edits(r, m) /\ ~Edits(r, m)'
      BY <2>1, <3>1 DEF Edits
    <3> QED BY <1>3, <3>1, <3>2, <3>3, BesidesRequest DEF TextsStay
  <2>4. CASE Step(r, "effect", "reread")
    <3>1. pc'[r] = "reread" /\ job' = job /\ Besides(r)
      BY <1>a, <2>4, StepBesides DEF Step, Goto, TaskType
    <3>2. /\ msgs[k].state = "live"
          /\ msgs' = [msgs EXCEPT ![k].content = r]
      BY <1>3, <1>a, <2>2, <3>1 DEF EditMessage, Return, Finish, Goto, Rest, TaskType
    <3>3. /\ \A m \in Messages : m # k => msgs'[m] = msgs[m]
          /\ msgs'[k].state = "live"
      BY <2>2, <3>2 DEF TypeOK, DbType, MsgRows
    <3>4. Edits(r, k)' /\ \A m \in Messages : ~Edits(r, m)
      BY <2>1, <2>2, <3>1 DEF Edits
    <3>5. \A q \in Requests, m \in Messages :
            q # r => Edits(q, m)' = Edits(q, m) /\ row'[q] = row[q] /\ pc'[q] = pc[q]
      BY <3>1 DEF Besides, Edits
    <3>6. \A q \in Requests : q # r => ~Edits(q, k)'
      BY <3>4 DEF EditsApart
    <3>7. \A q \in Requests : ~BroadcastChange(q)
      BY <1>a, <2>1, <3>1, TellingMoves DEF Besides
    <3>8. heard' = heard
      BY <3>7 DEF Listening, TellsEdit
    <3>9. ASSUME NEW m \in Messages, m # k PROVE Edits(r, m)' = FALSE
      BY <2>1, <2>2, <3>1, <3>9 DEF Edits
    <3>10. ASSUME NEW m \in Messages, Unedited(m)' PROVE heard'[m] = msgs'[m].content
      <4>1. m # k
        BY <3>4, <3>10 DEF Unedited
      <4>2. Unedited(m)
        BY <3>4, <3>5, <3>10 DEF Unedited
      <4> QED BY <3>3, <3>8, <4>1, <4>2 DEF EditInv, LastEditIsTold
    <3>11. ASSUME NEW m \in Messages, msgs'[m].state = "none"
           PROVE  Unedited(m)' /\ msgs'[m].content = None
      <4>1. m # k
        BY <3>3, <3>11
      <4>2. Unedited(m) /\ msgs[m].content = None
        BY <3>3, <3>11, <4>1 DEF EditInv
      <4> QED BY <3>3, <3>5, <3>9, <4>1, <4>2 DEF Unedited
    <3>12. ASSUME NEW q \in Requests, NEW m \in Messages, Edits(q, m)', pc'[q] # "reread"
           PROVE  row'[q] = msgs'[m].content
      <4>1. q # r
        BY <3>1, <3>12
      <4>2. m # k
        BY <3>6, <3>12, <4>1
      <4> QED BY <3>3, <3>5, <3>12, <4>1, <4>2 DEF EditInv
    <3> QED BY <3>8, <3>10, <3>11, <3>12 DEF EditInv, LastEditIsTold
  <2> QED BY <1>3, <2>3, <2>4 DEF EditMessage
<1> QED BY <1>1, <1>2, <1>3, OtherwiseCalm

(***************************************************************************)
(* Of several edits the last text told is the text kept (messages.rs lines *)
(* 98-138): what an edit broadcasts is read one await after its UPDATE and *)
(* numbered two awaits after that, and still, whenever no edit of a        *)
(* message is under way, the message_edited numbered last carries the      *)
(* text of the row - if edits of one message never overlap and none is cut *)
(* short after its UPDATE.  A deletion, a pin or a removal in between does *)
(* no harm.                                                                *)
(***************************************************************************)
THEOREM LastEditToldIsKept ==
  ListenedSpec /\ []EditsApart /\ [][EditsEnd]_vars => []LastEditIsTold
<1>1. Init /\ heard = [m \in Messages |-> None] => EditInv
  BY DEF Init, EditInv, LastEditIsTold, Unedited, Edits, Tasks, Contents
<1>2. TypeOK /\ CourseInv /\ AudienceInv /\ EditInv /\ EditsApart /\ EditsApart'
      /\ [EditsEnd]_vars /\ [Next /\ Listening]_<<vars, told, heard>> => EditInv'
  <2>1. ASSUME TypeOK, CourseInv, AudienceInv, EditInv, EditsApart, EditsApart',
               [EditsEnd]_vars, Next, Listening
        PROVE  EditInv'
    <3>1. CASE EditsEnd
      BY <2>1, <3>1, EditNext
    <3>2. CASE UNCHANGED vars
      <4>1. EditsEnd
        BY <3>2 DEF EditsEnd, Edits, vars, task
      <4> QED BY <2>1, <4>1, EditNext
    <3> QED BY <2>1, <3>1, <3>2
  <2>2. EditInv /\ UNCHANGED <<vars, told, heard>> => EditInv'
    BY DEF vars, db, task, EditInv, LastEditIsTold, Unedited, Edits
  <2> QED BY <2>1, <2>2
<1>3. EditInv => LastEditIsTold
  BY DEF EditInv
<1> QED
  BY <1>1, <1>2, <1>3, ListenedIsHub, TypeCorrect, AlwaysOnCourse, AudienceKept, PTL
     DEF ListenedSpec

=============================================================================
