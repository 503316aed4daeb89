------------------------------ MODULE MCWsHub ------------------------------
\* Instances of WsHub for TLC: two users, one or two chats, three sessions.
EXTENDS WsHub, TLC

CONSTANTS u1, u2, c1, c2, m1, s1, s2, s3, r1

Job(op, c, by, who, ack) ==
  [op |-> op, chat |-> c, msg |-> m1, by |-> by, user |-> who, ack |-> ack]

\* u1 connects twice, u2 once.
TwoDevices == s1 :> u1 @@ s2 :> u1 @@ s3 :> u2
OneEach == s1 :> u1 @@ s3 :> u2

SharedShard == [u \in Users |-> 1]
OwnShards == u1 :> 1 @@ u2 :> 2

Group == c1 :> "group"
ChannelAndGroup == c1 :> "channel" @@ c2 :> "group"
GroupAndDirect == c1 :> "group" @@ c2 :> "direct"

OwnedByU1 == [c \in Chats |-> IF ChatKind[c] = "direct" THEN None ELSE u1]

Everyone == [c \in Chats |-> Users]
\* c2 is small where the limit is 1.
U2Alone == c1 :> Users @@ c2 :> {u2}

Nothing == {}

SyncJobs == {Job("sync", c1, u1, u1, FALSE)}
SendByU1 == {Job("send_message", c1, u1, u1, TRUE)}
\* While a message is on its way another is stored, it is edited, u2 is removed,
\* or the pin changes, which u2 may not do.
ChatRequests == {Job("kick", c1, u1, u2, FALSE), Job("unpin", c1, u2, u2, FALSE)}
                  \cup {Job(op, c1, u1, u1, FALSE) : op \in {"post", "edit", "pin", "unpin"}}

\* In the channel only its owner may send; a read may name a message of another
\* chat, which no statement of mark_as_read compares with the chat.
ReadsAndBarred == {Job("mark_as_read", c1, u2, u2, TRUE),
                   Job("mark_as_read", c2, u2, u2, TRUE),
                   Job("send_message", c1, u2, u2, TRUE)}
SyncsAndReads == SyncJobs \cup ReadsAndBarred
ReadByU2 == {Job("mark_as_read", c1, u2, u2, TRUE)}
PostByU1 == {Job("post", c1, u1, u1, FALSE)}
\* u2 may be removed while it marks a message as read that does not exist.
PostOrKick == PostByU1 \cup {Job("kick", c1, u1, u2, FALSE)}

LiveJobs == {Job("send_message", c1, u1, u1, FALSE), Job("start_typing", c1, u2, u2, TRUE),
             Job("send_message", c2, u1, u1, FALSE), Job("mark_as_read", c2, u2, u2, TRUE)}
\* The last one is refused: u2 is no admin.
LiveRequests == {Job("delete", c1, u1, u1, FALSE), Job("kick", c1, u2, u1, FALSE)}

JoinU2 == {<<c1, u2>>}
MuteU1 == {<<c1, u1>>}
=============================================================================
