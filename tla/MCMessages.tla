----------------------------- MODULE MCMessages -----------------------------
\* An instance of Messages for TLC: three users, two with one name but for its
\* case, a group and a channel.
EXTENDS Messages, TLC

CONSTANTS u1, u2, u3, c1, c2, r1, r2, r3, bob, ann

Job(op, user, about, names) ==
  [op |-> op, user |-> user, chat |-> c1, from |-> c2, about |-> about, names |-> names]

AllJobs ==
  {Job("send", u1, {}, {bob}), Job("send", u2, {1}, {ann, bob}),
   Job("delete", u1, {1}, {}), Job("clear", u1, {}, {}), Job("pin", u1, {1}, {}),
   Job("unpin", u1, {}, {}), Job("unpin", u2, {}, {}), Job("clear_mentions", u3, {}, {}),
   Job("list", u2, {}, {}), Job("chats", u2, {}, {}),
   [Job("forward", u2, {1, 2}, {}) EXCEPT !.chat = c2, !.from = c1],
   [Job("send", u1, {}, {}) EXCEPT !.chat = c2]}

\* The second message replies to the first.
TwoSaid == <<[chat |-> c1, sender |-> u1, reply |-> None], [chat |-> c1, sender |-> u2, reply |-> 1]>>
Owners == c1 :> u1 @@ c2 :> u2
TwoBobs == u1 :> ann @@ u2 :> bob @@ u3 :> bob
AllIn == [c \in Chats |-> Users]
U2Comes == {<<c1, u2>>}
U1Muted == {<<c1, u1>>}
RequestSymmetry == Permutations(Requests)
=============================================================================
