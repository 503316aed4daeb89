---------------------------- MODULE MCReadState ----------------------------
\* An instance of ReadState for TLC: the owner u1 with two devices, another
\* user, two messages.
EXTENDS ReadState, TLC

CONSTANTS u1, u2, c1, c2

AllRequests ==
  {[op |-> "read_bulk", user |-> u1, ids |-> b] : b \in {<<1>>, <<2, 1>>}}
    \cup {[op |-> "read_bulk", user |-> u2, ids |-> <<2>>],
          [op |-> "mark_as_read", user |-> u1, ids |-> <<1>>]}
    \cup {[op |-> o, user |-> u1, ids |-> <<>>] : o \in {"unread_count", "clear_messages"}}

First == {1}

CallSymmetry == Permutations(Calls)
=============================================================================
