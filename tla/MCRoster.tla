------------------------------ MODULE MCRoster ------------------------------
\* An instance of Roster for TLC: the owner u1, an admin-to-be u2, three
\* requests at a time.
EXTENDS Roster, TLC

CONSTANTS u1, u2, r1, r2, r3

Job(op, by, who) == [op |-> op, by |-> by, user |-> who, perms |-> {"manage"}]

U1AndU2 == {u1, u2}

\* What the owner may do to u2, and what u2 may do.
AllJobs ==
  {Job(op, u1, u2) : op \in {"add", "remove", "promote", "demote", "unmute"}}
    \cup {Job("leave", u2, u2), Job("note", u2, u2), Job("mute", u2, u1)}
    \cup {Job("leave", u1, u1), Job("promote", u2, u2)}

RequestSymmetry == Permutations(Requests)
=============================================================================
