------------------------------ MODULE MCPeers ------------------------------
\* An instance of Peers for TLC: two users, an id that is nobody's, and three
\* requests.
EXTENDS Peers, TLC

CONSTANTS u1, u2, nobody, r1, r2, r3

Job(op, user, peer) == [op |-> op, user |-> user, peer |-> peer]

AllJobs ==
  {Job(op, u1, u2) : op \in {"add", "remove", "block", "unblock", "direct"}}
    \cup {Job("direct", u2, u1), Job("direct", u1, u1), Job("direct", u1, nobody)}
    \cup {Job("add", u1, u1), Job("add", u1, nobody), Job("block", u1, nobody)}

RequestSymmetry == Permutations(Requests)
=============================================================================
