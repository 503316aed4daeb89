----------------------------- MODULE MCStorage -----------------------------
\* An instance of Storage for TLC: two contents, the first of them stored, and
\* three requests.
EXTENDS Storage, TLC

CONSTANTS a, b, r1, r2, r3

Job(op, contents, files) == [op |-> op, contents |-> contents, files |-> files]

AllJobs ==
  {Job("upload", c, <<>>) : c \in {<<a>>, <<b, a>>}}
    \cup {Job("send", <<>>, f) : f \in {<<1>>, <<1, 2>>}}
    \cup {Job("purge", <<>>, <<>>), Job("forward", <<>>, <<>>)}

RequestSymmetry == Permutations(Requests)
=============================================================================
