--------------------------- MODULE AtomicRoster ---------------------------
(***************************************************************************)
(* What the membership of one chat promises, abstracted from               *)
(* src/src/handlers/chats.rs: every request to add or remove a participant *)
(* takes effect at one instant between its start and its end, or not at    *)
(* all.  How the transactions of Roster achieve that is not said here.     *)
(***************************************************************************)
CONSTANTS
  Users,
  Requests,   \* HTTP requests, each used once
  None

VARIABLES
  members,    \* the participants of the chat
  stage,      \* request -> "idle", "open", "applied" or "closed"
  aim         \* request -> what it is to do and to whom, or None

vars == <<members, stage, aim>>

Aims == [effect : {"join", "drop", "other"}, user : Users]

Init ==
  /\ members \in SUBSET Users
  /\ stage = [r \in Requests |-> "idle"]
  /\ aim = [r \in Requests |-> None]

Open(r) ==
  /\ stage[r] = "idle"
  /\ stage' = [stage EXCEPT ![r] = "open"]
  /\ \E a \in Aims : aim' = [aim EXCEPT ![r] = a]
  /\ UNCHANGED members

Join(r) ==
  /\ stage[r] = "open"
  /\ aim[r].effect = "join"
  /\ stage' = [stage EXCEPT ![r] = "applied"]
  /\ members' = members \cup {aim[r].user}
  /\ UNCHANGED aim

\* Several removals of one user may take effect together.
Drop(u, R) ==
  /\ \A r \in R : stage[r] = "open" /\ aim[r] = [effect |-> "drop", user |-> u]
  /\ stage' = [r \in Requests |-> IF r \in R THEN "applied" ELSE stage[r]]
  /\ members' = members \ {u}
  /\ UNCHANGED aim

\* The response goes out; a request that is still open was refused or failed,
\* or was about something else.
Close(r) ==
  /\ stage[r] \in {"open", "applied"}
  /\ stage' = [stage EXCEPT ![r] = "closed"]
  /\ UNCHANGED <<members, aim>>

Next ==
  \/ \E r \in Requests : Open(r) \/ Join(r) \/ Close(r)
  \/ \E u \in Users : \E R \in (SUBSET Requests) \ {{}} : Drop(u, R)

Spec == Init /\ [][Next]_vars
=============================================================================
