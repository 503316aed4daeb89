---------------------------- MODULE EventStream ----------------------------
(***************************************************************************)
(* What the WebSocket layer promises its clients, abstracted from          *)
(* src/src/ws.rs: every server message carries a number drawn from one     *)
(* counter, a broadcast is queued for all its recipients at once, and each *)
(* connection gets what was queued for it in queue order.  Nothing here    *)
(* says who the recipients are, what the message is about or which handler *)
(* sent it; WsHub says that, and implements this specification.            *)
(***************************************************************************)
EXTENDS Naturals, Sequences

CONSTANTS
  Sessions,   \* WebSocket connections, each used once
  Bodies      \* what a server message says, its number left out

VARIABLES
  counter,    \* AppState.sequence_counter
  pending,    \* per connection: the unbounded channel its session reads
  seen        \* per connection: what was written to its socket

vars == <<counter, pending, seen>>

Event == [seq : Nat, body : Bodies]

Stamped(n, b) == [seq |-> n, body |-> b]

\* The queues q once event e is queued for every connection of R.
Queued(q, R, e) == [s \in Sessions |-> IF s \in R THEN Append(q[s], e) ELSE q[s]]

Init ==
  /\ counter = 0
  /\ pending = [s \in Sessions |-> <<>>]
  /\ seen = [s \in Sessions |-> <<>>]

\* One event for any set of connections; it uses up its number even when
\* nobody is connected to get it.
Publish ==
  /\ counter' = counter + 1
  /\ \E R \in SUBSET Sessions, b \in Bodies :
       pending' = Queued(pending, R, Stamped(counter, b))
  /\ UNCHANGED seen

\* A broadcast followed, in the same turn of the event loop, by the reply to
\* the connection that asked for it.
PublishAndReply ==
  /\ counter' = counter + 2
  /\ \E R \in SUBSET Sessions, s \in Sessions, b, a \in Bodies :
       pending' = Queued(Queued(pending, R, Stamped(counter, b)), {s},
                         Stamped(counter + 1, a))
  /\ UNCHANGED seen

\* The session task takes the head of its channel and writes it out.
Deliver(s) ==
  /\ pending[s] # <<>>
  /\ seen' = [seen EXCEPT ![s] = Append(@, Head(pending[s]))]
  /\ pending' = [pending EXCEPT ![s] = Tail(@)]
  /\ UNCHANGED counter

\* The process is gone, and every connection and the counter with it.
Restart ==
  /\ counter' = 0
  /\ pending' = [s \in Sessions |-> <<>>]
  /\ seen' = [s \in Sessions |-> <<>>]

Next ==
  \/ Publish
  \/ PublishAndReply
  \/ \E s \in Sessions : Deliver(s)
  \/ Restart

Spec == Init /\ [][Next]_vars

----------------------------------------------------------------------------

TypeOK ==
  /\ counter \in Nat
  /\ pending \in [Sessions -> Seq(Event)]
  /\ seen \in [Sessions -> Seq(Event)]

Increasing(q) == \A i, j \in DOMAIN q : i < j => q[i].seq < q[j].seq

Below(q, n) == \A i \in DOMAIN q : q[i].seq < n

Before(p, q) == \A i \in DOMAIN p, j \in DOMAIN q : p[i].seq < q[j].seq

(***************************************************************************)
(* The ordering promise of API_SPEC.md line 564: on one connection the     *)
(* numbers of what was written and of what is still queued only go up, and *)
(* all of them are below the number the next event will get.               *)
(***************************************************************************)
StreamsOrdered ==
  \A s \in Sessions :
    /\ Increasing(seen[s])
    /\ Increasing(pending[s])
    /\ Before(seen[s], pending[s])
    /\ Below(seen[s], counter)
    /\ Below(pending[s], counter)
=============================================================================
