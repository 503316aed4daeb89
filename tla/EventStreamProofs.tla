------------------------ MODULE EventStreamProofs ------------------------
(***************************************************************************)
(* EventStream keeps its ordering promise for any sets of connections and  *)
(* messages.  StreamsOrdered is inductive together with the types, so the  *)
(* proof is one lemma for "something is queued with the next number" and   *)
(* one for "the head of a channel moves to the socket".  The same two show *)
(* that what is queued is only ever added to.                              *)
(***************************************************************************)
EXTENDS EventStream, SequenceTheorems, TLAPS

\* What is known of the channel p and the output w of one connection.
Ordered(w, p, n) ==
  /\ Increasing(w)
  /\ Increasing(p)
  /\ Before(w, p)
  /\ Below(w, n)
  /\ Below(p, n)

LEMMA Numbered ==
  ASSUME NEW q \in Seq(Event)
  PROVE  \A i \in DOMAIN q : q[i].seq \in Nat
<1>1. ASSUME NEW i \in DOMAIN q PROVE q[i].seq \in Nat
  <2>1. i \in 1 .. Len(q)
    OBVIOUS
  <2>2. q[i] \in Event
    BY <2>1, ElementOfSeq
  <2> QED BY <2>2 DEF Event
<1> QED BY <1>1

LEMMA OrderedGrows ==
  ASSUME NEW w \in Seq(Event), NEW p \in Seq(Event), NEW n \in Nat, NEW k \in Nat,
         Ordered(w, p, n), n <= k
  PROVE  Ordered(w, p, k)
<1>1. \A i \in DOMAIN w : w[i].seq \in Nat
  BY Numbered
<1>2. \A i \in DOMAIN p : p[i].seq \in Nat
  BY Numbered
<1> QED BY <1>1, <1>2 DEF Ordered, Below

LEMMA OrderedAppend ==
  ASSUME NEW w \in Seq(Event), NEW p \in Seq(Event), NEW n \in Nat, NEW k \in Nat,
         NEW e \in Event, Ordered(w, p, n), n <= e.seq, e.seq < k
  PROVE  Ordered(w, Append(p, e), k)
<1> DEFINE q == Append(p, e)
<1>1. /\ Len(q) = Len(p) + 1
      /\ DOMAIN q = 1 .. Len(p) + 1
      /\ DOMAIN p = 1 .. Len(p)
      /\ \A i \in 1 .. Len(p) : q[i] = p[i]
      /\ q[Len(p) + 1] = e
  OBVIOUS
<1>2. /\ \A i \in DOMAIN w : w[i].seq \in Nat /\ w[i].seq < n
      /\ \A i \in DOMAIN p : p[i].seq \in Nat /\ p[i].seq < n
      /\ e.seq \in Nat
  BY Numbered DEF Event, Ordered, Below
<1>3. Increasing(q)
  BY <1>1, <1>2 DEF Ordered, Increasing
<1>4. Before(w, q)
  BY <1>1, <1>2 DEF Ordered, Before
<1>5. Below(q, k) /\ Below(w, k)
  BY <1>1, <1>2 DEF Below
<1> QED BY <1>3, <1>4, <1>5 DEF Ordered

LEMMA OrderedDeliver ==
  ASSUME NEW w \in Seq(Event), NEW p \in Seq(Event), NEW n \in Nat,
         p # <<>>, Ordered(w, p, n)
  PROVE  Ordered(Append(w, Head(p)), Tail(p), n)
<1> DEFINE v == Append(w, Head(p))
           q == Tail(p)
<1>1. /\ Len(p) \in Nat /\ Len(p) >= 1
      /\ DOMAIN p = 1 .. Len(p)
      /\ DOMAIN w = 1 .. Len(w)
      /\ DOMAIN v = 1 .. Len(w) + 1
      /\ \A i \in 1 .. Len(w) : v[i] = w[i]
      /\ v[Len(w) + 1] = p[1]
  OBVIOUS
<1>2. /\ DOMAIN q = 1 .. Len(p) - 1
      /\ \A i \in 1 .. Len(p) - 1 : q[i] = p[i + 1]
  BY <1>1
<1>3. /\ \A i \in DOMAIN w : w[i].seq \in Nat
      /\ \A i \in DOMAIN p : p[i].seq \in Nat
  BY Numbered
<1>4. Increasing(v)
  BY <1>1, <1>3 DEF Ordered, Increasing, Before
<1>5. Increasing(q)
  BY <1>1, <1>2, <1>3 DEF Ordered, Increasing
<1>6. Before(v, q)
  <2>1. ASSUME NEW i \in DOMAIN v, NEW j \in DOMAIN q PROVE v[i].seq < q[j].seq
    <3>1. j + 1 \in DOMAIN p /\ 1 \in DOMAIN p /\ 1 < j + 1 /\ q[j] = p[j + 1]
      BY <1>1, <1>2
    <3>2. CASE i \in DOMAIN w
      BY <3>1, <3>2, <1>1 DEF Ordered, Before
    <3>3. CASE i = Len(w) + 1
      BY <3>1, <3>3, <1>1 DEF Ordered, Increasing
    <3> QED BY <3>2, <3>3, <1>1
  <2> QED BY <2>1 DEF Before
<1>7. Below(v, n) /\ Below(q, n)
  BY <1>1, <1>2, <1>3 DEF Ordered, Below
<1> QED BY <1>4, <1>5, <1>6, <1>7 DEF Ordered

LEMMA OrderedEmpty == Ordered(<<>>, <<>>, 0)
BY DEF Ordered, Increasing, Before, Below

----------------------------------------------------------------------------

Inv == TypeOK /\ \A s \in Sessions : Ordered(seen[s], pending[s], counter)

LEMMA InvInit == Init => Inv
BY OrderedEmpty DEF Init, Inv, TypeOK

LEMMA StampedType ==
  ASSUME NEW n \in Nat, NEW b \in Bodies
  PROVE  Stamped(n, b) \in Event /\ Stamped(n, b).seq = n
BY DEF Stamped, Event

\* Queueing an event numbered n, where the counter was n, for a set of
\* connections keeps every channel ordered below n + 1.
LEMMA QueuedOrdered ==
  ASSUME NEW q \in [Sessions -> Seq(Event)], NEW w \in [Sessions -> Seq(Event)],
         NEW n \in Nat, NEW R \in SUBSET Sessions, NEW b \in Bodies,
         \A s \in Sessions : Ordered(w[s], q[s], n)
  PROVE  /\ Queued(q, R, Stamped(n, b)) \in [Sessions -> Seq(Event)]
         /\ \A s \in Sessions : Ordered(w[s], Queued(q, R, Stamped(n, b))[s], n + 1)
<1> DEFINE e == Stamped(n, b)
<1>1. e \in Event /\ e.seq = n
  BY StampedType
<1>2. Queued(q, R, e) \in [Sessions -> Seq(Event)]
  BY <1>1 DEF Queued
<1>3. ASSUME NEW s \in Sessions
      PROVE  Ordered(w[s], Queued(q, R, e)[s], n + 1)
  <2>0. w[s] \in Seq(Event) /\ q[s] \in Seq(Event) /\ Ordered(w[s], q[s], n)
    OBVIOUS
  <2>1. CASE s \in R
    <3>1. Queued(q, R, e)[s] = Append(q[s], e)
      BY <2>1 DEF Queued
    <3>2. n <= e.seq /\ e.seq < n + 1 /\ n + 1 \in Nat
      BY <1>1
    <3> HIDE DEF e
    <3>3. Ordered(w[s], Append(q[s], e), n + 1)
      BY <2>0, <3>2, <1>1, OrderedAppend
    <3> QED BY <3>1, <3>3
  <2>2. CASE s \notin R
    <3>1. Queued(q, R, e)[s] = q[s]
      BY <2>2 DEF Queued
    <3> QED BY <2>0, <3>1, OrderedGrows
  <2> QED BY <2>1, <2>2
<1> QED BY <1>2, <1>3

LEMMA InvNext == Inv /\ [Next]_vars => Inv'
<1> SUFFICES ASSUME Inv, [Next]_vars PROVE Inv'
  OBVIOUS
<1> USE DEF Inv, TypeOK
<1>1. CASE Publish
  <2>1. PICK R \in SUBSET Sessions, b \in Bodies :
          pending' = Queued(pending, R, Stamped(counter, b))
    BY <1>1 DEF Publish
  <2>2. pending' \in [Sessions -> Seq(Event)]
        /\ \A x \in Sessions : Ordered(seen[x], pending'[x], counter + 1)
    BY <2>1, QueuedOrdered
  <2>3. counter' = counter + 1 /\ seen' = seen
    BY <1>1 DEF Publish
  <2> QED BY <2>2, <2>3
<1>2. CASE PublishAndReply
  <2>1. PICK R \in SUBSET Sessions, s \in Sessions, b, a \in Bodies :
          pending' = Queued(Queued(pending, R, Stamped(counter, b)), {s},
                            Stamped(counter + 1, a))
    BY <1>2 DEF PublishAndReply
  <2> DEFINE q == Queued(pending, R, Stamped(counter, b))
  <2>2. q \in [Sessions -> Seq(Event)]
        /\ \A x \in Sessions : Ordered(seen[x], q[x], counter + 1)
    BY QueuedOrdered
  <2>3. {s} \in SUBSET Sessions /\ counter + 1 \in Nat
    OBVIOUS
  <2>4. pending' \in [Sessions -> Seq(Event)]
        /\ \A x \in Sessions : Ordered(seen[x], pending'[x], (counter + 1) + 1)
    <3> HIDE DEF q
    <3> QED BY <2>1, <2>2, <2>3, QueuedOrdered DEF q
  <2>5. counter' = (counter + 1) + 1 /\ seen' = seen
    BY <1>2 DEF PublishAndReply
  <2> HIDE DEF q
  <2> QED BY <2>4, <2>5
<1>3. ASSUME NEW s \in Sessions, Deliver(s) PROVE Inv'
  <2>1. /\ pending[s] # <<>>
        /\ seen' = [seen EXCEPT ![s] = Append(seen[s], Head(pending[s]))]
        /\ pending' = [pending EXCEPT ![s] = Tail(pending[s])]
        /\ counter' = counter
    BY <1>3 DEF Deliver
  <2>2. TypeOK'
    BY <2>1
  <2>3. Ordered(Append(seen[s], Head(pending[s])), Tail(pending[s]), counter)
    BY <2>1, OrderedDeliver
  <2> QED BY <2>1, <2>2, <2>3
<1>4. CASE Restart
  BY <1>4, OrderedEmpty DEF Restart
<1>5. CASE UNCHANGED vars
  BY <1>5 DEF vars
<1> QED BY <1>1, <1>2, <1>3, <1>4, <1>5 DEF Next

(***************************************************************************)
(* The ordering promise holds in every behaviour: on each connection the   *)
(* numbers only go up (API_SPEC.md line 564).                              *)
(***************************************************************************)
THEOREM StreamsAreOrdered == Spec => []StreamsOrdered
<1>1. Inv => StreamsOrdered
  BY DEF Inv, Ordered, StreamsOrdered
<1> QED BY InvInit, InvNext, <1>1, PTL DEF Spec

----------------------------------------------------------------------------
\* What is queued is delivered as it was queued

\* All that was ever queued for the connection.
Line(s) == seen[s] \o pending[s]

Extends(p, q) == \E t \in Seq(Event) : q = p \o t

\* Nothing that was queued or written goes away or changes its place.
Grows == \A s \in Sessions : Extends(seen[s], seen'[s]) /\ Extends(Line(s), Line(s)')

LEMMA ExtendsSelf ==
  ASSUME NEW p \in Seq(Event)
  PROVE  Extends(p, p)
<1>1. <<>> \in Seq(Event) /\ p = p \o <<>>
  BY ConcatEmptySeq
<1> QED BY <1>1 DEF Extends

LEMMA ExtendsTwice ==
  ASSUME NEW p \in Seq(Event), NEW q \in Seq(Event), NEW w, Extends(p, q), Extends(q, w)
  PROVE  Extends(p, w)
<1>1. PICK t \in Seq(Event) : q = p \o t
  BY DEF Extends
<1>2. PICK u \in Seq(Event) : w = q \o u
  BY DEF Extends
<1>3. t \o u \in Seq(Event)
  BY ConcatProperties
<1>4. w = p \o (t \o u)
  BY <1>1, <1>2, ConcatAssociative
<1> QED BY <1>3, <1>4 DEF Extends

LEMMA ExtendsByOne ==
  ASSUME NEW p \in Seq(Event), NEW e \in Event
  PROVE  Extends(p, Append(p, e))
<1>1. <<e>> \in Seq(Event) /\ Append(p, e) = p \o <<e>>
  BY AppendIsConcat
<1> QED BY <1>1 DEF Extends

\* Whatever has been written, what is queued comes at the end.
LEMMA QueuedExtends ==
  ASSUME NEW q \in [Sessions -> Seq(Event)], NEW w \in Seq(Event), NEW e \in Event,
         NEW R \in SUBSET Sessions, NEW s \in Sessions
  PROVE  Extends(w \o q[s], w \o Queued(q, R, e)[s])
<1>1. q[s] \in Seq(Event) /\ w \o q[s] \in Seq(Event)
  BY ConcatProperties
<1>2. CASE s \in R
  <2>1. Queued(q, R, e)[s] = q[s] \o <<e>> /\ <<e>> \in Seq(Event)
    BY <1>1, <1>2, AppendIsConcat DEF Queued
  <2>2. w \o (q[s] \o <<e>>) = (w \o q[s]) \o <<e>>
    BY <1>1, <2>1, ConcatAssociative
  <2> QED BY <2>1, <2>2 DEF Extends
<1>3. CASE s \notin R
  <2>1. Queued(q, R, e)[s] = q[s]
    BY <1>3 DEF Queued
  <2> QED BY <1>1, <2>1, ExtendsSelf
<1> QED BY <1>2, <1>3

\* The head of a channel goes to the end of what was written.
LEMMA HandedOver ==
  ASSUME NEW w \in Seq(Event), NEW p \in Seq(Event), p # <<>>
  PROVE  Append(w, Head(p)) \o Tail(p) = w \o p
<1>1. Head(p) \in Event /\ Tail(p) \in Seq(Event) /\ p = <<Head(p)>> \o Tail(p)
  BY HeadTailProperties, AppendIsConcat
<1>2. <<Head(p)>> \in Seq(Event) /\ Append(w, Head(p)) = w \o <<Head(p)>>
  BY <1>1, AppendIsConcat
<1>3. (w \o <<Head(p)>>) \o Tail(p) = w \o (<<Head(p)>> \o Tail(p))
  BY <1>1, <1>2, ConcatAssociative
<1> QED BY <1>1, <1>2, <1>3

LEMMA FlowGrows ==
  ASSUME TypeOK, Publish \/ PublishAndReply \/ \E s \in Sessions : Deliver(s)
  PROVE  Grows
<1>0. ASSUME NEW s \in Sessions
      PROVE  /\ seen[s] \in Seq(Event) /\ pending[s] \in Seq(Event)
             /\ Line(s) \in Seq(Event)
  BY ConcatProperties DEF TypeOK, Line
<1>1. CASE Publish
  <2>1. PICK R \in SUBSET Sessions, b \in Bodies :
          pending' = Queued(pending, R, Stamped(counter, b))
    BY <1>1 DEF Publish
  <2>2. Stamped(counter, b) \in Event /\ seen' = seen
    BY <1>1, StampedType DEF Publish, TypeOK
  <2>3. ASSUME NEW s \in Sessions
        PROVE  Extends(seen[s], seen'[s]) /\ Extends(Line(s), Line(s)')
    BY <1>0, <2>1, <2>2, QueuedExtends, ExtendsSelf DEF Line, TypeOK
  <2> QED BY <2>3 DEF Grows
<1>2. CASE PublishAndReply
  <2>1. PICK R \in SUBSET Sessions, x \in Sessions, b, a \in Bodies :
          pending' = Queued(Queued(pending, R, Stamped(counter, b)), {x},
                            Stamped(counter + 1, a))
    BY <1>2 DEF PublishAndReply
  <2> DEFINE e == Stamped(counter, b)
             q == Queued(pending, R, e)
  <2>2. e \in Event /\ Stamped(counter + 1, a) \in Event /\ seen' = seen
    BY <1>2, StampedType DEF PublishAndReply, TypeOK
  <2>3. q \in [Sessions -> Seq(Event)]
    <3> HIDE DEF e
    <3> QED BY <2>2 DEF Queued, TypeOK
  <2>4. ASSUME NEW s \in Sessions
        PROVE  Extends(seen[s], seen'[s]) /\ Extends(Line(s), Line(s)')
    <3> HIDE DEF e
    <3>1. Extends(seen[s] \o pending[s], seen[s] \o q[s])
      BY <1>0, <2>2, QueuedExtends DEF TypeOK
    <3> HIDE DEF q
    <3>2. {x} \in SUBSET Sessions /\ seen[s] \o q[s] \in Seq(Event)
      BY <1>0, <2>3, ConcatProperties
    <3>3. Extends(seen[s] \o q[s], seen[s] \o Queued(q, {x}, Stamped(counter + 1, a))[s])
      BY <1>0, <2>2, <2>3, <3>2, QueuedExtends
    <3>4. Extends(Line(s), seen[s] \o Queued(q, {x}, Stamped(counter + 1, a))[s])
      BY <1>0, <3>1, <3>2, <3>3, ExtendsTwice DEF Line
    <3>5. pending' = Queued(q, {x}, Stamped(counter + 1, a))
      BY <2>1 DEF q, e
    <3> QED BY <1>0, <2>2, <3>4, <3>5, ExtendsSelf DEF Line
  <2> QED BY <2>4 DEF Grows
<1>3. ASSUME NEW x \in Sessions, Deliver(x) PROVE Grows
  <2>1. /\ pending[x] # <<>>
        /\ seen' = [seen EXCEPT ![x] = Append(seen[x], Head(pending[x]))]
        /\ pending' = [pending EXCEPT ![x] = Tail(pending[x])]
    BY <1>3 DEF Deliver
  <2>2. ASSUME NEW s \in Sessions, s # x
        PROVE  seen'[s] = seen[s] /\ Line(s)' = Line(s)
    BY <2>1, <2>2 DEF Line, TypeOK
  <2>3. /\ seen'[x] = Append(seen[x], Head(pending[x]))
        /\ Line(x)' = Append(seen[x], Head(pending[x])) \o Tail(pending[x])
    BY <2>1 DEF Line, TypeOK
  <2>4. Head(pending[x]) \in Event
    BY <1>0, <2>1, HeadTailProperties
  <2>5. Line(x)' = Line(x)
    BY <1>0, <2>1, <2>3, HandedOver DEF Line
  <2>6. Extends(seen[x], seen'[x])
    BY <1>0, <2>3, <2>4, ExtendsByOne
  <2> QED BY <1>0, <2>2, <2>5, <2>6, ExtendsSelf DEF Grows
<1> QED BY <1>1, <1>2, <1>3

(***************************************************************************)
(* Nothing that was queued for a connection is lost, doubled or overtaken: *)
(* except for a restart of the process, what was written to it and is      *)
(* still queued for it only gets longer at its end, and so does what was   *)
(* written, which is always the beginning of it (ws.rs lines 140-143).     *)
(***************************************************************************)
THEOREM StreamsGrow == Spec => [][Grows \/ Restart]_vars
<1>1. Inv /\ [Next]_vars => [Grows \/ Restart]_vars
  BY FlowGrows DEF Inv, Next
<1> QED BY InvInit, InvNext, <1>1, PTL DEF Spec
=============================================================================
