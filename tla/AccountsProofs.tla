--------------------------- MODULE AccountsProofs ---------------------------
(***************************************************************************)
(* Proofs about Accounts, for any users, requests, tokens and avatars and  *)
(* any number of failures: its type invariant, the safety of sessions and  *)
(* of the primary avatar, and that the transactions never all wait.        *)
(*                                                                         *)
(* TypeOK is not inductive: Course adds which operation a request at each  *)
(* place performs and what it has made up, Owned whose a stored token is,  *)
(* and Fresh that two uploads never work on one file.  On IInv rest Chain, *)
(* for the exchange of tokens (which refreshes met, and what a refresh     *)
(* that has stored a token replaces), and Painted, for primary avatars     *)
(* (two snapshots of one user's rows are nested, so two set_primary of a   *)
(* user never both hold all their locks). SomebodyCanGo comes from both:   *)
(* of those who wait for one another PostgreSQL finds the circle.          *)
(***************************************************************************)
EXTENDS Accounts, WellFoundedInduction, TLAPS

\* The operation of a request at a place.
Fits(op, here) ==
  \/ here \in {"register", "login"} /\ op = here
  \/ here \in {"get", "user", "delete"} /\ op = "refresh"
  \/ here = "grant" /\ op \in {"register", "login", "refresh"}
  \/ here \in {"create", "fill", "row"} /\ op = "upload"
  \/ here \in {"owner", "snapshot", "lower", "raise", "commit"} /\ op = "set_primary"
  \/ here \in {"find", "mint"} /\ op = "mint"
  \/ here \in {"fetch", "read"} /\ op = "download"
  \/ here = "reply" /\ op \in Ops

Grants == {"register", "login", "refresh"}

Types ==
  /\ account \in [Users -> Passwords \cup {None}]
  /\ token \in [Tokens -> TokenRows]
  /\ avatar \in [Avatars -> [user : Users \cup {None}, primary : BOOLEAN]]
  /\ file \in [Avatars -> {"none", "part", "whole"}]
  /\ minted \subseteq Avatars
  /\ pc \in [Requests -> Places \cup Ended \cup {"idle"}]
  /\ job \in [Requests -> RequestJobs \cup {NoJob}]
  /\ ctx \in [Requests -> Ctxs]
  /\ faults \in Nat
  /\ given \subseteq Tokens
  /\ met \subseteq Requests \X Requests
  /\ last \in [Users -> Avatars \cup {None}]
  /\ raced \subseteq Users

\* A request under way has a job that fits its place; one that is not, nothing.
Course ==
  \A r \in Requests :
    IF pc[r] \in Places
    THEN /\ job[r] \in RequestJobs /\ Fits(job[r].op, pc[r])
         /\ job[r].op = "refresh" => ctx[r].token \in given
         /\ job[r].op # "refresh" => ctx[r].token = None
         /\ pc[r] = "mint" => avatar[job[r].avatar].user # None
    ELSE ctx[r] = NoCtx

\* A stored token is of an account, and of one who knew its password.
Owned ==
  /\ \A t \in Tokens : token[t].is # "none" =>
       /\ token[t].user \in Users /\ token[t].shown \in Passwords
       /\ account[token[t].user] = token[t].shown
  /\ \A t \in given : token[t].is # "none"
  /\ \A r \in Requests :
       /\ pc[r] = "grant" /\ job[r].op # "refresh" => account[job[r].user] = job[r].password
       /\ pc[r] \in {"delete", "reply"} /\ job[r].op \in Grants =>
            ctx[r].new \in Tokens /\ token[ctx[r].new].is # "none"

\* An upload has a file of its own, whole before its row, the row of no other.
Fresh ==
  /\ \A r \in Requests : pc[r] \in {"fill", "row"} =>
       /\ ctx[r].new \in Avatars /\ file[ctx[r].new] # "none"
       /\ avatar[ctx[r].new].user = None
       /\ \A x \in Requests : pc[x] \in {"fill", "row"} /\ x # r => ctx[x].new # ctx[r].new
  /\ \A r \in Requests : pc[r] = "row" => file[ctx[r].new] = "whole"
  /\ \A a \in Avatars : avatar[a].user # None \/ a \in minted => file[a] = "whole"

IInv == Types /\ Course /\ Owned /\ Fresh

LEMMA JobTypes ==
  /\ None \notin Users \cup Passwords \cup Requests \cup Tokens \cup Avatars
  /\ \A j \in RequestJobs :
       j.op \in Ops /\ j.user \in Users /\ j.password \in Passwords /\ j.avatar \in Avatars
  /\ NoJob \in RequestJobs \cup {NoJob} /\ NoCtx \in Ctxs
  BY AccountsAssumption DEF NoJob, NoCtx, Ctxs

LEMMA InitIInv == Init => IInv
  <1> SUFFICES ASSUME Init PROVE IInv
    OBVIOUS
  <1>1. DOMAIN Holders0 \subseteq Tokens /\ DOMAIN Avatars0 \subseteq Avatars
    BY AccountsAssumption DEF Tokens, Avatars
  <1>2. /\ \A t \in DOMAIN Holders0 : Holders0[t] \in Users /\ Password0[Holders0[t]] \in Passwords
        /\ \A a \in DOMAIN Avatars0 : Avatars0[a] \in Users
    BY AccountsAssumption
  <1>3. Types
    BY <1>1, <1>2, JobTypes, AccountsAssumption
    DEF Init, Types, TokenRows, NoToken, NoAvatar, Ended
  <1>4. Course /\ Owned /\ Fresh
    BY <1>1, <1>2, JobTypes, AccountsAssumption
    DEF Init, Course, Owned, Fresh, NoToken, NoAvatar, Places, NoCtx
  <1> QED
    BY <1>3, <1>4 DEF IInv

LEMMA RefuseTypes ==
  ASSUME IInv, NEW r \in Requests, Refuse(r), faults' \in Nat
  PROVE  IInv'
  <1>1. Types'
    BY JobTypes DEF IInv, Types, Refuse, Goto, Dropped, stored, redis, pictures, history, Ended
  <1>2. pc' = [pc EXCEPT ![r] = "failed"] /\ "failed" \notin Places
    BY DEF Refuse, Goto, Places
  <1>3. Course'
    BY <1>2 DEF IInv, Types, Course, Refuse, Dropped, stored, redis, pictures, history
  <1>4. Owned'
    BY <1>2 DEF IInv, Types, Owned, Refuse, stored, redis, pictures, history
  <1>5. Fresh'
    BY <1>2 DEF IInv, Types, Fresh, Refuse, stored, redis, pictures, history
  <1> QED
    BY <1>1, <1>3, <1>4, <1>5 DEF IInv

\* A test that passes moves its request from one place to another.
LEMMA TestTypes ==
  ASSUME IInv, NEW r \in Requests, NEW here \in Places, NEW passes \in BOOLEAN,
         NEW there \in Places, Test(r, here, passes, there),
         passes => there \notin {"fill", "row", "delete"} /\ Fits(job[r].op, there),
         passes => there # "mint" \/ avatar[job[r].avatar].user # None,
         passes => there # "grant" \/ job[r].op = "refresh"
                     \/ account[job[r].user] = job[r].password,
         passes => there # "reply" \/ job[r].op \notin Grants
  PROVE  IInv'
  <1>1. ASSUME ~passes PROVE IInv'
    <2>1. Refuse(r) /\ faults' \in Nat
      BY <1>1 DEF Test, IInv, Types
    <2> QED
      BY <2>1, RefuseTypes
  <1>2. ASSUME passes PROVE IInv'
    <2>1. /\ pc' = [pc EXCEPT ![r] = there] /\ pc[r] = here
          /\ UNCHANGED <<stored, job, ctx, history, faults>>
      BY <1>2 DEF Test, Refuse, Goto, At
    <2>2. Types'
      BY <2>1 DEF IInv, Types, stored, redis, pictures, history
    <2>3. Course'
      BY <2>1, <1>2 DEF IInv, Types, Course, stored, redis, pictures, history
    <2>4. Owned'
      BY <2>1, <1>2 DEF IInv, Types, Owned, stored, redis, pictures, history
    <2>5. Fresh'
      BY <2>1, <1>2 DEF IInv, Types, Fresh, stored, redis, pictures, history
    <2> QED
      BY <2>2, <2>3, <2>4, <2>5 DEF IInv
  <1> QED
    BY <1>1, <1>2

LEMMA BeginTypes ==
  ASSUME IInv, NEW r \in Requests, Begin(r)
  PROVE  IInv'
  <1>1. PICK j \in RequestJobs, t \in given \cup {None} :
          /\ job' = [job EXCEPT ![r] = j]
          /\ pc' = [pc EXCEPT ![r] = Start(j.op)]
          /\ ctx' = [ctx EXCEPT ![r].token = t]
          /\ IF j.op = "refresh" THEN t \in given ELSE t = None
    BY DEF Begin, Goto
  <1>2. /\ pc[r] = "idle" /\ "idle" \notin Places /\ met' \subseteq Requests \X Requests
        /\ UNCHANGED <<stored, faults, given, last, raced>>
    BY DEF Begin, At, Places, IInv, Types
  <1>3. /\ Start(j.op) \in Places \ {"grant", "reply", "fill", "row", "mint", "delete"}
        /\ Fits(j.op, Start(j.op))
    BY JobTypes DEF Start, Fits, Places, Ops
  <1>4. t \in Tokens \cup {None} /\ ctx[r] = NoCtx /\ ctx[r] \in Ctxs
    BY <1>1, <1>2 DEF IInv, Types, Course
  <1>5. Types'
    BY <1>1, <1>2, <1>3, <1>4 DEF IInv, Types, Ctxs, stored, redis, pictures
  <1>6. Course'
    BY <1>1, <1>2, <1>3, <1>4 DEF IInv, Types, Course, Ctxs, stored, redis, pictures
  <1>7. Owned'
    BY <1>1, <1>2, <1>3, <1>4 DEF IInv, Types, Owned, Ctxs, stored, redis, pictures
  <1>8. Fresh'
    BY <1>1, <1>2, <1>3, <1>4 DEF IInv, Types, Fresh, Ctxs, stored, redis, pictures
  <1> QED
    BY <1>5, <1>6, <1>7, <1>8 DEF IInv

LEMMA RegisterTypes ==
  ASSUME IInv, NEW r \in Requests, Register(r)
  PROVE  IInv'
  <1>1. CASE Refuse(r) /\ UNCHANGED faults
    BY <1>1, RefuseTypes DEF IInv, Types
  <1>2. CASE Free(job[r].user) /\ ~Refuse(r)
    <2>1. /\ account' = [account EXCEPT ![job[r].user] = IF @ = None THEN job[r].password ELSE @]
          /\ pc' = [pc EXCEPT ![r] = "grant"] /\ pc[r] = "register"
          /\ UNCHANGED <<redis, pictures, job, ctx, history, faults>>
      BY <1>2 DEF Register, Goto, At, After
    <2>2. /\ job[r].user \in Users /\ job[r].password \in Passwords
          /\ account[job[r].user] = None /\ job[r].op = "register"
      BY <1>2, <2>1, JobTypes DEF IInv, Course, Places, Fits, Free
    <2>3. Types'
      BY <2>1, <2>2 DEF IInv, Types, Places, redis, pictures, history
    <2>4. Course'
      BY <2>1, <2>2 DEF IInv, Types, Course, Fits, Places, redis, pictures, history
    <2>5. Owned'
      <3>1. /\ \A u \in Users : account[u] # None => account'[u] = account[u]
            /\ account'[job[r].user] = job[r].password
        BY <2>1, <2>2 DEF IInv, Types
      <3>2. \A x \in Requests \ {r} : pc[x] = "grant" => job[x].user \in Users /\ job[x].password \in Passwords
        BY JobTypes DEF IInv, Course, Places
      <3> QED
        BY <2>1, <2>2, <3>1, <3>2, JobTypes DEF IInv, Types, Owned, redis, pictures, history
    <2>6. Fresh'
      BY <2>1 DEF IInv, Types, Fresh, redis, pictures, history
    <2> QED
      BY <2>3, <2>4, <2>5, <2>6 DEF IInv
  <1> QED
    BY <1>1, <1>2 DEF Register

LEMMA GrantTypes ==
  ASSUME IInv, NEW r \in Requests, Grant(r)
  PROVE  IInv'
  <1>1. PICK n \in Tokens :
          /\ token[n].is = "none"
          /\ token' = [token EXCEPT ![n] = NewToken(r)]
          /\ ctx' = [ctx EXCEPT ![r].new = n]
    BY DEF Grant
  <1>2. /\ pc[r] = "grant" /\ pc' = [pc EXCEPT ![r] = After(job[r].op, "grant")]
        /\ UNCHANGED <<account, minted, pictures, job, faults, history>>
    BY DEF Grant, At, Goto
  <1>3. job[r] \in RequestJobs /\ Fits(job[r].op, "grant") /\ job[r].op \in Grants
    BY <1>2 DEF IInv, Course, Places, Fits, Grants
  <1>4. After(job[r].op, "grant") = IF job[r].op = "refresh" THEN "delete" ELSE "reply"
    BY DEF After
  <1>5. /\ NewToken(r) \in TokenRows /\ NewToken(r).is = "live"
        /\ NewToken(r).user \in Users /\ NewToken(r).shown \in Passwords
        /\ account[NewToken(r).user] = NewToken(r).shown
    <2>1. CASE job[r].op = "refresh"
      <3>1. ctx[r].token \in given /\ ctx[r].token \in Tokens /\ ctx[r].token # None
        BY <1>2, <2>1, AccountsAssumption DEF IInv, Types, Course, Places
      <3> QED
        BY <3>1, JobTypes DEF IInv, Types, Owned, NewToken, TokenRows
    <2>2. CASE job[r].op # "refresh"
      BY <1>2, <1>3, <2>2, JobTypes DEF IInv, Course, Owned, NewToken, TokenRows, Places
    <2> QED
      BY <2>1, <2>2
  <1>6. /\ ctx[r] \in Ctxs /\ ctx'[r].new = n /\ ctx' \in [Requests -> Ctxs]
        /\ \A x \in Requests : ctx'[x].token = ctx[x].token
        /\ \A x \in Requests \ {r} : ctx'[x] = ctx[x]
    BY <1>1 DEF IInv, Types, Ctxs
  <1>7. Types'
    BY <1>1, <1>2, <1>4, <1>5, <1>6 DEF IInv, Types, Places, pictures, history
  <1>8. Course'
    BY <1>1, <1>2, <1>3, <1>4, <1>6 DEF IInv, Types, Course, Fits, Places, Ops, Grants, pictures, history
  <1>9. Owned'
    BY <1>1, <1>2, <1>3, <1>4, <1>5, <1>6 DEF IInv, Types, Owned, pictures, history
  <1>10. Fresh'
    BY <1>1, <1>2, <1>4, <1>6 DEF IInv, Types, Fresh, pictures, history
  <1> QED
    BY <1>7, <1>8, <1>9, <1>10 DEF IInv

LEMMA DeleteTypes ==
  ASSUME IInv, NEW r \in Requests, Delete(r)
  PROVE  IInv'
  <1>1. /\ pc[r] = "delete" /\ pc' = [pc EXCEPT ![r] = "reply"]
        /\ token' = [token EXCEPT ![ctx[r].token] = Gone(@)]
        /\ UNCHANGED <<account, minted, pictures, job, ctx, faults, history>>
    BY DEF Delete, At, Goto, After
  <1>2. job[r].op = "refresh" /\ ctx[r].token \in given /\ ctx[r].token \in Tokens
    BY <1>1 DEF IInv, Types, Course, Places, Fits
  <1>3. /\ token' \in [Tokens -> TokenRows]
        /\ \A t \in Tokens : /\ token'[t].is = "none" <=> token[t].is = "none"
                             /\ token'[t].user = token[t].user /\ token'[t].shown = token[t].shown
    BY <1>1, <1>2 DEF IInv, Types, Gone, TokenRows
  <1>4. Types'
    BY <1>1, <1>3 DEF IInv, Types, Places, pictures, history
  <1>5. Course'
    BY <1>1, <1>2 DEF IInv, Types, Course, Fits, Places, Ops, pictures, history
  <1>6. Owned'
    BY <1>1, <1>2, <1>3 DEF IInv, Types, Owned, Grants, pictures, history
  <1>7. Fresh'
    BY <1>1 DEF IInv, Types, Fresh, pictures, history
  <1> QED
    BY <1>4, <1>5, <1>6, <1>7 DEF IInv

LEMMA CreateTypes ==
  ASSUME IInv, NEW r \in Requests, Create(r)
  PROVE  IInv'
  <1>1. PICK a \in Avatars :
          /\ file[a] = "none"
          /\ file' = [file EXCEPT ![a] = "part"]
          /\ ctx' = [ctx EXCEPT ![r].new = a]
    BY DEF Create
  <1>2. /\ pc[r] = "create" /\ pc' = [pc EXCEPT ![r] = "fill"]
        /\ UNCHANGED <<account, token, minted, avatar, job, faults, history>>
    BY DEF Create, At, Goto, redis
  <1>3. /\ ctx' \in [Requests -> Ctxs] /\ ctx'[r].new = a
        /\ \A x \in Requests : ctx'[x].token = ctx[x].token
        /\ \A x \in Requests \ {r} : ctx'[x] = ctx[x]
    BY <1>1 DEF IInv, Types, Ctxs
  <1>4. job[r] \in RequestJobs /\ job[r].op = "upload"
    BY <1>2 DEF IInv, Course, Places, Fits
  <1>5. Types'
    BY <1>1, <1>2, <1>3 DEF IInv, Types, Places, history
  <1>6. Course'
    BY <1>2, <1>3, <1>4 DEF IInv, Types, Course, Fits, Places, history
  <1>7. Owned'
    BY <1>2, <1>3 DEF IInv, Types, Owned, history
  <1>8. Fresh'
    BY <1>1, <1>2, <1>3 DEF IInv, Types, Fresh, history
  <1> QED
    BY <1>5, <1>6, <1>7, <1>8 DEF IInv

LEMMA FillTypes ==
  ASSUME IInv, NEW r \in Requests, Fill(r)
  PROVE  IInv'
  <1>1. /\ pc[r] = "fill" /\ pc' = [pc EXCEPT ![r] = "row"]
        /\ file' = [file EXCEPT ![ctx[r].new] = "whole"]
        /\ UNCHANGED <<account, token, minted, avatar, job, ctx, faults, history>>
    BY DEF Fill, At, Goto, Filled, redis
  <1>2. ctx[r].new \in Avatars
    BY <1>1 DEF IInv, Fresh
  <1>3. Types'
    BY <1>1, <1>2 DEF IInv, Types, Places, history
  <1>4. Course'
    BY <1>1 DEF IInv, Types, Course, Fits, Places, history
  <1>5. Owned'
    BY <1>1 DEF IInv, Types, Owned, history
  <1>6. Fresh'
    BY <1>1, <1>2 DEF IInv, Types, Fresh, history
  <1> QED
    BY <1>3, <1>4, <1>5, <1>6 DEF IInv

LEMMA InsertTypes ==
  ASSUME IInv, NEW r \in Requests, Insert(r)
  PROVE  IInv'
  <1>1. /\ pc[r] = "row" /\ pc' = [pc EXCEPT ![r] = "create"]
        /\ avatar' = [avatar EXCEPT ![ctx[r].new] = [user |-> job[r].user, primary |-> FALSE]]
        /\ raced' \subseteq raced \cup {job[r].user}
        /\ UNCHANGED <<account, redis, file, job, ctx, faults, given, met, last>>
    BY DEF Insert, At, Goto
  <1>2. /\ ctx[r].new \in Avatars /\ file[ctx[r].new] = "whole"
        /\ job[r] \in RequestJobs /\ job[r].op = "upload" /\ job[r].user \in Users
        /\ job[r].user # None
    BY <1>1, JobTypes DEF IInv, Course, Fresh, Places, Fits
  <1>3. Types'
    BY <1>1, <1>2 DEF IInv, Types, Places, redis
  <1>4. Course'
    <2>1. \A a \in Avatars : avatar[a].user # None => avatar'[a].user # None
      BY <1>1, <1>2 DEF IInv, Types
    <2>2. \A x \in Requests : pc[x] \in Places => job[x].avatar \in Avatars
      BY JobTypes DEF IInv, Course
    <2> QED
      BY <1>1, <1>2, <2>1, <2>2 DEF IInv, Types, Course, Fits, Places, redis
  <1>5. Owned'
    BY <1>1 DEF IInv, Types, Owned, redis
  <1>6. Fresh'
    BY <1>1, <1>2 DEF IInv, Types, Fresh, redis
  <1> QED
    BY <1>3, <1>4, <1>5, <1>6 DEF IInv

\* The steps of set_primary, and the end of an upload, change no file and no
\* row's owner.
LEMMA PrimaryTypes ==
  ASSUME IInv, NEW r \in Requests,
         Finish(r) \/ Snapshot(r) \/ Lower(r) \/ Raise(r) \/ Commit(r)
  PROVE  IInv'
  <1>1. PICK there \in {"lower", "raise", "commit", "reply"} :
          /\ pc' = [pc EXCEPT ![r] = there]
          /\ pc[r] \in Places /\ job[r].op \notin Grants
          /\ Fits(job[r].op, there)
    <2>1. job[r].op \in Ops /\ job[r].op \notin Grants /\ pc[r] \in Places
      BY JobTypes DEF IInv, Course, Places, Fits, Finish, Snapshot, Lower, Raise, Commit, At, Grants
    <2>2. pc[r] # "create" => job[r].op = "set_primary"
      BY <2>1 DEF IInv, Course, Places, Fits, Finish, Snapshot, Lower, Raise, Commit, At
    <2>3. CASE Lower(r) /\ UNCHANGED pc
      BY <2>1, <2>2, <2>3 DEF Lower, At, Fits, IInv, Types
    <2>4. CASE ~(Lower(r) /\ UNCHANGED pc)
      BY <2>1, <2>2, <2>4 DEF Finish, Snapshot, Lower, Raise, Commit, At, Goto, Fits
    <2> QED
      BY <2>3, <2>4
  <1>2. UNCHANGED <<account, redis, file, job, faults, given, met, raced>>
    BY DEF Finish, Snapshot, Lower, Raise, Commit, stored, pictures, history
  <1>3. job[r].avatar \in Avatars /\ job[r].user \in Users
    BY <1>1, JobTypes DEF IInv, Course
  <1>4. /\ ctx' \in [Requests -> Ctxs]
        /\ \A x \in Requests : ctx'[x].token = ctx[x].token /\ ctx'[x].new = ctx[x].new
        /\ \A x \in Requests \ {r} : ctx'[x] = ctx[x]
    <2>1. ctx \in [Requests -> Ctxs] /\ Own(job[r].user) \subseteq Avatars
      BY DEF IInv, Types, Own
    <2>2. CASE Finish(r)
      BY <2>1, <2>2 DEF Finish
    <2>3. CASE Snapshot(r)
      BY <2>1, <2>3 DEF Snapshot, Ctxs
    <2>4. CASE Lower(r)
      <3>1. CASE UNCHANGED ctx
        BY <2>1, <3>1
      <3>2. CASE ctx' # ctx
        <4>1. PICK a \in ctx[r].todo :
                ctx' = [ctx EXCEPT ![r].todo = @ \ {a}, ![r].held = @ \cup {a}]
          BY <2>4, <3>2 DEF Lower
        <4>2. a \in Avatars
          BY <2>1 DEF Ctxs
        <4> QED
          BY <2>1, <4>1, <4>2 DEF Ctxs
      <3> QED
        BY <3>1, <3>2
    <2>5. CASE Raise(r)
      BY <2>1, <2>5, <1>3 DEF Raise, Ctxs
    <2>6. CASE Commit(r)
      BY <2>1, <2>6 DEF Commit, Ctxs
    <2> QED
      BY <2>2, <2>3, <2>4, <2>5, <2>6
  <1>5. /\ avatar' \in [Avatars -> [user : Users \cup {None}, primary : BOOLEAN]]
        /\ \A a \in Avatars : avatar'[a].user = avatar[a].user
        /\ last' \in [Users -> Avatars \cup {None}]
    <2>1. CASE Commit(r)
      <3>1. \A a \in Avatars :
              avatar'[a] \in [user : Users \cup {None}, primary : BOOLEAN]
              /\ avatar'[a].user = avatar[a].user
        <4> TAKE a \in Avatars
        <4>1. avatar[a] \in [user : Users \cup {None}, primary : BOOLEAN]
          BY DEF IInv, Types
        <4>2. avatar'[a] = IF a \in ctx[r].held
                           THEN [avatar[a] EXCEPT !.primary = (a = job[r].avatar)] ELSE avatar[a]
          BY <2>1 DEF Commit
        <4> QED
          BY <4>1, <4>2
      <3> QED
        BY <1>3, <2>1, <3>1 DEF IInv, Types, Commit
    <2>2. CASE ~Commit(r)
      BY <2>2 DEF IInv, Types, Finish, Snapshot, Lower, Raise, stored, pictures, history
    <2> QED
      BY <2>1, <2>2
  <1>6. Types'
    BY <1>1, <1>2, <1>4, <1>5 DEF IInv, Types, Places, redis
  <1>7. Course'
    <2>1. \A x \in Requests : pc[x] \in Places => job[x].avatar \in Avatars
      BY JobTypes DEF IInv, Course
    <2> QED
      BY <1>1, <1>2, <1>4, <1>5, <2>1 DEF IInv, Types, Course, Places, redis
  <1>8. Owned'
    BY <1>1, <1>2, <1>4 DEF IInv, Types, Owned, redis
  <1>9. Fresh'
    BY <1>1, <1>2, <1>4, <1>5 DEF IInv, Types, Fresh, redis
  <1> QED
    BY <1>6, <1>7, <1>8, <1>9 DEF IInv

LEMMA MintTypes ==
  ASSUME IInv, NEW r \in Requests, Mint(r)
  PROVE  IInv'
  <1>1. /\ pc[r] = "mint" /\ pc' = [pc EXCEPT ![r] = "reply"]
        /\ minted' = minted \cup {job[r].avatar}
        /\ UNCHANGED <<account, token, pictures, job, ctx, faults, history>>
    BY DEF Mint, At, Goto
  <1>2. /\ job[r].op = "mint" /\ job[r].avatar \in Avatars
        /\ avatar[job[r].avatar].user # None
    BY <1>1, JobTypes DEF IInv, Course, Places, Fits
  <1>3. Types'
    BY <1>1, <1>2 DEF IInv, Types, Places, pictures, history
  <1>4. Course'
    BY <1>1, <1>2 DEF IInv, Types, Course, Fits, Places, Ops, pictures, history
  <1>5. Owned'
    BY <1>1, <1>2 DEF IInv, Types, Owned, Grants, pictures, history
  <1>6. Fresh'
    BY <1>1, <1>2 DEF IInv, Types, Fresh, pictures, history
  <1> QED
    BY <1>3, <1>4, <1>5, <1>6 DEF IInv

LEMMA ReplyTypes ==
  ASSUME IInv, NEW r \in Requests, Reply(r)
  PROVE  IInv'
  <1>1. /\ pc[r] = "reply" /\ pc' = [pc EXCEPT ![r] = "answered"] /\ "answered" \notin Places
        /\ ctx' = [ctx EXCEPT ![r] = NoCtx] /\ job' = [job EXCEPT ![r] = NoJob]
        /\ given' = IF job[r].op \in Grants THEN given \cup {ctx[r].new} ELSE given
        /\ UNCHANGED <<stored, faults, met, last, raced>>
    BY DEF Reply, At, Goto, Grants, Places
  <1>2. job[r].op \in Grants => ctx[r].new \in Tokens /\ token[ctx[r].new].is # "none"
    BY <1>1 DEF IInv, Owned
  <1>3. Types'
    BY <1>1, <1>2, JobTypes DEF IInv, Types, Ended, stored, redis, pictures
  <1>4. Course'
    BY <1>1, <1>2 DEF IInv, Types, Course, stored, redis, pictures
  <1>5. Owned'
    BY <1>1, <1>2 DEF IInv, Types, Owned, stored, redis, pictures
  <1>6. Fresh'
    BY <1>1 DEF IInv, Types, Fresh, stored, redis, pictures
  <1> QED
    BY <1>3, <1>4, <1>5, <1>6 DEF IInv

LEMMA ExpireTypes ==
  ASSUME IInv, Expire
  PROVE  IInv'
  <1>1. UNCHANGED <<account, pictures, pc, job, ctx, faults, history>>
    BY DEF Expire
  <1>2. /\ token' \in [Tokens -> TokenRows] /\ minted' \subseteq minted
        /\ \A t \in Tokens : /\ token'[t].is = "none" <=> token[t].is = "none"
                             /\ token'[t].user = token[t].user /\ token'[t].shown = token[t].shown
    BY DEF IInv, Types, Expire, TokenRows
  <1>3. Types'
    BY <1>1, <1>2 DEF IInv, Types, pictures, history
  <1>4. Course'
    BY <1>1 DEF IInv, Course, pictures, history
  <1>5. Owned'
    BY <1>1, <1>2 DEF IInv, Types, Owned, pictures, history
  <1>6. Fresh'
    BY <1>1, <1>2 DEF IInv, Fresh, pictures, history
  <1> QED
    BY <1>3, <1>4, <1>5, <1>6 DEF IInv

LEMMA TestsTypes ==
  ASSUME IInv, NEW r \in Requests,
         Login(r) \/ Get(r) \/ FindUser(r) \/ CheckOwner(r) \/ Find(r) \/ Fetch(r) \/ ReadFile(r)
  PROVE  IInv'
  <1> USE DEF Places
  <1>0. pc[r] \in Places => Fits(job[r].op, pc[r])
    BY DEF IInv, Course
  <1>1. CASE Login(r)
    <2>1. Test(r, "login", account[job[r].user] = job[r].password, "grant") /\ job[r].op = "login"
      BY <1>0, <1>1 DEF Login, After, Test, At, Fits
    <2> QED
      BY <2>1, TestTypes DEF Fits
  <1>2. CASE Get(r)
    <2>1. Test(r, "get", token[ctx[r].token].is = "live", "user") /\ job[r].op = "refresh"
      BY <1>0, <1>2 DEF Get, After, Test, At, Fits
    <2> QED
      BY <2>1, TestTypes DEF Fits
  <1>3. CASE FindUser(r)
    <2>1. /\ Test(r, "user", account[token[ctx[r].token].user] # None, "grant")
          /\ job[r].op = "refresh"
      BY <1>0, <1>3 DEF FindUser, After, Test, At, Fits
    <2> QED
      BY <2>1, TestTypes DEF Fits
  <1>4. CASE CheckOwner(r)
    <2>1. /\ Test(r, "owner", avatar[job[r].avatar].user = job[r].user, "snapshot")
          /\ job[r].op = "set_primary"
      BY <1>0, <1>4 DEF CheckOwner, Test, At, Fits
    <2> QED
      BY <2>1, TestTypes DEF Fits
  <1>5. CASE Find(r)
    <2>1. Test(r, "find", avatar[job[r].avatar].user # None, "mint") /\ job[r].op = "mint"
      BY <1>0, <1>5 DEF Find, Test, At, Fits
    <2> QED
      BY <2>1, TestTypes DEF Fits
  <1>6. CASE Fetch(r)
    <2> DEFINE passes == job[r].avatar \in minted
    <2>1. Test(r, "fetch", passes, "read") /\ job[r].op = "download" /\ passes \in BOOLEAN
      BY <1>0, <1>6 DEF Fetch, Test, At, Fits
    <2>2. Fits(job[r].op, "read")
      BY <2>1 DEF Fits
    <2> HIDE DEF passes
    <2> QED
      BY <2>1, <2>2, TestTypes
  <1>7. CASE ReadFile(r)
    <2>1. Test(r, "read", file[job[r].avatar] # "none", "reply") /\ job[r].op = "download"
      BY <1>0, <1>7 DEF ReadFile, Test, At, Fits
    <2> QED
      BY <2>1, TestTypes DEF Fits, Grants, Ops
  <1> QED
    BY <1>1, <1>2, <1>3, <1>4, <1>5, <1>6, <1>7

LEMMA NextIInv == IInv /\ [Next]_vars => IInv'
  <1> SUFFICES ASSUME IInv, [Next]_vars PROVE IInv'
    OBVIOUS
  <1>1. ASSUME NEW r \in Requests, Begin(r) \/ Step(r) \/ Fail(r) PROVE IInv'
    <2>1. CASE Begin(r)
      BY <2>1, BeginTypes
    <2>2. CASE Session(r)
      BY <2>2, RegisterTypes, TestsTypes, GrantTypes, DeleteTypes DEF Session
    <2>3. CASE Picture(r)
      <3>1. CASE Abort(r)
        BY <3>1, RefuseTypes DEF Abort, IInv, Types
      <3> QED
        BY <2>3, <3>1, CreateTypes, FillTypes, InsertTypes, PrimaryTypes, MintTypes, TestsTypes
        DEF Picture
    <2>4. CASE Reply(r)
      BY <2>4, ReplyTypes
    <2>5. CASE Fail(r)
      BY <2>5, RefuseTypes DEF Fail, IInv, Types
    <2> QED
      BY <1>1, <2>1, <2>2, <2>3, <2>4, <2>5 DEF Step
  <1>2. CASE UNCHANGED vars
    BY <1>2 DEF vars, stored, redis, pictures, history, IInv, Types, Course, Owned, Fresh
  <1> QED
    BY <1>1, <1>2, ExpireTypes DEF Next

THEOREM AlwaysIInv == Spec => []IInv
  BY InitIInv, NextIInv, PTL DEF Spec

\* TypeOK in every behaviour: every variable has its type, and neither a row
\* of user_avatars nor a download token leads to a file that is not whole.
THEOREM TypesHold == Spec => []TypeOK
  <1>1. IInv => TypeOK
    BY DEF IInv, Types, Fresh, TypeOK
  <1> QED
    BY <1>1, AlwaysIInv, PTL

\* KnewThePassword in every behaviour, however registrations of one name
\* interleave: a live token is of one who showed the account's password.
THEOREM PasswordWasShown == Spec => []KnewThePassword
  <1>1. IInv => KnewThePassword
    BY DEF IInv, Types, Owned, KnewThePassword
  <1> QED
    BY <1>1, AlwaysIInv, PTL

----------------------------------------------------------------------------
\* The exchange of refresh tokens

Exchanged == {"deleted", "expired"}

\* A refresh that has stored its token, until the answer, and what it exchanges.
Replaces ==
  \A r \in Requests :
    /\ pc[r] \in {"delete", "reply"} /\ job[r].op \in Grants =>
         token[ctx[r].new].from = ctx[r].token /\ token[ctx[r].new].by = r
    /\ pc[r] = "reply" /\ job[r].op = "refresh" => token[ctx[r].token].is \in Exchanged

\* Refreshes that are under way together have met, ...
Meets ==
  \A r, x \in Requests : ctx[r].token # None /\ ctx[x].token # None => <<r, x>> \in met

\* ... and one that has found its token has met every one that was answered
\* for the same token.
MetTheOthers ==
  \A r \in Requests, s \in given :
    pc[r] \in {"user", "grant", "delete", "reply"} /\ job[r].op = "refresh"
      /\ token[s].from = ctx[r].token =>
      <<r, token[s].by>> \in met /\ <<token[s].by, r>> \in met

GivenForExchanged ==
  \A t \in given : token[t].from # None =>
    /\ token[token[t].from].is \in Exchanged
    /\ \A s \in given : s # t /\ token[s].from = token[t].from =>
         <<token[s].by, token[t].by>> \in met

Chain == Replaces /\ Meets /\ MetTheOthers /\ GivenForExchanged /\ SessionSurvives

LEMMA InitChain == Init => Chain
  <1> SUFFICES ASSUME Init PROVE Chain
    OBVIOUS
  <1>1. DOMAIN Holders0 \subseteq Tokens
    BY AccountsAssumption DEF Tokens
  <1> QED
    BY <1>1 DEF Init, Chain, Replaces, Meets, MetTheOthers, GivenForExchanged,
                SessionSurvives, NoToken, NoCtx

\* What does not work on refresh tokens.
LEMMA QuietChain ==
  ASSUME IInv, Chain, NEW r \in Requests,
         UNCHANGED <<token, given, met, job>>,
         pc' \in [Requests -> Places \cup Ended \cup {"idle"}],
         \A x \in Requests \ {r} : pc'[x] = pc[x] /\ ctx'[x] = ctx[x],
         ctx'[r].token = ctx[r].token, job[r].op \in Grants => ctx'[r].new = ctx[r].new,
         pc'[r] \in {"delete", "reply"} => job[r].op \notin Grants,
         job[r].op = "refresh" /\ pc'[r] \in {"user", "grant"} => pc[r] = "user"
  PROVE  Chain'
  <1>1. Replaces'
    BY DEF Chain, Replaces, Grants
  <1>2. Meets'
    BY DEF Chain, Meets
  <1>3. MetTheOthers'
    BY DEF Chain, MetTheOthers, Grants
  <1>4. GivenForExchanged' /\ SessionSurvives'
    BY DEF Chain, GivenForExchanged, SessionSurvives
  <1> QED
    BY <1>1, <1>2, <1>3, <1>4 DEF Chain

LEMMA RefuseChain ==
  ASSUME IInv, Chain, NEW r \in Requests, Refuse(r)
  PROVE  Chain'
  <1>1. /\ pc' = [pc EXCEPT ![r] = "failed"] /\ ctx' = [ctx EXCEPT ![r] = NoCtx]
        /\ UNCHANGED <<token, given, met>> /\ job' = [job EXCEPT ![r] = NoJob]
    BY DEF Refuse, Goto, Dropped, stored, redis, history
  <1>2. Replaces' /\ Meets' /\ MetTheOthers'
    BY <1>1 DEF IInv, Types, Chain, Replaces, Meets, MetTheOthers, NoCtx
  <1>3. GivenForExchanged' /\ SessionSurvives'
    BY <1>1 DEF Chain, GivenForExchanged, SessionSurvives
  <1> QED
    BY <1>2, <1>3 DEF Chain

LEMMA BeginChain ==
  ASSUME IInv, Chain, NEW r \in Requests, Begin(r)
  PROVE  Chain'
  <1>1. PICK j \in RequestJobs, t \in given \cup {None} :
          /\ job' = [job EXCEPT ![r] = j]
          /\ pc' = [pc EXCEPT ![r] = Start(j.op)]
          /\ ctx' = [ctx EXCEPT ![r].token = t]
    BY DEF Begin, Goto
  <1>2. /\ UNCHANGED <<token, given>>
        /\ met' = met \cup {p \in Requests \X Requests :
                     r \in {p[1], p[2]} /\ \A x \in {p[1], p[2]} : ctx'[x].token # None}
    BY DEF Begin, stored, redis
  <1>3. Start(j.op) \notin {"user", "grant", "delete", "reply"}
    BY JobTypes DEF Start, Ops
  <1>4. \A x \in Requests \ {r} : ctx'[x] = ctx[x] /\ pc'[x] = pc[x] /\ job'[x] = job[x]
    BY <1>1 DEF IInv, Types
  <1>5. Replaces' /\ MetTheOthers'
    BY <1>1, <1>2, <1>3, <1>4 DEF IInv, Types, Chain, Replaces, MetTheOthers
  <1>6. Meets'
    <2> SUFFICES ASSUME NEW y \in Requests, NEW x \in Requests,
                        ctx'[y].token # None, ctx'[x].token # None
                 PROVE  <<y, x>> \in met'
      BY DEF Meets
    <2>1. CASE r \in {y, x}
      BY <2>1, <1>2
    <2>2. CASE r \notin {y, x}
      BY <2>2, <1>2, <1>4 DEF Chain, Meets
    <2> QED
      BY <2>1, <2>2
  <1>7. GivenForExchanged' /\ SessionSurvives'
    BY <1>2 DEF Chain, GivenForExchanged, SessionSurvives
  <1> QED
    BY <1>5, <1>6, <1>7 DEF Chain

LEMMA GetChain ==
  ASSUME IInv, Chain, NEW r \in Requests, Get(r)
  PROVE  Chain'
  <1>1. CASE token[ctx[r].token].is = "live" /\ ~Refuse(r)
    <2>1. /\ pc' = [pc EXCEPT ![r] = "user"] /\ UNCHANGED <<token, given, met, job, ctx>>
      BY <1>1 DEF Get, Test, Goto, After, stored, redis, history
    <2>2. pc[r] = "get" /\ ctx[r].token # None
      BY JobTypes DEF Get, Test, At, IInv, Types, Course, Places, Fits
    <2>3. \A s \in given : token[s].from # ctx[r].token
      BY <1>1, <2>2 DEF Chain, GivenForExchanged, Exchanged
    <2>4. MetTheOthers'
      BY <2>1, <2>3 DEF IInv, Types, Chain, MetTheOthers
    <2>5. Replaces' /\ Meets' /\ GivenForExchanged' /\ SessionSurvives'
      BY <2>1 DEF IInv, Types, Chain, Replaces, Meets, GivenForExchanged, SessionSurvives
    <2> QED
      BY <2>4, <2>5 DEF Chain
  <1> QED
    BY <1>1, RefuseChain DEF Get, Test

LEMMA GrantChain ==
  ASSUME IInv, Chain, NEW r \in Requests, Grant(r)
  PROVE  Chain'
  <1>1. PICK n \in Tokens :
          /\ token[n].is = "none"
          /\ token' = [token EXCEPT ![n] = NewToken(r)]
          /\ ctx' = [ctx EXCEPT ![r].new = n]
    BY DEF Grant
  <1>2. /\ pc' = [pc EXCEPT ![r] = IF job[r].op = "refresh" THEN "delete" ELSE "reply"]
        /\ pc[r] = "grant" /\ UNCHANGED <<job, given, met>>
    BY DEF Grant, Goto, At, After, history
  <1>3. /\ token'[n].from = ctx[r].token /\ token'[n].by = r /\ token'[n].is = "live"
        /\ \A t \in Tokens : token[t].is # "none" => token'[t] = token[t]
    BY <1>1 DEF NewToken, IInv, Types
  <1>4. /\ ctx'[r].new = n /\ \A x \in Requests : ctx'[x].token = ctx[x].token
        /\ \A x \in Requests \ {r} : ctx'[x] = ctx[x]
    BY <1>1 DEF IInv, Types, Ctxs
  <1>5. Replaces'
    <2> SUFFICES ASSUME NEW x \in Requests
                 PROVE  /\ pc'[x] \in {"delete", "reply"} /\ job[x].op \in Grants =>
                             token'[ctx'[x].new].from = ctx[x].token /\ token'[ctx'[x].new].by = x
                        /\ pc'[x] = "reply" /\ job[x].op = "refresh" =>
                             token'[ctx[x].token].is \in Exchanged
      BY <1>2, <1>4 DEF Replaces
    <2>1. CASE x = r
      BY <1>2, <1>3, <1>4, <2>1 DEF IInv, Types
    <2>2. CASE x # r
      <3>1. pc[x] = "reply" /\ job[x].op = "refresh" => token[ctx[x].token].is # "none"
                                                        /\ ctx[x].token \in Tokens
        BY DEF IInv, Types, Course, Owned, Places
      <3>2. pc'[x] = pc[x]
        BY <1>2, <2>2 DEF IInv, Types
      <3> QED
        BY <1>3, <1>4, <2>2, <3>1, <3>2 DEF IInv, Types, Owned, Chain, Replaces
    <2> QED
      BY <2>1, <2>2
  <1>6. \A s \in given : s \in Tokens /\ token'[s] = token[s]
    BY <1>3 DEF IInv, Types, Owned
  <1>7. Meets' /\ MetTheOthers'
    BY <1>2, <1>4, <1>6 DEF IInv, Types, Chain, Meets, MetTheOthers
  <1>8. GivenForExchanged'
    <2>1. \A t \in given : token[t].from # None => token[t].from \in Tokens
      BY DEF IInv, Types, TokenRows
    <2>2. \A t \in given : token[t].from # None => token'[token[t].from] = token[token[t].from]
      BY <1>3, <2>1 DEF Chain, GivenForExchanged, Exchanged
    <2> QED
      BY <1>2, <1>6, <2>2 DEF Chain, GivenForExchanged
  <1>9. SessionSurvives'
    BY <1>1, <1>3 DEF IInv, Types, Chain, SessionSurvives
  <1> QED
    BY <1>5, <1>7, <1>8, <1>9 DEF Chain

LEMMA DeleteChain ==
  ASSUME IInv, Chain, NEW r \in Requests, Delete(r)
  PROVE  Chain'
  <1>1. /\ pc[r] = "delete" /\ pc' = [pc EXCEPT ![r] = "reply"]
        /\ token' = [token EXCEPT ![ctx[r].token] = Gone(@)]
        /\ UNCHANGED <<job, ctx, given, met>>
    BY DEF Delete, At, Goto, After, history
  <1>2. /\ job[r].op = "refresh" /\ ctx[r].token \in Tokens /\ ctx[r].new \in Tokens
        /\ token[ctx[r].token].is # "none" /\ token[ctx[r].new].is # "none"
    BY <1>1 DEF IInv, Types, Course, Owned, Places, Fits, Grants
  <1>3. /\ \A t \in Tokens :
             /\ token'[t].from = token[t].from /\ token'[t].by = token[t].by
             /\ token[t].is \in Exchanged => token'[t].is \in Exchanged
             /\ token[t].is # "none" => token'[t].is # "none"
             /\ token'[t].is = "deleted" => token[t].is = "deleted" \/ t = ctx[r].token
        /\ token'[ctx[r].token].is \in Exchanged
    BY <1>1, <1>2 DEF IInv, Types, Gone, TokenRows, Exchanged
  <1>4. Replaces'
    BY <1>1, <1>2, <1>3, AccountsAssumption
    DEF IInv, Types, Course, Owned, Places, Chain, Replaces, Grants
  <1>5. Meets' /\ MetTheOthers'
    BY <1>1, <1>2, <1>3 DEF IInv, Types, Chain, Meets, MetTheOthers
  <1>6. GivenForExchanged'
    BY <1>1, <1>3 DEF IInv, Types, TokenRows, Chain, GivenForExchanged
  <1>7. SessionSurvives'
    <2>1. token[ctx[r].new].from = ctx[r].token
      BY <1>1, <1>2 DEF Chain, Replaces, Grants
    <2> QED
      BY <1>2, <1>3, <2>1 DEF Chain, SessionSurvives
  <1> QED
    BY <1>4, <1>5, <1>6, <1>7 DEF Chain

LEMMA ReplyChain ==
  ASSUME IInv, Chain, NEW r \in Requests, Reply(r)
  PROVE  Chain'
  <1>1. /\ pc[r] = "reply" /\ pc' = [pc EXCEPT ![r] = "answered"]
        /\ ctx' = [ctx EXCEPT ![r] = NoCtx] /\ job' = [job EXCEPT ![r] = NoJob]
        /\ given' = IF job[r].op \in Grants THEN given \cup {ctx[r].new} ELSE given
        /\ UNCHANGED <<token, met>>
    BY DEF Reply, At, Goto, Grants, stored, redis
  <1>2. job[r].op \in Grants => token[ctx[r].new].from = ctx[r].token /\ token[ctx[r].new].by = r
    BY <1>1 DEF Chain, Replaces
  <1>3. /\ job[r].op # "refresh" => ctx[r].token = None
        /\ job[r].op = "refresh" => ctx[r].token # None
    BY <1>1, AccountsAssumption DEF IInv, Types, Course, Places
  <1>4. Replaces' /\ Meets'
    BY <1>1 DEF IInv, Types, Chain, Replaces, Meets, NoCtx
  <1>5. MetTheOthers'
    <2> SUFFICES ASSUME NEW x \in Requests \ {r}, NEW s \in given',
                        pc[x] \in {"user", "grant", "delete", "reply"}, job[x].op = "refresh",
                        token[s].from = ctx[x].token
                 PROVE  <<x, token[s].by>> \in met /\ <<token[s].by, x>> \in met
      BY <1>1 DEF IInv, Types, MetTheOthers
    <2>1. ctx[x].token # None
      BY AccountsAssumption DEF IInv, Types, Course, Places
    <2>2. CASE s \in given
      BY <2>2 DEF Chain, MetTheOthers
    <2>3. CASE s \notin given
      BY <1>1, <1>2, <2>1, <2>3 DEF Chain, Meets
    <2> QED
      BY <2>2, <2>3
  <1>6. GivenForExchanged'
    <2> SUFFICES ASSUME NEW t \in given', token[t].from # None
                 PROVE  /\ token[token[t].from].is \in Exchanged
                        /\ \A s \in given' : s # t /\ token[s].from = token[t].from =>
                             <<token[s].by, token[t].by>> \in met
      BY <1>1 DEF GivenForExchanged
    <2>1. CASE t \in given
      BY <1>1, <1>2, <1>3, <2>1 DEF Chain, GivenForExchanged, MetTheOthers
    <2>2. CASE t \notin given
      <3>1. t = ctx[r].new /\ job[r].op \in Grants
        BY <1>1, <2>2
      <3>2. token[t].from = ctx[r].token /\ token[t].by = r /\ job[r].op = "refresh"
        BY <1>2, <1>3, <3>1
      <3>3. token[token[t].from].is \in Exchanged
        BY <1>1, <3>2 DEF Chain, Replaces
      <3>4. ASSUME NEW s \in given', s # t, token[s].from = token[t].from
            PROVE  <<token[s].by, token[t].by>> \in met
        <4>1. s \in given
          BY <1>1, <3>1, <3>4
        <4> QED
          BY <1>1, <3>2, <3>4, <4>1 DEF Chain, MetTheOthers
      <3> QED
        BY <3>3, <3>4
    <2> QED
      BY <2>1, <2>2
  <1>7. SessionSurvives'
    BY <1>1 DEF Chain, SessionSurvives
  <1> QED
    BY <1>4, <1>5, <1>6, <1>7 DEF Chain

LEMMA ExpireChain ==
  ASSUME IInv, Chain, Expire
  PROVE  Chain'
  <1>1. /\ UNCHANGED <<pc, job, ctx, given, met>>
        /\ \A t \in Tokens :
             /\ token'[t].from = token[t].from /\ token'[t].by = token[t].by
             /\ token[t].is \in Exchanged => token'[t].is \in Exchanged
             /\ token[t].is # "none" => token'[t].is # "none"
             /\ token'[t].is = "deleted" => token[t].is = "deleted"
    BY DEF Expire, history, IInv, Types, TokenRows, Exchanged
  <1>2. Replaces'
    BY <1>1, AccountsAssumption DEF IInv, Types, Course, Owned, Places, Chain, Replaces
  <1>3. Meets' /\ MetTheOthers'
    BY <1>1 DEF IInv, Types, Chain, Meets, MetTheOthers
  <1>4. GivenForExchanged' /\ SessionSurvives'
    BY <1>1 DEF IInv, Types, TokenRows, Chain, GivenForExchanged, SessionSurvives
  <1> QED
    BY <1>2, <1>3, <1>4 DEF Chain

LEMMA NextChain == IInv /\ IInv' /\ Chain /\ [Next]_vars => Chain'
  <1> SUFFICES ASSUME IInv, IInv', Chain, [Next]_vars PROVE Chain'
    OBVIOUS
  <1>1. ASSUME NEW r \in Requests, Begin(r) \/ Step(r) \/ Fail(r) PROVE Chain'
    <2>0. pc[r] \in Places => Fits(job[r].op, pc[r])
      BY DEF IInv, Course
    <2>1. pc' \in [Requests -> Places \cup Ended \cup {"idle"}] /\ pc \in [Requests -> Places \cup Ended \cup {"idle"}]
      BY DEF IInv, Types
    <2>2. CASE Refuse(r)
      BY <2>2, RefuseChain
    <2>3. CASE Register(r) \/ Login(r) \/ FindUser(r)
      <3>1. CASE ~Refuse(r)
        <4>1. UNCHANGED <<token, given, met, job, ctx>> /\ pc' = [pc EXCEPT ![r] = "grant"]
              /\ pc[r] \in {"register", "login", "user"}
          BY <2>3, <3>1 DEF Register, Login, FindUser, Test, Goto, At, After, stored, redis, history
        <4>2. job[r].op = "refresh" => pc[r] = "user"
          BY <2>0, <4>1 DEF Fits, Places
        <4> QED
          BY <2>1, <4>1, <4>2, QuietChain
      <3> QED
        BY <2>2, <3>1
    <2>4. CASE Picture(r)
      <3>1. CASE ~Refuse(r)
        <4>1. UNCHANGED <<token, given, met, job>>
          BY <2>4, <3>1 DEF Picture, Finish, Create, Fill, Insert, CheckOwner, Snapshot, Lower,
             Raise, Commit, Abort, Find, Mint, Fetch, ReadFile, Test, stored, redis, history
        <4>2. pc[r] \in Places /\ job[r].op \notin Grants
          BY <2>0, <2>4, <3>1 DEF Picture, Finish, Create, Fill, Insert, CheckOwner, Snapshot, Lower,
             Raise, Commit, Abort, Find, Mint, Fetch, ReadFile, Test, At, Places, Fits, Grants
        <4>3. \A x \in Requests \ {r} : pc'[x] = pc[x] /\ ctx'[x] = ctx[x]
          <5>1. UNCHANGED pc \/ \E there : pc' = [pc EXCEPT ![r] = there]
            BY <2>4, <3>1 DEF Picture, Finish, Create, Fill, Insert, CheckOwner, Snapshot, Lower,
               Raise, Commit, Abort, Find, Mint, Fetch, ReadFile, Test, Goto
          <5>2. CASE Finish(r) \/ Fill(r) \/ Insert(r) \/ CheckOwner(r) \/ Find(r) \/ Mint(r)
                       \/ Fetch(r) \/ ReadFile(r) \/ Abort(r)
            BY <3>1, <5>1, <5>2 DEF Finish, Fill, Insert, CheckOwner, Find, Mint, Fetch, ReadFile,
               Abort, Test, IInv, Types
          <5>3. CASE Create(r) \/ Snapshot(r) \/ Lower(r) \/ Raise(r) \/ Commit(r)
            BY <5>1, <5>3 DEF Create, Snapshot, Lower, Raise, Commit, IInv, Types
          <5> QED
            BY <2>4, <5>2, <5>3 DEF Picture
        <4>4. ctx'[r].token = ctx[r].token
          <5>1. ctx \in [Requests -> Ctxs]
            BY DEF IInv, Types
          <5>2. CASE Create(r)
            BY <5>1, <5>2 DEF Create, Ctxs
          <5>3. CASE Snapshot(r) \/ Raise(r) \/ Commit(r)
            BY <5>1, <5>3 DEF Snapshot, Raise, Commit, Ctxs
          <5>4. CASE Lower(r)
            BY <5>1, <5>4 DEF Lower, Ctxs
          <5> QED
            BY <2>4, <3>1, <5>2, <5>3, <5>4
            DEF Picture, Finish, Fill, Insert, CheckOwner, Abort, Find, Mint, Fetch, ReadFile, Test
        <4> QED
          BY <2>1, <4>1, <4>2, <4>3, <4>4, QuietChain DEF Grants
      <3> QED
        BY <2>2, <3>1
    <2> QED
      BY <1>1, <2>2, <2>3, <2>4, BeginChain, GetChain, GrantChain, DeleteChain, ReplyChain
      DEF Step, Session, Fail
  <1>2. CASE UNCHANGED vars
    BY <1>2 DEF vars, stored, redis, pictures, history, Chain, Replaces, Meets, MetTheOthers,
       GivenForExchanged, SessionSurvives
  <1> QED
    BY <1>1, <1>2, ExpireChain DEF Next

THEOREM AlwaysChain == Spec => []Chain
  BY InitChain, InitIInv, NextIInv, NextChain, PTL DEF Spec

\* SessionSurvives in every behaviour: a refresh token that was deleted has a
\* successor that was stored before it, whatever failed and whoever else
\* refreshed.
THEOREM SessionsSurvive == Spec => []SessionSurvives
  BY AlwaysChain, PTL DEF Chain

\* ExchangedOnce in every behaviour: the token of an answered refresh works no
\* longer, and refreshes that were answered for one token had met.
THEOREM ExchangedOnlyOnce == Spec => []ExchangedOnce
  <1>1. Chain => ExchangedOnce
    BY DEF Chain, GivenForExchanged, Exchanged, ExchangedOnce
  <1> QED
    BY <1>1, AlwaysChain, PTL

----------------------------------------------------------------------------
\* The primary avatar

Updating == {"lower", "raise", "commit"}

\* The rows of the snapshot of a set_primary.
Rows(r) == ctx[r].held \cup ctx[r].todo

Primaries(u) == {a \in Own(u) : avatar[a].primary}

\* A set_primary works on rows of its user, among them the one it makes primary.
OwnRows ==
  \A r \in Requests :
    /\ pc[r] \in Updating \cup {"snapshot"} => avatar[job[r].avatar].user = job[r].user
    /\ pc[r] \in Updating => job[r].avatar \in Rows(r) /\ Rows(r) \subseteq Own(job[r].user)
    /\ pc[r] \in {"raise", "commit"} => ctx[r].todo = {}
    /\ pc[r] \notin Updating => Rows(r) = {}

\* No row is locked twice.
Apart == \A r, x \in Requests : r # x => ctx[r].held \cap ctx[x].held = {}

\* Of two snapshots of one user's rows the later has all rows of the earlier.
Nested ==
  \A r, x \in Requests :
    pc[r] \in Updating /\ pc[x] \in Updating /\ job[r].user = job[x].user =>
      Rows(r) \subseteq Rows(x) \/ Rows(x) \subseteq Rows(r)

\* A snapshot has all rows until it has locked its own, and from then on all
\* that are primary.
Complete ==
  \A r \in Requests :
    pc[r] \in Updating /\ job[r].user \notin raced =>
      IF ctx[r].todo # {} THEN Own(job[r].user) \subseteq Rows(r)
                          ELSE Primaries(job[r].user) \subseteq ctx[r].held

Painted == OwnRows /\ Apart /\ Nested /\ Complete /\ OnePrimary

LEMMA InitPainted == Init => Painted
  <1> SUFFICES ASSUME Init PROVE Painted
    OBVIOUS
  <1>1. \A r \in Requests : pc[r] = "idle" /\ ctx[r].held = {} /\ ctx[r].todo = {}
    BY DEF Init, NoCtx
  <1>2. \A a \in Avatars : ~avatar[a].primary
    BY DEF Init, NoAvatar
  <1>3. OnePrimary
    BY <1>2 DEF Init, OnePrimary, Own
  <1> QED
    BY <1>1, <1>3 DEF Painted, OwnRows, Apart, Nested, Complete, Rows, Updating

\* What changes no avatar and has no locks after it.
LEMMA StillPainted ==
  ASSUME IInv, Painted, NEW r \in Requests, UNCHANGED <<avatar, last, raced>>,
         \A x \in Requests \ {r} : pc'[x] = pc[x] /\ job'[x] = job[x] /\ ctx'[x] = ctx[x],
         pc'[r] \notin Updating \cup {"snapshot"}, ctx'[r].held = {}, ctx'[r].todo = {}
  PROVE  Painted'
  <1>1. /\ \A x \in Requests \ {r} : Rows(x)' = Rows(x)
        /\ Rows(r)' = {}
        /\ \A u : Own(u)' = Own(u) /\ Primaries(u)' = Primaries(u)
    BY DEF Rows, Own, Primaries
  <1>2. OwnRows'
    BY <1>1 DEF Painted, OwnRows
  <1>3. Apart'
    BY DEF Painted, Apart
  <1>4. Nested' /\ Complete'
    BY <1>1 DEF Painted, Nested, Complete
  <1>5. OnePrimary'
    BY <1>1 DEF Painted, OnePrimary, Primaries
  <1> QED
    BY <1>2, <1>3, <1>4, <1>5 DEF Painted

LEMMA InsertPainted ==
  ASSUME IInv, Painted, NEW r \in Requests, Insert(r)
  PROVE  Painted'
  <1> DEFINE u == job[r].user
  <1>1. /\ pc[r] = "row" /\ pc' = [pc EXCEPT ![r] = "create"]
        /\ avatar' = [avatar EXCEPT ![ctx[r].new] = [user |-> u, primary |-> FALSE]]
        /\ raced' = IF \E x \in Requests : pc[x] = "lower" /\ ctx[x].todo # {} /\ job[x].user = u
                    THEN raced \cup {u} ELSE raced
        /\ UNCHANGED <<job, ctx, last>>
    BY DEF Insert, At, Goto
  <1>2. /\ ctx[r].new \in Avatars /\ avatar[ctx[r].new].user = None /\ u \in Users
    BY <1>1, JobTypes DEF IInv, Course, Fresh, Places
  <1>3. /\ \A v \in Users : Own(v) \subseteq Own(v)' /\ Primaries(v)' = Primaries(v)
        /\ \A v \in Users \ {u} : Own(v)' = Own(v)
        /\ \A a \in Avatars : avatar[a].user # None => avatar'[a] = avatar[a]
    BY <1>1, <1>2, AccountsAssumption DEF IInv, Types, Own, Primaries
  <1>4. /\ \A x \in Requests : Rows(x)' = Rows(x) /\ (pc'[x] \in Updating <=> pc[x] \in Updating)
        /\ \A x \in Requests \ {r} : pc'[x] = pc[x]
    BY <1>1 DEF IInv, Types, Rows, Updating
  <1>5. \A x \in Requests : pc[x] \in Updating \cup {"snapshot"} =>
          job[x].user \in Users /\ job[x].avatar \in Avatars /\ job[x].user # None
    BY JobTypes DEF IInv, Course, Places, Updating
  <1>6. OwnRows'
    BY <1>1, <1>3, <1>4, <1>5 DEF Painted, OwnRows, Updating, IInv, Types
  <1>7. Apart' /\ Nested'
    BY <1>1, <1>4 DEF Painted, Apart, Nested
  <1>8. Complete'
    <2> SUFFICES ASSUME NEW x \in Requests, pc[x] \in Updating, job[x].user \notin raced'
                 PROVE  IF ctx[x].todo # {} THEN Own(job[x].user)' \subseteq Rows(x)
                        ELSE Primaries(job[x].user)' \subseteq ctx[x].held
      BY <1>1, <1>4 DEF Complete
    <2>1. CASE ctx[x].todo # {}
      <3>1. pc[x] = "lower"
        BY <2>1 DEF Painted, OwnRows, Updating
      <3>2. job[x].user # u
        BY <1>1, <2>1, <3>1
      <3> QED
        BY <1>1, <1>3, <1>5, <2>1, <3>2 DEF Painted, Complete
    <2>2. CASE ctx[x].todo = {}
      BY <1>1, <1>3, <1>5, <2>2 DEF Painted, Complete
    <2> QED
      BY <2>1, <2>2
  <1>9. OnePrimary'
    <2>1. \A v \in Users : last[v] # None => last[v] \in Primaries(v)
      BY DEF Painted, OnePrimary, Primaries
    <2>2. \A v \in Users : v \notin raced => Primaries(v) \subseteq {last[v]}
      BY DEF Painted, OnePrimary, Primaries
    <2> QED
      BY <1>1, <1>3, <2>1, <2>2 DEF OnePrimary, Primaries
  <1> QED
    BY <1>6, <1>7, <1>8, <1>9 DEF Painted

\* CheckOwner, Snapshot, Lower and Raise change no avatar.
LEMMA LocksPainted ==
  ASSUME IInv, Painted, NEW r \in Requests,
         UNCHANGED <<avatar, last, raced, job>>,
         \A x \in Requests \ {r} : pc'[x] = pc[x] /\ ctx'[x] = ctx[x],
         avatar[job[r].avatar].user = job[r].user,
         pc'[r] \in Updating => job[r].avatar \in Rows(r)' /\ Rows(r)' \subseteq Own(job[r].user),
         pc'[r] \in {"raise", "commit"} => ctx'[r].todo = {},
         pc'[r] \notin Updating => Rows(r)' = {},
         \A x \in Requests \ {r} : ctx'[r].held \cap ctx[x].held = {},
         pc'[r] \in Updating => Rows(r)' = Own(job[r].user) \/ (Rows(r)' = Rows(r) /\ pc[r] \in Updating),
         pc'[r] \in Updating /\ job[r].user \notin raced =>
           IF ctx'[r].todo # {} THEN Own(job[r].user) \subseteq Rows(r)'
                                ELSE Primaries(job[r].user) \subseteq ctx'[r].held
  PROVE  Painted'
  <1>1. /\ \A x \in Requests \ {r} : Rows(x)' = Rows(x)
        /\ \A u : Own(u)' = Own(u) /\ Primaries(u)' = Primaries(u)
    BY DEF Rows, Own, Primaries
  <1>2. OwnRows'
    BY <1>1 DEF Painted, OwnRows
  <1>3. Apart'
    BY DEF Painted, Apart
  <1>4. Nested'
    <2> SUFFICES ASSUME NEW x \in Requests \ {r}, pc'[r] \in Updating, pc[x] \in Updating,
                        job[r].user = job[x].user
                 PROVE  Rows(r)' \subseteq Rows(x) \/ Rows(x) \subseteq Rows(r)'
      BY <1>1 DEF Painted, Nested
    <2> QED
      BY DEF Painted, Nested, OwnRows
  <1>5. Complete'
    BY <1>1 DEF Painted, Complete
  <1>6. OnePrimary'
    BY <1>1 DEF Painted, OnePrimary, Primaries
  <1> QED
    BY <1>2, <1>3, <1>4, <1>5, <1>6 DEF Painted

LEMMA CheckOwnerPainted ==
  ASSUME IInv, Painted, NEW r \in Requests, CheckOwner(r), ~Refuse(r)
  PROVE  Painted'
  <1>1. /\ pc[r] = "owner" /\ pc' = [pc EXCEPT ![r] = "snapshot"]
        /\ avatar[job[r].avatar].user = job[r].user
        /\ UNCHANGED <<avatar, last, raced, job, ctx>>
    BY DEF CheckOwner, Test, At, Goto, stored, pictures, history
  <1>2. /\ Rows(r) = {} /\ Rows(r)' = Rows(r) /\ pc'[r] = "snapshot"
        /\ \A x \in Requests \ {r} : pc'[x] = pc[x] /\ ctx'[r].held \cap ctx[x].held = {}
    BY <1>1 DEF Painted, OwnRows, Apart, Rows, Updating, IInv, Types
  <1> QED
    BY <1>1, <1>2, LocksPainted DEF Updating

LEMMA SnapshotPainted ==
  ASSUME IInv, Painted, NEW r \in Requests, Snapshot(r)
  PROVE  Painted'
  <1>1. /\ pc[r] = "snapshot" /\ pc' = [pc EXCEPT ![r] = "lower"]
        /\ ctx' = [ctx EXCEPT ![r].todo = Own(job[r].user)]
        /\ UNCHANGED <<avatar, last, raced, job>>
    BY DEF Snapshot, At, Goto, stored, pictures, history
  <1>2. /\ ctx'[r].todo = Own(job[r].user) /\ ctx'[r].held = ctx[r].held /\ pc'[r] = "lower"
        /\ \A x \in Requests \ {r} : pc'[x] = pc[x] /\ ctx'[x] = ctx[x]
    BY <1>1 DEF IInv, Types, Ctxs
  <1>3. ctx[r].held = {}
    BY <1>1 DEF Painted, OwnRows, Rows, Updating
  <1>4. Rows(r)' = Own(job[r].user)
    BY <1>2, <1>3 DEF Rows
  <1>5. avatar[job[r].avatar].user = job[r].user /\ job[r].avatar \in Own(job[r].user)
    BY <1>1, JobTypes DEF Painted, OwnRows, Own, IInv, Course, Places
  <1> QED
    <2>1. \A x \in Requests \ {r} : ctx'[r].held \cap ctx[x].held = {}
      BY <1>2, <1>3
    <2> QED
      BY <1>1, <1>2, <1>4, <1>5, <2>1, LocksPainted DEF Updating

LEMMA LowerPainted ==
  ASSUME IInv, Painted, NEW r \in Requests, Lower(r)
  PROVE  Painted'
  <1>1. pc[r] = "lower" /\ UNCHANGED <<avatar, last, raced, job>>
    BY DEF Lower, At, stored, pictures, history
  <1>2. /\ avatar[job[r].avatar].user = job[r].user
        /\ job[r].avatar \in Rows(r) /\ Rows(r) \subseteq Own(job[r].user)
        /\ job[r].user \notin raced =>
             IF ctx[r].todo # {} THEN Own(job[r].user) \subseteq Rows(r)
                                 ELSE Primaries(job[r].user) \subseteq ctx[r].held
    BY <1>1 DEF Painted, OwnRows, Complete, Updating
  <1>3. ASSUME NEW a \in ctx[r].todo, Unlocked(r, a), UNCHANGED pc,
               ctx' = [ctx EXCEPT ![r].todo = @ \ {a}, ![r].held = @ \cup {a}]
        PROVE  Painted'
    <2>1. /\ ctx'[r].todo = ctx[r].todo \ {a} /\ ctx'[r].held = ctx[r].held \cup {a}
          /\ \A x \in Requests \ {r} : pc'[x] = pc[x] /\ ctx'[x] = ctx[x]
      BY <1>3 DEF IInv, Types, Ctxs
    <2>2. Rows(r)' = Rows(r)
      BY <2>1 DEF Rows
    <2>3. \A x \in Requests \ {r} : ctx'[r].held \cap ctx[x].held = {}
      BY <1>3, <2>1 DEF Unlocked, Painted, Apart
    <2>4. job[r].user \notin raced =>
            IF ctx'[r].todo # {} THEN Own(job[r].user) \subseteq Rows(r)'
                                 ELSE Primaries(job[r].user) \subseteq ctx'[r].held
      <3>1. job[r].user \notin raced => Own(job[r].user) \subseteq Rows(r)
        BY <1>2, <1>3
      <3>2. Primaries(job[r].user) \subseteq Own(job[r].user)
        BY DEF Primaries
      <3>3. ctx'[r].todo = {} => Rows(r) = ctx'[r].held
        BY <2>1, <2>2 DEF Rows
      <3> QED
        BY <2>2, <3>1, <3>2, <3>3
    <2>5. pc'[r] = "lower" /\ Rows(r)' \subseteq Own(job[r].user) /\ job[r].avatar \in Rows(r)'
      BY <1>1, <1>2, <1>3, <2>2
    <2> QED
      BY <1>1, <1>2, <2>1, <2>2, <2>3, <2>4, <2>5, LocksPainted DEF Updating
  <1>4. CASE ctx[r].todo = {} /\ pc' = [pc EXCEPT ![r] = "raise"] /\ UNCHANGED ctx
    <2>1. /\ pc'[r] = "raise" /\ Rows(r)' = Rows(r)
          /\ \A x \in Requests \ {r} : pc'[x] = pc[x] /\ ctx'[r].held \cap ctx[x].held = {}
      BY <1>4 DEF Painted, Apart, Rows, IInv, Types
    <2> QED
      BY <1>1, <1>2, <1>4, <2>1, LocksPainted DEF Updating
  <1> QED
    BY <1>3, <1>4 DEF Lower, Goto

LEMMA RaisePainted ==
  ASSUME IInv, Painted, NEW r \in Requests, Raise(r)
  PROVE  Painted'
  <1>1. /\ pc[r] = "raise" /\ pc' = [pc EXCEPT ![r] = "commit"]
        /\ ctx' = [ctx EXCEPT ![r].held = @ \cup {job[r].avatar}]
        /\ UNCHANGED <<avatar, last, raced, job>>
    BY DEF Raise, At, Goto, stored, pictures, history
  <1>2. /\ avatar[job[r].avatar].user = job[r].user /\ ctx[r].todo = {}
        /\ job[r].avatar \in Rows(r) /\ Rows(r) \subseteq Own(job[r].user)
        /\ job[r].user \notin raced => Primaries(job[r].user) \subseteq ctx[r].held
    BY <1>1 DEF Painted, OwnRows, Complete, Updating
  <1>3. /\ ctx'[r].todo = {} /\ ctx'[r].held = ctx[r].held /\ pc'[r] = "commit"
        /\ \A x \in Requests \ {r} : pc'[x] = pc[x] /\ ctx'[x] = ctx[x]
    BY <1>1, <1>2 DEF Rows, IInv, Types, Ctxs
  <1>4. Rows(r)' = Rows(r)
    BY <1>2, <1>3 DEF Rows
  <1>5. \A x \in Requests \ {r} : ctx'[r].held \cap ctx[x].held = {}
    BY <1>3 DEF Painted, Apart
  <1> QED
    BY <1>1, <1>2, <1>3, <1>4, <1>5, LocksPainted DEF Updating

\* A COMMIT finds every primary row of its user locked by itself, and no other
\* set_primary of the user has all its locks.
LEMMA CommitPainted ==
  ASSUME IInv, Painted, NEW r \in Requests, Commit(r)
  PROVE  Painted'
  <1> DEFINE u == job[r].user
             v == job[r].avatar
  <1>1. /\ pc[r] = "commit" /\ pc' = [pc EXCEPT ![r] = "reply"]
        /\ avatar' = [a \in Avatars |-> IF a \in ctx[r].held
                                        THEN [avatar[a] EXCEPT !.primary = (a = v)]
                                        ELSE avatar[a]]
        /\ last' = [last EXCEPT ![u] = v]
        /\ ctx' = [ctx EXCEPT ![r].held = {}]
        /\ UNCHANGED <<job, raced>>
    BY DEF Commit, At, Goto
  <1>2. /\ avatar[v].user = u /\ ctx[r].todo = {} /\ v \in ctx[r].held
        /\ ctx[r].held = Rows(r) /\ ctx[r].held \subseteq Own(u)
        /\ u \notin raced => Primaries(u) \subseteq ctx[r].held
    BY <1>1 DEF Painted, OwnRows, Complete, Rows, Updating
  <1>3. u \in Users /\ v \in Avatars
    BY <1>1, JobTypes DEF IInv, Course, Places
  <1>4. /\ ctx'[r].held = {} /\ ctx'[r].todo = {} /\ Rows(r)' = {} /\ pc'[r] = "reply"
        /\ \A x \in Requests \ {r} : pc'[x] = pc[x] /\ ctx'[x] = ctx[x] /\ Rows(x)' = Rows(x)
    BY <1>1, <1>2 DEF Rows, IInv, Types, Ctxs
  <1>5. /\ \A a \in Avatars : avatar'[a].user = avatar[a].user
        /\ \A a \in ctx[r].held : avatar'[a].primary <=> a = v
        /\ \A a \in Avatars \ ctx[r].held : avatar'[a] = avatar[a]
    <2>1. \A a \in Avatars : avatar[a] \in [user : Users \cup {None}, primary : BOOLEAN]
      BY DEF IInv, Types
    <2>2. ctx[r].held \subseteq Avatars
      BY <1>2 DEF Own
    <2> QED
      BY <1>1, <2>1, <2>2
  <1>6. /\ \A w \in Users : Own(w)' = Own(w)
        /\ \A w \in Users \ {u} : Primaries(w)' = Primaries(w)
    BY <1>2, <1>5 DEF Own, Primaries
  <1>7. OwnRows'
    <2>1. \A x \in Requests : pc[x] \in Updating \cup {"snapshot"} =>
            job[x].avatar \in Avatars /\ job[x].user \in Users
      BY JobTypes DEF IInv, Course, Places, Updating
    <2> QED
      BY <1>1, <1>4, <1>5, <1>6, <2>1 DEF Painted, OwnRows, Updating
  <1>8. Apart' /\ Nested'
    BY <1>1, <1>4 DEF Painted, Apart, Nested, Updating
  <1>9. Complete'
    <2> SUFFICES ASSUME NEW x \in Requests \ {r}, pc[x] \in Updating, job[x].user \notin raced
                 PROVE  IF ctx[x].todo # {} THEN Own(job[x].user)' \subseteq Rows(x)
                        ELSE Primaries(job[x].user)' \subseteq ctx[x].held
      BY <1>1, <1>4 DEF Complete, Updating
    <2>1. job[x].user \in Users
      BY JobTypes DEF IInv, Course, Places, Updating
    <2>2. CASE ctx[x].todo # {} \/ job[x].user # u
      <3>1. Own(job[x].user)' = Own(job[x].user)
        BY <1>1, <1>6, <2>1
      <3>2. job[x].user # u => Primaries(job[x].user)' = Primaries(job[x].user)
        BY <1>1, <1>6, <2>1
      <3> QED
        BY <2>2, <3>1, <3>2 DEF Painted, Complete
    <2>3. CASE ctx[x].todo = {} /\ job[x].user = u
      <3>1. Rows(x) = ctx[x].held /\ Rows(x) # {}
        BY <2>3 DEF Painted, OwnRows, Rows
      <3>2. Rows(r) \subseteq Rows(x) \/ Rows(x) \subseteq Rows(r)
        BY <1>1, <2>3 DEF Painted, Nested, Updating
      <3> QED
        BY <1>2, <3>1, <3>2 DEF Painted, Apart
    <2> QED
      BY <2>2, <2>3
  <1>10. OnePrimary'
    <2>1. \A w \in Users : /\ last[w] # None => last[w] \in Primaries(w)
                           /\ w \notin raced => Primaries(w) \subseteq {last[w]}
      BY DEF Painted, OnePrimary, Primaries
    <2>2. last'[u] = v /\ \A w \in Users \ {u} : last'[w] = last[w]
      BY <1>1, <1>3 DEF IInv, Types
    <2>3. v \in Primaries(u)'
      <3>1. avatar'[v].primary /\ avatar'[v].user = u
        BY <1>2, <1>3, <1>5
      <3> QED
        BY <1>1, <1>3, <3>1 DEF Primaries, Own
    <2>4. u \notin raced => Primaries(u)' \subseteq {v}
      <3>1. ASSUME u \notin raced, NEW a \in Primaries(u)' PROVE a = v
        <4>1. a \in Avatars /\ avatar'[a].primary /\ avatar'[a].user = u
          BY <1>1, <3>1 DEF Primaries, Own
        <4>2. a \in ctx[r].held
          BY <1>2, <1>5, <3>1, <4>1 DEF Primaries, Own
        <4> QED
          BY <1>5, <4>1, <4>2
      <3> QED
        BY <3>1
    <2>5. \A w \in Users : /\ last'[w] # None => last'[w] \in Primaries(w)'
                           /\ w \notin raced' => Primaries(w)' \subseteq {last'[w]}
      BY <1>1, <1>6, <2>1, <2>2, <2>3, <2>4
    <2> QED
      BY <2>5 DEF OnePrimary, Primaries
  <1> QED
    BY <1>7, <1>8, <1>9, <1>10 DEF Painted

LEMMA NextPainted == IInv /\ Painted /\ [Next]_vars => Painted'
  <1> SUFFICES ASSUME IInv, Painted, [Next]_vars PROVE Painted'
    OBVIOUS
  <1>0. pc \in [Requests -> Places \cup Ended \cup {"idle"}] /\ ctx \in [Requests -> Ctxs]
        /\ job \in [Requests -> RequestJobs \cup {NoJob}]
    BY DEF IInv, Types
  <1>1. ASSUME NEW r \in Requests, Begin(r) \/ Step(r) \/ Fail(r) PROVE Painted'
    <2>0. pc[r] \notin Updating => ctx[r].held = {} /\ ctx[r].todo = {}
      BY DEF Painted, OwnRows, Rows
    <2>1. CASE Refuse(r)
      <3>1. /\ pc' = [pc EXCEPT ![r] = "failed"] /\ ctx' = [ctx EXCEPT ![r] = NoCtx]
            /\ job' = [job EXCEPT ![r] = NoJob] /\ UNCHANGED <<avatar, last, raced>>
        BY <2>1 DEF Refuse, Goto, Dropped, stored, pictures, history
      <3> QED
        BY <1>0, <3>1, StillPainted DEF NoCtx, Updating
    <2>2. CASE Reply(r)
      <3>1. /\ pc' = [pc EXCEPT ![r] = "answered"] /\ ctx' = [ctx EXCEPT ![r] = NoCtx]
            /\ job' = [job EXCEPT ![r] = NoJob] /\ UNCHANGED <<avatar, last, raced>>
        BY <2>2 DEF Reply, Goto, stored, pictures
      <3> QED
        BY <1>0, <3>1, StillPainted DEF NoCtx, Updating
    <2>3. CASE Begin(r)
      <3>1. PICK j \in RequestJobs, t \in given \cup {None} :
              /\ job' = [job EXCEPT ![r] = j]
              /\ pc' = [pc EXCEPT ![r] = Start(j.op)]
              /\ ctx' = [ctx EXCEPT ![r].token = t]
        BY <2>3 DEF Begin, Goto
      <3>2. pc[r] = "idle" /\ UNCHANGED <<avatar, last, raced>>
        BY <2>3 DEF Begin, At, stored, pictures
      <3>3. Start(j.op) \notin Updating \cup {"snapshot"}
        BY JobTypes DEF Start, Ops, Updating
      <3>4. /\ ctx'[r].held = ctx[r].held /\ ctx'[r].todo = ctx[r].todo
            /\ \A x \in Requests \ {r} : pc'[x] = pc[x] /\ job'[x] = job[x] /\ ctx'[x] = ctx[x]
        BY <1>0, <3>1 DEF Ctxs
      <3> QED
        BY <1>0, <2>0, <3>1, <3>2, <3>3, <3>4, StillPainted DEF Updating
    <2>4. CASE Grant(r) \/ Create(r)
      <3>1. PICK n \in Tokens \cup Avatars : ctx' = [ctx EXCEPT ![r].new = n]
        BY <2>4 DEF Grant, Create
      <3>2. PICK there \in {"delete", "reply", "fill"} :
              pc' = [pc EXCEPT ![r] = there] /\ pc[r] \notin Updating
        BY <2>4 DEF Grant, Create, At, Goto, After, Updating
      <3>3. UNCHANGED <<avatar, last, raced, job>>
        BY <2>4 DEF Grant, Create, pictures, history
      <3>4. /\ ctx'[r].held = ctx[r].held /\ ctx'[r].todo = ctx[r].todo
            /\ \A x \in Requests \ {r} : pc'[x] = pc[x] /\ ctx'[x] = ctx[x]
        BY <1>0, <3>1, <3>2 DEF Ctxs
      <3> QED
        BY <1>0, <2>0, <3>2, <3>3, <3>4, StillPainted DEF Updating
    <2>5. ASSUME ~Refuse(r), Register(r) \/ Login(r) \/ Get(r) \/ FindUser(r) \/ Delete(r)
                   \/ Finish(r) \/ Fill(r) \/ Find(r) \/ Mint(r) \/ Fetch(r) \/ ReadFile(r)
          PROVE  Painted'
      <3>1. UNCHANGED <<avatar, last, raced, job, ctx>> /\ pc[r] \notin Updating
        BY <2>5 DEF Register, Login, Get, FindUser, Delete, Finish, Fill, Find, Mint, Fetch,
           ReadFile, Test, At, Updating, stored, pictures, history
      <3>2. PICK there \in {"user", "grant", "reply", "row", "mint", "read"} :
              pc' = [pc EXCEPT ![r] = there]
        BY <2>5 DEF Register, Login, Get, FindUser, Delete, Finish, Fill, Find, Mint, Fetch,
           ReadFile, Test, Goto, After
      <3> QED
        BY <1>0, <2>0, <3>1, <3>2, StillPainted DEF Updating
    <2> QED
      BY <1>1, <2>1, <2>2, <2>3, <2>4, <2>5, InsertPainted, CheckOwnerPainted, SnapshotPainted,
         LowerPainted, RaisePainted, CommitPainted DEF Step, Session, Picture, Abort, Fail
  <1>2. CASE UNCHANGED vars \/ Expire
    <2>1. UNCHANGED <<avatar, pc, job, ctx, last, raced>>
      BY <1>2 DEF Expire, vars, stored, pictures, history
    <2> QED
      BY <2>1 DEF Painted, OwnRows, Apart, Nested, Complete, OnePrimary, Rows, Primaries, Own
  <1> QED
    BY <1>1, <1>2 DEF Next

THEOREM AlwaysPainted == Spec => []Painted
  BY InitPainted, InitIInv, NextIInv, NextPainted, PTL DEF Spec

\* OnePrimary in every behaviour: the avatar last made primary is, and no other
\* unless one was stored in the middle of an UPDATE.
THEOREM PrimaryIsOne == Spec => []OnePrimary
  BY AlwaysPainted, PTL DEF Painted

----------------------------------------------------------------------------
\* Somebody can go on

\* Induction over the natural numbers, in the form the provers can use.
LEMMA Least ==
  ASSUME NEW T, T \subseteq Nat, T # {}
  PROVE  \E n \in T : \A k \in T : n <= k
  <1> DEFINE Less == {p \in Nat \X Nat : p[1] < p[2]}
  <1>1. OpToRel(<, Nat) = Less
    BY Zenon DEF OpToRel
  <1>2. IsWellFoundedOn(Less, Nat)
    BY <1>1, NatLessThanWellFounded, Zenon
  <1>3. \E n \in T : \A k \in T : ~(<<k, n>> \in Less)
    <2> HIDE DEF Less
    <2> QED
      BY <1>2, WFMin
  <1>4. PICK n \in T : \A k \in T : ~(<<k, n>> \in Less)
    BY <1>3
  <1>5. ASSUME NEW k \in T PROVE n <= k
    <2>1. ~(k < n)
      BY <1>4
    <2> QED
      BY <2>1
  <1> QED
    BY <1>5

Locking(r) == pc[r] = "lower" /\ ctx[r].todo # {}

\* ENABLED Step(r), by the guards of its actions: most ask for nothing, or go
\* one way or the other.
CanGo(r) ==
  \/ pc[r] \in Places \ {"grant", "lower", "raise"}
  \/ pc[r] = "grant" /\ \E n \in Tokens :
                          token[n].is = "none" /\ \A k \in 1..(n - 1) : token[k].is # "none"
  \/ pc[r] = "lower" /\ (ctx[r].todo = {} \/ \E a \in ctx[r].todo : Unlocked(r, a))
  \/ pc[r] = "raise" /\ Unlocked(r, job[r].avatar)
  \/ \E S \in SUBSET Requests : r \in S /\ Deadlocked(S)

\* The next number is free as long as one is.
LEMMA NextToken ==
  ASSUME NEW n \in Tokens, token[n].is = "none"
  PROVE  \E m \in Tokens : token[m].is = "none" /\ \A k \in 1..(m - 1) : token[k].is # "none"
  <1> DEFINE T == {m \in Tokens : token[m].is = "none"}
  <1>1. T \subseteq Nat /\ n \in T
    BY DEF Tokens
  <1>2. PICK m \in T : \A k \in T : m <= k
    <2> HIDE DEF T
    <2> QED
      BY <1>1, Least
  <1>3. ASSUME NEW k \in 1..(m - 1) PROVE token[k].is # "none"
    <2>1. k \in Tokens /\ m \in Tokens /\ ~(m <= k)
      BY AccountsAssumption DEF Tokens
    <2> QED
      BY <1>2, <2>1
  <1> QED
    BY <1>2, <1>3

\* Whoever has locked its snapshot waits for nobody.
LEMMA RaiseNeverWaits ==
  ASSUME Painted, NEW r \in Requests, pc[r] = "raise"
  PROVE  Unlocked(r, job[r].avatar)
  <1>1. job[r].avatar \in ctx[r].held
    BY DEF Painted, OwnRows, Updating, Rows
  <1> QED
    BY <1>1 DEF Painted, Apart, Unlocked

(***************************************************************************)
(* If nobody can go on, all that are under way wait for rows, which some   *)
(* of them hold: these are deadlocked, and PostgreSQL ends one.            *)
(***************************************************************************)
LEMMA SomebodyGoes ==
  ASSUME IInv, Painted, NEW r \in Requests, pc[r] \in Places,
         NEW n \in Tokens, token[n].is = "none"
  PROVE  \E x \in Requests : CanGo(x)
  <1> SUFFICES ASSUME \A x \in Requests : ~CanGo(x) PROVE FALSE
    OBVIOUS
  <1>1. ASSUME NEW x \in Requests, pc[x] \in Places PROVE Locking(x)
    <2>1. pc[x] # "grant"
      BY NextToken DEF CanGo
    <2>2. pc[x] # "raise"
      BY RaiseNeverWaits DEF CanGo
    <2> QED
      BY <1>1, <2>1, <2>2 DEF CanGo, Locking
  <1> DEFINE S == {x \in Requests : Locking(x)}
  <1>2. ASSUME NEW x \in S, NEW a \in ctx[x].todo PROVE \E y \in S \ {x} : a \in ctx[y].held
    <2>1. ~Unlocked(x, a)
      BY DEF CanGo, Locking
    <2>2. PICK y \in Requests \ {x} : a \in ctx[y].held
      BY <2>1 DEF Unlocked
    <2>3. pc[y] \in Updating
      BY <2>2 DEF Painted, OwnRows, Rows
    <2> QED
      BY <1>1, <2>2, <2>3 DEF Updating, Places
  <1>3. Deadlocked(S)
    BY <1>2 DEF Deadlocked, Locking
  <1>4. r \in S
    BY <1>1
  <1> HIDE DEF S
  <1>5. S \subseteq Requests
    BY DEF S
  <1> QED
    BY <1>3, <1>4, <1>5 DEF CanGo

(***************************************************************************)
(* NobodyStuck without ENABLED, in every behaviour and for any number of   *)
(* requests: while one is under way and there is a token number to grant,  *)
(* somebody can go on, and a set_primary that has locked the rows of its   *)
(* snapshot does not wait again (users.rs lines 57-78).                    *)
(***************************************************************************)
THEOREM SomebodyCanGo ==
  Spec => [](/\ (\E r \in Requests : pc[r] \notin Ended \cup {"idle"})
                  /\ (\E n \in Tokens : token[n].is = "none")
               => \E r \in Requests : CanGo(r)
             /\ \A r \in Requests : pc[r] = "raise" => Unlocked(r, job[r].avatar))
  <1> DEFINE Goes == /\ (\E r \in Requests : pc[r] \notin Ended \cup {"idle"})
                           /\ (\E n \in Tokens : token[n].is = "none")
                        => \E r \in Requests : CanGo(r)
                     /\ \A r \in Requests : pc[r] = "raise" => Unlocked(r, job[r].avatar)
  <1>1. IInv /\ Painted => Goes
    <2> SUFFICES ASSUME IInv, Painted PROVE Goes
      OBVIOUS
    <2>1. \A r \in Requests : pc[r] \notin Ended \cup {"idle"} => pc[r] \in Places
      BY DEF IInv, Types
    <2> QED
      BY <2>1, SomebodyGoes, RaiseNeverWaits
  <1> HIDE DEF Goes
  <1>2. Spec => []Goes
    BY <1>1, AlwaysIInv, AlwaysPainted, PTL
  <1> QED
    BY <1>2 DEF Goes
=============================================================================
