------------------------------ MODULE Accounts ------------------------------
(***************************************************************************)
(* What belongs to an account: its name, its refresh tokens in Redis       *)
(* (register, login and refresh_token of auth.rs), its avatars             *)
(* (upload_avatars and set_primary of users.rs, save_part of upload.rs)    *)
(* and the tokens to download them (files.rs).                             *)
(*                                                                         *)
(* Requests interleave between any two statements, Redis commands and file *)
(* operations.  Access tokens are JWTs that nothing stores: whoever has an *)
(* account has one.  Redis is configured.                                  *)
(***************************************************************************)
EXTENDS Naturals, Sequences

CONSTANTS
  Users,        \* the names an account can have
  Passwords, None,
  Requests,     \* HTTP requests, each used once
  RequestJobs,  \* what may arrive
  Password0,    \* user -> the password of its account at the start, or None
  Holders0,     \* the users that hold refresh tokens 1, 2, ... at the start
  Avatars0,     \* the users that have avatars 1, 2, ... at the start
  MaxTokens,    \* refresh tokens that are ever stored
  MaxAvatars,   \* files that are ever created
  MaxFaults     \* commands, operations or connections that fail

Tokens == 1..MaxTokens
Avatars == 1..MaxAvatars

Ops == {"register", "login", "refresh", "upload", "set_primary", "mint", "download"}

ASSUME AccountsAssumption ==
  /\ None \notin Users \cup Passwords \cup Requests \cup Tokens \cup Avatars
  /\ RequestJobs \subseteq [op : Ops, user : Users, password : Passwords, avatar : Avatars]
  /\ Password0 \in [Users -> Passwords \cup {None}]
  /\ Holders0 \in Seq({u \in Users : Password0[u] # None})
  /\ Avatars0 \in Seq({u \in Users : Password0[u] # None})
  /\ MaxTokens \in Nat /\ MaxAvatars \in Nat /\ MaxFaults \in Nat
  /\ Len(Holders0) <= MaxTokens /\ Len(Avatars0) <= MaxAvatars

VARIABLES
  account,    \* users: name -> password, or None
  token,      \* refresh tokens, in Redis or no longer
  avatar,     \* user_avatars: whose, and is_primary
  file,       \* avatar -> "none", "part" or "whole"
  minted,     \* avatars that a download token in Redis leads to
  pc, job,
  ctx,        \* what a request remembers
  faults,
  given,      \* history: refresh tokens that a client was answered
  met,        \* history: refreshes that were under way at the same time
  last,       \* history: user -> the avatar last made primary
  raced       \* history: users one of whose avatars was stored while a
              \* set_primary was between the snapshot and the locks of its UPDATE

redis == <<token, minted>>
pictures == <<avatar, file>>
stored == <<account, redis, pictures>>
history == <<given, met, last, raced>>
vars == <<stored, pc, job, ctx, faults, history>>

----------------------------------------------------------------------------
\* The course of a request

Ended == {"answered", "failed"}

\* token: the one to be refreshed; new: the id it made up; todo: rows its
\* UPDATE has yet to lock; held: rows its transaction has locked.
NoCtx == [token |-> None, new |-> None, todo |-> {}, held |-> {}]

\* Mutant of Dropped: the connection goes back with its transaction open.
Dropped_Open(c) == c

\* A request that ends drops its transaction, which rolls it back.
Dropped(c) == NoCtx

NoJob == [op |-> "none", user |-> None, password |-> None, avatar |-> None]

Start(op) ==
  CASE op = "refresh" -> "get"
    [] op = "upload" -> "create"
    [] op = "set_primary" -> "owner"
    [] op = "mint" -> "find"
    [] op = "download" -> "fetch"
    [] OTHER -> op

\* Mutant of After: a refresh deletes the old token before it stores the new.
After_DeleteFirst(op, here) ==
  CASE here = "get" -> "user"
    [] here = "user" -> "delete"
    [] here = "delete" -> "grant"
    [] here \in {"register", "login"} -> "grant"
    [] OTHER -> "reply"

\* The order of the commands of register, login and refresh_token.
After(op, here) ==
  CASE here = "get" -> "user"
    [] here \in {"register", "login", "user"} -> "grant"
    [] here = "grant" /\ op = "refresh" -> "delete"
    [] OTHER -> "reply"

At(r, here) == pc[r] = here

Goto(r, there) == pc' = [pc EXCEPT ![r] = there]

\* 4xx or 500.
Refuse(r) ==
  /\ Goto(r, "failed")
  /\ ctx' = [ctx EXCEPT ![r] = Dropped(@)]
  /\ job' = [job EXCEPT ![r] = NoJob]
  /\ UNCHANGED <<stored, history>>

\* A test that lets the request go on, or ends it.
Test(r, here, passes, there) ==
  /\ At(r, here)
  /\ \/ passes /\ Goto(r, there) /\ UNCHANGED <<stored, job, ctx, history>>
     \/ ~passes /\ Refuse(r)
  /\ UNCHANGED faults

\* A refresh has a token the client was given; avatars need an account.
Begin(r) ==
  /\ At(r, "idle")
  /\ \E j \in RequestJobs :
       /\ j.op \in {"upload", "set_primary", "mint"} => account[j.user] # None
       /\ job' = [job EXCEPT ![r] = j]
       /\ Goto(r, Start(j.op))
       /\ \E t \in IF j.op = "refresh" THEN given ELSE {None} :
            ctx' = [ctx EXCEPT ![r].token = t]
  /\ met' = met \cup {p \in Requests \X Requests :
                        r \in {p[1], p[2]} /\ \A x \in {p[1], p[2]} : ctx'[x].token # None}
  /\ UNCHANGED <<stored, faults, given, last, raced>>

----------------------------------------------------------------------------
\* Refresh tokens

\* Mutant of Free: the conflict of the INSERT is taken for success.
Free_Any(u) == TRUE

Free(u) == account[u] = None

\* INSERT INTO users; the name is unique.
Register(r) ==
  /\ At(r, "register")
  /\ \/ /\ Free(job[r].user)
        /\ account' = [account EXCEPT ![job[r].user] = IF @ = None THEN job[r].password ELSE @]
        /\ Goto(r, After("register", "register"))
        /\ UNCHANGED <<redis, pictures, job, ctx, history>>
     \/ ~Free(job[r].user) /\ Refuse(r)
  /\ UNCHANGED faults

Login(r) == Test(r, "login", account[job[r].user] = job[r].password, After("login", "login"))

\* GET: a token that is not there is 401.
Get(r) == Test(r, "get", token[ctx[r].token].is = "live", After("refresh", "get"))

\* The account of the token, which nothing deletes.
FindUser(r) ==
  Test(r, "user", account[token[ctx[r].token].user] # None, After("refresh", "user"))

NoToken == [is |-> "none", user |-> None, from |-> None, by |-> None, shown |-> None]

\* from: the token it replaces; by: the request; shown: the password its
\* session began with.
NewToken(r) ==
  LET t == ctx[r].token
  IN  [is |-> "live", from |-> t, by |-> r,
       user |-> IF t = None THEN job[r].user ELSE token[t].user,
       shown |-> IF t = None THEN job[r].password ELSE token[t].shown]

\* SETEX
Grant(r) ==
  /\ At(r, "grant")
  /\ \E n \in Tokens :
       /\ token[n].is = "none" /\ \A k \in 1..(n - 1) : token[k].is # "none"
       /\ token' = [token EXCEPT ![n] = NewToken(r)]
       /\ ctx' = [ctx EXCEPT ![r].new = n]
  /\ Goto(r, After(job[r].op, "grant"))
  /\ UNCHANGED <<account, minted, pictures, job, faults, history>>

\* Mutant of Gone: the DEL is left out.
Gone_Kept(t) == t

Gone(t) == IF t.is = "live" THEN [t EXCEPT !.is = "deleted"] ELSE t

\* DEL of the old token; one that has expired is no error.
Delete(r) ==
  /\ At(r, "delete")
  /\ token' = [token EXCEPT ![ctx[r].token] = Gone(@)]
  /\ Goto(r, After("refresh", "delete"))
  /\ UNCHANGED <<account, minted, pictures, job, ctx, faults, history>>

----------------------------------------------------------------------------
\* Avatars

\* upload_avatars: the form ends, or breaks off between its fields, ...
Finish(r) ==
  /\ At(r, "create")
  /\ Goto(r, "reply")
  /\ UNCHANGED <<stored, job, ctx, faults, history>>

\* ... or has another field, for which save_part makes an empty file, ...
Create(r) ==
  /\ At(r, "create")
  /\ \E a \in Avatars :
       /\ file[a] = "none" /\ \A k \in 1..(a - 1) : file[k] # "none"
       /\ file' = [file EXCEPT ![a] = "part"]
       /\ ctx' = [ctx EXCEPT ![r].new = a]
  /\ Goto(r, "fill")
  /\ UNCHANGED <<account, redis, avatar, job, faults, history>>

\* Mutant of Filled: a field that breaks off is taken for its end.
Filled_Part(f) == f

Filled(f) == "whole"

\* ... then its contents.
Fill(r) ==
  /\ At(r, "fill")
  /\ file' = [file EXCEPT ![ctx[r].new] = Filled(@)]
  /\ Goto(r, "row")
  /\ UNCHANGED <<account, redis, avatar, job, ctx, faults, history>>

NoAvatar == [user |-> None, primary |-> FALSE]

\* INSERT INTO user_avatars, then the next field.
Insert(r) ==
  LET u == job[r].user
  IN  /\ At(r, "row")
      /\ avatar' = [avatar EXCEPT ![ctx[r].new] = [user |-> u, primary |-> FALSE]]
      /\ raced' = IF \E x \in Requests : pc[x] = "lower" /\ ctx[x].todo # {} /\ job[x].user = u
                  THEN raced \cup {u} ELSE raced
      /\ Goto(r, "create")
      /\ UNCHANGED <<account, redis, file, job, ctx, faults, given, met, last>>

\* set_primary: whose avatar it is, ...
CheckOwner(r) ==
  Test(r, "owner", avatar[job[r].avatar].user = job[r].user, "snapshot")

\* Mutant of Own: WHERE user_id = $1 AND is_primary.
Own_Primary(u) == {a \in Avatars : avatar[a].user = u /\ avatar[a].primary}

\* WHERE user_id = $1
Own(u) == {a \in Avatars : avatar[a].user = u}

\* ... UPDATE .. SET is_primary = FALSE finds the rows that are committed, ...
Snapshot(r) ==
  /\ At(r, "snapshot")
  /\ ctx' = [ctx EXCEPT ![r].todo = Own(job[r].user)]
  /\ Goto(r, "lower")
  /\ UNCHANGED <<stored, job, faults, history>>

Unlocked(r, a) == \A x \in Requests \ {r} : a \notin ctx[x].held

\* ... and locks and changes one after the other; ...
Lower(r) ==
  /\ At(r, "lower")
  /\ \/ \E a \in ctx[r].todo :
          /\ Unlocked(r, a)
          /\ ctx' = [ctx EXCEPT ![r].todo = @ \ {a}, ![r].held = @ \cup {a}]
          /\ UNCHANGED pc
     \/ ctx[r].todo = {} /\ Goto(r, "raise") /\ UNCHANGED ctx
  /\ UNCHANGED <<stored, job, faults, history>>

\* ... UPDATE .. SET is_primary = TRUE of the one; ...
Raise(r) ==
  /\ At(r, "raise")
  /\ Unlocked(r, job[r].avatar)
  /\ ctx' = [ctx EXCEPT ![r].held = @ \cup {job[r].avatar}]
  /\ Goto(r, "commit")
  /\ UNCHANGED <<stored, job, faults, history>>

\* ... and the COMMIT of both.
Commit(r) ==
  /\ At(r, "commit")
  /\ avatar' = [a \in Avatars |-> IF a \in ctx[r].held
                                  THEN [avatar[a] EXCEPT !.primary = (a = job[r].avatar)]
                                  ELSE avatar[a]]
  /\ last' = [last EXCEPT ![job[r].user] = job[r].avatar]
  /\ ctx' = [ctx EXCEPT ![r].held = {}]
  /\ Goto(r, "reply")
  /\ UNCHANGED <<account, redis, file, job, faults, given, met, raced>>

\* Each of these waits for rows that others of them hold.
Deadlocked(S) ==
  \A r \in S :
    /\ pc[r] = "lower" /\ ctx[r].todo # {}
    /\ \A a \in ctx[r].todo : \E x \in S \ {r} : a \in ctx[x].held

\* PostgreSQL ends one transaction of a deadlock: 500.
Abort(r) ==
  /\ \E S \in SUBSET Requests : r \in S /\ Deadlocked(S)
  /\ Refuse(r)
  /\ UNCHANGED faults

\* create_download_token: the row, ...
Find(r) == Test(r, "find", avatar[job[r].avatar].user # None, "mint")

\* ... and SETEX of its path.
Mint(r) ==
  /\ At(r, "mint")
  /\ minted' = minted \cup {job[r].avatar}
  /\ Goto(r, "reply")
  /\ UNCHANGED <<account, token, pictures, job, ctx, faults, history>>

\* download_file: GET, ...
Fetch(r) == Test(r, "fetch", job[r].avatar \in minted, "read")

\* ... and the file.
ReadFile(r) == Test(r, "read", file[job[r].avatar] # "none", "reply")

----------------------------------------------------------------------------
\* The rest

Reply(r) ==
  /\ At(r, "reply")
  /\ Goto(r, "answered")
  /\ ctx' = [ctx EXCEPT ![r] = NoCtx]
  /\ job' = [job EXCEPT ![r] = NoJob]
  /\ given' = IF job[r].op \in {"register", "login", "refresh"}
              THEN given \cup {ctx[r].new} ELSE given
  /\ UNCHANGED <<stored, faults, met, last, raced>>

\* A command or the connection fails, or the process dies: what has been done
\* is done, and the client is told nothing of it.
Fail(r) ==
  /\ pc[r] \notin Ended \cup {"idle"}
  /\ faults < MaxFaults /\ faults' = faults + 1
  /\ Refuse(r)

\* The 30 days of a refresh token, or the ttl of a download token, are over.
Expire ==
  /\ \/ \E t \in Tokens : /\ token[t].is = "live"
                          /\ token' = [token EXCEPT ![t].is = "expired"]
                          /\ UNCHANGED minted
     \/ \E a \in minted : minted' = minted \ {a} /\ UNCHANGED token
  /\ UNCHANGED <<account, pictures, pc, job, ctx, faults, history>>

Init ==
  /\ account = Password0
  /\ token = [t \in Tokens |->
                IF t \notin DOMAIN Holders0 THEN NoToken
                ELSE [is |-> "live", user |-> Holders0[t], from |-> None, by |-> None,
                      shown |-> Password0[Holders0[t]]]]
  /\ avatar = [a \in Avatars |-> IF a \notin DOMAIN Avatars0 THEN NoAvatar
                                 ELSE [user |-> Avatars0[a], primary |-> FALSE]]
  /\ file = [a \in Avatars |-> IF a \in DOMAIN Avatars0 THEN "whole" ELSE "none"]
  /\ minted = {}
  /\ pc = [r \in Requests |-> "idle"]
  /\ job = [r \in Requests |-> NoJob]
  /\ ctx = [r \in Requests |-> NoCtx]
  /\ faults = 0
  /\ given = DOMAIN Holders0
  /\ met = {}
  /\ last = [u \in Users |-> None]
  /\ raced = {}

Session(r) == Register(r) \/ Login(r) \/ Get(r) \/ FindUser(r) \/ Grant(r) \/ Delete(r)

Picture(r) ==
  \/ Finish(r) \/ Create(r) \/ Fill(r) \/ Insert(r)
  \/ CheckOwner(r) \/ Snapshot(r) \/ Lower(r) \/ Raise(r) \/ Commit(r) \/ Abort(r)
  \/ Find(r) \/ Mint(r) \/ Fetch(r) \/ ReadFile(r)

Step(r) == Session(r) \/ Picture(r) \/ Reply(r)

Next == (\E r \in Requests : Begin(r) \/ Step(r) \/ Fail(r)) \/ Expire

Spec == Init /\ [][Next]_vars

----------------------------------------------------------------------------
\* Properties

Places == {"register", "login", "get", "user", "grant", "delete", "create", "fill", "row",
           "owner", "snapshot", "lower", "raise", "commit", "find", "mint", "fetch", "read",
           "reply"}

TokenRows == [is : {"none", "live", "deleted", "expired"}, user : Users \cup {None},
              from : Tokens \cup {None}, by : Requests \cup {None},
              shown : Passwords \cup {None}]

Ctxs == [token : Tokens \cup {None}, new : Tokens \cup Avatars \cup {None},
         todo : SUBSET Avatars, held : SUBSET Avatars]

\* Every variable has its type, and what a row of user_avatars or a download
\* token leads to is a whole file: the type invariant of this module.
TypeOK ==
  /\ account \in [Users -> Passwords \cup {None}]
  /\ token \in [Tokens -> TokenRows]
  /\ avatar \in [Avatars -> [user : Users \cup {None}, primary : BOOLEAN]]
  /\ file \in [Avatars -> {"none", "part", "whole"}]
  /\ minted \subseteq Avatars
  /\ \A a \in Avatars : avatar[a].user # None \/ a \in minted => file[a] = "whole"
  /\ pc \in [Requests -> Places \cup Ended \cup {"idle"}]
  /\ job \in [Requests -> RequestJobs \cup {NoJob}]
  /\ ctx \in [Requests -> Ctxs]
  /\ faults \in Nat
  /\ given \subseteq Tokens
  /\ met \subseteq Requests \X Requests
  /\ last \in [Users -> Avatars \cup {None}]
  /\ raced \subseteq Users

(***************************************************************************)
(* A refresh token in Redis is of someone who showed the password that the *)
(* account was made with, however registrations of one name interleave and *)
(* however often it was exchanged (auth.rs lines 18-28, 56-69, 105-126).   *)
(***************************************************************************)
KnewThePassword ==
  \A t \in Tokens : token[t].is = "live" => account[token[t].user] = token[t].shown

(***************************************************************************)
(* A refresh token buys one other: once a refresh is answered its token    *)
(* works no longer, and two refreshes of one token are both answered only  *)
(* if they were under way together (auth.rs lines 105-130).                *)
(***************************************************************************)
ExchangedOnce ==
  \A t \in given : token[t].from # None =>
    /\ token[token[t].from].is # "live"
    /\ \A s \in given : s # t /\ token[s].from = token[t].from =>
         <<token[s].by, token[t].by>> \in met

(***************************************************************************)
(* Nothing ends a session in Redis before its 30 days but its replacement: *)
(* whatever failed and whoever else refreshed, a token that was deleted    *)
(* has a successor, that is there, has expired or was replaced in its turn *)
(* (auth.rs lines 124-129, in this order).                                 *)
(***************************************************************************)
SessionSurvives ==
  \A t \in Tokens : token[t].is = "deleted" =>
    \E s \in Tokens : token[s].is # "none" /\ token[s].from = t

(***************************************************************************)
(* The avatar last made primary is primary, and no other of the user's is, *)
(* unless one was stored while the UPDATE of a set_primary was between its *)
(* snapshot and its locks: no index forbids two (users.rs lines 57-78,     *)
(* 0004_user_avatars.sql).                                                 *)
(***************************************************************************)
OnePrimary ==
  \A u \in Users :
    LET primaries == {a \in Own(u) : avatar[a].primary}
    IN  /\ last[u] # None => last[u] \in primaries
        /\ u \notin raced => primaries \subseteq {last[u]}

(***************************************************************************)
(* As long as a request is under way some request can go on: whatever      *)
(* locks rows releases them, also when it fails, and of set_primary        *)
(* requests that wait for each other one is ended (users.rs lines 57-78).  *)
(***************************************************************************)
NobodyStuck ==
  (\E r \in Requests : pc[r] \notin Ended \cup {"idle"}) =>
    \E r \in Requests : ENABLED Step(r)
=============================================================================
