----------------------------- MODULE MCAccounts -----------------------------
\* An instance of Accounts for TLC: one user with a refresh token and two
\* avatars, and one whose name two clients may register at once.
EXTENDS Accounts, TLC

CONSTANTS u1, u2, p1, p2, r1, r2, r3

Job(op, user, password, number) ==
  [op |-> op, user |-> user, password |-> password, avatar |-> number]

AllJobs ==
  {Job("register", u2, p1, 1), Job("register", u2, p2, 1), Job("login", u1, p1, 1),
   Job("login", u2, p1, 1), Job("refresh", u1, p1, 1),
   Job("upload", u1, p1, 1), Job("set_primary", u1, p1, 1), Job("set_primary", u1, p1, 2),
   Job("set_primary", u1, p1, 3), Job("set_primary", u2, p1, 1),
   Job("mint", u1, p1, 3), Job("download", u1, p1, 3)}

OnlyU1 == u1 :> p1 @@ u2 :> None
OneToken == <<u1>>
TwoAvatars == <<u1, u1>>
RequestSymmetry == Permutations(Requests)
=============================================================================
