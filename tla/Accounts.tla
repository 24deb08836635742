------------------------------ MODULE Accounts ------------------------------
(***************************************************************************)
(* From sign-up to a portal session (portal/app/routers/signup.py,         *)
(* keycloak_admin.py, routers/auth.py, auth.py, student.py, and the        *)
(* scripts class_code.py and seed_uat.py).                                 *)
(*                                                                         *)
(* Keycloak owns the accounts, the portal a row for each and the count of  *)
(* a class code's uses.  Sign-up writes them one after the other, in a     *)
(* thread of its own, while people verify, log in (which adopts an account *)
(* that has no row) and administrators work in Keycloak.                   *)
(***************************************************************************)
EXTENDS Handlers

CONSTANTS
  Emails,      \* addresses, in lower case
  Subs,        \* Keycloak user ids, drawn once each: a segment 1 .. n
  MaxUses      \* max_uses of the class code

VARIABLES
  accounts,    \* Keycloak: the account of each address, or None
  portalUsers, \* rows of portal_users by address, or None
  classCode,   \* the row of one class code
  cookies,     \* session cookies: sub and email
  recreated,   \* addresses whose account was deleted in Keycloak (a history)
  overwritten  \* a commit set the code's uses without having seen them all (a history)

accountVars ==
  <<accounts, portalUsers, classCode, cookies, recreated, overwritten>>
histories == <<recreated, overwritten>>

Account(sub, verified) == [sub |-> sub, verified |-> verified]
User(sub, coded) == [sub |-> sub, coded |-> coded]

ASSUME AccountsAssumption ==
  /\ MaxUses \in Nat /\ Subs = 1 .. Cardinality(Subs)
  /\ \A sub \in Subs, b \in BOOLEAN : None \notin {Account(sub, b), User(sub, b)}

Drawn(s) ==
  \/ \E e \in Emails :
       \/ accounts[e] # None /\ accounts[e].sub = s
       \/ portalUsers[e] # None /\ portalUsers[e].sub = s
  \/ \E t \in Threads : ~At(t, "idle") /\ jobs[t].sub = s
  \/ \E c \in cookies : c.sub = s
\* the first id nothing knows stands for a fresh one
FreshSub(s) == ~Drawn(s) /\ \A r \in Subs : r < s => Drawn(r)

\* A variant for mutation: a code is usable up to and including the limit.
IsUsableLate == classCode.active /\ classCode.uses <= MaxUses

\* ClassCode.is_usable; active stands for "and not expired" too
IsUsable == classCode.active /\ classCode.uses < MaxUses

-----------------------------------------------------------------------------
(* signup_submit: validation, then Keycloak, the mail, and one commit.     *)

BeginSignup(t, e, coded) ==
  /\ coded => IsUsable
  /\ portalUsers[e] = None
  /\ Start(t, [pc |-> "account", email |-> e, coded |-> coded,
               seen |-> classCode.uses, sub |-> None])
  /\ UNCHANGED accountVars

\* create_user; 409 when the address has an account
CreateAccount(t) ==
  LET e == jobs[t].email IN
  /\ At(t, "account")
  /\ \/ accounts[e] # None /\ Become(t, Free) /\ UNCHANGED accounts
     \/ /\ accounts[e] = None
        /\ \E s \in Subs :
             /\ FreshSub(s)
             /\ accounts' = [accounts EXCEPT ![e] = Account(s, FALSE)]
             /\ Become(t, [jobs[t] EXCEPT !.pc = "commit", !.sub = s])
  /\ UNCHANGED <<portalUsers, classCode, cookies, histories, faults>>

\* send_verify_email, which raises when it fails, then one transaction: the row,
\* and the uses as they were read plus one; nothing when the address has a row
\* by now
CommitSignup(t) ==
  LET j == jobs[t] IN
  /\ At(t, "commit")
  /\ IF portalUsers[j.email] # None
     THEN UNCHANGED <<portalUsers, classCode, overwritten>>
     ELSE /\ portalUsers' = [portalUsers EXCEPT ![j.email] = User(j.sub, j.coded)]
          /\ classCode' = IF j.coded THEN [classCode EXCEPT !.uses = j.seen + 1] ELSE classCode
          /\ overwritten' = (overwritten \/ (j.coded /\ classCode.uses # j.seen))
  /\ Finish(t)
  /\ UNCHANGED <<accounts, cookies, recreated>>

SignupFails(t) == Killed(t) /\ UNCHANGED accountVars

-----------------------------------------------------------------------------
(* Sessions.                                                               *)

Verify(e) ==
  /\ accounts[e] # None
  /\ accounts' = [accounts EXCEPT ![e].verified = TRUE]
  /\ UNCHANGED <<portalUsers, classCode, cookies, histories, handlerVars>>

Loads(sub) == {e \in Emails : portalUsers[e] # None /\ portalUsers[e].sub = sub}

\* one browser for each person
LogsIn(e) == cookies' = {c \in cookies : c.email # e} \cup {[sub |-> accounts[e].sub, email |-> e]}

\* A variant for mutation: an adopted row does not get the sub.
CallbackNoSub(e) ==
  /\ accounts[e] # None /\ accounts[e].verified
  /\ portalUsers' = IF portalUsers[e] # None THEN portalUsers
                    ELSE [portalUsers EXCEPT ![e] = User(None, FALSE)]
  /\ LogsIn(e)
  /\ UNCHANGED <<accounts, classCode, histories, handlerVars>>

\* callback: the row is found by sub or by address, or made; a row that has a
\* sub keeps it, the cookie gets the one of the token.  Between its query and
\* its commit the event loop runs nothing else; a sign-up that commits the
\* address in between makes it end in an error without effect.
Callback(e) ==
  LET sub == accounts[e].sub IN
  /\ accounts[e] # None /\ accounts[e].verified
  /\ portalUsers' = IF Loads(sub) # {} \/ portalUsers[e] # None THEN portalUsers
                    ELSE [portalUsers EXCEPT ![e] = User(sub, FALSE)]
  /\ LogsIn(e)
  /\ UNCHANGED <<accounts, classCode, histories, handlerVars>>

Logout(c) ==
  /\ cookies' = cookies \ {c}
  /\ UNCHANGED <<accounts, portalUsers, classCode, histories, handlerVars>>

-----------------------------------------------------------------------------
(* Instructors and administrators.                                         *)

\* create_code again for the same code (the script), deactivate_code, or time
SetCodeActive(on) ==
  /\ classCode' = [classCode EXCEPT !.active = on]
  /\ UNCHANGED <<accounts, portalUsers, cookies, histories, handlerVars>>

\* in Keycloak's own console
DeleteAccount(e) ==
  /\ accounts[e] # None
  /\ accounts' = [accounts EXCEPT ![e] = None]
  /\ recreated' = recreated \cup {e}
  /\ UNCHANGED <<portalUsers, classCode, cookies, overwritten, handlerVars>>

\* seed_uat, one account: found or created, and verified ...
SeedAccount(t, e) ==
  \E s \in Subs :
    /\ IF accounts[e] # None THEN s = accounts[e].sub ELSE FreshSub(s)
    /\ accounts' = [accounts EXCEPT ![e] = Account(s, TRUE)]
    /\ Start(t, [pc |-> "seed", email |-> e, sub |-> s])
    /\ UNCHANGED <<portalUsers, classCode, cookies, histories>>

\* ... then its row, which takes the id whatever it had
CommitSeed(t) ==
  LET j == jobs[t] IN
  /\ At(t, "seed")
  /\ portalUsers' = [portalUsers EXCEPT ![j.email] =
                       IF @ = None THEN User(j.sub, FALSE) ELSE [@ EXCEPT !.sub = j.sub]]
  /\ Finish(t)
  /\ UNCHANGED <<accounts, classCode, cookies, histories>>

AccountsInit ==
  /\ accounts = [e \in Emails |-> None]
  /\ portalUsers = [e \in Emails |-> None]
  /\ classCode = [uses |-> 0, active |-> TRUE]
  /\ cookies = {} /\ recreated = {} /\ overwritten = FALSE

AccountsNext ==
  \/ \E t \in Threads, e \in Emails :
       SeedAccount(t, e) \/ \E coded \in BOOLEAN : BeginSignup(t, e, coded)
  \/ \E t \in Threads :
       \/ CreateAccount(t) \/ CommitSignup(t) \/ CommitSeed(t)
       \/ SignupFails(t)
  \/ \E e \in Emails : Verify(e) \/ Callback(e) \/ DeleteAccount(e)
  \/ \E c \in cookies : Logout(c)
  \/ \E on \in BOOLEAN : SetCodeActive(on)

AccountsSpec ==
  HandlersInit /\ AccountsInit /\ [][AccountsNext]_<<handlerVars, accountVars>>

-----------------------------------------------------------------------------
Joined == {e \in Emails : portalUsers[e] # None /\ portalUsers[e].coded}

(***************************************************************************)
(* The uses of a class code are written back from an earlier read.  They   *)
(* never exceed the rows that name the code; and unless a commit wrote     *)
(* over uses it had not seen, they are exact and the limit is kept,        *)
(* whatever failed or was overtaken by a login (signup_submit).            *)
(***************************************************************************)
CodeCount ==
  /\ classCode.uses <= Cardinality(Joined)
  /\ ~overwritten =>
       classCode.uses = Cardinality(Joined) /\ Cardinality(Joined) <= MaxUses

(***************************************************************************)
(* Whoever logged in is known afterwards: load_user finds, by the sub in   *)
(* the cookie, the row of the very address, however sign-up, adoption and  *)
(* seeding overlapped; unless the account of the address was deleted in    *)
(* Keycloak, after which a new one meets the old sub in the row.           *)
(***************************************************************************)
SessionLoads ==
  \A c \in cookies : c.email \notin recreated => Loads(c.sub) = {c.email}
=============================================================================
