---------------------------- MODULE ProjectAccess ----------------------------
(***************************************************************************)
(* What the portal promises about who may enter a project, without rows,   *)
(* handlers or the engine: a project is founded once, by one user, who     *)
(* stays its owner until it is closed for good; everybody else gets in     *)
(* only with the owner's consent (an invite, or an approved request), and  *)
(* the owner may suspend, resume and expel them.                           *)
(***************************************************************************)
EXTENDS Naturals

CONSTANTS Projects, Users

VARIABLES
  phase,    \* "new" until founded, then "open", then "closed"
  access,   \* what each user is in each project
  consent   \* pairs <<project, user>> the owner has let in

accessVars == <<phase, access, consent>>

AccessTypeOK ==
  /\ phase \in [Projects -> {"new", "open", "closed"}]
  /\ access \in [Projects -> [Users -> {"none", "owner", "active", "disabled"}]]
  /\ consent \subseteq Projects \X Users

Nobody == [u \in Users |-> "none"]

AccessInit ==
  /\ phase = [p \in Projects |-> "new"]
  /\ access = [p \in Projects |-> Nobody]
  /\ consent = {}

Found(p, u) ==
  /\ phase[p] = "new"
  /\ phase' = [phase EXCEPT ![p] = "open"]
  /\ access' = [access EXCEPT ![p] = [Nobody EXCEPT ![u] = "owner"]]
  /\ UNCHANGED consent

Close(p) ==
  /\ phase[p] # "closed"
  /\ phase' = [phase EXCEPT ![p] = "closed"]
  /\ access' = [access EXCEPT ![p] = Nobody]
  /\ consent' = {c \in consent : c[1] # p}

Agree(p, u) ==
  /\ phase[p] = "open"
  /\ consent' = consent \cup {<<p, u>>}
  /\ UNCHANGED <<phase, access>>

Withdraw(p, u) ==
  /\ consent' = consent \ {<<p, u>>}
  /\ UNCHANGED <<phase, access>>

Admit(p, u) ==
  /\ phase[p] = "open" /\ <<p, u>> \in consent
  /\ access[p][u] \in {"none", "disabled"}
  /\ access' = [access EXCEPT ![p][u] = "active"]
  /\ UNCHANGED <<phase, consent>>

Turn(p, u, from, to) ==
  /\ phase[p] = "open" /\ access[p][u] \in from
  /\ access' = [access EXCEPT ![p][u] = to]
  /\ UNCHANGED <<phase, consent>>

Suspend(p, u) == Turn(p, u, {"active"}, "disabled")
Resume(p, u)  == Turn(p, u, {"disabled"}, "active")
Expel(p, u)   == Turn(p, u, {"active", "disabled"}, "none")

AccessNext ==
  \E p \in Projects :
    \/ Close(p)
    \/ \E u \in Users :
         \/ Found(p, u) \/ Agree(p, u) \/ Withdraw(p, u)
         \/ Admit(p, u) \/ Suspend(p, u) \/ Resume(p, u) \/ Expel(p, u)

AccessSpec == AccessInit /\ [][AccessNext]_accessVars
=============================================================================
