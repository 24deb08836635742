------------------------------- MODULE Staff --------------------------------
(***************************************************************************)
(* Platform roles in three places: the portal's row and Keycloak's realm   *)
(* roles, which portal/scripts/grant_role.py keeps together, and Grafana's *)
(* organisation, which reconcile_grafana.py brings in line with Keycloak.  *)
(* Nothing is atomic across them.  Someone who logs in to Grafana gets the *)
(* role Keycloak gives at that moment, or is turned away.                  *)
(***************************************************************************)
EXTENDS Handlers, Sequences

CONSTANT
  Staff        \* portal users, with an account in Keycloak each; none has one of
               \* the Grafana logins that are preserved

ASSUME StaffAssumption == None \notin {"Admin", "Viewer"}

VARIABLES
  portalRole,  \* PortalUser.role
  realmRoles,  \* Keycloak: the platform roles of each
  enabled,     \* Keycloak: accounts that are enabled
  orgRole,     \* Grafana: role in the organisation, or None
  sessions,    \* Grafana: the roles each one's open sessions began with, one or
               \* more of them for each device or browser
  unrevoked,   \* whose logout was lost or not reached since the last one (a history)
  lowered      \* whose own login lowered the role since then (a history)

staffVars == <<portalRole, realmRoles, enabled, orgRole, sessions, unrevoked, lowered>>
causes == <<unrevoked, lowered>>

Roles == {"student", "instructor", "admin"}
PLATFORM_ROLES == <<"platform-admin", "platform-instructor">>
RealmRole(role) ==
  CASE role = "admin" -> "platform-admin"
    [] role = "instructor" -> "platform-instructor"
    [] OTHER -> "none"

\* target_role, and Grafana's role_attribute_path at a login
TargetRole(u) ==
  IF u \notin enabled THEN None
  ELSE IF "platform-admin" \in realmRoles[u] THEN "Admin"
  ELSE IF "platform-instructor" \in realmRoles[u] THEN "Viewer" ELSE None

Rank(role) == CASE role = "Admin" -> 3 [] role = "Viewer" -> 1 [] OTHER -> 0

\* everyone's work on u is no longer alone, t's is while nobody else is at it
Unsettle(t, us) ==
  [s \in Threads |-> IF s # t /\ jobs[s].pc # "idle" /\ jobs[s].us \cap us # {}
                     THEN [jobs[s] EXCEPT !.alone = FALSE] ELSE jobs[s]]
Beside(t, us) == \E s \in Threads \ {t} : jobs[s].pc # "idle" /\ jobs[s].us \cap us # {}

-----------------------------------------------------------------------------
(* grant_role: the portal's row first, then each realm role in turn.       *)

Grant(t, u, role) ==
  /\ At(t, "idle")
  /\ portalRole' = [portalRole EXCEPT ![u] = role]
  /\ jobs' = [Unsettle(t, {u}) EXCEPT ![t] =
       [pc |-> "sync", us |-> {u}, next |-> 1, want |-> RealmRole(role),
        alone |-> ~Beside(t, {u})]]
  /\ UNCHANGED <<realmRoles, enabled, orgRole, sessions, causes, faults>>

\* A variant for mutation: the wanted role is given, the others stay.
SyncRoleKeeping(t) ==
  /\ At(t, "sync")
  /\ LET j == jobs[t]
         name == PLATFORM_ROLES[j.next]
         place == IF j.next = Len(PLATFORM_ROLES) THEN "granted" ELSE "sync"
     IN \E u \in j.us :
       /\ jobs' = [jobs EXCEPT ![t].pc = place, ![t].next = @ + 1]
       /\ realmRoles' = [realmRoles EXCEPT ![u] = IF name = j.want THEN @ \cup {name} ELSE @]
       /\ UNCHANGED faults
  /\ UNCHANGED <<portalRole, enabled, orgRole, sessions, causes>>

\* sync_keycloak_role, one role: POST the wanted one, DELETE another.  An error
\* answer to the DELETE is not looked at; any other failure, a lost answer among
\* them, ends the loop and is reported only.
SyncRole(t) ==
  /\ At(t, "sync")
  /\ LET j == jobs[t]
         name == PLATFORM_ROLES[j.next]
         place == IF j.next = Len(PLATFORM_ROLES) THEN "granted" ELSE "sync"
         synced(u) == [realmRoles EXCEPT ![u] =
                         IF name = j.want THEN @ \cup {name} ELSE @ \ {name}]
         goes(to, alone) ==
           Become(t, [j EXCEPT !.pc = to, !.next = @ + 1, !.alone = alone])
     IN \E u \in j.us :
       \/ realmRoles' = synced(u) /\ goes(place, j.alone) /\ UNCHANGED faults
       \/ /\ Fault /\ realmRoles' \in {realmRoles, synced(u)}
          /\ \/ goes("granted", FALSE)
             \/ name # j.want /\ goes(place, FALSE)
  /\ UNCHANGED <<portalRole, enabled, orgRole, sessions, causes>>

-----------------------------------------------------------------------------
(* Keycloak's console, and logins to Grafana.                              *)

SetEnabled(u, on) ==
  /\ enabled' = IF on THEN enabled \cup {u} ELSE enabled \ {u}
  /\ jobs' = Unsettle(None, {u})
  /\ UNCHANGED <<portalRole, realmRoles, orgRole, sessions, causes, faults>>

\* on one more device: what is open elsewhere stays open
LogIn(u) ==
  /\ TargetRole(u) # None
  /\ orgRole' = [orgRole EXCEPT ![u] = TargetRole(u)]
  /\ sessions' = [sessions EXCEPT ![u] = @ \cup {TargetRole(u)}]
  /\ lowered' = IF Rank(TargetRole(u)) < Rank(orgRole[u]) THEN lowered \cup {u} ELSE lowered
  /\ jobs' = Unsettle(None, {u})
  /\ UNCHANGED <<portalRole, realmRoles, enabled, unrevoked, faults>>

-----------------------------------------------------------------------------
(* reconcile_grafana --apply.                                              *)

\* org_users
ListOrg(t) ==
  /\ At(t, "idle")
  /\ LET us == {u \in Staff : orgRole[u] # None} IN
     jobs' = [jobs EXCEPT ![t] =
       [pc |-> "plan", us |-> us, listed |-> {<<u, orgRole[u]>> : u \in us}, plan |-> {},
        alone |-> ~Beside(t, us)]]
  /\ UNCHANGED <<staffVars, faults>>

\* build_plan, for one user of the list: resolve, target_role, the action
PlanUser(t, u) ==
  /\ At(t, "plan")
  /\ \E was \in {l \in jobs[t].listed : l[1] = u} :
       Become(t, [jobs[t] EXCEPT !.listed = @ \ {was},
         !.plan = IF was[2] = TargetRole(u) THEN @ ELSE @ \cup {<<u, was[2], TargetRole(u)>>}])
  /\ UNCHANGED <<staffVars, faults>>

\* set_role or remove_from_org for an entry of the plan; refused, and the
\* batch given up, when another run has removed the user
ApplyRole(t) ==
  /\ At(t, "plan") /\ jobs[t].listed = {}
  /\ \E p \in jobs[t].plan :
       IF orgRole[p[1]] = None THEN Become(t, Free) /\ UNCHANGED orgRole
       ELSE /\ orgRole' = [orgRole EXCEPT ![p[1]] = p[3]]
            /\ Become(t, [jobs[t] EXCEPT !.plan = @ \ {p},
                 !.listed = IF Rank(p[3]) < Rank(p[2]) THEN {p[1]} ELSE {},
                 !.pc = IF Rank(p[3]) < Rank(p[2]) THEN "revoke" ELSE "plan"])
  /\ UNCHANGED <<portalRole, realmRoles, enabled, sessions, causes, faults>>

PlanDone(t) ==
  /\ At(t, "plan") /\ jobs[t].listed = {} /\ jobs[t].plan = {}
  /\ Goto(t, "reconciled") /\ UNCHANGED staffVars

\* out of all devices
Revoke(us) ==
  /\ sessions' = [u \in Staff |-> IF u \in us THEN {} ELSE sessions[u]]
  /\ unrevoked' = unrevoked \ us /\ lowered' = lowered \ us

\* A variant for mutation: only who leaves the organisation is logged out.
RevokeRemoved(t) ==
  /\ At(t, "revoke") /\ Revoke({u \in jobs[t].listed : orgRole[u] = None})
  /\ Become(t, [jobs[t] EXCEPT !.pc = "plan", !.listed = {}])
  /\ UNCHANGED <<portalRole, realmRoles, enabled, orgRole, faults>>

\* revoke_sessions, whose answer is not looked at
RevokeSessions(t) ==
  /\ At(t, "revoke")
  /\ \/ Revoke(jobs[t].listed) /\ UNCHANGED faults
     \/ /\ Fault /\ unrevoked' = unrevoked \cup jobs[t].listed
        /\ UNCHANGED <<sessions, lowered>>
  /\ Become(t, [jobs[t] EXCEPT !.pc = "plan", !.listed = {}])
  /\ UNCHANGED <<portalRole, realmRoles, enabled, orgRole>>

\* a failed call raises, an interruption stops it: the rest is not done
StaffFails(t) ==
  /\ Killed(t)
  /\ unrevoked' = IF At(t, "revoke") THEN unrevoked \cup jobs[t].listed ELSE unrevoked
  /\ UNCHANGED <<portalRole, realmRoles, enabled, orgRole, sessions, lowered>>

StaffEnds(t) ==
  jobs[t].pc \in {"granted", "reconciled"} /\ Finish(t) /\ UNCHANGED staffVars

StaffInit ==
  /\ portalRole = [u \in Staff |-> "student"]
  /\ realmRoles = [u \in Staff |-> {}]
  /\ enabled = Staff
  /\ orgRole = [u \in Staff |-> None]
  /\ sessions = [u \in Staff |-> {}]
  /\ unrevoked = {} /\ lowered = {}

StaffNext ==
  \/ \E t \in Threads, u \in Staff : PlanUser(t, u) \/ \E r \in Roles : Grant(t, u, r)
  \/ \E u \in Staff : LogIn(u) \/ \E on \in BOOLEAN : SetEnabled(u, on)
  \/ \E t \in Threads :
       \/ SyncRole(t) \/ ListOrg(t) \/ ApplyRole(t) \/ PlanDone(t) \/ RevokeSessions(t)
       \/ StaffFails(t) \/ StaffEnds(t)

StaffSpec ==
  HandlersInit /\ StaffInit /\ [][StaffNext]_<<handlerVars, staffVars>>

-----------------------------------------------------------------------------
(***************************************************************************)
(* A grant during which no other one touched the user, and in which no     *)
(* call failed, leaves Keycloak with exactly the realm role of the         *)
(* portal's role, whatever broken grants had left there before; and so     *)
(* does a reconciliation leave everyone it listed with the Grafana role    *)
(* that Keycloak calls for (sync_keycloak_role, build_plan).               *)
(***************************************************************************)
AloneRunAgrees ==
  \A t \in {t \in Threads : jobs[t].pc \in {"granted", "reconciled"}} :
    jobs[t].alone => \A u \in jobs[t].us :
      IF At(t, "granted") THEN realmRoles[u] = {RealmRole(portalRole[u])} \ {"none"}
      ELSE orgRole[u] = TargetRole(u)

(***************************************************************************)
(* No Grafana session outlives a demotion by a reconciliation: one that    *)
(* began with more than the user's present role in the organisation is     *)
(* about to be revoked, on whatever device it is.  Two things leave one    *)
(* open, and both stay until the user is demoted once more, because every  *)
(* later run finds the role in place, or the user gone from the list, and  *)
(* plans nothing (build_plan): the call that revokes was lost or never     *)
(* reached; or Keycloak's role was lowered and the user logged in on       *)
(* another device before the run, which lowers the role without logging    *)
(* out the first.                                                          *)
(***************************************************************************)
Outranking(u) == {r \in sessions[u] : Rank(r) > Rank(orgRole[u])}

DemotedLoggedOut ==
  \A u \in Staff :
    Outranking(u) # {} =>
      \/ u \in unrevoked \cup lowered
      \/ \E t \in Threads : At(t, "revoke") /\ u \in jobs[t].listed
=============================================================================
