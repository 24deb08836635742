------------------------------ MODULE Students ------------------------------
(***************************************************************************)
(* A student's own tenant (portal/app/provisioning.py, onboarding.py and   *)
(* scripts/provision_student.py), for one address: provisioned by a run    *)
(* that finds or creates one thing after another, repaired by a further    *)
(* run, made by the engine itself at a Keycloak login, and deleted.        *)
(*                                                                         *)
(* The engine keeps users' addresses and a tenant's device names unique,   *)
(* and nothing else.  A run holds no lock: what it did not find may be     *)
(* there by the time it creates it.                                        *)
(***************************************************************************)
EXTENDS Handlers

CONSTANT
  TenantIds    \* tenants titled with the address; one nothing refers to stands for
               \* a fresh one

VARIABLES
  profile,     \* the student profile: "none", "plain", "default"
  tenants,     \* the engine's tenants of that title
  studentRow   \* the portal's row: provisioning_state and tb_tenant_id

studentVars == <<profile, tenants, studentRow>>

TenantRecords ==
  [quotas : BOOLEAN, user : BOOLEAN, dashboard : BOOLEAN, device : BOOLEAN]
EmptyTenant(quotas) ==
  [quotas |-> quotas, user |-> FALSE, dashboard |-> FALSE, device |-> FALSE]

ASSUME StudentsAssumption == None \notin TenantIds /\ None \notin TenantRecords

Titled == {i \in TenantIds : tenants[i] # None}
HasUser(i) == i \in Titled /\ tenants[i].user
HasDevice(i) == i \in Titled /\ tenants[i].device
HasDashboard(i) == i \in Titled /\ tenants[i].dashboard
AddressTaken == \E i \in Titled : HasUser(i)
FreshTenants == {i \in TenantIds \ Titled : \A t \in Threads : At(t, "idle") \/ jobs[t].tenant # i}

\* no other run, deletion or login works on the address beside it
Spoil(except) ==
  [s \in Threads |-> IF s # except /\ ~At(s, "idle") THEN [jobs[s] EXCEPT !.alone = FALSE]
                     ELSE jobs[s]]

Moves(t, place) == jobs' = [jobs EXCEPT ![t].pc = place]
Takes(t, i, place) == Become(t, [jobs[t] EXCEPT !.pc = place, !.tenant = i])

-----------------------------------------------------------------------------
BeginRun(t) ==
  /\ At(t, "idle")
  /\ jobs' = [Spoil(t) EXCEPT ![t] =
       [pc |-> "profile", tenant |-> None, alone |-> \A s \in Threads \ {t} : At(s, "idle")]]
  /\ UNCHANGED <<studentVars, faults>>

\* ensure_student_profile: found and the default, or saved, then made default
EnsureProfile(t) ==
  /\ At(t, "profile")
  /\ IF profile = "default" THEN Moves(t, "tenant") /\ UNCHANGED profile
     ELSE Moves(t, "promote") /\ profile' = "plain"
  /\ UNCHANGED <<tenants, studentRow, faults>>

PromoteProfile(t) ==
  /\ At(t, "promote") /\ profile' = "default" /\ Moves(t, "tenant")
  /\ UNCHANGED <<tenants, studentRow, faults>>

\* ensure_tenant: found by title, and put on the profile if it is not ...
FindTenant(t) ==
  /\ At(t, "tenant")
  /\ \/ \E i \in Titled :
          tenants' = [tenants EXCEPT ![i].quotas = TRUE] /\ Takes(t, i, "user")
     \/ Titled = {} /\ Moves(t, "newtenant") /\ UNCHANGED tenants
  /\ UNCHANGED <<profile, studentRow, faults>>

\* ... or made, and made again when the answer is lost
SaveTenant(t) ==
  /\ At(t, "newtenant")
  /\ \E i, first \in FreshTenants :
       /\ IF i = first THEN UNCHANGED faults ELSE Fault
       /\ tenants' = [tenants EXCEPT ![i] = EmptyTenant(TRUE), ![first] = EmptyTenant(TRUE)]
       /\ Takes(t, i, "user")
  /\ UNCHANGED <<profile, studentRow>>

\* A variant for mutation: nobody looks for the user.
FindUserNot(t) ==
  At(t, "user") /\ Moves(t, "newuser") /\ UNCHANGED <<studentVars, faults>>

\* ensure_tenant_admin
FindUser(t) ==
  /\ At(t, "user")
  /\ Moves(t, IF HasUser(jobs[t].tenant) THEN "dashboard" ELSE "newuser")
  /\ UNCHANGED <<studentVars, faults>>

\* a refused call ends the run, and ensure_provisioned notes the failure; after
\* a lost answer the retry is refused
Fails(t) == Moves(t, "failing")
Breaks(t) == Fault /\ Become(t, [jobs[t] EXCEPT !.pc = "failing", !.alone = FALSE])

SaveUser(t) ==
  LET i == jobs[t].tenant IN
  /\ At(t, "newuser")
  /\ IF i \notin Titled \/ AddressTaken THEN Fails(t) /\ UNCHANGED <<tenants, faults>>
     ELSE /\ tenants' = [tenants EXCEPT ![i].user = TRUE]
          /\ (Moves(t, "dashboard") /\ UNCHANGED faults) \/ Breaks(t)
  /\ UNCHANGED <<profile, studentRow>>

\* the sessions of impersonate end with the user
FindDashboard(t) ==
  LET i == jobs[t].tenant IN
  /\ At(t, "dashboard")
  /\ IF ~HasUser(i) THEN Fails(t)
     ELSE Moves(t, IF HasDashboard(i) THEN "device" ELSE "newdashboard")
  /\ UNCHANGED <<studentVars, faults>>

\* runs that overlap, and a lost answer, leave copies; the first is as good
SaveDashboard(t) ==
  LET i == jobs[t].tenant IN
  /\ At(t, "newdashboard")
  /\ IF ~HasUser(i) THEN Fails(t) /\ UNCHANGED tenants
     ELSE Moves(t, "device") /\ tenants' = [tenants EXCEPT ![i].dashboard = TRUE]
  /\ UNCHANGED <<profile, studentRow, faults>>

FindDevice(t) ==
  LET i == jobs[t].tenant IN
  /\ At(t, "device")
  /\ IF ~HasUser(i) THEN Fails(t)
     ELSE Moves(t, IF HasDevice(i) THEN "record" ELSE "newdevice")
  /\ UNCHANGED <<studentVars, faults>>

SaveDevice(t) ==
  LET i == jobs[t].tenant IN
  /\ At(t, "newdevice")
  /\ IF ~HasUser(i) \/ HasDevice(i) THEN Fails(t) /\ UNCHANGED <<tenants, faults>>
     ELSE /\ tenants' = [tenants EXCEPT ![i].device = TRUE]
          /\ (Moves(t, "record") /\ UNCHANGED faults) \/ Breaks(t)
  /\ UNCHANGED <<profile, studentRow>>

\* ensure_provisioned's commit, after the device's credentials; a failure
\* leaves the tenant noted before
Record(t) ==
  LET ok == At(t, "record") IN
  /\ jobs[t].pc \in {"record", "failing"}
  /\ studentRow' = [state |-> IF ok THEN "provisioned" ELSE "failed",
                    tenant |-> IF ok THEN jobs[t].tenant ELSE studentRow.tenant]
  /\ Moves(t, IF ok THEN "ready" ELSE "failed") /\ UNCHANGED <<profile, tenants, faults>>

RunEnds(t) == jobs[t].pc \in {"ready", "failed"} /\ Finish(t) /\ UNCHANGED studentVars

\* killed, or any call failed for good
RunFails(t) ==
  /\ \/ Killed(t)
     \/ jobs[t].pc \notin {"idle", "failing", "ready", "failed"} /\ Breaks(t)
  /\ UNCHANGED studentVars

\* the engine's mapper at a Keycloak login: the tenant by title, then the user
MapperLogin ==
  /\ ~AddressTaken
  /\ \E i \in IF Titled = {} THEN FreshTenants ELSE Titled :
       tenants' = [tenants EXCEPT ![i] =
         [(IF @ = None THEN EmptyTenant(profile = "default") ELSE @) EXCEPT !.user = TRUE]]
  /\ jobs' = Spoil(None) /\ UNCHANGED <<profile, studentRow, faults>>

\* delete_student: the first tenant found, with all there is in it
DeleteStudent ==
  /\ \E i \in Titled : tenants' = [tenants EXCEPT ![i] = None]
  /\ jobs' = Spoil(None) /\ UNCHANGED <<profile, studentRow, faults>>

StudentsInit ==
  /\ profile = "none" /\ tenants = [i \in TenantIds |-> None]
  /\ studentRow = [state |-> "pending", tenant |-> None]

StudentsNext ==
  \/ MapperLogin \/ DeleteStudent
  \/ \E t \in Threads :
       \/ BeginRun(t) \/ EnsureProfile(t) \/ PromoteProfile(t) \/ FindTenant(t)
       \/ SaveTenant(t) \/ FindUser(t) \/ SaveUser(t) \/ FindDashboard(t)
       \/ SaveDashboard(t) \/ FindDevice(t) \/ SaveDevice(t) \/ Record(t)
       \/ RunEnds(t) \/ RunFails(t)

StudentsSpec ==
  HandlersInit /\ StudentsInit /\ [][StudentsNext]_<<handlerVars, studentVars>>

-----------------------------------------------------------------------------
(***************************************************************************)
(* "A partial failure is repaired by simply running again" (provisioning): *)
(* a run with nothing beside it and no failed call, whatever was left by   *)
(* killed runs and logins before, ends with a tenant that has its quotas,  *)
(* user, dashboard and device, named by the row; unless two tenants carry  *)
(* the title, when the run may pick the one without the user.              *)
(***************************************************************************)
RerunRepairs ==
  \A t \in Threads :
    (jobs[t].pc \in {"ready", "failed"} /\ jobs[t].alone /\ Cardinality(Titled) <= 1) =>
      LET i == jobs[t].tenant IN
      /\ At(t, "ready") /\ Titled = {i}
      /\ studentRow = [state |-> "provisioned", tenant |-> i]
      /\ tenants[i].quotas /\ HasUser(i) /\ HasDashboard(i) /\ HasDevice(i)
=============================================================================
