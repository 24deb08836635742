------------------------------- MODULE Panels -------------------------------
(***************************************************************************)
(* The live panel and the report of a project (portal/app/dashboard.py and *)
(* the routes panel and report of routers/projects.py).  All projects are  *)
(* on one tenant profile, so the device quota it sets is kept in one       *)
(* process-wide entry for ten minutes, whichever project's page fetched    *)
(* it; a project without devices leaves None there for all of them.        *)
(*                                                                         *)
(* Ages stop just past PanelLife: what is older is expired all the same.   *)
(***************************************************************************)
EXTENDS Handlers

CONSTANTS
  PanelProjects, \* projects with a page open
  PanelLife,     \* how long the quota is kept (600 s)
  Patience,      \* the longest a page looks for it: calls have timeouts and few attempts
  MaxQuota       \* bound on the quotas the profile has in turn

ASSUME PanelsAssumption ==
  /\ PanelLife \in Nat /\ Patience \in 0 .. PanelLife
  /\ MaxQuota \in Nat \ {0} /\ None \notin 1 .. MaxQuota

VARIABLES
  populated,     \* the engine: projects whose tenant has a device
  quota,         \* the engine: maxDevices of the profile, changed by an operator
  quotaCache,    \* _max_devices_cache: age of ts, and value
  quotaAge,      \* how long ago the profile last had each quota (a history)
  blankAge       \* how long ago a project was last without devices (a history)

panelVars == <<populated, quota, quotaCache, quotaAge, blankAge>>

Aged(n) == IF n > PanelLife THEN n ELSE n + 1

\* from the look at the entry's stamp to the reading of its value
Looking(t) == jobs[t].pc \in {"list", "fetch", "remember", "value"}
Noting(t) == Looking(t) /\ ~jobs[t].failed

-----------------------------------------------------------------------------
PanelTick ==
  /\ \A t \in Threads : Looking(t) => jobs[t].age < Patience
  /\ quotaCache' = [quotaCache EXCEPT !.age = Aged(@)]
  /\ quotaAge' = [q \in 1 .. MaxQuota |-> IF q = quota THEN 0 ELSE Aged(quotaAge[q])]
  /\ blankAge' = IF populated = PanelProjects THEN Aged(blankAge) ELSE 0
  /\ jobs' = [t \in Threads |-> IF Looking(t) THEN [jobs[t] EXCEPT !.age = @ + 1] ELSE jobs[t]]
  /\ UNCHANGED <<populated, quota, faults>>

\* pages under way see what is true from here on as recent (a history)
ChangeQuota ==
  /\ quota < MaxQuota /\ quota' = quota + 1
  /\ quotaAge' = [quotaAge EXCEPT ![quota + 1] = 0]
  /\ jobs' = [t \in Threads |-> IF Noting(t) THEN [jobs[t] EXCEPT !.recent = @ \cup {quota + 1}]
                                ELSE jobs[t]]
  /\ UNCHANGED <<populated, quotaCache, blankAge, faults>>

Populate(p) ==
  /\ p \notin populated /\ populated' = populated \cup {p}
  /\ UNCHANGED <<handlerVars, quota, quotaCache, quotaAge, blankAge>>

Depopulate(p) ==
  /\ p \in populated /\ populated' = populated \ {p} /\ blankAge' = 0
  /\ jobs' = [t \in Threads |-> IF Noting(t) THEN [jobs[t] EXCEPT !.blank = TRUE] ELSE jobs[t]]
  /\ UNCHANGED <<quota, quotaCache, quotaAge, faults>>

-----------------------------------------------------------------------------
(* dashboard_data, one call after the other.                               *)

OpenPanel(t, p) == Start(t, [pc |-> "query", project |-> p]) /\ UNCHANGED panelVars

\* the devices; without them the page is shown empty
QueryDevices(t) ==
  /\ At(t, "query")
  /\ Goto(t, "look") \/ (Fault /\ Become(t, Free))
  /\ UNCHANGED panelVars

Expired600(age) == age > PanelLife

Recent == {q \in 1 .. MaxQuota : q = quota \/ quotaAge[q] <= PanelLife}

\* the clock is read and the entry's stamp is looked at
LookForQuota(t) ==
  /\ At(t, "look")
  /\ Become(t, [pc |-> IF Expired600(quotaCache.age) THEN "list" ELSE "value",
                project |-> jobs[t].project, age |-> 0, quota |-> None, failed |-> FALSE,
                recent |-> Recent, blank |-> populated # PanelProjects \/ blankAge <= PanelLife])
  /\ UNCHANGED <<panelVars, faults>>

\* the page then shows a quota of any age, and needs no history
GivesUp(t) ==
  /\ Fault
  /\ Become(t, [jobs[t] EXCEPT !.pc = "value", !.failed = TRUE, !.recent = {}, !.blank = FALSE])

\* the project's tenant is taken from its first device
ListOwn(t) ==
  /\ At(t, "list")
  /\ \/ Goto(t, IF jobs[t].project \in populated THEN "fetch" ELSE "remember")
     \/ GivesUp(t)
  /\ UNCHANGED panelVars

\* _max_devices: the tenant, then the profiles
FetchQuota(t) ==
  /\ At(t, "fetch")
  /\ \/ Become(t, [jobs[t] EXCEPT !.pc = "remember", !.quota = quota]) /\ UNCHANGED faults
     \/ GivesUp(t)
  /\ UNCHANGED panelVars

\* A variant for mutation: the stamp is taken when the quota is stored.
RememberFromNow(t) ==
  /\ At(t, "remember") /\ Goto(t, "value")
  /\ quotaCache' = [age |-> 0, value |-> jobs[t].quota]
  /\ UNCHANGED <<populated, quota, quotaAge, blankAge>>

\* stamped with the clock as it was read before the calls
Remember(t) ==
  /\ At(t, "remember") /\ Goto(t, "value")
  /\ quotaCache' = [age |-> jobs[t].age, value |-> jobs[t].quota]
  /\ UNCHANGED <<populated, quota, quotaAge, blankAge>>

\* whatever is in the entry by now
ReadQuota(t) ==
  /\ At(t, "value")
  /\ Become(t, [jobs[t] EXCEPT !.pc = "rest", !.quota = quotaCache.value, !.age = 0])
  /\ UNCHANGED <<panelVars, faults>>

\* alarms, a chart if a device has one, and the report's history: each is left
\* out when its call fails
ShowPanel(t) == At(t, "rest") /\ Finish(t) /\ UNCHANGED panelVars

\* the page says unavailable
PanelFails(t) == Killed(t) /\ UNCHANGED panelVars

PanelsInit ==
  /\ populated = PanelProjects /\ quota = 1
  /\ quotaCache = [age |-> PanelLife + 1, value |-> None]
  /\ quotaAge = [q \in 1 .. MaxQuota |-> IF q = 1 THEN 0 ELSE PanelLife + 1]
  /\ blankAge = PanelLife + 1

PanelsNext ==
  \/ PanelTick \/ ChangeQuota
  \/ \E p \in PanelProjects : Populate(p) \/ Depopulate(p) \/ \E t \in Threads : OpenPanel(t, p)
  \/ \E t \in Threads :
       \/ QueryDevices(t) \/ LookForQuota(t) \/ ListOwn(t) \/ FetchQuota(t) \/ Remember(t)
       \/ ReadQuota(t) \/ ShowPanel(t) \/ PanelFails(t)

PanelsSpec == HandlersInit /\ PanelsInit /\ [][PanelsNext]_<<handlerVars, panelVars>>

-----------------------------------------------------------------------------
(***************************************************************************)
(* A page whose own calls did not fail shows a quota that the profile had  *)
(* while the page was made or at most ten minutes before it looked,        *)
(* however the pages of all projects interleave on the one entry; and it   *)
(* shows none only if some project, not necessarily its own, was without   *)
(* devices in that time (dashboard_data).                                  *)
(***************************************************************************)
QuotaExplained ==
  \A t \in Threads :
    (At(t, "rest") /\ ~jobs[t].failed) =>
      IF jobs[t].quota = None THEN jobs[t].blank ELSE jobs[t].quota \in jobs[t].recent
=============================================================================
