---------------------------- MODULE PeopleProofs ----------------------------
(***************************************************************************)
(* Proofs about people in the services: platform roles (Staff), accounts   *)
(* and sessions (Accounts), students' tenants (Students). Each of the      *)
(* three is a specification of its own, and its properties follow from an  *)
(* inductive invariant that says how far each handler has come and what    *)
(* it still knows.                                                         *)
(***************************************************************************)
EXTENDS Staff, Accounts, Students, FiniteSetTheorems, TLAPS

-----------------------------------------------------------------------------
(* Platform roles (module Staff).                                          *)

OrgRoles == {"Admin", "Viewer"}
RealmRoleNames == {PLATFORM_ROLES[1], PLATFORM_ROLES[2]}

Granting == {"sync", "granted"}
Reconciling == {"plan", "revoke", "reconciled"}

\* the locals of grant_role and of reconcile_grafana
GrantJob(j) ==
  /\ j.pc \in Granting /\ j.alone \in BOOLEAN
  /\ \E u \in Staff : j.us = {u}
  /\ j.next \in 1 .. 3 /\ (j.pc = "sync" => j.next # 3)

PlanFits(plan, us) ==
  \A p \in plan : \E u \in us, was \in OrgRoles, to \in OrgRoles \cup {None} :
    p = <<u, was, to>> /\ was # to

ListFits(listed, us) ==
  \A l \in listed : \E u \in us, was \in OrgRoles : l = <<u, was>>

ReconcileJob(j) ==
  /\ j.pc \in Reconciling /\ j.alone \in BOOLEAN /\ j.us \subseteq Staff
  /\ PlanFits(j.plan, j.us)
  /\ j.pc = "plan" => ListFits(j.listed, j.us)
  /\ j.pc = "revoke" => j.listed \subseteq Staff
  /\ j.pc = "reconciled" => j.plan = {}

StaffJob(j) ==
  \/ j = Free
  \/ GrantJob(j) /\ DOMAIN j = {"pc", "us", "next", "want", "alone"}
  \/ ReconcileJob(j) /\ DOMAIN j = {"pc", "us", "listed", "plan", "alone"}

StaffTypes ==
  /\ jobs = [t \in Threads |-> jobs[t]]
  /\ \A t \in Threads : StaffJob(jobs[t])
  /\ realmRoles \in [Staff -> SUBSET RealmRoleNames]
  /\ portalRole \in [Staff -> Roles]
  /\ orgRole \in [Staff -> OrgRoles \cup {None}]
  /\ sessions \in [Staff -> SUBSET OrgRoles]

LEMMA Ranks == /\ Rank("Admin") = 3 /\ Rank("Viewer") = 1 /\ Rank(None) = 0
<1>1. Rank("Admin") = 3
  BY Zenon DEF Rank
<1>2. Rank("Viewer") = 1
  BY Zenon DEF Rank
<1>3. Rank(None) = 0
  <2>1. None # "Admin" /\ None # "Viewer"
    BY StaffAssumption
  <2> QED BY <2>1, Zenon DEF Rank
<1> QED BY <1>1, <1>2, <1>3

LEMMA Targets == \A u : TargetRole(u) \in OrgRoles \cup {None}
<1> TAKE u
<1>1. TargetRole(u) = None \/ TargetRole(u) = "Admin" \/ TargetRole(u) = "Viewer"
  BY DEF TargetRole
<1> QED BY <1>1 DEF OrgRoles

LEMMA RealmRoleIs == \A r : RealmRole(r) \in RealmRoleNames \cup {"none"}
<1> TAKE r
<1>1. RealmRole(r) = "platform-admin" \/ RealmRole(r) = "platform-instructor" \/ RealmRole(r) = "none"
  BY Zenon DEF RealmRole
<1> QED BY <1>1 DEF RealmRoleNames, PLATFORM_ROLES

\* Unsettle changes nothing but the mark.
LEMMA Unsettled ==
  ASSUME StaffTypes, NEW t, NEW us, NEW s \in Threads
  PROVE  LET j == jobs[s]
             k == Unsettle(t, us)[s]
         IN /\ StaffJob(k) /\ k.pc = j.pc
            /\ j.pc # "idle" => /\ k.us = j.us
                                /\ k.alone => j.alone /\ (s = t \/ j.us \cap us = {})
            /\ j.pc \in Granting => k.next = j.next /\ k.want = j.want
            /\ j.pc \in Reconciling => k.listed = j.listed /\ k.plan = j.plan
<1> DEFINE j == jobs[s]
           k == Unsettle(t, us)[s]
           l == [j EXCEPT !.alone = FALSE]
<1>1. StaffJob(j)
  BY DEF StaffTypes
<1>2. k = IF s # t /\ j.pc # "idle" /\ j.us \cap us # {} THEN l ELSE j
  BY DEF Unsettle
<1>3. CASE j = Free
  <2>1. j.pc = "idle"
    BY <1>3 DEF Free
  <2> QED BY <1>1, <1>2, <2>1 DEF Granting, Reconciling
<1>4. CASE GrantJob(j) /\ DOMAIN j = {"pc", "us", "next", "want", "alone"}
  <2>1. /\ DOMAIN l = DOMAIN j /\ l.pc = j.pc /\ l.us = j.us /\ l.next = j.next /\ l.want = j.want
        /\ l.alone = FALSE
    BY <1>4
  <2> HIDE DEF l
  <2>2. GrantJob(l)
    BY <1>4, <2>1 DEF GrantJob
  <2> QED BY <1>2, <1>4, <2>1, <2>2 DEF StaffJob, GrantJob, Granting, Reconciling
<1>5. CASE ReconcileJob(j) /\ DOMAIN j = {"pc", "us", "listed", "plan", "alone"}
  <2>1. /\ DOMAIN l = DOMAIN j /\ l.pc = j.pc /\ l.us = j.us /\ l.listed = j.listed /\ l.plan = j.plan
        /\ l.alone = FALSE
    BY <1>5
  <2> HIDE DEF l
  <2>2. ReconcileJob(l)
    BY <1>5, <2>1 DEF ReconcileJob
  <2> QED BY <1>2, <1>5, <2>1, <2>2 DEF StaffJob, ReconcileJob, Granting, Reconciling
<1> QED
  BY <1>1, <1>3, <1>4, <1>5 DEF StaffJob

LEMMA JobMoved ==
  ASSUME StaffTypes, NEW t \in Threads, NEW k, jobs' = [jobs EXCEPT ![t] = k], StaffJob(k)
  PROVE  /\ jobs' = [s \in Threads |-> jobs'[s]] /\ \A s \in Threads : StaffJob(jobs[s])'
         /\ jobs'[t] = k /\ \A s \in Threads \ {t} : jobs'[s] = jobs[s]
<1>1. /\ jobs' = [s \in Threads |-> jobs'[s]]
      /\ jobs'[t] = k /\ \A s \in Threads \ {t} : jobs'[s] = jobs[s]
  BY DEF StaffTypes
<1>2. \A s \in Threads : StaffJob(jobs'[s])
  BY <1>1 DEF StaffTypes
<1>3. ASSUME NEW s \in Threads PROVE StaffJob(jobs[s])'
  BY <1>2 DEF StaffJob, GrantJob, ReconcileJob, PlanFits, ListFits, Free
<1> QED
  BY <1>1, <1>3

\* Places and what is kept there.
LEMMA JobShape ==
  ASSUME StaffTypes, NEW t \in Threads
  PROVE  /\ jobs[t].pc = "idle" => jobs[t] = Free
         /\ jobs[t].pc \in Granting =>
              GrantJob(jobs[t]) /\ DOMAIN jobs[t] = {"pc", "us", "next", "want", "alone"}
         /\ jobs[t].pc \in Reconciling =>
              ReconcileJob(jobs[t]) /\ DOMAIN jobs[t] = {"pc", "us", "listed", "plan", "alone"}
         /\ jobs[t].pc \in {"idle"} \cup Granting \cup Reconciling
         /\ jobs[t].pc # "idle" => jobs[t].us \subseteq Staff
<1>1. StaffJob(jobs[t])
  BY DEF StaffTypes
<1>2. Free.pc = "idle"
  BY DEF Free
<1> QED
  BY <1>1, <1>2 DEF StaffJob, GrantJob, ReconcileJob, Granting, Reconciling

\* sync_keycloak_role, for one role name
SyncedTo(u, name, want) ==
  [realmRoles EXCEPT ![u] = IF name = want THEN @ \cup {name} ELSE @ \ {name}]

LEMMA SyncStep ==
  ASSUME StaffTypes, NEW t \in Threads, SyncRole(t)
  PROVE  LET j == jobs[t]
             name == PLATFORM_ROLES[j.next]
             k == jobs'[t]
         IN /\ GrantJob(j) /\ j.pc = "sync"
            /\ \A s \in Threads \ {t} : jobs'[s] = jobs[s]
            /\ jobs' = [s \in Threads |-> jobs'[s]]
            /\ StaffJob(k) /\ k.pc \in Granting /\ k.us = j.us /\ k.want = j.want /\ k.next = j.next + 1
            /\ k.alone => /\ j.alone /\ (k.pc = "granted" <=> k.next = 3)
                          /\ \A u \in j.us : realmRoles' = SyncedTo(u, name, j.want)
            /\ \E u \in j.us : realmRoles' = realmRoles \/ realmRoles' = SyncedTo(u, name, j.want)
<1> DEFINE j == jobs[t]
           name == PLATFORM_ROLES[j.next]
           place == IF j.next = Len(PLATFORM_ROLES) THEN "granted" ELSE "sync"
           moved(to, alone) == [j EXCEPT !.pc = to, !.next = @ + 1, !.alone = alone]
<1>1. GrantJob(j) /\ j.pc = "sync" /\ DOMAIN j = {"pc", "us", "next", "want", "alone"}
  BY JobShape DEF SyncRole, At, Granting
<1>2. PICK u \in j.us :
        \/ realmRoles' = SyncedTo(u, name, j.want) /\ jobs' = [jobs EXCEPT ![t] = moved(place, j.alone)]
        \/ /\ realmRoles' \in {realmRoles, SyncedTo(u, name, j.want)}
           /\ \E to \in {"granted", place} : jobs' = [jobs EXCEPT ![t] = moved(to, FALSE)]
  BY DEF SyncRole, SyncedTo, Become
<1>3. Len(PLATFORM_ROLES) = 2
  BY DEF PLATFORM_ROLES
<1>4. \A to, alone :
        /\ DOMAIN moved(to, alone) = DOMAIN j /\ moved(to, alone).pc = to
        /\ moved(to, alone).us = j.us /\ moved(to, alone).want = j.want
        /\ moved(to, alone).next = j.next + 1 /\ moved(to, alone).alone = alone
  BY <1>1
<1> HIDE DEF moved
<1>5. \A alone \in BOOLEAN, to \in {"granted", place} : GrantJob(moved(to, alone)) /\ StaffJob(moved(to, alone))
  BY <1>1, <1>3, <1>4 DEF StaffJob, GrantJob, Granting
<1>6. \E to \in {"granted", place}, alone \in BOOLEAN :
        /\ jobs' = [jobs EXCEPT ![t] = moved(to, alone)]
        /\ alone => j.alone /\ to = place /\ realmRoles' = SyncedTo(u, name, j.want)
  BY <1>1, <1>2 DEF GrantJob
<1>7. PICK to \in {"granted", place}, alone \in BOOLEAN :
        /\ jobs' = [jobs EXCEPT ![t] = moved(to, alone)]
        /\ alone => j.alone /\ to = place /\ realmRoles' = SyncedTo(u, name, j.want)
  BY <1>6
<1> DEFINE k == moved(to, alone)
<1>8. /\ jobs' = [s \in Threads |-> jobs'[s]]
      /\ jobs'[t] = k /\ \A s \in Threads \ {t} : jobs'[s] = jobs[s]
  BY <1>5, <1>7, JobMoved
<1>9. StaffJob(k) /\ k.pc \in Granting /\ k.us = j.us /\ k.want = j.want /\ k.next = j.next + 1 /\ k.alone = alone /\ k.pc = to
  BY <1>4, <1>5 DEF Granting
<1>10. alone => (to = "granted" <=> j.next + 1 = 3)
  BY <1>1, <1>3, <1>7 DEF GrantJob
<1>11. \A v \in j.us : v = u
  BY <1>1 DEF GrantJob
<1> QED
  BY <1>1, <1>2, <1>7, <1>8, <1>9, <1>10, <1>11

\* What a run that is alone may rely on.  A reconciliation may begin beside it
\* unnoticed, but only plans what Keycloak calls for, as it does itself.
Reached(j, u) ==
  \/ orgRole[u] = TargetRole(u)
  \/ \E p \in j.plan : p[1] = u
  \/ j.pc = "plan" /\ <<u, orgRole[u]>> \in j.listed

Agrees(j) ==
  j.pc \in Reconciling =>
    /\ \A p \in j.plan : p[3] = TargetRole(p[1])
    /\ \A u \in j.us : Reached(j, u)

Settled(j) ==
  j.pc \in Granting =>
    /\ j.pc = "granted" => j.next = 3
    /\ \A u \in j.us :
         /\ j.want = RealmRole(portalRole[u])
         /\ \A i \in 1 .. 2 : i < j.next =>
              (PLATFORM_ROLES[i] \in realmRoles[u] <=> PLATFORM_ROLES[i] = j.want)

Yields(j, k) ==
  /\ k.pc \in Reconciling
  /\ j.pc \in Reconciling => \A p \in k.plan : p[1] \in j.us => p[3] = TargetRole(p[1])

AloneAt(s) ==
  /\ Agrees(jobs[s]) /\ Settled(jobs[s])
  /\ \A t \in Threads \ {s} :
       jobs[t].pc # "idle" /\ jobs[s].us \cap jobs[t].us # {} => Yields(jobs[s], jobs[t])

AloneInv == \A s \in Threads : jobs[s].pc # "idle" /\ jobs[s].alone => AloneAt(s)

\* One run moves, and Keycloak stays as it is.
LEMMA AloneStep ==
  ASSUME StaffTypes, AloneInv, NEW t \in Threads, NEW k,
         jobs' = [jobs EXCEPT ![t] = k], StaffJob(k), UNCHANGED <<portalRole, realmRoles, enabled>>,
         \/ k = Free
         \/ /\ jobs[t].pc \in Reconciling /\ k.pc \in Reconciling
            /\ k.us = jobs[t].us /\ k.alone = jobs[t].alone
            /\ \A p \in k.plan : p \in jobs[t].plan \/ p[3] = TargetRole(p[1])
            /\ k.alone => \A u \in k.us : orgRole'[u] = TargetRole(u)
                            \/ (\E p \in k.plan : p[1] = u)
                            \/ (k.pc = "plan" /\ <<u, orgRole'[u]>> \in k.listed),
         \A u \in Staff :
           \/ orgRole'[u] = orgRole[u]
           \/ /\ jobs[t].pc \in Reconciling /\ u \in jobs[t].us
              /\ \E p \in jobs[t].plan : p[1] = u /\ orgRole'[u] = p[3]
  PROVE  AloneInv'
<1>1. jobs'[t] = k /\ \A s \in Threads \ {t} : jobs'[s] = jobs[s]
  BY JobMoved
<1>2. \A u : TargetRole(u)' = TargetRole(u)
  BY DEF TargetRole
<1>3. Free.pc = "idle"
  BY DEF Free
<1>4. ASSUME NEW s \in Threads, jobs'[s].pc # "idle", jobs'[s].alone PROVE AloneAt(s)'
  <2>1. CASE s = t
    <3>1. /\ jobs[t].pc \in Reconciling /\ k.pc \in Reconciling
          /\ k.us = jobs[t].us /\ k.alone /\ jobs[t].alone
          /\ \A p \in k.plan : p \in jobs[t].plan \/ p[3] = TargetRole(p[1])
          /\ \A u \in k.us : orgRole'[u] = TargetRole(u)
               \/ (\E p \in k.plan : p[1] = u)
               \/ (k.pc = "plan" /\ <<u, orgRole'[u]>> \in k.listed)
          /\ jobs'[s] = k
      BY <1>1, <1>3, <1>4, <2>1
    <3>2. AloneAt(t) /\ jobs[t].pc # "idle"
      BY <3>1 DEF AloneInv, Reconciling
    <3>3. Agrees(jobs[s])'
      <4>1. \A u \in k.us : Reached(jobs[s], u)'
        BY <1>2, <3>1 DEF Reached
      <4>2. \A p \in k.plan : p[3] = TargetRole(p[1])
        BY <3>1, <3>2 DEF AloneAt, Agrees
      <4> QED BY <1>2, <3>1, <4>1, <4>2 DEF Agrees
    <3>4. Settled(jobs[s])'
      BY <3>1 DEF Settled, Granting, Reconciling
    <3>5. ASSUME NEW x \in Threads \ {s}, jobs'[x].pc # "idle", jobs'[s].us \cap jobs'[x].us # {}
          PROVE  Yields(jobs[s], jobs[x])'
      <4>1. jobs'[x] = jobs[x] /\ Yields(jobs[t], jobs[x])
        BY <1>1, <2>1, <3>1, <3>2, <3>5 DEF AloneAt
      <4> QED BY <1>2, <3>1, <4>1 DEF Yields
    <3> QED BY <3>3, <3>4, <3>5 DEF AloneAt
  <2>2. CASE s # t
    <3>1. jobs'[s] = jobs[s] /\ AloneAt(s)
      BY <1>1, <1>4, <2>2 DEF AloneInv
    <3>2. Agrees(jobs[s])'
      <4>1. ASSUME jobs[s].pc \in Reconciling, NEW u \in jobs[s].us PROVE Reached(jobs[s], u)'
        <5>1. Reached(jobs[s], u) /\ u \in Staff
          BY <3>1, <4>1, JobShape DEF AloneAt, Agrees, ReconcileJob
        <5>2. CASE orgRole'[u] = orgRole[u]
          BY <1>2, <3>1, <5>1, <5>2 DEF Reached
        <5>3. CASE /\ jobs[t].pc \in Reconciling /\ u \in jobs[t].us
                   /\ \E p \in jobs[t].plan : p[1] = u /\ orgRole'[u] = p[3]
          <6>1. Yields(jobs[s], jobs[t])
            BY <2>2, <3>1, <4>1, <5>3 DEF AloneAt, Reconciling
          <6>2. orgRole'[u] = TargetRole(u)
            BY <4>1, <5>3, <6>1 DEF Yields
          <6> QED BY <1>2, <6>2 DEF Reached
        <5> QED BY <5>1, <5>2, <5>3
      <4> QED BY <1>2, <3>1, <4>1 DEF AloneAt, Agrees
    <3>3. Settled(jobs[s])'
      BY <3>1 DEF AloneAt, Settled
    <3>4. ASSUME NEW x \in Threads \ {s}, jobs'[x].pc # "idle", jobs'[s].us \cap jobs'[x].us # {}
          PROVE  Yields(jobs[s], jobs[x])'
      <4>1. CASE x = t
        <5>1. /\ jobs[t].pc \in Reconciling /\ k.pc \in Reconciling /\ k.us = jobs[t].us
              /\ \A p \in k.plan : p \in jobs[t].plan \/ p[3] = TargetRole(p[1])
          BY <1>1, <1>3, <3>4, <4>1
        <5>2. Yields(jobs[s], jobs[t])
          BY <1>1, <2>2, <3>1, <3>4, <4>1, <5>1 DEF AloneAt, Reconciling
        <5> QED BY <1>1, <1>2, <3>1, <4>1, <5>1, <5>2 DEF Yields
      <4>2. CASE x # t
        <5>1. jobs'[x] = jobs[x] /\ Yields(jobs[s], jobs[x])
          BY <1>1, <3>1, <3>4, <4>2 DEF AloneAt
        <5> QED BY <1>2, <3>1, <5>1 DEF Yields
      <4> QED BY <4>1, <4>2
    <3> QED BY <3>2, <3>3, <3>4 DEF AloneAt
  <2> QED BY <2>1, <2>2
<1> QED
  BY <1>4 DEF AloneInv

\* Somebody's roles change, and everyone's work on them is unsettled.
LEMMA AloneUnsettled ==
  ASSUME StaffTypes, AloneInv, NEW t, NEW us,
         \A s \in Threads \ {t} : jobs'[s] = Unsettle(t, us)[s],
         t \in Threads => /\ ~jobs'[t].alone \/ ~Beside(t, us)
                          /\ jobs'[t].us = us /\ Agrees(jobs[t])' /\ Settled(jobs[t])',
         \A u \in Staff \ us : /\ TargetRole(u)' = TargetRole(u) /\ orgRole'[u] = orgRole[u]
                               /\ realmRoles'[u] = realmRoles[u] /\ portalRole'[u] = portalRole[u]
  PROVE  AloneInv'
<1>1. ASSUME NEW s \in Threads \ {t}
      PROVE  /\ StaffJob(jobs'[s]) /\ jobs'[s].pc = jobs[s].pc
             /\ jobs[s].pc # "idle" => /\ jobs'[s].us = jobs[s].us
                                       /\ jobs'[s].alone => jobs[s].alone /\ jobs[s].us \cap us = {}
             /\ jobs[s].pc \in Granting => jobs'[s].next = jobs[s].next /\ jobs'[s].want = jobs[s].want
             /\ jobs[s].pc \in Reconciling => jobs'[s].listed = jobs[s].listed /\ jobs'[s].plan = jobs[s].plan
  BY Unsettled
<1>2. ASSUME NEW s \in Threads \ {t}, jobs'[s].pc # "idle", jobs'[s].alone PROVE AloneAt(s)'
  <2>1. /\ AloneAt(s) /\ jobs'[s].pc = jobs[s].pc /\ jobs'[s].us = jobs[s].us
        /\ jobs[s].us \cap us = {} /\ jobs[s].us \subseteq Staff
    BY <1>1, <1>2, JobShape DEF AloneInv
  <2>2. \A u \in jobs[s].us :
          /\ TargetRole(u)' = TargetRole(u) /\ orgRole'[u] = orgRole[u]
          /\ realmRoles'[u] = realmRoles[u] /\ portalRole'[u] = portalRole[u]
    BY <2>1
  <2>3. Agrees(jobs[s])'
    <3>1. ASSUME jobs[s].pc \in Reconciling
          PROVE  /\ \A p \in jobs[s].plan : p[3] = TargetRole(p[1])'
                 /\ jobs'[s].plan = jobs[s].plan /\ jobs'[s].listed = jobs[s].listed
      <4>1. \A p \in jobs[s].plan : p[1] \in jobs[s].us
        BY <3>1, JobShape DEF ReconcileJob, PlanFits
      <4> QED BY <1>1, <2>1, <2>2, <3>1, <4>1 DEF AloneAt, Agrees
    <3>2. ASSUME jobs[s].pc \in Reconciling, NEW u \in jobs[s].us PROVE Reached(jobs[s], u)'
      BY <2>1, <2>2, <3>1, <3>2 DEF AloneAt, Agrees, Reached
    <3> QED BY <2>1, <3>1, <3>2 DEF Agrees
  <2>4. Settled(jobs[s])'
    BY <1>1, <2>1, <2>2 DEF AloneAt, Settled
  <2>5. ASSUME NEW x \in Threads \ {s}, jobs'[x].pc # "idle", jobs'[s].us \cap jobs'[x].us # {}
        PROVE  Yields(jobs[s], jobs[x])'
    <3>1. x # t
      BY <2>1, <2>5
    <3>2. /\ jobs'[x].pc = jobs[x].pc /\ jobs[x].pc # "idle" /\ jobs[s].us \cap jobs[x].us # {}
          /\ jobs[x].pc \in Reconciling => jobs'[x].plan = jobs[x].plan
      BY <1>1, <2>1, <2>5, <3>1
    <3>3. Yields(jobs[s], jobs[x])
      BY <2>1, <2>5, <3>2 DEF AloneAt
    <3> QED BY <2>1, <2>2, <3>2, <3>3 DEF Yields
  <2> QED BY <2>3, <2>4, <2>5 DEF AloneAt
<1>3. ASSUME t \in Threads, jobs'[t].alone PROVE AloneAt(t)'
  <2>1. ASSUME NEW x \in Threads \ {t}, jobs'[x].pc # "idle" PROVE jobs'[t].us \cap jobs'[x].us = {}
    BY <1>1, <1>3, <2>1 DEF Beside
  <2> QED BY <1>3, <2>1 DEF AloneAt
<1> QED
  BY <1>2, <1>3 DEF AloneInv

LEMMA StaffUnsettled ==
  ASSUME StaffTypes, NEW u \in Staff,
         jobs' = Unsettle(None, {u}), UNCHANGED <<portalRole, realmRoles>>,
         orgRole' \in [Staff -> OrgRoles \cup {None}], sessions' \in [Staff -> SUBSET OrgRoles]
  PROVE  StaffTypes'
<1>1. \A s \in Threads : StaffJob(jobs'[s])
  BY Unsettled
<1>2. \A s \in Threads : StaffJob(jobs[s])'
  BY <1>1 DEF StaffJob, GrantJob, ReconcileJob, PlanFits, ListFits, Free
<1>3. jobs' = [s \in Threads |-> jobs'[s]]
  BY DEF Unsettle
<1> QED
  BY <1>2, <1>3 DEF StaffTypes

StaffInv == StaffTypes /\ AloneInv /\ DemotedLoggedOut

\* Whoever was about to be logged out still is.
LEMMA StillRevoked ==
  ASSUME StaffTypes, DemotedLoggedOut, NEW t, NEW us,
         \A s \in Threads \ {t} : jobs'[s] = Unsettle(t, us)[s] \/ jobs'[s] = jobs[s],
         t \in Threads => jobs[t].pc # "revoke" \/ (jobs'[t].pc = "revoke" /\ jobs'[t].listed = jobs[t].listed)
           \/ \A u \in jobs[t].listed : u \in unrevoked' \/ sessions'[u] = {},
         \A u \in Staff : u \in unrevoked \cup lowered => u \in unrevoked' \cup lowered' \/ sessions'[u] = {},
         \A u \in Staff :
           \/ orgRole'[u] = orgRole[u] /\ sessions'[u] = sessions[u]
           \/ Outranking(u)' \subseteq Outranking(u)
           \/ u \in lowered'
           \/ \E s \in Threads : jobs'[s].pc = "revoke" /\ u \in jobs'[s].listed
  PROVE  DemotedLoggedOut'
<1>1. ASSUME NEW s \in Threads \ {t}, jobs[s].pc = "revoke"
      PROVE  jobs'[s].pc = "revoke" /\ jobs'[s].listed = jobs[s].listed
  BY <1>1, Unsettled DEF Reconciling
<1>2. ASSUME NEW u \in Staff, Outranking(u)' # {}
      PROVE  u \in unrevoked' \cup lowered' \/ \E s \in Threads : jobs'[s].pc = "revoke" /\ u \in jobs'[s].listed
  <2>1. sessions'[u] # {}
    BY <1>2 DEF Outranking
  <2>2. CASE u \in lowered' \/ \E s \in Threads : jobs'[s].pc = "revoke" /\ u \in jobs'[s].listed
    BY <2>2
  <2>3. CASE Outranking(u)' \subseteq Outranking(u)
    <3>1. u \in unrevoked \cup lowered \/ \E s \in Threads : jobs[s].pc = "revoke" /\ u \in jobs[s].listed
      BY <1>2, <2>3 DEF DemotedLoggedOut, At
    <3>2. CASE u \in unrevoked \cup lowered
      BY <2>1, <3>2
    <3>3. CASE \E s \in Threads : jobs[s].pc = "revoke" /\ u \in jobs[s].listed
      BY <1>1, <2>1, <3>3
    <3> QED BY <3>1, <3>2, <3>3
  <2>4. CASE orgRole'[u] = orgRole[u] /\ sessions'[u] = sessions[u]
    BY <2>3, <2>4 DEF Outranking
  <2> QED BY <2>2, <2>3, <2>4
<1> QED
  BY <1>2 DEF DemotedLoggedOut, At

LEMMA GrantKeeps ==
  ASSUME StaffInv, NEW t \in Threads, NEW u \in Staff, NEW r \in Roles, Grant(t, u, r)
  PROVE  StaffInv'
<1> DEFINE k == [pc |-> "sync", us |-> {u}, next |-> 1, want |-> RealmRole(r), alone |-> ~Beside(t, {u})]
<1> USE DEF StaffInv
<1>1. /\ jobs' = [Unsettle(t, {u}) EXCEPT ![t] = k] /\ jobs[t].pc = "idle"
      /\ portalRole' = [portalRole EXCEPT ![u] = r]
      /\ UNCHANGED <<realmRoles, enabled, orgRole, sessions, causes>>
  BY DEF Grant, At
<1>2. /\ DOMAIN k = {"pc", "us", "next", "want", "alone"} /\ k.pc = "sync" /\ k.us = {u}
      /\ k.next = 1 /\ k.want = RealmRole(r) /\ k.alone \in BOOLEAN /\ (k.alone <=> ~Beside(t, {u}))
  OBVIOUS
<1> HIDE DEF k
<1>3. /\ jobs' = [s \in Threads |-> jobs'[s]] /\ jobs'[t] = k
      /\ \A s \in Threads \ {t} : jobs'[s] = Unsettle(t, {u})[s]
  BY <1>1 DEF Unsettle
<1>4. StaffJob(k)
  BY <1>2 DEF StaffJob, GrantJob, Granting
<1>5. StaffTypes'
  <2>1. \A s \in Threads : StaffJob(jobs'[s])
    BY <1>3, <1>4, Unsettled
  <2>2. \A s \in Threads : StaffJob(jobs[s])'
    BY <2>1 DEF StaffJob, GrantJob, ReconcileJob, PlanFits, ListFits, Free
  <2> QED BY <1>1, <1>3, <2>2 DEF StaffTypes
<1>6. AloneInv'
  <2>1. portalRole'[u] = r
    BY <1>1 DEF StaffTypes
  <2>2. Agrees(jobs[t])' /\ Settled(jobs[t])'
    BY <1>2, <1>3, <2>1 DEF Agrees, Settled, Granting, Reconciling
  <2>3. \A v \in Staff \ {u} : /\ TargetRole(v)' = TargetRole(v) /\ orgRole'[v] = orgRole[v]
                               /\ realmRoles'[v] = realmRoles[v] /\ portalRole'[v] = portalRole[v]
    BY <1>1 DEF TargetRole, StaffTypes
  <2>4. jobs'[t].us = {u} /\ (~jobs'[t].alone \/ ~Beside(t, {u}))
    BY <1>2, <1>3
  <2> HIDE DEF StaffInv
  <2>5. StaffTypes /\ AloneInv
    BY DEF StaffInv
  <2> QED BY <1>3, <2>2, <2>3, <2>4, <2>5, AloneUnsettled, SMTT(60)
<1>7. DemotedLoggedOut'
  BY <1>1, <1>3, StillRevoked DEF StaffTypes, causes
<1> QED BY <1>5, <1>6, <1>7

LEMMA OutsideKeeps ==
  ASSUME StaffInv, NEW u \in Staff, LogIn(u) \/ \E on \in BOOLEAN : SetEnabled(u, on)
  PROVE  StaffInv'
<1> USE DEF StaffInv
<1>1. /\ jobs' = Unsettle(None, {u}) /\ UNCHANGED <<portalRole, realmRoles>>
      /\ \A v \in Staff \ {u} : (v \in enabled' <=> v \in enabled)
      /\ \/ UNCHANGED <<orgRole, sessions, causes>>
         \/ /\ TargetRole(u) # None
            /\ orgRole' = [orgRole EXCEPT ![u] = TargetRole(u)]
            /\ sessions' = [sessions EXCEPT ![u] = @ \cup {TargetRole(u)}]
            /\ lowered' = IF Rank(TargetRole(u)) < Rank(orgRole[u]) THEN lowered \cup {u} ELSE lowered
            /\ UNCHANGED unrevoked
  BY DEF LogIn, SetEnabled
<1>2. /\ orgRole' \in [Staff -> OrgRoles \cup {None}] /\ sessions' \in [Staff -> SUBSET OrgRoles]
      /\ \A v \in Staff \ {u} : orgRole'[v] = orgRole[v] /\ sessions'[v] = sessions[v]
  <2>1. TargetRole(u) # None => TargetRole(u) \in OrgRoles
    BY Targets
  <2> QED BY <1>1, <2>1 DEF StaffTypes
<1>3. None \notin Threads
  BY HandlersAssumption
<1>4. StaffTypes'
  BY <1>1, <1>2, StaffUnsettled
<1>5. AloneInv'
  <2>1. \A v \in Staff \ {u} : /\ TargetRole(v)' = TargetRole(v) /\ orgRole'[v] = orgRole[v]
                               /\ realmRoles'[v] = realmRoles[v] /\ portalRole'[v] = portalRole[v]
    BY <1>1, <1>2 DEF TargetRole
  <2>2. \A s \in Threads \ {None} : jobs'[s] = Unsettle(None, {u})[s]
    BY <1>1
  <2> QED BY <1>3, <2>1, <2>2, AloneUnsettled
<1>6. DemotedLoggedOut'
  <2>1. \A v \in OrgRoles \cup {None} : Rank(v) \in 0 .. 3
    BY Ranks DEF OrgRoles
  <2>2. orgRole[u] \in OrgRoles \cup {None} /\ TargetRole(u) \in OrgRoles \cup {None} /\ sessions[u] \subseteq OrgRoles
    BY Targets DEF StaffTypes
  <2>3. unrevoked \cup lowered \subseteq unrevoked' \cup lowered'
    BY <1>1 DEF causes
  <2>4. ASSUME NEW v \in Staff
        PROVE  \/ orgRole'[v] = orgRole[v] /\ sessions'[v] = sessions[v]
               \/ Outranking(v)' \subseteq Outranking(v)
               \/ v \in lowered'
    <3>1. CASE v # u \/ UNCHANGED <<orgRole, sessions, causes>>
      BY <1>2, <3>1
    <3>2. CASE v = u /\ ~UNCHANGED <<orgRole, sessions, causes>>
      <4>1. /\ orgRole'[u] = TargetRole(u) /\ sessions'[u] = sessions[u] \cup {TargetRole(u)}
            /\ Rank(TargetRole(u)) < Rank(orgRole[u]) => u \in lowered'
        BY <1>1, <3>2 DEF StaffTypes
      <4>2. ASSUME ~(Rank(TargetRole(u)) < Rank(orgRole[u])), NEW x \in sessions'[u], Rank(x) > Rank(orgRole'[u])
            PROVE  x \in sessions[u] /\ Rank(x) > Rank(orgRole[u])
        <5>1. /\ Rank(x) \in 0 .. 3 /\ Rank(TargetRole(u)) \in 0 .. 3 /\ Rank(orgRole[u]) \in 0 .. 3
              /\ x \in sessions[u] \/ x = TargetRole(u)
          BY <2>1, <2>2, <4>1, <4>2
        <5> QED BY <4>1, <4>2, <5>1
      <4> QED BY <3>2, <4>1, <4>2 DEF Outranking
    <3> QED BY <3>1, <3>2
  <2> QED BY <1>1, <1>3, <2>3, <2>4, StillRevoked
<1> QED BY <1>4, <1>5, <1>6

LEMMA SyncKeeps ==
  ASSUME StaffInv, NEW t \in Threads, SyncRole(t)
  PROVE  StaffInv'
<1> DEFINE j == jobs[t]
           name == PLATFORM_ROLES[j.next]
           k == jobs'[t]
<1>0. StaffTypes /\ AloneInv /\ DemotedLoggedOut
  BY DEF StaffInv
<1>1. /\ GrantJob(j) /\ j.pc = "sync"
      /\ \A s \in Threads \ {t} : jobs'[s] = jobs[s]
      /\ jobs' = [s \in Threads |-> jobs'[s]]
      /\ StaffJob(k) /\ k.pc \in Granting /\ k.us = j.us /\ k.want = j.want /\ k.next = j.next + 1
      /\ k.alone => /\ j.alone /\ (k.pc = "granted" <=> k.next = 3)
                    /\ \A u \in j.us : realmRoles' = SyncedTo(u, name, j.want)
      /\ \E u \in j.us : realmRoles' = realmRoles \/ realmRoles' = SyncedTo(u, name, j.want)
  BY <1>0, SyncStep
<1>2. UNCHANGED <<portalRole, enabled, orgRole, sessions, causes>>
  BY DEF SyncRole
<1>3. PICK u \in Staff : j.us = {u}
  BY <1>1 DEF GrantJob
<1>4. j.next \in 1 .. 2 /\ name \in RealmRoleNames
  <2>1. j.next \in 1 .. 2
    BY <1>1 DEF GrantJob
  <2> QED BY <2>1 DEF RealmRoleNames
<1>5. /\ realmRoles' \in [Staff -> SUBSET RealmRoleNames]
      /\ \A v \in Staff \ {u} : realmRoles'[v] = realmRoles[v]
      /\ k.alone => realmRoles'[u] = IF name = j.want THEN realmRoles[u] \cup {name} ELSE realmRoles[u] \ {name}
  <2>1. realmRoles \in [Staff -> SUBSET RealmRoleNames]
    BY <1>0 DEF StaffTypes
  <2>2. realmRoles' = realmRoles \/ realmRoles' = SyncedTo(u, name, j.want)
    BY <1>1, <1>3
  <2>3. k.alone => realmRoles' = SyncedTo(u, name, j.want)
    BY <1>1, <1>3
  <2> DEFINE to == IF name = j.want THEN realmRoles[u] \cup {name} ELSE realmRoles[u] \ {name}
  <2>4. SyncedTo(u, name, j.want) = [realmRoles EXCEPT ![u] = to]
    BY DEF SyncedTo
  <2>5. to \in SUBSET RealmRoleNames
    BY <1>4, <2>1
  <2> HIDE DEF to, j, k, name
  <2>6. /\ realmRoles' \in [Staff -> SUBSET RealmRoleNames]
        /\ \A v \in Staff \ {u} : realmRoles'[v] = realmRoles[v]
        /\ k.alone => realmRoles'[u] = to
    BY <2>1, <2>2, <2>3, <2>4, <2>5
  <2> QED BY <2>6 DEF to
<1>6. StaffTypes'
  <2>1. \A s \in Threads : StaffJob(jobs'[s])
    BY <1>0, <1>1 DEF StaffTypes
  <2>2. \A s \in Threads : StaffJob(jobs[s])'
    BY <2>1 DEF StaffJob, GrantJob, ReconcileJob, PlanFits, ListFits, Free
  <2> QED BY <1>0, <1>1, <1>2, <1>5, <2>2 DEF StaffTypes
<1>7. AloneInv'
  <2>1. \A v \in Staff \ {u} : TargetRole(v)' = TargetRole(v)
    BY <1>2, <1>5 DEF TargetRole
  <2>2. ASSUME NEW s \in Threads \ {t}, jobs'[s].pc # "idle", jobs'[s].alone PROVE AloneAt(s)'
    <3>1. jobs'[s] = jobs[s] /\ AloneAt(s) /\ jobs[s].us \subseteq Staff
      BY <1>0, <1>1, <2>2, JobShape DEF AloneInv
    <3>2. u \notin jobs[s].us
      <4>1. ~Yields(jobs[s], jobs[t])
        BY <1>1 DEF Yields, Reconciling
      <4> QED BY <1>1, <1>3, <3>1, <4>1 DEF AloneAt
    <3>3. \A v \in jobs[s].us : TargetRole(v)' = TargetRole(v) /\ realmRoles'[v] = realmRoles[v]
      BY <1>5, <2>1, <3>1, <3>2
    <3>4. Agrees(jobs[s])'
      <4>1. ASSUME jobs[s].pc \in Reconciling PROVE \A p \in jobs[s].plan : p[3] = TargetRole(p[1])'
        <5>1. \A p \in jobs[s].plan : p[1] \in jobs[s].us
          BY <1>0, <4>1, JobShape DEF ReconcileJob, PlanFits
        <5> QED BY <3>1, <3>3, <4>1, <5>1 DEF AloneAt, Agrees
      <4>2. ASSUME jobs[s].pc \in Reconciling, NEW v \in jobs[s].us PROVE Reached(jobs[s], v)'
        BY <1>2, <3>1, <3>3, <4>2 DEF AloneAt, Agrees, Reached
      <4> QED BY <3>1, <4>1, <4>2 DEF Agrees
    <3>5. Settled(jobs[s])'
      BY <1>2, <3>1, <3>3 DEF AloneAt, Settled
    <3>6. ASSUME NEW x \in Threads \ {s}, jobs'[x].pc # "idle", jobs'[s].us \cap jobs'[x].us # {}
          PROVE  Yields(jobs[s], jobs[x])'
      <4>1. x # t
        BY <1>1, <1>3, <3>1, <3>2, <3>6
      <4>2. jobs'[x] = jobs[x] /\ Yields(jobs[s], jobs[x])
        BY <1>1, <3>1, <3>6, <4>1 DEF AloneAt
      <4> QED BY <3>1, <3>3, <4>2 DEF Yields
    <3> QED BY <3>4, <3>5, <3>6 DEF AloneAt
  <2>3. ASSUME k.alone PROVE AloneAt(t)'
    <3>1. /\ AloneAt(t) /\ k.pc \notin Reconciling /\ j.pc \in Granting
          /\ (k.pc = "granted" => k.next = 3)
      BY <1>0, <1>1, <2>3 DEF AloneInv, Granting, Reconciling
    <3>2. Agrees(jobs[t])'
      BY <3>1 DEF Agrees
    <3>3. j.want = RealmRole(portalRole[u]) /\ realmRoles[u] \subseteq RealmRoleNames
      BY <1>0, <1>3, <3>1 DEF AloneAt, Settled, StaffTypes
    <3>4. PLATFORM_ROLES[1] # PLATFORM_ROLES[2]
      BY DEF PLATFORM_ROLES
    <3>5. \A i \in 1 .. 2 : i < k.next =>
             (PLATFORM_ROLES[i] \in realmRoles'[u] <=> PLATFORM_ROLES[i] = j.want)
      <4>1. \A i \in 1 .. 2 : i < j.next =>
             (PLATFORM_ROLES[i] \in realmRoles[u] <=> PLATFORM_ROLES[i] = j.want)
        BY <1>3, <3>1 DEF AloneAt, Settled
      <4>2. \A i \in 1 .. 2 : i < k.next <=> i < j.next \/ i = j.next
        BY <1>1, <1>4
      <4> HIDE DEF k, j
      <4> QED BY <1>4, <1>5, <2>3, <3>4, <4>1, <4>2
    <3>6. Settled(jobs[t])'
      BY <1>1, <1>2, <1>3, <3>1, <3>3, <3>5 DEF Settled
    <3>7. ASSUME NEW x \in Threads \ {t}, jobs'[x].pc # "idle", jobs'[t].us \cap jobs'[x].us # {}
          PROVE  Yields(jobs[t], jobs[x])'
      <4>1. jobs'[x] = jobs[x] /\ Yields(jobs[t], jobs[x])
        BY <1>1, <3>1, <3>7 DEF AloneAt
      <4> QED BY <3>1, <4>1 DEF Yields
    <3> QED BY <3>2, <3>6, <3>7 DEF AloneAt
  <2> QED BY <2>2, <2>3 DEF AloneInv
<1>8. DemotedLoggedOut'
  BY <1>0, <1>1, <1>2, StillRevoked DEF StaffTypes, causes
<1> QED BY <1>6, <1>7, <1>8 DEF StaffInv

LEMMA ListKeeps ==
  ASSUME StaffInv, NEW t \in Threads, ListOrg(t)
  PROVE  StaffInv'
<1> DEFINE us == {u \in Staff : orgRole[u] # None}
           k == [pc |-> "plan", us |-> us, listed |-> {<<u, orgRole[u]>> : u \in us}, plan |-> {},
                 alone |-> ~Beside(t, us)]
<1>0. StaffTypes /\ AloneInv /\ DemotedLoggedOut
  BY DEF StaffInv
<1>1. jobs' = [jobs EXCEPT ![t] = k] /\ jobs[t].pc = "idle" /\ UNCHANGED staffVars
  BY DEF ListOrg, At
<1>2. /\ DOMAIN k = {"pc", "us", "listed", "plan", "alone"} /\ k.pc = "plan" /\ k.us = us
      /\ k.listed = {<<u, orgRole[u]>> : u \in us} /\ k.plan = {}
      /\ k.alone \in BOOLEAN /\ (k.alone <=> ~Beside(t, us))
  OBVIOUS
<1> HIDE DEF k
<1>3. StaffJob(k)
  <2>1. ListFits(k.listed, us)
    BY <1>0, <1>2 DEF ListFits, StaffTypes
  <2> QED BY <1>2, <2>1 DEF StaffJob, ReconcileJob, Reconciling, PlanFits
<1>4. /\ jobs' = [s \in Threads |-> jobs'[s]] /\ \A s \in Threads : StaffJob(jobs[s])'
      /\ jobs'[t] = k /\ \A s \in Threads \ {t} : jobs'[s] = jobs[s]
  BY <1>0, <1>1, <1>3, JobMoved
<1>5. StaffTypes'
  BY <1>0, <1>1, <1>4 DEF StaffTypes, staffVars
<1>6. AloneInv'
  <2>1. \A v : TargetRole(v)' = TargetRole(v)
    BY <1>1 DEF TargetRole, staffVars
  <2>2. ASSUME NEW s \in Threads \ {t}, jobs'[s].pc # "idle", jobs'[s].alone PROVE AloneAt(s)'
    <3>1. jobs'[s] = jobs[s] /\ AloneAt(s)
      BY <1>0, <1>4, <2>2 DEF AloneInv
    <3>2. Agrees(jobs[s])' /\ Settled(jobs[s])'
      BY <1>1, <2>1, <3>1 DEF AloneAt, Agrees, Settled, Reached, staffVars
    <3>3. ASSUME NEW x \in Threads \ {s}, jobs'[x].pc # "idle", jobs'[s].us \cap jobs'[x].us # {}
          PROVE  Yields(jobs[s], jobs[x])'
      <4>1. CASE x = t
        BY <1>2, <1>4, <4>1 DEF Yields, Reconciling
      <4>2. CASE x # t
        <5>1. jobs'[x] = jobs[x] /\ Yields(jobs[s], jobs[x])
          BY <1>4, <3>1, <3>3, <4>2 DEF AloneAt
        <5> QED BY <2>1, <3>1, <5>1 DEF Yields
      <4> QED BY <4>1, <4>2
    <3> QED BY <3>2, <3>3 DEF AloneAt
  <2>3. ASSUME k.alone PROVE AloneAt(t)'
    <3>1. Agrees(jobs[t])'
      <4>1. \A u \in us : <<u, orgRole'[u]>> \in k.listed
        BY <1>1, <1>2 DEF staffVars
      <4> QED BY <1>2, <1>4, <4>1 DEF Agrees, Reached
    <3>2. Settled(jobs[t])'
      BY <1>2, <1>4 DEF Settled, Granting
    <3>3. ASSUME NEW x \in Threads \ {t}, jobs'[x].pc # "idle" PROVE jobs'[t].us \cap jobs'[x].us = {}
      BY <1>2, <1>4, <2>3, <3>3 DEF Beside
    <3> QED BY <3>1, <3>2, <3>3 DEF AloneAt
  <2> QED BY <1>4, <2>2, <2>3 DEF AloneInv
<1>7. DemotedLoggedOut'
  BY <1>0, <1>1, <1>4, StillRevoked DEF StaffTypes, staffVars
<1> QED BY <1>5, <1>6, <1>7 DEF StaffInv

LEMMA PlanKeeps ==
  ASSUME StaffInv, NEW t \in Threads, NEW u \in Staff, PlanUser(t, u)
  PROVE  StaffInv'
<1> DEFINE j == jobs[t]
<1>0. StaffTypes /\ AloneInv /\ DemotedLoggedOut
  BY DEF StaffInv
<1>1. /\ ReconcileJob(j) /\ DOMAIN j = {"pc", "us", "listed", "plan", "alone"} /\ j.pc = "plan"
      /\ UNCHANGED staffVars
  BY <1>0, JobShape DEF PlanUser, At, Reconciling
<1>2. PICK was \in {l \in j.listed : l[1] = u} :
        jobs' = [jobs EXCEPT ![t] = [j EXCEPT !.listed = @ \ {was},
          !.plan = IF was[2] = TargetRole(u) THEN @ ELSE @ \cup {<<u, was[2], TargetRole(u)>>}]]
  BY DEF PlanUser, Become
<1> DEFINE entry == <<u, was[2], TargetRole(u)>>
           plan == IF was[2] = TargetRole(u) THEN j.plan ELSE j.plan \cup {entry}
           k == [j EXCEPT !.listed = @ \ {was}, !.plan = plan]
<1>3. jobs' = [jobs EXCEPT ![t] = k]
  BY <1>1, <1>2
<1>4. /\ DOMAIN k = DOMAIN j /\ k.pc = "plan" /\ k.us = j.us /\ k.alone = j.alone
      /\ k.listed = j.listed \ {was} /\ k.plan = plan
  BY <1>1
<1>5. was \in j.listed /\ was = <<u, was[2]>> /\ u \in j.us /\ was[2] \in OrgRoles
  BY <1>1, <1>2 DEF ReconcileJob, ListFits
<1> HIDE DEF k, j
<1>6. StaffJob(k)
  <2>1. ListFits(k.listed, k.us)
    BY <1>1, <1>4 DEF ReconcileJob, ListFits
  <2>2. PlanFits(k.plan, k.us)
    <3>1. PlanFits(j.plan, j.us)
      BY <1>1 DEF ReconcileJob
    <3> QED BY <1>4, <1>5, <3>1, Targets DEF PlanFits
  <2> QED BY <1>1, <1>4, <2>1, <2>2 DEF StaffJob, ReconcileJob
<1>7. StaffTypes'
  BY <1>0, <1>1, <1>3, <1>6, JobMoved DEF StaffTypes, staffVars
<1>8. AloneInv'
  <2>1. \A p \in k.plan : p \in j.plan \/ p[3] = TargetRole(p[1])
    BY <1>4
  <2>2. ASSUME k.alone, NEW v \in k.us
        PROVE  \/ orgRole[v] = TargetRole(v) \/ (\E p \in k.plan : p[1] = v)
               \/ <<v, orgRole[v]>> \in k.listed
    <3>1. Agrees(j) /\ j.pc # "idle"
      BY <1>0, <1>1, <1>4, <2>2 DEF AloneInv, AloneAt, j
    <3>2. Reached(j, v)
      BY <1>1, <1>4, <2>2, <3>1 DEF Agrees, Reconciling
    <3>3. CASE <<v, orgRole[v]>> = was
      <4>1. v = u /\ orgRole[v] = was[2]
        BY <1>5, <3>3
      <4>2. was[2] # TargetRole(u) => entry \in k.plan /\ entry[1] = u
        BY <1>4
      <4> QED BY <4>1, <4>2
    <3>4. CASE <<v, orgRole[v]>> # was
      BY <1>4, <3>2, <3>4 DEF Reached
    <3> QED BY <3>3, <3>4
  <2> QED BY <1>0, <1>1, <1>3, <1>4, <1>6, <2>1, <2>2, AloneStep DEF staffVars, Reconciling, j
<1>9. DemotedLoggedOut'
  <2>1. \A s \in Threads \ {t} : jobs'[s] = jobs[s]
    BY <1>0, <1>3, <1>6, JobMoved
  <2> QED BY <1>0, <1>1, <2>1, StillRevoked DEF StaffTypes, staffVars, j
<1> QED BY <1>7, <1>8, <1>9 DEF StaffInv

LEMMA ApplyKeeps ==
  ASSUME StaffInv, NEW t \in Threads, ApplyRole(t)
  PROVE  StaffInv'
<1> DEFINE j == jobs[t]
<1>0. StaffTypes /\ AloneInv /\ DemotedLoggedOut
  BY DEF StaffInv
<1>1. /\ ReconcileJob(j) /\ DOMAIN j = {"pc", "us", "listed", "plan", "alone"}
      /\ j.pc = "plan" /\ j.listed = {}
      /\ UNCHANGED <<portalRole, realmRoles, enabled, sessions, causes>>
  BY <1>0, JobShape DEF ApplyRole, At, Reconciling
<1>2. PICK p \in j.plan :
       IF orgRole[p[1]] = None THEN Become(t, Free) /\ UNCHANGED orgRole
       ELSE /\ orgRole' = [orgRole EXCEPT ![p[1]] = p[3]]
            /\ Become(t, [j EXCEPT !.plan = @ \ {p},
                 !.listed = IF Rank(p[3]) < Rank(p[2]) THEN {p[1]} ELSE {},
                 !.pc = IF Rank(p[3]) < Rank(p[2]) THEN "revoke" ELSE "plan"])
  BY DEF ApplyRole
<1>3. CASE orgRole[p[1]] = None
  <2>1. jobs' = [jobs EXCEPT ![t] = Free] /\ UNCHANGED orgRole
    BY <1>2, <1>3 DEF Become
  <2>2. StaffJob(Free)
    BY DEF StaffJob
  <2>3. StaffTypes'
    BY <1>0, <1>1, <2>1, <2>2, JobMoved DEF StaffTypes
  <2>4. AloneInv'
    BY <1>0, <1>1, <2>1, <2>2, AloneStep
  <2>5. \A s \in Threads \ {t} : jobs'[s] = jobs[s]
    BY <1>0, <2>1, <2>2, JobMoved
  <2>6. DemotedLoggedOut'
    BY <1>0, <1>1, <2>1, <2>5, StillRevoked DEF StaffTypes, causes
  <2> QED BY <2>3, <2>4, <2>6 DEF StaffInv
<1>4. CASE orgRole[p[1]] # None
  <2> DEFINE demotes == Rank(p[3]) < Rank(p[2])
             listed == IF demotes THEN {p[1]} ELSE {}
             pc == IF demotes THEN "revoke" ELSE "plan"
             k == [j EXCEPT !.plan = @ \ {p}, !.listed = listed, !.pc = pc]
  <2>1. jobs' = [jobs EXCEPT ![t] = k] /\ orgRole' = [orgRole EXCEPT ![p[1]] = p[3]]
    BY <1>2, <1>4 DEF Become
  <2>2. /\ DOMAIN k = DOMAIN j /\ k.us = j.us /\ k.alone = j.alone /\ k.plan = j.plan \ {p}
        /\ k.listed = listed /\ k.pc = pc
    BY <1>1
  <2>3. /\ p[1] \in j.us /\ p[1] \in Staff /\ p[2] \in OrgRoles /\ p[3] \in OrgRoles \cup {None}
        /\ p[2] # p[3]
    BY <1>1 DEF ReconcileJob, PlanFits
  <2> HIDE DEF k, j, demotes
  <2>4. StaffJob(k)
    <3>1. PlanFits(k.plan, k.us)
      BY <1>1, <2>2 DEF PlanFits, ReconcileJob
    <3> QED BY <1>1, <2>2, <2>3, <3>1 DEF StaffJob, ReconcileJob, ListFits, Reconciling
  <2>5. orgRole' \in [Staff -> OrgRoles \cup {None}] /\ orgRole'[p[1]] = p[3]
        /\ \A v \in Staff \ {p[1]} : orgRole'[v] = orgRole[v]
    BY <1>0, <2>1, <2>3 DEF StaffTypes
  <2>6. /\ \A s \in Threads \ {t} : jobs'[s] = jobs[s]
        /\ jobs'[t] = k /\ \A s \in Threads : StaffJob(jobs[s])'
        /\ jobs' = [s \in Threads |-> jobs'[s]]
    BY <1>0, <2>1, <2>4, JobMoved
  <2>7. StaffTypes'
    BY <1>0, <1>1, <2>5, <2>6 DEF StaffTypes
  <2>8. AloneInv'
    <3>1. ASSUME k.alone, NEW v \in k.us
          PROVE  orgRole'[v] = TargetRole(v) \/ (\E q \in k.plan : q[1] = v)
      <4>1. Agrees(j) /\ v \in Staff
        BY <1>0, <1>1, <2>2, <3>1 DEF AloneInv, AloneAt, ReconcileJob, j
      <4>2. Reached(j, v) /\ \A q \in j.plan : q[3] = TargetRole(q[1])
        BY <1>1, <2>2, <3>1, <4>1 DEF Agrees, Reconciling
      <4>3. CASE v = p[1]
        BY <2>5, <4>2, <4>3
      <4>4. CASE v # p[1]
        BY <1>1, <2>2, <2>5, <4>1, <4>2, <4>4 DEF Reached
      <4> QED BY <4>3, <4>4
    <3>2. \A q \in k.plan : q \in j.plan
      BY <2>2
    <3>3. j.pc \in Reconciling /\ k.pc \in Reconciling
      BY <1>1, <2>2 DEF Reconciling
    <3>4. \A v \in Staff : orgRole'[v] = orgRole[v] \/ (v \in j.us /\ \E q \in j.plan : q[1] = v /\ orgRole'[v] = q[3])
      BY <2>3, <2>5
    <3>5. /\ k.us = j.us /\ k.alone = j.alone
          /\ UNCHANGED <<portalRole, realmRoles, enabled>> /\ jobs' = [jobs EXCEPT ![t] = k]
      BY <1>1, <2>1, <2>2
    <3> HIDE DEF pc, listed
    <3> QED BY <1>0, <2>4, <3>1, <3>2, <3>3, <3>4, <3>5, AloneStep DEF j
  <2>9. DemotedLoggedOut'
    <3>1. demotes => k.pc = "revoke" /\ p[1] \in k.listed
      BY <2>2
    <3>2. ~demotes => Outranking(p[1])' = {}
      <4>1. sessions'[p[1]] \subseteq OrgRoles
        BY <1>0, <1>1, <2>3 DEF StaffTypes
      <4>2. \A r \in OrgRoles \cup {None} : Rank(r) \in 0 .. 3 /\ (r = "Admin" => Rank(r) = 3)
        BY Ranks DEF OrgRoles
      <4>3. ~demotes => p[3] = "Admin"
        BY <2>3, Ranks DEF demotes, OrgRoles
      <4>4. orgRole'[p[1]] = p[3]
        BY <2>3, <2>5
      <4>5. \A r \in sessions'[p[1]] : p[3] = "Admin" => ~(Rank(r) > Rank(p[3]))
        BY <2>3, <4>1, <4>2
      <4> QED BY <4>3, <4>4, <4>5 DEF Outranking
    <3>3. \A v \in Staff :
           \/ orgRole'[v] = orgRole[v] /\ sessions'[v] = sessions[v]
           \/ Outranking(v)' \subseteq Outranking(v)
           \/ \E s \in Threads : jobs'[s].pc = "revoke" /\ v \in jobs'[s].listed
      BY <1>1, <2>5, <2>6, <3>1, <3>2
    <3>4. unrevoked' = unrevoked /\ lowered' = lowered
      BY <1>1 DEF causes
    <3> QED BY <1>0, <1>1, <2>5, <2>6, <3>3, <3>4, StillRevoked DEF j
  <2> QED BY <2>7, <2>8, <2>9 DEF StaffInv
<1> QED BY <1>3, <1>4

LEMMA RestKeeps ==
  ASSUME StaffInv, NEW t \in Threads,
         PlanDone(t) \/ RevokeSessions(t) \/ StaffFails(t) \/ StaffEnds(t)
  PROVE  StaffInv'
<1> DEFINE j == jobs[t]
<1>0. StaffTypes /\ AloneInv /\ DemotedLoggedOut
  BY DEF StaffInv
<1>1. PICK k :
        /\ jobs' = [jobs EXCEPT ![t] = k] /\ UNCHANGED <<portalRole, realmRoles, enabled, orgRole>>
        /\ \/ k = Free
           \/ j.pc \in {"plan", "revoke"} /\ k = [j EXCEPT !.pc = "reconciled"] /\ j.plan = {} /\ j.listed = {} /\ j.pc = "plan"
           \/ j.pc = "revoke" /\ k = [j EXCEPT !.pc = "plan", !.listed = {}]
        /\ \/ UNCHANGED <<sessions, causes>> /\ j.pc # "revoke"
           \/ j.pc = "revoke" /\ Revoke(j.listed)
           \/ /\ UNCHANGED <<sessions, lowered>> /\ unrevoked \subseteq unrevoked'
              /\ j.pc = "revoke" => j.listed \subseteq unrevoked'
  <2>1. CASE PlanDone(t)
    BY <1>0, <2>1 DEF PlanDone, Goto, At, StaffTypes, staffVars
  <2>2. CASE RevokeSessions(t)
    BY <2>2 DEF RevokeSessions, Become, At
  <2>3. CASE StaffFails(t)
    BY <2>3 DEF StaffFails, Killed, Become, At
  <2>4. CASE StaffEnds(t)
    BY <2>4 DEF StaffEnds, Finish, Become, staffVars
  <2> QED BY <2>1, <2>2, <2>3, <2>4
<1>2. /\ k # Free => /\ j.pc \in Reconciling /\ ReconcileJob(j) /\ DOMAIN j = {"pc", "us", "listed", "plan", "alone"}
                     /\ k.us = j.us /\ k.alone = j.alone /\ k.plan = j.plan /\ DOMAIN k = DOMAIN j
                     /\ \/ k.pc = "reconciled" /\ j.pc = "plan" /\ j.plan = {} /\ j.listed = {}
                        \/ k.pc = "plan" /\ j.pc = "revoke" /\ k.listed = {}
  <2>1. j.pc \in Reconciling => ReconcileJob(j) /\ DOMAIN j = {"pc", "us", "listed", "plan", "alone"}
    BY <1>0, JobShape
  <2> HIDE DEF j
  <2> QED BY <1>1, <2>1 DEF Reconciling
<1>3. StaffJob(k)
  <2> HIDE DEF j
  <2>1. CASE k = Free
    BY <2>1 DEF StaffJob
  <2>2. CASE k # Free
    BY <1>2, <2>2 DEF StaffJob, ReconcileJob, Reconciling, ListFits
  <2> QED BY <2>1, <2>2
<1>4. /\ \A s \in Threads \ {t} : jobs'[s] = jobs[s]
      /\ jobs'[t] = k /\ \A s \in Threads : StaffJob(jobs[s])'
      /\ jobs' = [s \in Threads |-> jobs'[s]]
  BY <1>0, <1>1, <1>3, JobMoved
<1>5. /\ sessions' \in [Staff -> SUBSET OrgRoles]
      /\ \A u \in Staff : sessions'[u] = sessions[u] \/ sessions'[u] = {}
      /\ j.pc = "revoke" => \A u \in j.listed : u \in Staff => u \in unrevoked' \/ sessions'[u] = {}
      /\ \A u \in Staff : u \in unrevoked \cup lowered => u \in unrevoked' \cup lowered' \/ sessions'[u] = {}
  <2>1. sessions \in [Staff -> SUBSET OrgRoles]
    BY <1>0 DEF StaffTypes
  <2> HIDE DEF j
  <2> QED BY <1>1, <2>1 DEF Revoke, causes
<1>6. StaffTypes'
  BY <1>0, <1>1, <1>4, <1>5 DEF StaffTypes
<1>7. AloneInv'
  <2>1. ASSUME k # Free, k.alone, NEW u \in k.us
        PROVE  orgRole[u] = TargetRole(u) \/ \E p \in k.plan : p[1] = u
    <3>1. Reached(j, u)
      BY <1>0, <1>2, <2>1 DEF AloneInv, AloneAt, Agrees, Reconciling
    <3> QED BY <1>2, <2>1, <3>1 DEF Reached
  <2>2. k # Free => k.pc \in Reconciling
    BY <1>2 DEF Reconciling
  <2> QED BY <1>0, <1>1, <1>2, <1>3, <2>1, <2>2, AloneStep
<1>8. DemotedLoggedOut'
  <2>1. j.pc = "revoke" => j.listed \subseteq Staff
    BY <1>0, JobShape DEF Reconciling, ReconcileJob
  <2>2. j.pc = "revoke" => \A u \in j.listed : u \in unrevoked' \/ sessions'[u] = {}
    BY <1>5, <2>1
  <2>3. orgRole' = orgRole /\ \A u \in Staff : sessions'[u] = {} => Outranking(u)' = {}
    BY <1>1 DEF Outranking
  <2> QED BY <1>0, <1>4, <1>5, <2>2, <2>3, StillRevoked
<1> QED BY <1>6, <1>7, <1>8 DEF StaffInv

LEMMA StaffAlways == StaffSpec => []StaffInv
<1>1. HandlersInit /\ StaffInit => StaffInv
  <2> SUFFICES ASSUME HandlersInit, StaffInit PROVE StaffInv
    OBVIOUS
  <2>1. \A t \in Threads : jobs[t] = Free /\ jobs[t].pc = "idle"
    BY DEF HandlersInit, Free
  <2>2. StaffTypes
    BY <2>1 DEF StaffTypes, StaffJob, HandlersInit, StaffInit, Roles
  <2>3. AloneInv
    BY <2>1 DEF AloneInv
  <2>4. \A u \in Staff : sessions[u] = {}
    BY DEF StaffInit
  <2>5. DemotedLoggedOut
    BY <2>4 DEF DemotedLoggedOut, Outranking
  <2> QED BY <2>2, <2>3, <2>5 DEF StaffInv
<1>2. StaffInv /\ [StaffNext]_<<handlerVars, staffVars>> => StaffInv'
  <2> SUFFICES ASSUME StaffInv, [StaffNext]_<<handlerVars, staffVars>> PROVE StaffInv'
    OBVIOUS
  <2>1. CASE UNCHANGED <<handlerVars, staffVars>>
    BY <2>1 DEF StaffInv, StaffTypes, StaffJob, GrantJob, ReconcileJob, PlanFits, ListFits, AloneInv, AloneAt,
      Agrees, Settled, Reached, Yields, TargetRole, DemotedLoggedOut, Outranking, At, handlerVars, staffVars
  <2>2. CASE StaffNext
    BY <2>2, GrantKeeps, OutsideKeeps, SyncKeeps, ListKeeps, PlanKeeps, ApplyKeeps, RestKeeps DEF StaffNext
  <2> QED BY <2>1, <2>2
<1> QED BY <1>1, <1>2, PTL DEF StaffSpec

(***************************************************************************)
(* Whatever broken grants and reconciliations left in the three places, a  *)
(* grant or a reconciliation that nothing crossed ends with the realm      *)
(* role of the portal's row, or with Grafana as Keycloak calls for         *)
(* (sync_keycloak_role, build_plan, main).                                 *)
(***************************************************************************)
THEOREM GrantsAgree == StaffSpec => []AloneRunAgrees
<1>1. StaffInv => AloneRunAgrees
  <2> SUFFICES ASSUME StaffInv, NEW t \in Threads, jobs[t].pc \in {"granted", "reconciled"}, jobs[t].alone,
                      NEW u \in jobs[t].us
               PROVE  IF At(t, "granted") THEN realmRoles[u] = {RealmRole(portalRole[u])} \ {"none"}
                      ELSE orgRole[u] = TargetRole(u)
    BY DEF AloneRunAgrees
  <2>1. AloneAt(t) /\ StaffTypes
    BY DEF StaffInv, AloneInv
  <2>2. CASE jobs[t].pc = "granted"
    <3>1. /\ jobs[t].want = RealmRole(portalRole[u])
          /\ PLATFORM_ROLES[1] \in realmRoles[u] <=> PLATFORM_ROLES[1] = jobs[t].want
          /\ PLATFORM_ROLES[2] \in realmRoles[u] <=> PLATFORM_ROLES[2] = jobs[t].want
      BY <2>1, <2>2 DEF AloneAt, Settled, Granting
    <3>2. realmRoles[u] \subseteq RealmRoleNames /\ u \in Staff
      BY <2>1, <2>2, JobShape DEF StaffTypes
    <3>3. RealmRole(portalRole[u]) \in RealmRoleNames \cup {"none"} /\ "none" \notin RealmRoleNames
      BY RealmRoleIs DEF RealmRoleNames, PLATFORM_ROLES
    <3>4. realmRoles[u] = {RealmRole(portalRole[u])} \ {"none"}
      BY <3>1, <3>2, <3>3 DEF RealmRoleNames
    <3> QED BY <2>2, <3>4 DEF At
  <2>3. CASE jobs[t].pc = "reconciled"
    <3>1. Reached(jobs[t], u) /\ jobs[t].plan = {}
      BY <2>1, <2>3, JobShape DEF AloneAt, Agrees, Reconciling, ReconcileJob
    <3> QED BY <2>3, <3>1 DEF Reached, At
  <2> QED BY <2>2, <2>3
<1> QED BY <1>1, StaffAlways, PTL

(***************************************************************************)
(* Whatever logins on however many devices, grants and reconciliations     *)
(* interleave, a session with more than its user's role in the             *)
(* organisation is about to be revoked, unless its revocation was lost or  *)
(* a later login of the user had already lowered the role                  *)
(* (reconcile_grafana.main).                                               *)
(***************************************************************************)
THEOREM DemotedOut == StaffSpec => []DemotedLoggedOut
<1>1. StaffInv => DemotedLoggedOut
  BY DEF StaffInv
<1> QED BY <1>1, StaffAlways, PTL

-----------------------------------------------------------------------------
(* Accounts, rows and sessions (module Accounts).                          *)

SignupJobs ==
  [pc : {"account", "commit"}, email : Emails, coded : BOOLEAN, seen : Nat, sub : Subs \cup {None}]
SeedJobs == [pc : {"seed"}, email : Emails, sub : Subs]

AccountTypes ==
  /\ jobs \in [Threads -> {Free} \cup SignupJobs \cup SeedJobs]
  /\ \A t \in Threads : jobs[t].pc \in {"commit", "seed"} => jobs[t].sub \in Subs
  /\ accounts \in [Emails -> {None} \cup [sub : Subs, verified : BOOLEAN]]
  /\ portalUsers \in [Emails -> {None} \cup [sub : Subs, coded : BOOLEAN]]
  /\ classCode \in [uses : Nat, active : BOOLEAN]
  /\ cookies \subseteq [sub : Subs, email : Emails]

\* whatever names Keycloak's id s names the address e
Bears(s, e) ==
  \/ accounts[e] # None /\ accounts[e].sub = s
  \/ portalUsers[e] # None /\ portalUsers[e].sub = s
  \/ \E t \in Threads : jobs[t].pc \in {"commit", "seed"} /\ jobs[t].sub = s /\ jobs[t].email = e
  \/ \E c \in cookies : c.sub = s /\ c.email = e

OneBearer == \A s \in Subs, e, f \in Emails : Bears(s, e) /\ Bears(s, f) => e = f

\* an address whose account was never deleted has one id
Steady ==
  \A e \in Emails \ recreated, s \in Subs :
    Bears(s, e) => accounts[e] # None /\ accounts[e].sub = s

Known == \A c \in cookies : portalUsers[c.email] # None

IdInv == OneBearer /\ Steady /\ Known

\* the uses a sign-up read, and those the code has
CodeInv ==
  /\ IsFiniteSet(Joined)
  /\ CodeCount
  /\ \A t \in Threads : jobs[t].pc \in {"account", "commit"} /\ jobs[t].coded =>
       jobs[t].seen < MaxUses /\ jobs[t].seen <= Cardinality(Joined)

AccountsInv == AccountTypes /\ IdInv /\ CodeInv

LEMMA RecordsAreSomething ==
  \A s \in Subs, b \in BOOLEAN :
    /\ Account(s, b) # None /\ Account(s, b) \in [sub : Subs, verified : BOOLEAN]
    /\ Account(s, b).sub = s
    /\ User(s, b) # None /\ User(s, b) \in [sub : Subs, coded : BOOLEAN]
    /\ User(s, b).sub = s /\ User(s, b).coded = b
  BY AccountsAssumption DEF Account, User

\* Nothing new is named, no account changes its id, no row disappears.
LEMMA IdsKept ==
  ASSUME AccountTypes, AccountTypes', IdInv,
         \A s \in Subs, e \in Emails : Bears(s, e)' => Bears(s, e),
         \A e \in Emails \ recreated' :
           accounts[e] # None => accounts'[e] # None /\ accounts'[e].sub = accounts[e].sub,
         recreated \subseteq recreated',
         \A e \in Emails : portalUsers[e] # None => portalUsers'[e] # None,
         \A c \in cookies' : c \in cookies \/ portalUsers'[c.email] # None
  PROVE  IdInv'
<1>1. OneBearer'
  BY DEF IdInv, OneBearer
<1>2. Steady'
  BY DEF IdInv, Steady
<1>3. Known'
  BY DEF IdInv, Known, AccountTypes
<1> QED BY <1>1, <1>2, <1>3 DEF IdInv

\* A fresh id is given to an address.
LEMMA IdDrawn ==
  ASSUME AccountTypes, IdInv, NEW e \in Emails, NEW s \in Subs, FreshSub(s), accounts[e] = None,
         \A r \in Subs, f \in Emails : Bears(r, f)' => Bears(r, f) \/ (r = s /\ f = e),
         accounts'[e] # None /\ accounts'[e].sub = s, \A f \in Emails \ {e} : accounts'[f] = accounts[f],
         UNCHANGED <<portalUsers, recreated, cookies>>
  PROVE  IdInv'
<1>1. \A f \in Emails : ~Bears(s, f)
  <2>1. \A t \in Threads : jobs[t].pc \in {"commit", "seed"} => ~At(t, "idle")
    BY DEF At
  <2> QED BY <2>1 DEF FreshSub, Drawn, Bears
<1>2. OneBearer'
  BY <1>1 DEF IdInv, OneBearer
<1>3. Steady'
  BY <1>1 DEF IdInv, Steady
<1>4. Known'
  BY DEF IdInv, Known
<1> QED BY <1>2, <1>3, <1>4 DEF IdInv

\* One thread moves on.
LEMMA AccountJobMoved ==
  ASSUME AccountTypes, NEW t \in Threads, NEW k \in {Free} \cup SignupJobs \cup SeedJobs,
         k.pc \in {"commit", "seed"} => k.sub \in Subs,
         jobs' = [jobs EXCEPT ![t] = k]
  PROVE  /\ jobs' \in [Threads -> {Free} \cup SignupJobs \cup SeedJobs]
         /\ \A s \in Threads : jobs'[s].pc \in {"commit", "seed"} => jobs'[s].sub \in Subs
         /\ jobs'[t] = k /\ \A s \in Threads \ {t} : jobs'[s] = jobs[s]
  BY DEF AccountTypes

\* As long as nobody signs up with it, the count of the code stands.
LEMMA CodeKept ==
  ASSUME AccountTypes, CodeInv, Joined' = Joined, classCode'.uses = classCode.uses,
         overwritten => overwritten',
         \A t \in Threads : \/ jobs'[t].pc \notin {"account", "commit"}
                            \/ jobs'[t].seen = classCode.uses /\ (jobs'[t].coded => IsUsable)
                            \/ /\ jobs[t].pc \in {"account", "commit"}
                               /\ jobs'[t].seen = jobs[t].seen /\ jobs'[t].coded = jobs[t].coded
  PROVE  CodeInv'
<1>1. CodeCount'
  BY DEF CodeInv, CodeCount
<1>2. ASSUME NEW t \in Threads, jobs'[t].pc \in {"account", "commit"}, jobs'[t].coded
      PROVE  jobs'[t].seen < MaxUses /\ jobs'[t].seen <= Cardinality(Joined')
  BY <1>2 DEF CodeInv, CodeCount, IsUsable
<1> QED BY <1>1, <1>2 DEF CodeInv

LEMMA AccountJobShape ==
  ASSUME AccountTypes, NEW t \in Threads
  PROVE  /\ jobs[t].pc \in {"account", "commit"} => jobs[t] \in SignupJobs /\ jobs[t].email \in Emails
         /\ jobs[t].pc = "seed" => jobs[t] \in SeedJobs /\ jobs[t].email \in Emails
         /\ jobs[t].pc \in {"commit", "seed"} => jobs[t].sub \in Subs
<1>1. jobs[t] \in {Free} \cup SignupJobs \cup SeedJobs
  BY DEF AccountTypes
<1>2. Free.pc = "idle"
  BY DEF Free
<1> QED BY <1>1, <1>2 DEF AccountTypes, SignupJobs, SeedJobs

LEMMA BeginKeeps ==
  ASSUME AccountsInv, NEW t \in Threads, NEW e \in Emails, NEW coded \in BOOLEAN, BeginSignup(t, e, coded)
  PROVE  AccountsInv'
<1> DEFINE k == [pc |-> "account", email |-> e, coded |-> coded, seen |-> classCode.uses, sub |-> None]
<1>0. AccountTypes /\ IdInv /\ CodeInv
  BY DEF AccountsInv
<1>1. jobs' = [jobs EXCEPT ![t] = k] /\ (coded => IsUsable) /\ UNCHANGED accountVars
  BY DEF BeginSignup, Start, Become
<1>2. /\ k \in SignupJobs /\ k.pc = "account" /\ k.coded = coded /\ k.seen = classCode.uses
  BY <1>0 DEF AccountTypes, SignupJobs
<1> HIDE DEF k
<1>3. AccountTypes' /\ jobs'[t] = k /\ \A s \in Threads \ {t} : jobs'[s] = jobs[s]
  BY <1>0, <1>1, <1>2, AccountJobMoved DEF AccountTypes, accountVars
<1>4. IdInv'
  <2>1. \A s \in Subs, f \in Emails : Bears(s, f)' => Bears(s, f)
    BY <1>1, <1>2, <1>3 DEF Bears, accountVars
  <2> QED BY <1>0, <1>1, <1>3, <2>1, IdsKept DEF accountVars, histories
<1>5. CodeInv'
  BY <1>0, <1>1, <1>2, <1>3, CodeKept DEF accountVars, histories, Joined
<1> QED BY <1>3, <1>4, <1>5 DEF AccountsInv

LEMMA CreateKeeps ==
  ASSUME AccountsInv, NEW t \in Threads, CreateAccount(t)
  PROVE  AccountsInv'
<1> DEFINE j == jobs[t]
           e == j.email
<1>0. AccountTypes /\ IdInv /\ CodeInv
  BY DEF AccountsInv
<1>1. j \in SignupJobs /\ j.pc = "account" /\ e \in Emails
  BY <1>0, AccountJobShape DEF CreateAccount, At
<1>2. UNCHANGED <<portalUsers, classCode, cookies, histories, faults>>
  BY DEF CreateAccount
<1>3. CASE jobs' = [jobs EXCEPT ![t] = Free] /\ UNCHANGED accounts
  <2>1. Free.pc = "idle"
    BY DEF Free
  <2>2. AccountTypes' /\ jobs'[t] = Free /\ \A s \in Threads \ {t} : jobs'[s] = jobs[s]
    BY <1>0, <1>2, <1>3, <2>1, AccountJobMoved DEF AccountTypes
  <2>3. \A s \in Subs, f \in Emails : Bears(s, f)' => Bears(s, f)
    BY <1>2, <1>3, <2>1, <2>2 DEF Bears
  <2>4. IdInv'
    BY <1>0, <1>2, <1>3, <2>2, <2>3, IdsKept DEF histories
  <2>5. CodeInv'
    BY <1>0, <1>2, <2>1, <2>2, CodeKept DEF histories, Joined
  <2> QED BY <2>2, <2>4, <2>5 DEF AccountsInv
<1>4. CASE ~(jobs' = [jobs EXCEPT ![t] = Free] /\ UNCHANGED accounts)
  <2>1. PICK s \in Subs :
          /\ accounts[e] = None /\ FreshSub(s) /\ accounts' = [accounts EXCEPT ![e] = Account(s, FALSE)]
          /\ jobs' = [jobs EXCEPT ![t] = [j EXCEPT !.pc = "commit", !.sub = s]]
    BY <1>4 DEF CreateAccount, Become
  <2> DEFINE k == [j EXCEPT !.pc = "commit", !.sub = s]
  <2>2. /\ k \in SignupJobs /\ k.pc = "commit" /\ k.sub = s /\ k.email = e /\ k.coded = j.coded
        /\ k.seen = j.seen
    BY <1>1 DEF SignupJobs
  <2> HIDE DEF k, j
  <2>3. /\ accounts' \in [Emails -> {None} \cup [sub : Subs, verified : BOOLEAN]]
        /\ accounts'[e] # None /\ accounts'[e].sub = s /\ \A f \in Emails \ {e} : accounts'[f] = accounts[f]
    BY <1>0, <1>1, <2>1, RecordsAreSomething DEF AccountTypes
  <2>4. AccountTypes' /\ jobs'[t] = k /\ \A r \in Threads \ {t} : jobs'[r] = jobs[r]
    BY <1>0, <1>2, <2>1, <2>2, <2>3, AccountJobMoved DEF AccountTypes, k
  <2>5. \A r \in Subs, f \in Emails : Bears(r, f)' => Bears(r, f) \/ (r = s /\ f = e)
    BY <1>2, <2>2, <2>3, <2>4 DEF Bears
  <2>6. IdInv'
    BY <1>0, <1>1, <1>2, <2>1, <2>3, <2>5, IdDrawn DEF histories
  <2>7. CodeInv'
    BY <1>0, <1>1, <1>2, <2>2, <2>4, CodeKept DEF histories, Joined, j
  <2> QED BY <2>4, <2>6, <2>7 DEF AccountsInv
<1> QED BY <1>3, <1>4

LEMMA CommitSignupKeeps ==
  ASSUME AccountsInv, NEW t \in Threads, CommitSignup(t)
  PROVE  AccountsInv'
<1> DEFINE j == jobs[t]
           e == j.email
           row == User(j.sub, j.coded)
<1>0. AccountTypes /\ IdInv /\ CodeInv
  BY DEF AccountsInv
<1>1. j \in SignupJobs /\ j.pc = "commit" /\ e \in Emails /\ j.sub \in Subs
  BY <1>0, AccountJobShape DEF CommitSignup, At
<1>2. /\ jobs' = [jobs EXCEPT ![t] = Free] /\ UNCHANGED <<accounts, cookies, recreated>>
      /\ \/ UNCHANGED <<portalUsers, classCode, overwritten>>
         \/ /\ portalUsers[e] = None /\ portalUsers' = [portalUsers EXCEPT ![e] = row]
            /\ classCode' = IF j.coded THEN [classCode EXCEPT !.uses = j.seen + 1] ELSE classCode
            /\ overwritten' = (overwritten \/ (j.coded /\ classCode.uses # j.seen))
  BY DEF CommitSignup, Finish, Become
<1>3. row # None /\ row \in [sub : Subs, coded : BOOLEAN] /\ row.sub = j.sub /\ row.coded = j.coded
  BY <1>1, RecordsAreSomething DEF SignupJobs
<1>4. j.seen \in Nat /\ j.coded \in BOOLEAN
  BY <1>1 DEF SignupJobs
<1> HIDE DEF j, row
<1>5. Free.pc = "idle"
  BY DEF Free
<1>6. /\ portalUsers' \in [Emails -> {None} \cup [sub : Subs, coded : BOOLEAN]]
      /\ \A f \in Emails : portalUsers'[f] = portalUsers[f]
                           \/ (f = e /\ portalUsers[f] = None /\ portalUsers'[f] = row)
  BY <1>0, <1>1, <1>2, <1>3 DEF AccountTypes
<1>7. classCode' \in [uses : Nat, active : BOOLEAN]
  BY <1>0, <1>2, <1>4 DEF AccountTypes
<1>8. AccountTypes' /\ jobs'[t] = Free /\ \A s \in Threads \ {t} : jobs'[s] = jobs[s]
  BY <1>0, <1>2, <1>5, <1>6, <1>7, AccountJobMoved DEF AccountTypes
<1>9. IdInv'
  <2>1. \A s \in Subs, f \in Emails : Bears(s, f)' => Bears(s, f)
    <3> SUFFICES ASSUME NEW s \in Subs, NEW f \in Emails, Bears(s, f)' PROVE Bears(s, f)
      OBVIOUS
    <3>1. CASE portalUsers'[f] # None /\ portalUsers'[f].sub = s
      BY <1>1, <1>3, <1>6, <3>1 DEF Bears, j
    <3>2. CASE ~(portalUsers'[f] # None /\ portalUsers'[f].sub = s)
      BY <1>2, <1>5, <1>8, <3>2 DEF Bears
    <3> QED BY <3>1, <3>2
  <2>2. \A f \in Emails : portalUsers[f] # None => portalUsers'[f] # None
    BY <1>3, <1>6
  <2> QED BY <1>0, <1>2, <1>8, <2>1, <2>2, IdsKept
<1>10. CodeInv'
  <2>1. CASE UNCHANGED <<portalUsers, classCode, overwritten>>
    BY <1>0, <1>5, <1>8, <2>1, CodeKept DEF Joined
  <2>2. CASE ~UNCHANGED <<portalUsers, classCode, overwritten>>
    <3>1. /\ portalUsers[e] = None /\ portalUsers' = [portalUsers EXCEPT ![e] = row]
          /\ classCode' = IF j.coded THEN [classCode EXCEPT !.uses = j.seen + 1] ELSE classCode
          /\ overwritten' = (overwritten \/ (j.coded /\ classCode.uses # j.seen))
      BY <1>2, <2>2
    <3>2. e \notin Joined /\ Joined' = IF j.coded THEN Joined \cup {e} ELSE Joined
      BY <1>0, <1>1, <1>3, <1>4, <3>1 DEF Joined, AccountTypes
    <3>3. CASE ~j.coded
      <4>1. classCode' = classCode /\ Joined' = Joined /\ (overwritten => overwritten')
        BY <3>1, <3>2, <3>3
      <4> QED BY <1>0, <1>5, <1>8, <4>1, CodeKept
    <3>4. CASE j.coded
      <4>1. IsFiniteSet(Joined) /\ IsFiniteSet(Joined') /\ Cardinality(Joined') = Cardinality(Joined) + 1
        BY <1>0, <3>2, <3>4, FS_AddElement DEF CodeInv
      <4>2. Cardinality(Joined) \in Nat
        BY <4>1, FS_CardinalityType
      <4>3. classCode'.uses = j.seen + 1 /\ classCode.uses \in Nat
        BY <1>0, <3>1, <3>4 DEF AccountTypes
      <4>4. j.seen < MaxUses /\ j.seen <= Cardinality(Joined)
        BY <1>0, <1>1, <3>4 DEF CodeInv, j
      <4>5. MaxUses \in Nat
        BY AccountsAssumption
      <4>6. CodeCount'
        <5>1. classCode'.uses <= Cardinality(Joined')
          BY <1>4, <4>1, <4>2, <4>3, <4>4
        <5>2. ASSUME ~overwritten' PROVE classCode'.uses = Cardinality(Joined') /\ Cardinality(Joined') <= MaxUses
          <6>1. classCode.uses = j.seen /\ classCode.uses = Cardinality(Joined)
            BY <1>0, <3>1, <3>4, <5>2 DEF CodeInv, CodeCount
          <6> QED BY <1>4, <4>1, <4>2, <4>3, <4>4, <4>5, <6>1
        <5> QED BY <5>1, <5>2 DEF CodeCount
      <4>7. ASSUME NEW s \in Threads, jobs'[s].pc \in {"account", "commit"}, jobs'[s].coded
            PROVE  jobs'[s].seen < MaxUses /\ jobs'[s].seen <= Cardinality(Joined')
        <5>1. s # t /\ jobs'[s] = jobs[s]
          BY <1>5, <1>8, <4>7
        <5>2. jobs[s].seen \in Nat
          BY <1>0, <4>7, <5>1 DEF AccountTypes, SignupJobs, SeedJobs, Free
        <5>3. jobs[s].seen < MaxUses /\ jobs[s].seen <= Cardinality(Joined)
          BY <1>0, <4>7, <5>1 DEF CodeInv
        <5> QED BY <4>1, <4>2, <5>1, <5>2, <5>3
      <4> QED BY <4>1, <4>6, <4>7 DEF CodeInv
    <3> QED BY <3>3, <3>4
  <2> QED BY <2>1, <2>2
<1> QED BY <1>8, <1>9, <1>10 DEF AccountsInv

\* Nobody's sign-up moves, and only the accounts, the sessions and the mark of the code change.
LEMMA OutsideSignup ==
  ASSUME AccountsInv, UNCHANGED <<jobs, overwritten>>, Joined' = Joined,
         classCode' = classCode \/ \E on \in BOOLEAN : classCode' = [classCode EXCEPT !.active = on]
  PROVE  CodeInv' /\ classCode' \in [uses : Nat, active : BOOLEAN]
<1>1. AccountTypes /\ CodeInv
  BY DEF AccountsInv
<1>2. classCode' \in [uses : Nat, active : BOOLEAN] /\ classCode'.uses = classCode.uses
  BY <1>1 DEF AccountTypes
<1> QED BY <1>1, <1>2, CodeKept

LEMMA VerifyKeeps ==
  ASSUME AccountsInv, NEW e \in Emails, Verify(e) \/ DeleteAccount(e)
  PROVE  AccountsInv'
<1>0. AccountTypes /\ IdInv
  BY DEF AccountsInv
<1>1. /\ accounts[e] # None /\ accounts[e] \in [sub : Subs, verified : BOOLEAN]
      /\ UNCHANGED <<portalUsers, classCode, cookies, overwritten, jobs>>
  BY <1>0 DEF Verify, DeleteAccount, histories, handlerVars, AccountTypes
<1>2. \/ accounts' = [accounts EXCEPT ![e] = None] /\ recreated' = recreated \cup {e}
      \/ accounts' = [accounts EXCEPT ![e] = [@ EXCEPT !.verified = TRUE]] /\ recreated' = recreated
  BY DEF Verify, DeleteAccount, histories
<1> DEFINE v == [accounts[e] EXCEPT !.verified = TRUE]
<1>3. v \in [sub : Subs, verified : BOOLEAN] /\ v.sub = accounts[e].sub /\ v # None
  <2>1. v \in [sub : Subs, verified : BOOLEAN] /\ v.sub = accounts[e].sub
    BY <1>1
  <2> HIDE DEF v
  <2>2. v = Account(v.sub, v.verified) /\ v.sub \in Subs /\ v.verified \in BOOLEAN
    BY <2>1 DEF Account
  <2> QED BY <2>1, <2>2, RecordsAreSomething
<1> HIDE DEF v
<1>4. /\ accounts' \in [Emails -> {None} \cup [sub : Subs, verified : BOOLEAN]]
      /\ \A f \in Emails \ {e} : accounts'[f] = accounts[f]
      /\ \/ accounts'[e] = None /\ recreated' = recreated \cup {e}
         \/ accounts'[e] = v /\ recreated' = recreated
  BY <1>0, <1>2, <1>3 DEF AccountTypes, v
<1>5. AccountTypes'
  BY <1>0, <1>1, <1>4 DEF AccountTypes
<1>6. IdInv'
  <2>1. \A s \in Subs, f \in Emails : Bears(s, f)' => Bears(s, f)
    BY <1>1, <1>3, <1>4 DEF Bears
  <2>2. \A f \in Emails \ recreated' :
          accounts[f] # None => accounts'[f] # None /\ accounts'[f].sub = accounts[f].sub
    BY <1>3, <1>4
  <2> QED BY <1>0, <1>1, <1>4, <1>5, <2>1, <2>2, IdsKept
<1>7. CodeInv'
  BY <1>1, OutsideSignup DEF Joined
<1> QED BY <1>5, <1>6, <1>7 DEF AccountsInv

LEMMA CallbackKeeps ==
  ASSUME AccountsInv, NEW e \in Emails, Callback(e)
  PROVE  AccountsInv'
<1> DEFINE sub == accounts[e].sub
           row == User(sub, FALSE)
           cookie == [sub |-> sub, email |-> e]
<1>0. AccountTypes /\ IdInv
  BY DEF AccountsInv
<1>1. /\ accounts[e] # None /\ sub \in Subs
      /\ UNCHANGED <<accounts, classCode, recreated, overwritten, jobs>>
      /\ portalUsers' = IF Loads(sub) # {} \/ portalUsers[e] # None THEN portalUsers
                        ELSE [portalUsers EXCEPT ![e] = row]
      /\ cookies' = {c \in cookies : c.email # e} \cup {cookie}
  BY <1>0 DEF Callback, LogsIn, histories, handlerVars, AccountTypes
<1>2. row # None /\ row \in [sub : Subs, coded : BOOLEAN] /\ row.sub = sub /\ row.coded = FALSE
  BY <1>1, RecordsAreSomething
<1>3. Bears(sub, e) /\ cookie \in [sub : Subs, email : Emails] /\ cookie.sub = sub /\ cookie.email = e
  BY <1>1 DEF Bears
<1> HIDE DEF row, cookie
<1>4. /\ portalUsers' \in [Emails -> {None} \cup [sub : Subs, coded : BOOLEAN]]
      /\ \A f \in Emails : portalUsers'[f] = portalUsers[f]
                           \/ (f = e /\ portalUsers[f] = None /\ portalUsers'[f] = row)
  BY <1>0, <1>1, <1>2 DEF AccountTypes
<1>5. AccountTypes'
  BY <1>0, <1>1, <1>3, <1>4 DEF AccountTypes
<1>6. IdInv'
  <2>1. ASSUME NEW s \in Subs, NEW f \in Emails, Bears(s, f)' PROVE Bears(s, f)
    <3>1. CASE portalUsers'[f] # None /\ portalUsers'[f].sub = s
      BY <1>2, <1>3, <1>4, <3>1 DEF Bears
    <3>2. CASE \E c \in cookies' : c.sub = s /\ c.email = f
      BY <1>1, <1>3, <3>2 DEF Bears
    <3>3. CASE ~(portalUsers'[f] # None /\ portalUsers'[f].sub = s) /\ ~\E c \in cookies' : c.sub = s /\ c.email = f
      BY <1>1, <2>1, <3>3 DEF Bears
    <3> QED BY <3>1, <3>2, <3>3
  <2>2. portalUsers'[e] # None
    <3>1. CASE Loads(sub) # {}
      <4>1. PICK f \in Emails : portalUsers[f] # None /\ portalUsers[f].sub = sub
        BY <3>1 DEF Loads
      <4>2. f = e
        BY <1>0, <1>1, <1>3, <4>1 DEF IdInv, OneBearer, Bears
      <4> QED BY <1>4, <4>1, <4>2, <1>2
    <3>2. CASE Loads(sub) = {}
      BY <1>0, <1>1, <1>2, <3>2 DEF AccountTypes
    <3> QED BY <3>1, <3>2
  <2>3. \A c \in cookies' : c \in cookies \/ portalUsers'[c.email] # None
    BY <1>1, <1>3, <2>2
  <2>4. \A f \in Emails : portalUsers[f] # None => portalUsers'[f] # None
    BY <1>2, <1>4
  <2> QED BY <1>0, <1>1, <1>5, <2>1, <2>3, <2>4, IdsKept
<1>7. CodeInv'
  <2>1. Joined' = Joined
    BY <1>2, <1>4 DEF Joined
  <2> QED BY <1>1, <2>1, OutsideSignup
<1> QED BY <1>5, <1>6, <1>7 DEF AccountsInv

LEMMA ConsoleKeeps ==
  ASSUME AccountsInv, (\E c \in cookies : Logout(c)) \/ (\E on \in BOOLEAN : SetCodeActive(on))
  PROVE  AccountsInv'
<1>0. AccountTypes /\ IdInv
  BY DEF AccountsInv
<1>1. /\ UNCHANGED <<accounts, portalUsers, recreated, overwritten, jobs>> /\ cookies' \subseteq cookies
      /\ classCode' = classCode \/ \E on \in BOOLEAN : classCode' = [classCode EXCEPT !.active = on]
  BY DEF Logout, SetCodeActive, histories, handlerVars
<1>2. CodeInv' /\ classCode' \in [uses : Nat, active : BOOLEAN]
  BY <1>1, OutsideSignup DEF Joined
<1>3. AccountTypes'
  BY <1>0, <1>1, <1>2 DEF AccountTypes
<1>4. IdInv'
  <2>1. \A s \in Subs, f \in Emails : Bears(s, f)' => Bears(s, f)
    BY <1>1 DEF Bears
  <2> QED BY <1>0, <1>1, <1>3, <2>1, IdsKept
<1> QED BY <1>2, <1>3, <1>4 DEF AccountsInv

LEMMA FailKeeps ==
  ASSUME AccountsInv, NEW t \in Threads, SignupFails(t)
  PROVE  AccountsInv'
<1>0. AccountTypes /\ IdInv /\ CodeInv
  BY DEF AccountsInv
<1>1. jobs' = [jobs EXCEPT ![t] = Free] /\ UNCHANGED accountVars
  BY DEF SignupFails, Killed, Become
<1>2. Free.pc = "idle"
  BY DEF Free
<1>3. AccountTypes' /\ jobs'[t] = Free /\ \A s \in Threads \ {t} : jobs'[s] = jobs[s]
  BY <1>0, <1>1, <1>2, AccountJobMoved DEF AccountTypes, accountVars
<1>4. IdInv'
  <2>1. \A s \in Subs, f \in Emails : Bears(s, f)' => Bears(s, f)
    BY <1>1, <1>2, <1>3 DEF Bears, accountVars
  <2> QED BY <1>0, <1>1, <1>3, <2>1, IdsKept DEF accountVars, histories
<1>5. CodeInv'
  BY <1>0, <1>1, <1>2, <1>3, CodeKept DEF accountVars, histories, Joined
<1> QED BY <1>3, <1>4, <1>5 DEF AccountsInv

LEMMA SeedKeeps ==
  ASSUME AccountsInv, NEW t \in Threads, NEW e \in Emails, SeedAccount(t, e)
  PROVE  AccountsInv'
<1>0. AccountTypes /\ IdInv /\ CodeInv
  BY DEF AccountsInv
<1>1. PICK s \in Subs :
        /\ IF accounts[e] # None THEN s = accounts[e].sub ELSE FreshSub(s)
        /\ accounts' = [accounts EXCEPT ![e] = Account(s, TRUE)]
        /\ jobs' = [jobs EXCEPT ![t] = [pc |-> "seed", email |-> e, sub |-> s]]
        /\ UNCHANGED <<portalUsers, classCode, cookies, recreated, overwritten>>
  BY DEF SeedAccount, Start, Become, histories
<1> DEFINE k == [pc |-> "seed", email |-> e, sub |-> s]
<1>2. k \in SeedJobs /\ k.pc = "seed" /\ k.email = e /\ k.sub = s
  BY DEF SeedJobs
<1> HIDE DEF k
<1>3. /\ accounts' \in [Emails -> {None} \cup [sub : Subs, verified : BOOLEAN]]
      /\ accounts'[e] # None /\ accounts'[e].sub = s /\ \A f \in Emails \ {e} : accounts'[f] = accounts[f]
  BY <1>0, <1>1, RecordsAreSomething DEF AccountTypes
<1>4. AccountTypes' /\ jobs'[t] = k /\ \A r \in Threads \ {t} : jobs'[r] = jobs[r]
  BY <1>0, <1>1, <1>2, <1>3, AccountJobMoved DEF AccountTypes, k
<1>5. \A r \in Subs, f \in Emails : Bears(r, f)' => Bears(r, f) \/ (r = s /\ f = e)
  BY <1>1, <1>2, <1>3, <1>4 DEF Bears
<1>6. IdInv'
  <2>1. CASE accounts[e] = None
    BY <1>0, <1>1, <1>3, <1>5, <2>1, IdDrawn
  <2>2. CASE accounts[e] # None
    <3>1. s = accounts[e].sub /\ Bears(s, e)
      BY <1>1, <2>2 DEF Bears
    <3>2. \A r \in Subs, f \in Emails : Bears(r, f)' => Bears(r, f)
      BY <1>5, <3>1
    <3> QED BY <1>0, <1>1, <1>3, <1>4, <2>2, <3>1, <3>2, IdsKept
  <2> QED BY <2>1, <2>2
<1>7. CodeInv'
  BY <1>0, <1>1, <1>2, <1>4, CodeKept DEF Joined
<1> QED BY <1>4, <1>6, <1>7 DEF AccountsInv

LEMMA CommitSeedKeeps ==
  ASSUME AccountsInv, NEW t \in Threads, CommitSeed(t)
  PROVE  AccountsInv'
<1> DEFINE j == jobs[t]
           e == j.email
           row == IF portalUsers[e] = None THEN User(j.sub, FALSE) ELSE [portalUsers[e] EXCEPT !.sub = j.sub]
<1>0. AccountTypes /\ IdInv /\ CodeInv
  BY DEF AccountsInv
<1>1. j \in SeedJobs /\ j.pc = "seed" /\ e \in Emails /\ j.sub \in Subs
  BY <1>0, AccountJobShape DEF CommitSeed, At
<1>2. /\ jobs' = [jobs EXCEPT ![t] = Free]
      /\ UNCHANGED <<accounts, cookies, recreated, classCode, overwritten>>
      /\ portalUsers' = [portalUsers EXCEPT ![e] = row]
  BY DEF CommitSeed, Finish, Become, histories
<1>3. /\ row # None /\ row \in [sub : Subs, coded : BOOLEAN] /\ row.sub = j.sub
      /\ row.coded <=> portalUsers[e] # None /\ portalUsers[e].coded
  <2>1. CASE portalUsers[e] = None
    BY <1>1, <2>1, RecordsAreSomething
  <2>2. CASE portalUsers[e] # None
    <3>1. portalUsers[e] \in [sub : Subs, coded : BOOLEAN]
      BY <1>0, <1>1, <2>2 DEF AccountTypes
    <3>2. [portalUsers[e] EXCEPT !.sub = j.sub] = User(j.sub, portalUsers[e].coded)
      BY <3>1 DEF User
    <3> QED BY <1>1, <2>2, <3>1, <3>2, RecordsAreSomething
  <2> QED BY <2>1, <2>2
<1> HIDE DEF j, row
<1>4. Free.pc = "idle"
  BY DEF Free
<1>5. /\ portalUsers' \in [Emails -> {None} \cup [sub : Subs, coded : BOOLEAN]]
      /\ portalUsers'[e] = row /\ \A f \in Emails \ {e} : portalUsers'[f] = portalUsers[f]
  BY <1>0, <1>1, <1>2, <1>3 DEF AccountTypes
<1>6. AccountTypes' /\ jobs'[t] = Free /\ \A s \in Threads \ {t} : jobs'[s] = jobs[s]
  BY <1>0, <1>2, <1>4, <1>5, AccountJobMoved DEF AccountTypes
<1>7. IdInv'
  <2>1. ASSUME NEW s \in Subs, NEW f \in Emails, Bears(s, f)' PROVE Bears(s, f)
    <3>1. CASE portalUsers'[f] # None /\ portalUsers'[f].sub = s
      BY <1>1, <1>3, <1>5, <3>1 DEF Bears, j
    <3>2. CASE ~(portalUsers'[f] # None /\ portalUsers'[f].sub = s)
      BY <1>2, <1>4, <1>6, <2>1, <3>2 DEF Bears
    <3> QED BY <3>1, <3>2
  <2>2. \A f \in Emails : portalUsers[f] # None => portalUsers'[f] # None
    BY <1>3, <1>5
  <2> QED BY <1>0, <1>2, <1>6, <2>1, <2>2, IdsKept
<1>8. CodeInv'
  <2>1. Joined' = Joined
    BY <1>3, <1>5 DEF Joined
  <2> QED BY <1>0, <1>2, <1>4, <1>6, <2>1, CodeKept
<1> QED BY <1>6, <1>7, <1>8 DEF AccountsInv

LEMMA AccountsAlways == AccountsSpec => []AccountsInv
<1>1. HandlersInit /\ AccountsInit => AccountsInv
  <2> SUFFICES ASSUME HandlersInit, AccountsInit PROVE AccountsInv
    OBVIOUS
  <2>1. \A t \in Threads : jobs[t].pc = "idle"
    BY DEF HandlersInit, Free
  <2>2. AccountTypes
    BY <2>1 DEF AccountTypes, HandlersInit, AccountsInit
  <2>3. IdInv
    BY <2>1 DEF IdInv, OneBearer, Steady, Known, Bears, AccountsInit
  <2>4. Joined = {}
    BY DEF Joined, AccountsInit
  <2>5. IsFiniteSet(Joined) /\ Cardinality(Joined) = 0
    BY <2>4, FS_EmptySet
  <2>6. CodeCount
    BY <2>5, AccountsAssumption DEF CodeCount, AccountsInit
  <2>7. CodeInv
    BY <2>1, <2>5, <2>6 DEF CodeInv
  <2> QED BY <2>2, <2>3, <2>7 DEF AccountsInv
<1>2. AccountsInv /\ [AccountsNext]_<<handlerVars, accountVars>> => AccountsInv'
  <2> SUFFICES ASSUME AccountsInv, [AccountsNext]_<<handlerVars, accountVars>> PROVE AccountsInv'
    OBVIOUS
  <2>1. CASE UNCHANGED <<handlerVars, accountVars>>
    BY <2>1 DEF AccountsInv, AccountTypes, IdInv, OneBearer, Steady, Known, Bears, CodeInv, CodeCount, Joined,
      handlerVars, accountVars, histories
  <2>2. CASE AccountsNext
    BY <2>2, BeginKeeps, CreateKeeps, CommitSignupKeeps, VerifyKeeps, CallbackKeeps, ConsoleKeeps, FailKeeps,
      SeedKeeps, CommitSeedKeeps DEF AccountsNext
  <2> QED BY <2>1, <2>2
<1> QED BY <1>1, <1>2, PTL DEF AccountsSpec

(***************************************************************************)
(* Whatever the number of addresses and handlers and however sign-ups,     *)
(* first logins and seeding overlap: the sub in a session cookie finds     *)
(* the row of the address that logged in, and of no other, unless the      *)
(* account was deleted in Keycloak (callback, adopt_existing_user,         *)
(* load_user).                                                             *)
(***************************************************************************)
THEOREM SessionsLoad == AccountsSpec => []SessionLoads
<1>1. AccountsInv => SessionLoads
  <2> SUFFICES ASSUME AccountsInv, NEW c \in cookies, c.email \notin recreated PROVE Loads(c.sub) = {c.email}
    BY DEF SessionLoads
  <2>1. AccountTypes /\ IdInv /\ c.sub \in Subs /\ c.email \in Emails
    BY DEF AccountsInv, AccountTypes
  <2>2. Bears(c.sub, c.email) /\ portalUsers[c.email] # None
    BY <2>1 DEF Bears, IdInv, Known
  <2>3. portalUsers[c.email].sub \in Subs /\ Bears(portalUsers[c.email].sub, c.email)
    BY <2>1, <2>2 DEF Bears, AccountTypes
  <2>4. portalUsers[c.email].sub = c.sub
    BY <2>1, <2>2, <2>3 DEF IdInv, Steady
  <2>5. \A f \in Emails : portalUsers[f] # None /\ portalUsers[f].sub = c.sub => f = c.email
    BY <2>1, <2>2 DEF IdInv, OneBearer, Bears
  <2> QED BY <2>1, <2>2, <2>4, <2>5 DEF Loads
<1> QED BY <1>1, AccountsAlways, PTL

(***************************************************************************)
(* However many sign-ups with one class code overlap, fail or are          *)
(* overtaken by a login, its uses never exceed the rows that name it, and  *)
(* are exact and within the limit while no commit wrote over uses it had   *)
(* not seen (signup_submit).                                               *)
(***************************************************************************)
THEOREM CodeCounted == AccountsSpec => []CodeCount
<1>1. AccountsInv => CodeCount
  BY DEF AccountsInv, CodeInv
<1> QED BY <1>1, AccountsAlways, PTL

-----------------------------------------------------------------------------
(* Students' tenants (module Students).                                    *)

AfterDashboard == {"device", "newdevice", "record", "ready"}
AfterUser == {"dashboard", "newdashboard"} \cup AfterDashboard
AfterTenant == {"user", "newuser"} \cup AfterUser

Places == {"profile", "promote", "tenant", "newtenant", "failing", "failed"} \cup AfterTenant
RunJobs == [pc : Places, tenant : TenantIds \cup {None}, alone : BOOLEAN]

\* what a run that is alone has reached at each place
Stage(j) ==
  /\ j.pc = "newtenant" => Titled = {}
  /\ j.pc \in AfterTenant => j.tenant \in Titled /\ tenants[j.tenant].quotas
  /\ j.pc = "newuser" => ~HasUser(j.tenant)
  /\ j.pc \in AfterUser => HasUser(j.tenant)
  /\ j.pc \in AfterDashboard => HasDashboard(j.tenant)
  /\ j.pc = "newdevice" => ~HasDevice(j.tenant)
  /\ j.pc \in {"record", "ready"} => HasDevice(j.tenant)
  /\ j.pc = "ready" => studentRow = [state |-> "provisioned", tenant |-> j.tenant]
  /\ j.pc \in {"failing", "failed"} => \E a, b \in Titled : a # b

StudentTypes ==
  /\ jobs \in [Threads -> {Free} \cup RunJobs]
  /\ tenants \in [TenantIds -> {None} \cup TenantRecords]
  /\ IsFiniteSet(Titled)

RunsAlone ==
  \A t \in Threads : jobs[t].pc # "idle" /\ jobs[t].alone =>
    Stage(jobs[t]) /\ \A s \in Threads \ {t} : jobs[s].pc = "idle"

StudentsInv == StudentTypes /\ RunsAlone

LEMMA RunShape ==
  ASSUME StudentTypes, NEW t \in Threads, jobs[t].pc # "idle"
  PROVE  jobs[t] \in RunJobs
<1>1. jobs[t] \in {Free} \cup RunJobs
  BY DEF StudentTypes
<1> QED BY <1>1 DEF Free

LEMMA RunMoved ==
  ASSUME StudentsInv, NEW t \in Threads, jobs[t].pc # "idle",
         NEW k \in {Free} \cup RunJobs, jobs' = [jobs EXCEPT ![t] = k],
         tenants' \in [TenantIds -> {None} \cup TenantRecords], IsFiniteSet(Titled'),
         k # Free /\ k.alone => jobs[t].alone /\ Stage(k)'
  PROVE  StudentsInv'
<1>0. StudentTypes /\ RunsAlone
  BY DEF StudentsInv
<1>1. jobs' \in [Threads -> {Free} \cup RunJobs] /\ jobs'[t] = k /\ \A s \in Threads \ {t} : jobs'[s] = jobs[s]
  BY <1>0 DEF StudentTypes
<1>2. StudentTypes'
  BY <1>1 DEF StudentTypes
<1>3. ASSUME NEW s \in Threads, jobs'[s].pc # "idle", jobs'[s].alone
      PROVE  Stage(jobs[s])' /\ \A r \in Threads \ {s} : jobs'[r].pc = "idle"
  <2>1. s = t
    BY <1>0, <1>1, <1>3 DEF RunsAlone
  <2>2. k # Free
    BY <1>1, <1>3, <2>1 DEF Free
  <2>3. Stage(jobs[s])'
    BY <1>1, <1>3, <2>1, <2>2 DEF Stage
  <2> QED BY <1>0, <1>1, <1>3, <2>1, <2>2, <2>3 DEF RunsAlone
<1>4. RunsAlone'
  BY <1>3 DEF RunsAlone
<1> QED BY <1>2, <1>4 DEF StudentsInv

LEMMA TenantsKept ==
  ASSUME StudentsInv, UNCHANGED tenants
  PROVE  tenants' \in [TenantIds -> {None} \cup TenantRecords] /\ IsFiniteSet(Titled') /\ Titled' = Titled
<1>1. Titled' = Titled
  BY DEF Titled
<1> QED BY <1>1 DEF StudentsInv, StudentTypes

\* A tenant that is there is filled in.
LEMMA TenantFilled ==
  ASSUME StudentsInv, NEW i \in Titled, NEW r \in TenantRecords, tenants' = [tenants EXCEPT ![i] = r]
  PROVE  tenants' \in [TenantIds -> {None} \cup TenantRecords] /\ IsFiniteSet(Titled') /\ Titled' = Titled
         /\ tenants'[i] = r /\ \A h \in TenantIds \ {i} : tenants'[h] = tenants[h]
<1>1. /\ tenants' \in [TenantIds -> {None} \cup TenantRecords]
      /\ tenants'[i] = r /\ \A h \in TenantIds \ {i} : tenants'[h] = tenants[h]
  BY DEF StudentsInv, StudentTypes, Titled
<1>2. Titled' = Titled
  BY <1>1, StudentsAssumption DEF Titled
<1> QED BY <1>1, <1>2 DEF StudentsInv, StudentTypes

LEMMA BeginRunKeeps ==
  ASSUME StudentsInv, NEW t \in Threads, BeginRun(t)
  PROVE  StudentsInv'
<1> DEFINE k == [pc |-> "profile", tenant |-> None, alone |-> \A s \in Threads \ {t} : At(s, "idle")]
<1>0. StudentTypes /\ RunsAlone
  BY DEF StudentsInv
<1>1. jobs' = [Spoil(t) EXCEPT ![t] = k] /\ UNCHANGED <<profile, tenants, studentRow>>
  BY DEF BeginRun, studentVars
<1>2. k \in RunJobs /\ k.pc = "profile" /\ (k.alone <=> \A s \in Threads \ {t} : jobs[s].pc = "idle")
  BY DEF RunJobs, Places, At
<1> HIDE DEF k
<1>3. ASSUME NEW s \in Threads \ {t}
      PROVE  Spoil(t)[s] \in {Free} \cup RunJobs /\ Spoil(t)[s].pc = jobs[s].pc /\ (jobs[s].pc # "idle" => ~Spoil(t)[s].alone)
  <2>1. jobs[s] \in {Free} \cup RunJobs
    BY <1>0 DEF StudentTypes
  <2>2. CASE jobs[s].pc = "idle"
    BY <2>1, <2>2 DEF Spoil, At
  <2>3. CASE jobs[s].pc # "idle"
    <3>1. jobs[s] \in RunJobs /\ Spoil(t)[s] = [jobs[s] EXCEPT !.alone = FALSE]
      BY <1>0, <2>3, RunShape DEF Spoil, At
    <3> QED BY <3>1 DEF RunJobs
  <2> QED BY <2>2, <2>3
<1>4. jobs' \in [Threads -> {Free} \cup RunJobs] /\ jobs'[t] = k /\ \A s \in Threads \ {t} : jobs'[s] = Spoil(t)[s]
  <2>1. jobs' = [s \in Threads |-> IF s = t THEN k ELSE Spoil(t)[s]]
    BY <1>1 DEF Spoil
  <2> QED BY <1>2, <1>3, <2>1
<1>5. StudentTypes'
  BY <1>1, <1>4, TenantsKept DEF StudentTypes
<1>6. RunsAlone'
  <2>1. Stage(jobs[t])'
    BY <1>2, <1>4 DEF Stage, AfterTenant, AfterUser, AfterDashboard
  <2> QED BY <1>2, <1>3, <1>4, <2>1 DEF RunsAlone
<1> QED BY <1>5, <1>6 DEF StudentsInv

\* Anybody else who touches the address ends the peace of all runs.
LEMMA SpoilKeeps ==
  ASSUME StudentsInv, jobs' = Spoil(None),
         tenants' \in [TenantIds -> {None} \cup TenantRecords], IsFiniteSet(Titled'),
         None \notin Threads
  PROVE  StudentsInv'
<1>0. StudentTypes
  BY DEF StudentsInv
<1>1. ASSUME NEW s \in Threads
      PROVE  jobs'[s] \in {Free} \cup RunJobs /\ (jobs'[s].pc # "idle" => ~jobs'[s].alone)
  <2>1. jobs[s] \in {Free} \cup RunJobs
    BY <1>0 DEF StudentTypes
  <2>2. CASE jobs[s].pc = "idle"
    BY <2>1, <2>2 DEF Spoil, At
  <2>3. CASE jobs[s].pc # "idle"
    <3>1. jobs[s] \in RunJobs /\ jobs'[s] = [jobs[s] EXCEPT !.alone = FALSE]
      BY <1>0, <2>3, RunShape DEF Spoil, At
    <3> QED BY <3>1 DEF RunJobs
  <2> QED BY <2>2, <2>3
<1>2. StudentTypes'
  BY <1>1 DEF StudentTypes, Spoil
<1> QED BY <1>1, <1>2 DEF StudentsInv, RunsAlone

LEMMA EarlyKeeps ==
  ASSUME StudentsInv, NEW t \in Threads, EnsureProfile(t) \/ PromoteProfile(t) \/ FindUser(t)
  PROVE  StudentsInv'
<1>0. StudentTypes /\ RunsAlone
  BY DEF StudentsInv
<1>1. UNCHANGED <<tenants, studentRow>> /\ jobs[t].pc # "idle" /\ jobs[t] \in RunJobs
  BY <1>0, RunShape DEF EnsureProfile, PromoteProfile, FindUser, At, studentVars
<1>2. PICK place :
        /\ jobs' = [jobs EXCEPT ![t].pc = place]
        /\ \/ place \in {"promote", "tenant"}
           \/ jobs[t].pc = "user" /\ place = IF HasUser(jobs[t].tenant) THEN "dashboard" ELSE "newuser"
  BY DEF EnsureProfile, PromoteProfile, FindUser, At, Moves
<1>3. PICK k : k = [jobs[t] EXCEPT !.pc = place]
  OBVIOUS
<1>4. jobs' = [jobs EXCEPT ![t] = k]
  BY <1>0, <1>2, <1>3 DEF StudentTypes
<1>5. /\ k \in RunJobs /\ k.pc = place /\ k.tenant = jobs[t].tenant /\ k.alone = jobs[t].alone
  BY <1>1, <1>2, <1>3 DEF RunJobs, Places, AfterTenant, AfterUser
<1>6. ASSUME k.alone PROVE Stage(k)'
  <2>1. Stage(jobs[t])
    BY <1>0, <1>1, <1>5, <1>6 DEF RunsAlone
  <2>2. CASE place \in {"promote", "tenant"}
    BY <1>5, <2>2 DEF Stage, AfterTenant, AfterUser, AfterDashboard
  <2>3. CASE jobs[t].pc = "user" /\ place = IF HasUser(jobs[t].tenant) THEN "dashboard" ELSE "newuser"
    <3>1. jobs[t].tenant \in Titled /\ tenants[jobs[t].tenant].quotas
      BY <2>1, <2>3 DEF Stage, AfterTenant
    <3> QED BY <1>1, <1>5, <2>3, <3>1 DEF Stage, AfterTenant, AfterUser, AfterDashboard, HasUser, Titled
  <2> QED BY <1>2, <2>2, <2>3
<1> QED BY <1>0, <1>1, <1>4, <1>5, <1>6, RunMoved, TenantsKept

LEMMA FindTenantKeeps ==
  ASSUME StudentsInv, NEW t \in Threads, FindTenant(t)
  PROVE  StudentsInv'
<1>0. StudentTypes /\ RunsAlone
  BY DEF StudentsInv
<1>1. jobs[t].pc # "idle" /\ jobs[t] \in RunJobs
  BY <1>0, RunShape DEF FindTenant, At
<1>2. CASE Titled = {} /\ Moves(t, "newtenant") /\ UNCHANGED tenants
  <2>1. PICK k : k = [jobs[t] EXCEPT !.pc = "newtenant"]
    OBVIOUS
  <2>2. jobs' = [jobs EXCEPT ![t] = k]
    BY <1>0, <1>2, <2>1 DEF StudentTypes, Moves
  <2>3. k \in RunJobs /\ k.pc = "newtenant" /\ k.alone = jobs[t].alone
    BY <1>1, <2>1 DEF RunJobs, Places
  <2>4. Stage(k)'
    BY <1>2, <2>3, TenantsKept DEF Stage, AfterTenant, AfterUser, AfterDashboard
  <2> QED BY <1>1, <1>2, <2>2, <2>3, <2>4, RunMoved, TenantsKept
<1>3. CASE \E i \in Titled : tenants' = [tenants EXCEPT ![i].quotas = TRUE] /\ Takes(t, i, "user")
  <2>1. PICK i \in Titled : tenants' = [tenants EXCEPT ![i].quotas = TRUE]
                            /\ jobs' = [jobs EXCEPT ![t] = [jobs[t] EXCEPT !.pc = "user", !.tenant = i]]
    BY <1>3 DEF Takes, Become
  <2>2. PICK k : k = [jobs[t] EXCEPT !.pc = "user", !.tenant = i]
    OBVIOUS
  <2>3. i \in TenantIds /\ tenants[i] \in TenantRecords
    BY <1>0 DEF Titled, StudentTypes
  <2>4. k \in RunJobs /\ k.pc = "user" /\ k.tenant = i /\ k.alone = jobs[t].alone
    BY <1>1, <2>2, <2>3 DEF RunJobs, Places, AfterTenant
  <2>5. PICK r \in TenantRecords : r.quotas /\ tenants' = [tenants EXCEPT ![i] = r]
    <3>1. [tenants[i] EXCEPT !.quotas = TRUE] \in TenantRecords /\ [tenants[i] EXCEPT !.quotas = TRUE].quotas
      BY <2>3 DEF TenantRecords
    <3>2. tenants' = [tenants EXCEPT ![i] = [tenants[i] EXCEPT !.quotas = TRUE]]
      BY <1>0, <2>1, <2>3 DEF StudentTypes
    <3> QED BY <3>1, <3>2
  <2>6. Stage(k)'
    BY <2>3, <2>4, <2>5, TenantFilled DEF Stage, AfterTenant, AfterUser, AfterDashboard
  <2> QED BY <1>1, <2>1, <2>2, <2>4, <2>5, <2>6, RunMoved, TenantFilled
<1> QED BY <1>2, <1>3 DEF FindTenant

LEMMA SaveTenantKeeps ==
  ASSUME StudentsInv, NEW t \in Threads, SaveTenant(t)
  PROVE  StudentsInv'
<1>0. StudentTypes /\ RunsAlone
  BY DEF StudentsInv
<1>1. jobs[t].pc = "newtenant" /\ jobs[t] \in RunJobs
  BY <1>0, RunShape DEF SaveTenant, At
<1>2. PICK i, first \in FreshTenants :
        /\ tenants' = [tenants EXCEPT ![i] = EmptyTenant(TRUE), ![first] = EmptyTenant(TRUE)]
        /\ jobs' = [jobs EXCEPT ![t] = [jobs[t] EXCEPT !.pc = "user", !.tenant = i]]
  BY DEF SaveTenant, Takes, Become
<1>3. PICK k : k = [jobs[t] EXCEPT !.pc = "user", !.tenant = i]
  OBVIOUS
<1>4. i \in TenantIds /\ first \in TenantIds
  BY DEF FreshTenants
<1>5. k \in RunJobs /\ k.pc = "user" /\ k.tenant = i /\ k.alone = jobs[t].alone
  BY <1>1, <1>3, <1>4 DEF RunJobs, Places, AfterTenant
<1>6. EmptyTenant(TRUE) \in TenantRecords /\ EmptyTenant(TRUE) # None /\ EmptyTenant(TRUE).quotas
  <2>1. EmptyTenant(TRUE) \in TenantRecords /\ EmptyTenant(TRUE).quotas
    BY DEF EmptyTenant, TenantRecords
  <2> QED BY <2>1, StudentsAssumption
<1>7. tenants' \in [TenantIds -> {None} \cup TenantRecords] /\ tenants'[i] = EmptyTenant(TRUE)
      /\ Titled' = Titled \cup {i, first}
  BY <1>0, <1>2, <1>4, <1>6 DEF StudentTypes, Titled
<1>8. IsFiniteSet(Titled')
  <2>1. IsFiniteSet(Titled \cup {i}) /\ IsFiniteSet((Titled \cup {i}) \cup {first})
    BY <1>0, FS_AddElement DEF StudentTypes
  <2>2. Titled' = (Titled \cup {i}) \cup {first}
    BY <1>7
  <2> QED BY <2>1, <2>2
<1>9. Stage(k)'
  BY <1>5, <1>6, <1>7 DEF Stage, AfterTenant, AfterUser, AfterDashboard
<1> QED BY <1>1, <1>2, <1>3, <1>5, <1>7, <1>8, <1>9, RunMoved

\* A run that only looks, or gives up, in its tenant.
LEMMA LookKeeps ==
  ASSUME StudentsInv, NEW t \in Threads, FindDashboard(t) \/ FindDevice(t)
  PROVE  StudentsInv'
<1>0. StudentTypes /\ RunsAlone
  BY DEF StudentsInv
<1>1. UNCHANGED <<tenants, studentRow>> /\ jobs[t].pc \in {"dashboard", "device"} /\ jobs[t] \in RunJobs
  BY <1>0, RunShape DEF FindDashboard, FindDevice, At, studentVars
<1>2. PICK i : i = jobs[t].tenant
  OBVIOUS
<1>3. PICK place :
        /\ jobs' = [jobs EXCEPT ![t].pc = place]
        /\ \/ place = "failing" /\ ~HasUser(i)
           \/ jobs[t].pc = "dashboard" /\ place = IF HasDashboard(i) THEN "device" ELSE "newdashboard"
           \/ jobs[t].pc = "device" /\ place = IF HasDevice(i) THEN "record" ELSE "newdevice"
  BY <1>2 DEF FindDashboard, FindDevice, At, Moves, Fails
<1>4. PICK k : k = [jobs[t] EXCEPT !.pc = place]
  OBVIOUS
<1>5. jobs' = [jobs EXCEPT ![t] = k]
  BY <1>0, <1>3, <1>4 DEF StudentTypes
<1>6. k \in RunJobs /\ k.pc = place /\ k.tenant = i /\ k.alone = jobs[t].alone
  BY <1>1, <1>2, <1>3, <1>4 DEF RunJobs, Places, AfterTenant, AfterUser, AfterDashboard
<1>7. ASSUME k.alone PROVE Stage(k)'
  <2>1. /\ i \in Titled /\ tenants[i].quotas /\ HasUser(i)
        /\ jobs[t].pc = "device" => HasDashboard(i)
    BY <1>0, <1>1, <1>2, <1>6, <1>7 DEF RunsAlone, Stage, AfterTenant, AfterUser, AfterDashboard
  <2>2. /\ Titled' = Titled /\ (HasUser(i)' <=> HasUser(i)) /\ (HasDashboard(i)' <=> HasDashboard(i))
        /\ (HasDevice(i)' <=> HasDevice(i)) /\ tenants'[i].quotas
    BY <1>1, <2>1 DEF HasUser, HasDashboard, HasDevice, Titled
  <2> QED BY <1>3, <1>6, <2>1, <2>2 DEF Stage, AfterTenant, AfterUser, AfterDashboard
<1> QED BY <1>1, <1>5, <1>6, <1>7, RunMoved, TenantsKept

\* A run that creates something in its tenant.
LEMMA SaveKeeps ==
  ASSUME StudentsInv, NEW t \in Threads, SaveUser(t) \/ SaveDashboard(t) \/ SaveDevice(t)
  PROVE  StudentsInv'
<1>0. StudentTypes /\ RunsAlone
  BY DEF StudentsInv
<1>1. jobs[t].pc \in {"newuser", "newdashboard", "newdevice"} /\ jobs[t] \in RunJobs /\ UNCHANGED studentRow
  BY <1>0, RunShape DEF SaveUser, SaveDashboard, SaveDevice, At
<1>2. PICK i : i = jobs[t].tenant
  OBVIOUS
<1>3. CASE /\ Fails(t) /\ UNCHANGED tenants
           /\ \/ jobs[t].pc = "newuser" /\ (i \notin Titled \/ AddressTaken)
              \/ jobs[t].pc \in {"newdashboard", "newdevice"} /\ ~HasUser(i)
              \/ jobs[t].pc = "newdevice" /\ HasDevice(i)
  <2>1. PICK k : k = [jobs[t] EXCEPT !.pc = "failing"]
    OBVIOUS
  <2>2. jobs' = [jobs EXCEPT ![t] = k]
    BY <1>0, <1>3, <2>1 DEF StudentTypes, Fails, Moves
  <2>3. k \in RunJobs /\ k.pc = "failing" /\ k.alone = jobs[t].alone
    BY <1>1, <2>1 DEF RunJobs, Places
  <2>4. ASSUME k.alone PROVE Stage(k)'
    <3>1. Stage(jobs[t])
      BY <1>0, <1>1, <2>3, <2>4 DEF RunsAlone
    <3>2. jobs[t].pc = "newuser" /\ i \in Titled /\ ~HasUser(i) /\ AddressTaken
      BY <1>1, <1>2, <1>3, <3>1 DEF Stage, AfterTenant, AfterUser, AfterDashboard
    <3>3. \E a, b \in Titled : a # b
      BY <3>2 DEF AddressTaken
    <3> QED BY <1>3, <2>3, <3>3, TenantsKept DEF Stage, AfterTenant, AfterUser, AfterDashboard
  <2> QED BY <1>1, <1>3, <2>2, <2>3, <2>4, RunMoved, TenantsKept
<1>4. CASE /\ i \in Titled
           /\ \/ /\ jobs[t].pc = "newuser" /\ tenants' = [tenants EXCEPT ![i].user = TRUE]
                 /\ Moves(t, "dashboard") \/ Breaks(t)
              \/ /\ jobs[t].pc = "newdashboard" /\ tenants' = [tenants EXCEPT ![i].dashboard = TRUE]
                 /\ Moves(t, "device")
              \/ /\ jobs[t].pc = "newdevice" /\ tenants' = [tenants EXCEPT ![i].device = TRUE]
                 /\ Moves(t, "record") \/ Breaks(t)
  <2>1. i \in TenantIds /\ tenants[i] \in TenantRecords
    BY <1>0, <1>4 DEF Titled, StudentTypes
  <2>2. PICK r \in TenantRecords :
          /\ tenants' = [tenants EXCEPT ![i] = r] /\ r.quotas = tenants[i].quotas
          /\ tenants[i].user \/ jobs[t].pc = "newuser" => r.user
          /\ tenants[i].dashboard \/ jobs[t].pc = "newdashboard" => r.dashboard
          /\ tenants[i].device \/ jobs[t].pc = "newdevice" => r.device
    <3> DEFINE x == tenants[i]
    <3>1. tenants \in [TenantIds -> {None} \cup TenantRecords]
      BY <1>0 DEF StudentTypes
    <3>2. CASE jobs[t].pc = "newuser"
      <4> DEFINE y == [x EXCEPT !.user = TRUE]
      <4>1. tenants' = [tenants EXCEPT ![i] = y]
        BY <1>4, <2>1, <3>1, <3>2
      <4>2. y \in TenantRecords /\ y.quotas = x.quotas /\ y.user /\ y.dashboard = x.dashboard /\ y.device = x.device
        BY <2>1 DEF TenantRecords
      <4> HIDE DEF y
      <4> QED BY <3>2, <4>1, <4>2
    <3>3. CASE jobs[t].pc = "newdashboard"
      <4> DEFINE y == [x EXCEPT !.dashboard = TRUE]
      <4>1. tenants' = [tenants EXCEPT ![i] = y]
        BY <1>4, <2>1, <3>1, <3>3
      <4>2. y \in TenantRecords /\ y.quotas = x.quotas /\ y.user = x.user /\ y.dashboard /\ y.device = x.device
        BY <2>1 DEF TenantRecords
      <4> HIDE DEF y
      <4> QED BY <3>3, <4>1, <4>2
    <3>4. CASE jobs[t].pc = "newdevice"
      <4> DEFINE y == [x EXCEPT !.device = TRUE]
      <4>1. tenants' = [tenants EXCEPT ![i] = y]
        BY <1>4, <2>1, <3>1, <3>4
      <4>2. y \in TenantRecords /\ y.quotas = x.quotas /\ y.user = x.user /\ y.dashboard = x.dashboard /\ y.device
        BY <2>1 DEF TenantRecords
      <4> HIDE DEF y
      <4> QED BY <3>4, <4>1, <4>2
    <3> QED BY <1>1, <3>2, <3>3, <3>4
  <2>3. PICK k \in RunJobs :
          /\ jobs' = [jobs EXCEPT ![t] = k] /\ k.tenant = i
          /\ k.alone => /\ jobs[t].alone
                        /\ \/ jobs[t].pc = "newuser" /\ k.pc = "dashboard"
                           \/ jobs[t].pc = "newdashboard" /\ k.pc = "device"
                           \/ jobs[t].pc = "newdevice" /\ k.pc = "record"
    <3>1. CASE Breaks(t)
      <4> DEFINE y == [jobs[t] EXCEPT !.pc = "failing", !.alone = FALSE]
      <4>1. jobs' = [jobs EXCEPT ![t] = y]
        BY <3>1 DEF Breaks, Become
      <4>2. y \in RunJobs /\ y.tenant = i /\ ~y.alone
        BY <1>1, <1>2 DEF RunJobs, Places
      <4> HIDE DEF y
      <4> QED BY <4>1, <4>2
    <3>2. CASE ~Breaks(t)
      <4>1. PICK place \in {"dashboard", "device", "record"} :
              /\ jobs' = [jobs EXCEPT ![t].pc = place]
              /\ \/ jobs[t].pc = "newuser" /\ place = "dashboard"
                 \/ jobs[t].pc = "newdashboard" /\ place = "device"
                 \/ jobs[t].pc = "newdevice" /\ place = "record"
        BY <1>4, <3>2 DEF Moves
      <4> DEFINE y == [jobs[t] EXCEPT !.pc = place]
      <4>2. jobs' = [jobs EXCEPT ![t] = y]
        BY <1>0, <4>1 DEF StudentTypes
      <4>3. y \in RunJobs /\ y.tenant = i /\ y.pc = place /\ y.alone = jobs[t].alone
        BY <1>1, <1>2, <4>1 DEF RunJobs, Places, AfterTenant, AfterUser, AfterDashboard
      <4> HIDE DEF y
      <4> QED BY <4>1, <4>2, <4>3
    <3> QED BY <3>1, <3>2
  <2>6. /\ tenants' \in [TenantIds -> {None} \cup TenantRecords] /\ IsFiniteSet(Titled') /\ Titled' = Titled
        /\ tenants'[i] = r
    BY <1>4, <2>2, TenantFilled
  <2>7. ASSUME k.alone PROVE Stage(k)'
    <3>1. Stage(jobs[t])
      BY <1>0, <1>1, <2>3, <2>7 DEF RunsAlone
    <3>2. /\ tenants[i].quotas
          /\ jobs[t].pc \in {"newdashboard", "newdevice"} => HasUser(i)
          /\ jobs[t].pc = "newdevice" => HasDashboard(i)
      BY <1>1, <1>2, <3>1 DEF Stage, AfterTenant, AfterUser, AfterDashboard
    <3>3. /\ tenants'[i].quotas /\ i \in Titled'
          /\ jobs[t].pc = "newuser" \/ HasUser(i) => HasUser(i)'
          /\ jobs[t].pc = "newdashboard" \/ HasDashboard(i) => HasDashboard(i)'
          /\ jobs[t].pc = "newdevice" => HasDevice(i)'
      BY <1>4, <2>2, <2>6, <3>2 DEF HasUser, HasDashboard, HasDevice
    <3> QED BY <2>3, <2>7, <3>2, <3>3 DEF Stage, AfterTenant, AfterUser, AfterDashboard
  <2> QED BY <1>1, <2>3, <2>6, <2>7, RunMoved
<1> QED BY <1>1, <1>2, <1>3, <1>4 DEF SaveUser, SaveDashboard, SaveDevice, At, HasUser

LEMMA RecordKeeps ==
  ASSUME StudentsInv, NEW t \in Threads, Record(t)
  PROVE  StudentsInv'
<1>0. StudentTypes /\ RunsAlone
  BY DEF StudentsInv
<1>1. UNCHANGED tenants /\ jobs[t].pc \in {"record", "failing"} /\ jobs[t] \in RunJobs
  BY <1>0, RunShape DEF Record
<1>2. PICK i : i = jobs[t].tenant
  OBVIOUS
<1>3. PICK place :
        /\ jobs' = [jobs EXCEPT ![t].pc = place]
        /\ \/ jobs[t].pc = "failing" /\ place = "failed"
           \/ /\ jobs[t].pc = "record" /\ place = "ready"
              /\ studentRow' = [state |-> "provisioned", tenant |-> i]
  BY <1>2 DEF Record, At, Moves
<1>4. PICK k : k = [jobs[t] EXCEPT !.pc = place]
  OBVIOUS
<1>5. jobs' = [jobs EXCEPT ![t] = k]
  BY <1>0, <1>3, <1>4 DEF StudentTypes
<1>6. k \in RunJobs /\ k.pc = place /\ k.tenant = i /\ k.alone = jobs[t].alone
  BY <1>1, <1>2, <1>3, <1>4 DEF RunJobs, Places, AfterTenant, AfterUser, AfterDashboard
<1>7. ASSUME k.alone PROVE Stage(k)'
  <2>1. Stage(jobs[t])
    BY <1>0, <1>1, <1>6, <1>7 DEF RunsAlone
  <2>2. /\ Titled' = Titled /\ (HasUser(i)' <=> HasUser(i)) /\ (HasDashboard(i)' <=> HasDashboard(i))
        /\ (HasDevice(i)' <=> HasDevice(i)) /\ tenants' = tenants
    BY <1>1 DEF HasUser, HasDashboard, HasDevice, Titled
  <2>3. CASE jobs[t].pc = "failing"
    BY <1>3, <1>6, <2>1, <2>2, <2>3 DEF Stage, AfterTenant, AfterUser, AfterDashboard
  <2>4. CASE jobs[t].pc = "record"
    BY <1>2, <1>3, <1>6, <2>1, <2>2, <2>4 DEF Stage, AfterTenant, AfterUser, AfterDashboard
  <2> QED BY <1>1, <2>3, <2>4
<1> QED BY <1>1, <1>5, <1>6, <1>7, RunMoved, TenantsKept

LEMMA EndKeeps ==
  ASSUME StudentsInv, NEW t \in Threads, RunEnds(t) \/ RunFails(t)
  PROVE  StudentsInv'
<1>0. StudentTypes
  BY DEF StudentsInv
<1>1. UNCHANGED tenants /\ jobs[t].pc # "idle" /\ jobs[t] \in RunJobs
  BY <1>0, RunShape DEF RunEnds, RunFails, Killed, At, studentVars
<1>2. CASE jobs' = [jobs EXCEPT ![t] = Free]
  BY <1>1, <1>2, RunMoved, TenantsKept
<1>3. CASE jobs' = [jobs EXCEPT ![t] = [jobs[t] EXCEPT !.pc = "failing", !.alone = FALSE]]
  <2> DEFINE y == [jobs[t] EXCEPT !.pc = "failing", !.alone = FALSE]
  <2>1. y \in RunJobs /\ ~y.alone
    BY <1>1 DEF RunJobs, Places
  <2> HIDE DEF y
  <2> QED BY <1>1, <1>3, <2>1, RunMoved, TenantsKept DEF y
<1> QED BY <1>2, <1>3 DEF RunEnds, RunFails, Killed, Finish, Breaks, Become

LEMMA OthersKeep ==
  ASSUME StudentsInv, MapperLogin \/ DeleteStudent
  PROVE  StudentsInv'
<1>0. /\ tenants \in [TenantIds -> {None} \cup TenantRecords] /\ IsFiniteSet(Titled)
      /\ None \notin Threads
  BY HandlersAssumption DEF StudentsInv, StudentTypes
<1>1. jobs' = Spoil(None)
  BY DEF MapperLogin, DeleteStudent
<1>2. PICK i \in TenantIds, r \in {None} \cup TenantRecords : tenants' = [tenants EXCEPT ![i] = r]
  <2>1. CASE DeleteStudent
    BY <2>1 DEF DeleteStudent, Titled
  <2>2. CASE MapperLogin
    <3>1. PICK i \in TenantIds :
            tenants' = [tenants EXCEPT ![i] =
              [(IF @ = None THEN EmptyTenant(profile = "default") ELSE @) EXCEPT !.user = TRUE]]
      BY <2>2 DEF MapperLogin, FreshTenants, Titled
    <3> DEFINE was == IF tenants[i] = None THEN EmptyTenant(profile = "default") ELSE tenants[i]
    <3>2. was \in TenantRecords
      <4>1. EmptyTenant(profile = "default") \in TenantRecords
        BY DEF EmptyTenant, TenantRecords
      <4> QED BY <1>0, <4>1
    <3>3. tenants' = [tenants EXCEPT ![i] = [was EXCEPT !.user = TRUE]]
      BY <1>0, <3>1
    <3> HIDE DEF was
    <3>4. [was EXCEPT !.user = TRUE] \in TenantRecords
      BY <3>2 DEF TenantRecords
    <3> QED BY <3>3, <3>4
  <2> QED BY <2>1, <2>2
<1>3. tenants' \in [TenantIds -> {None} \cup TenantRecords] /\ Titled' \subseteq Titled \cup {i}
  BY <1>0, <1>2 DEF Titled
<1>4. IsFiniteSet(Titled')
  BY <1>0, <1>3, FS_AddElement, FS_Subset
<1> QED BY <1>0, <1>1, <1>3, <1>4, SpoilKeeps

LEMMA StudentsAlways == StudentsSpec => []StudentsInv
<1>1. HandlersInit /\ StudentsInit => StudentsInv
  <2> SUFFICES ASSUME HandlersInit, StudentsInit PROVE StudentsInv
    OBVIOUS
  <2>1. \A t \in Threads : jobs[t].pc = "idle"
    BY DEF HandlersInit, Free
  <2>2. Titled = {}
    BY DEF StudentsInit, Titled
  <2>3. StudentTypes
    BY <2>2, FS_EmptySet DEF StudentTypes, HandlersInit, StudentsInit
  <2> QED BY <2>1, <2>3 DEF StudentsInv, RunsAlone
<1>2. StudentsInv /\ [StudentsNext]_<<handlerVars, studentVars>> => StudentsInv'
  <2> SUFFICES ASSUME StudentsInv, [StudentsNext]_<<handlerVars, studentVars>> PROVE StudentsInv'
    OBVIOUS
  <2>1. CASE UNCHANGED <<handlerVars, studentVars>>
    BY <2>1 DEF StudentsInv, StudentTypes, RunsAlone, Stage, HasUser, HasDashboard, HasDevice, Titled,
      handlerVars, studentVars
  <2>2. CASE StudentsNext
    BY <2>2, BeginRunKeeps, EarlyKeeps, FindTenantKeeps, SaveTenantKeeps, LookKeeps, SaveKeeps, RecordKeeps,
      EndKeeps, OthersKeep DEF StudentsNext
  <2> QED BY <2>1, <2>2
<1> QED BY <1>1, <1>2, PTL DEF StudentsSpec

(***************************************************************************)
(* However many runs and logins were cut short before, a further run that  *)
(* nothing crosses and in which no call fails ends with one complete       *)
(* tenant that the row names, unless two already carry the title           *)
(* (provision_student).                                                    *)
(***************************************************************************)
THEOREM Repaired == StudentsSpec => []RerunRepairs
<1>1. StudentsInv => RerunRepairs
  <2> SUFFICES ASSUME StudentsInv, NEW t \in Threads,
                      jobs[t].pc \in {"ready", "failed"}, jobs[t].alone, Cardinality(Titled) <= 1
               PROVE  LET i == jobs[t].tenant IN
                        /\ At(t, "ready") /\ Titled = {i}
                        /\ studentRow = [state |-> "provisioned", tenant |-> i]
                        /\ tenants[i].quotas /\ HasUser(i) /\ HasDashboard(i) /\ HasDevice(i)
    BY DEF RerunRepairs
  <2>1. Stage(jobs[t]) /\ IsFiniteSet(Titled)
    BY DEF StudentsInv, RunsAlone, StudentTypes
  <2>2. \A a, b \in Titled : a = b
    <3> SUFFICES ASSUME NEW a \in Titled, NEW b \in Titled, a # b PROVE FALSE
      OBVIOUS
    <3>1. IsFiniteSet({a}) /\ Cardinality({a}) = 1 /\ IsFiniteSet({a, b}) /\ Cardinality({a, b}) = 2
      <4>1. IsFiniteSet({a}) /\ Cardinality({a}) = 1
        BY FS_Singleton
      <4>2. {a, b} = {a} \cup {b} /\ b \notin {a}
        OBVIOUS
      <4>3. IsFiniteSet({a} \cup {b}) /\ Cardinality({a} \cup {b}) = Cardinality({a}) + 1
        BY <4>1, <4>2, FS_AddElement
      <4> QED BY <4>1, <4>2, <4>3
    <3>2. Cardinality({a, b}) <= Cardinality(Titled)
      BY <2>1, FS_Subset
    <3>3. Cardinality(Titled) \in Nat
      BY <2>1, FS_CardinalityType
    <3> QED BY <3>1, <3>2, <3>3
  <2>3. jobs[t].pc = "ready"
    BY <2>1, <2>2 DEF Stage
  <2>4. jobs[t].tenant \in Titled
    BY <2>1, <2>3 DEF Stage, AfterTenant, AfterUser, AfterDashboard
  <2> QED BY <2>1, <2>2, <2>3, <2>4 DEF Stage, At, AfterTenant, AfterUser, AfterDashboard
<1> QED BY <1>1, StudentsAlways, PTL
=============================================================================
