------------------------------ MODULE Projects ------------------------------
(***************************************************************************)
(* Project lifecycle of the CHERT IoT portal (portal/app/project.py and    *)
(* routers/projects.py).                                                   *)
(*                                                                         *)
(* A project is a row of the portal's database plus a tenant of the        *)
(* ThingsBoard engine (TB); every membership row names one TB user of that *)
(* tenant.  The two stores are changed by request handlers that run in a   *)
(* thread pool: a handler reads rows, calls TB several times over HTTP and *)
(* commits at the end.  One action is one database round trip or one TB    *)
(* call of a handler, so handlers interleave between any two of them.      *)
(*                                                                         *)
(* Database: READ COMMITTED.  A handler's session remembers the values it  *)
(* loaded and a commit writes only the columns it changed; an UPDATE of a  *)
(* row that is gone raises StaleDataError and rolls the handler back; a    *)
(* DELETE of a row that is gone only warns.  All projects are given names  *)
(* with one slug base, so slug n stands for base, base-2, base-3, ...      *)
(***************************************************************************)
EXTENDS Integers, FiniteSets

CONSTANTS
  Projects,         \* project ids (uuids, never reused)
  Users,            \* portal users
  Threads,          \* request handlers that may be in progress at once
  Tenants,          \* TB tenant ids (never reused)
  TbUsers,          \* TB user ids (never reused)
  Tickets,          \* ids of invite rows and join-request rows
  None,             \* SQL NULL
  MaxSlug,          \* bound on the slugs of one base
  MaxFaults,        \* bound on failed or lost TB calls
  MaxAborts,        \* bound on handlers killed in progress (crash, restart)
  ConcurrentRetry   \* may "retry provisioning" be submitted twice at once?

ASSUME ProjectsAssumption ==
  /\ None \notin Projects \cup Users \cup Tenants \cup TbUsers \cup Tickets
  /\ MaxSlug \in Nat /\ MaxFaults \in Nat /\ MaxAborts \in Nat
  /\ ConcurrentRetry \in BOOLEAN

VARIABLES
  born,      \* project ids already issued
  projects,  \* committed rows of table projects
  members,   \* committed rows of table project_members, by project and user
  tickets,   \* committed rows of project_invites and project_join_requests
  tenants,   \* TB: tenants, with the project each was created for
  tbUsers,   \* TB: tenant-admin users; the address is the pair slug, human
  jobs,      \* the locals and the session of each handler in progress
  faults, aborts

vars == <<born, projects, members, tickets, tenants, tbUsers, jobs, faults, aborts>>

db == <<projects, members, tickets>>
tb == <<tenants, tbUsers>>

Slugs == 0 .. MaxSlug      \* 0: no slug

NoProject == [slug |-> 0, tenant |-> None, state |-> "none"]
NoMember  == [role |-> "none", status |-> "none", tbUser |-> None]
NoTicket  == [kind |-> "none", project |-> None, user |-> None, status |-> "none"]
NoTenant  == [project |-> None, live |-> FALSE]
NoTbUser  == [tenant |-> None, slug |-> 0, user |-> None, live |-> FALSE]

Idle == [op |-> "idle", pc |-> "idle", project |-> None, user |-> None,
         proj0 |-> NoProject, proj |-> NoProject, mem0 |-> NoMember,
         gone |-> FALSE, tbUser |-> None, now |-> {},
         todo |-> {}, done |-> {}]

Ops == {"idle", "create", "retry", "delete", "accept", "login", "approve", "remove"}
Pcs == {"idle", "flush", "tenant", "find", "save", "dash", "commit", "giveup",
        "drop", "dropuser", "erase", "next"}

ProjectRow == [slug : Slugs, tenant : Tenants \cup {None},
               state : {"none", "failed", "provisioned"}]
MemberRow == [role : {"none", "owner", "member"},
              status : {"none", "active", "disabled"},
              tbUser : TbUsers \cup {None}]
TicketRow == [kind : {"none", "invite", "request"},
              project : Projects \cup {None}, user : Users \cup {None},
              status : {"none", "pending", "accepted", "approved", "denied"}]
TenantRow == [project : Projects \cup {None}, live : BOOLEAN]
TbUserRow == [tenant : Tenants \cup {None}, slug : Slugs,
              user : Users \cup {None}, live : BOOLEAN]
Job == [op : Ops, pc : Pcs, project : Projects \cup {None},
        user : Users \cup {None}, proj0 : ProjectRow, proj : ProjectRow,
        mem0 : MemberRow, gone : BOOLEAN, tbUser : TbUsers \cup {None},
        now : SUBSET Tickets, todo : SUBSET Tickets,
        done : SUBSET Tickets]

(***************************************************************************)
(* Every variable holds rows, entities and handlers of the right shape.    *)
(***************************************************************************)
TypeOK ==
  /\ born \subseteq Projects
  /\ projects \in [Projects -> ProjectRow]
  /\ members \in [Projects -> [Users -> MemberRow]]
  /\ tickets \in [Tickets -> TicketRow]
  /\ tenants \in [Tenants -> TenantRow]
  /\ tbUsers \in [TbUsers -> TbUserRow]
  /\ jobs \in [Threads -> Job]
  /\ faults \in 0 .. MaxFaults
  /\ aborts \in 0 .. MaxAborts

Init ==
  /\ born = {}
  /\ projects = [p \in Projects |-> NoProject]
  /\ members = [p \in Projects |-> [u \in Users |-> NoMember]]
  /\ tickets = [k \in Tickets |-> NoTicket]
  /\ tenants = [T \in Tenants |-> NoTenant]
  /\ tbUsers = [b \in TbUsers |-> NoTbUser]
  /\ jobs = [t \in Threads |-> Idle]
  /\ faults = 0 /\ aborts = 0

-----------------------------------------------------------------------------
(* The database as a handler sees it.                                      *)

Exists(p) == projects[p].state # "none"

Row(p, u) == members[p][u].role # "none"

\* require_membership: an active member of a provisioned project
Entitled(p, u) ==
  /\ Row(p, u) /\ members[p][u].status = "active"
  /\ projects[p].state = "provisioned" /\ members[p][u].tbUser # None

\* _require_owner
OwnerActs(p) == \E u \in Users : Entitled(p, u) /\ members[p][u].role = "owner"

\* unique_slug: the first number no committed row uses
FirstFree(n) ==
  LET Used == {projects[p].slug : p \in Projects}
  IN n \notin Used /\ \A k \in 1 .. n - 1 : k \in Used

\* a column after a commit: written only when the session changed the value it
\* had loaded
Column(now, loaded, mine) == IF mine = loaded THEN now ELSE mine

NetProject(p, old, new) ==
  [slug   |-> Column(projects[p].slug, old.slug, new.slug),
   tenant |-> Column(projects[p].tenant, old.tenant, new.tenant),
   state  |-> Column(projects[p].state, old.state, new.state)]

NetMember(p, u, old, new) ==
  [role   |-> Column(members[p][u].role, old.role, new.role),
   status |-> Column(members[p][u].status, old.status, new.status),
   tbUser |-> Column(members[p][u].tbUser, old.tbUser, new.tbUser)]

\* the status that resolving a ticket writes
Resolved(K) ==
  [k \in Tickets |->
     IF k \notin K THEN tickets[k]
     ELSE [tickets[k] EXCEPT !.status =
             IF tickets[k].kind = "invite" THEN "accepted" ELSE "approved"]]

-----------------------------------------------------------------------------
(* The engine.  Addresses of live TB users are globally unique, and        *)
(* deleting a tenant deletes its users.                                    *)

TenantLive(T) == T \in Tenants /\ tenants[T].live

UserLive(b) == b \in TbUsers /\ tbUsers[b].live

Held(slug, u) ==
  \E b \in TbUsers : tbUsers[b].live /\ tbUsers[b].slug = slug /\ tbUsers[b].user = u

FreshTenants == {T \in Tenants : tenants[T].project = None}
FreshTbUsers == {b \in TbUsers : tbUsers[b].tenant = None}

KillTenant(T) ==
  /\ tenants' = [tenants EXCEPT ![T].live = FALSE]
  /\ tbUsers' = [b \in TbUsers |->
       IF tbUsers[b].tenant = T THEN [tbUsers[b] EXCEPT !.live = FALSE] ELSE tbUsers[b]]

\* The engine answers this call with an error (not found, address in use, no
\* capacity left) however often it is repeated.
Refused(j) ==
  CASE j.pc = "tenant" -> FreshTenants = {}
    [] j.pc = "find"   -> ~TenantLive(j.proj.tenant)
    [] j.pc = "save"   -> \/ ~TenantLive(j.proj.tenant)
                          \/ Held(j.proj.slug, j.user)
                          \/ FreshTbUsers = {}
    [] j.pc = "dash"   -> ~UserLive(j.tbUser)
    [] j.pc = "drop"   -> ~TenantLive(j.proj.tenant)
    [] OTHER -> FALSE

Fault == faults < MaxFaults /\ faults' = faults + 1

-----------------------------------------------------------------------------
(* Steps of a handler.                                                     *)

Begin(t, j) ==
  /\ jobs[t] = Idle
  /\ jobs' = [jobs EXCEPT ![t] = j]

Goto(t, j) == jobs' = [jobs EXCEPT ![t] = j]

End(t) == Goto(t, Idle)

At(t, pc) == jobs[t].pc = pc

Request(op, pc, p, u) ==
  [op |-> op, pc |-> pc, project |-> p, user |-> u,
   proj0 |-> projects[p], proj |-> projects[p], mem0 |-> members[p][u],
   gone |-> FALSE, tbUser |-> None, now |-> {}, todo |-> {}, done |-> {}]

\* The call was carried out but its answer was lost: TbClient repeats it.
AnswerLost == Fault /\ UNCHANGED jobs

\* Handler t ends; the rows its commit deleted are gone for the handlers of X
\* that had loaded them.
EndDeleting(t, X) ==
  jobs' = [x \in Threads |->
             IF x = t THEN Idle
             ELSE IF x \in X /\ jobs[x].mem0 # NoMember
                  THEN [jobs[x] EXCEPT !.gone = TRUE] ELSE jobs[x]]

(* ---- create_project and retry_provision ------------------------------- *)

BeginCreate(t, p, u) ==
  /\ p \notin born
  /\ born' = born \cup {p}
  /\ \E n \in 1 .. MaxSlug :
       /\ FirstFree(n)
       /\ Begin(t, [Request("create", "flush", p, u) EXCEPT !.proj.slug = n])
  /\ UNCHANGED <<db, tb, faults, aborts>>

\* A variant for mutation: trusts unique_slug, the table has no unique index.
FlushInsertUnchecked(t) ==
  /\ At(t, "flush")
  /\ Goto(t, [jobs[t] EXCEPT !.pc = "tenant"])
  /\ UNCHANGED <<born, db, tb, faults, aborts>>

\* A variant for mutation: a number is kept from the moment it is chosen, so two
\* creators of one name wait for each other.
FlushInsertReserved(t) ==
  LET j == jobs[t]
      Taken == \E p \in Projects : projects[p].slug = j.proj.slug
  IN /\ At(t, "flush")
     /\ \A x \in Threads \ {t} : ~(jobs[x].op = "create" /\ jobs[x].proj.slug = j.proj.slug)
     /\ IF Taken THEN End(t) ELSE Goto(t, [j EXCEPT !.pc = "tenant"])
     /\ UNCHANGED <<born, db, tb, faults, aborts>>

\* INSERT of the project row: the unique index makes it wait for a handler
\* that inserted the same slug and fail when that slug is committed.
FlushInsert(t) ==
  LET j == jobs[t]
      Holds(x) == /\ jobs[x].op = "create" /\ jobs[x].pc # "flush"
                  /\ jobs[x].proj.slug = j.proj.slug
      Taken == \E p \in Projects : projects[p].slug = j.proj.slug
  IN /\ At(t, "flush")
     /\ \A x \in Threads \ {t} : ~Holds(x)
     /\ IF Taken THEN End(t) ELSE Goto(t, [j EXCEPT !.pc = "tenant"])
     /\ UNCHANGED <<born, db, tb, faults, aborts>>

\* A variant for mutation: forgets that a tenant is already recorded.
BeginRetryAfresh(t, p, u) ==
  /\ Exists(p) /\ Row(p, u)
  /\ \A x \in Threads : ~(jobs[x].op = "retry" /\ jobs[x].project = p)
  /\ Begin(t, Request("retry", "tenant", p, u))
  /\ UNCHANGED <<born, db, tb, faults, aborts>>

\* POST /provision: any row of the project will do, whatever its status
BeginRetry(t, p, u) ==
  /\ Exists(p) /\ Row(p, u)
  /\ \/ ConcurrentRetry
     \/ \A x \in Threads : ~(jobs[x].op = "retry" /\ jobs[x].project = p)
  /\ Begin(t, Request("retry", IF projects[p].tenant = None THEN "tenant" ELSE "find", p, u))
  /\ UNCHANGED <<born, db, tb, faults, aborts>>

SaveTenant(t) ==
  LET j == jobs[t]
  IN /\ At(t, "tenant")
     /\ \E T \in FreshTenants :
          /\ tenants' = [tenants EXCEPT ![T] = [project |-> j.project, live |-> TRUE]]
          /\ \/ Goto(t, [j EXCEPT !.proj.tenant = T, !.pc = "find"]) /\ UNCHANGED faults
             \/ AnswerLost
     /\ UNCHANGED <<born, db, tbUsers, aborts>>

\* where ensure_member_user returns to
Provisioning(j) == j.op \in {"create", "retry"}

GotUser(j, b) ==
  [j EXCEPT !.tbUser = b, !.pc = IF Provisioning(j) THEN "dash" ELSE "commit"]

\* A variant for mutation: searches every tenant.
FindUserAnywhere(t) ==
  LET j == jobs[t]
      Found == {b \in TbUsers : /\ tbUsers[b].live /\ tbUsers[b].slug = j.proj.slug
                                /\ tbUsers[b].user = j.user}
  IN /\ At(t, "find") /\ ~Refused(j)
     /\ IF Found = {} THEN Goto(t, [j EXCEPT !.pc = "save"])
                      ELSE \E b \in Found : Goto(t, GotUser(j, b))
     /\ UNCHANGED <<born, db, tb, faults, aborts>>

\* A variant for mutation: creates without looking first.
FindUserNever(t) ==
  /\ At(t, "find") /\ ~Refused(jobs[t])
  /\ Goto(t, [jobs[t] EXCEPT !.pc = "save"])
  /\ UNCHANGED <<born, db, tb, faults, aborts>>

FindUser(t) ==
  LET j == jobs[t]
      Found == {b \in TbUsers : /\ tbUsers[b].live /\ tbUsers[b].tenant = j.proj.tenant
                                /\ tbUsers[b].slug = j.proj.slug /\ tbUsers[b].user = j.user}
  IN /\ At(t, "find") /\ ~Refused(j)
     /\ IF Found = {} THEN Goto(t, [j EXCEPT !.pc = "save"])
                      ELSE \E b \in Found : Goto(t, GotUser(j, b))
     /\ UNCHANGED <<born, db, tb, faults, aborts>>

SaveUser(t) ==
  LET j == jobs[t]
  IN /\ At(t, "save") /\ ~Refused(j)
     /\ \E b \in FreshTbUsers :
          /\ tbUsers' = [tbUsers EXCEPT ![b] =
               [tenant |-> j.proj.tenant, slug |-> j.proj.slug, user |-> j.user, live |-> TRUE]]
          /\ \/ Goto(t, GotUser(j, b)) /\ UNCHANGED faults
             \/ AnswerLost
     /\ UNCHANGED <<born, db, tenants, aborts>>

\* impersonate and ensure_starter_dashboard
StarterDashboard(t) ==
  /\ At(t, "dash") /\ ~Refused(jobs[t])
  /\ Goto(t, [jobs[t] EXCEPT !.pc = "commit"])
  /\ UNCHANGED <<born, db, tb, faults, aborts>>

\* A TB call raises.  Provisioning records the failure and commits; the other
\* handlers let the exception out, and the session is rolled back.
TbFails(t) ==
  LET j == jobs[t]
  IN /\ j.pc \in {"tenant", "find", "save", "dash", "drop"}
     /\ (Refused(j) /\ UNCHANGED faults) \/ Fault
     /\ IF Provisioning(j) THEN Goto(t, [j EXCEPT !.pc = "giveup"]) ELSE End(t)
     /\ UNCHANGED <<born, db, tb, aborts>>

\* Variants for mutation: the state follows the tenant only; a failure leaves
\* the column's default.
OutcomeByTenant(j) ==
  [j.proj EXCEPT !.state = IF j.proj.tenant # None THEN "provisioned" ELSE "failed"]

OutcomePending(j) ==
  [j.proj EXCEPT !.state = IF j.pc = "commit" THEN "provisioned" ELSE "pending"]

\* the row that provisioning leaves in the session: assigned on success only
Outcome(j) ==
  [j.proj EXCEPT !.state = IF j.pc = "commit" THEN "provisioned" ELSE "failed"]

CommitCreate(t) ==
  LET j == jobs[t]
      owner == [role |-> "owner", status |-> "active",
                tbUser |-> IF j.pc = "commit" THEN j.tbUser ELSE None]
  IN /\ j.op = "create" /\ j.pc \in {"commit", "giveup"}
     /\ projects' = [projects EXCEPT ![j.project] = Outcome(j)]
     /\ members' = [members EXCEPT ![j.project][j.user] = owner]
     /\ End(t)
     /\ UNCHANGED <<born, tickets, tb, faults, aborts>>

\* A variant for mutation: a failed retry clears the member's TB user.
CommitRetryClearing(t) ==
  LET j == jobs[t]
  IN /\ j.op = "retry" /\ j.pc \in {"commit", "giveup"}
     /\ IF ~Exists(j.project) \/ j.gone
        THEN UNCHANGED <<projects, members>>
        ELSE /\ projects' = [projects EXCEPT ![j.project] = NetProject(j.project, j.proj0, Outcome(j))]
             /\ members' = [members EXCEPT ![j.project][j.user].tbUser = j.tbUser]
     /\ End(t)
     /\ UNCHANGED <<born, tickets, tb, faults, aborts>>

CommitRetry(t) ==
  LET j == jobs[t]
      mem == IF j.pc = "commit" THEN [j.mem0 EXCEPT !.tbUser = j.tbUser] ELSE j.mem0
      Stale == \/ ~Exists(j.project) /\ Outcome(j) # j.proj0
               \/ j.gone /\ mem # j.mem0
  IN /\ j.op = "retry" /\ j.pc \in {"commit", "giveup"}
     /\ IF Stale \/ ~Exists(j.project)
        THEN UNCHANGED projects
        ELSE projects' = [projects EXCEPT ![j.project] = NetProject(j.project, j.proj0, Outcome(j))]
     /\ IF Stale \/ j.gone
        THEN UNCHANGED members
        ELSE members' = [members EXCEPT ![j.project][j.user] =
                              NetMember(j.project, j.user, j.mem0, mem)]
     /\ End(t)
     /\ UNCHANGED <<born, tickets, tb, faults, aborts>>

(* ---- delete_project --------------------------------------------------- *)

\* A variant for mutation: drops the rows and leaves the tenant.
BeginDeleteRows(t, p, u) ==
  /\ Entitled(p, u) /\ members[p][u].role = "owner"
  /\ Begin(t, Request("delete", "erase", p, u))
  /\ UNCHANGED <<born, db, tb, faults, aborts>>

BeginDelete(t, p, u) ==
  /\ Entitled(p, u) /\ members[p][u].role = "owner"
  /\ Begin(t, Request("delete", "drop", p, u))
  /\ UNCHANGED <<born, db, tb, faults, aborts>>

DropTenant(t) ==
  LET j == jobs[t]
  IN /\ At(t, "drop") /\ ~Refused(j)
     /\ KillTenant(j.proj.tenant)
     /\ \/ Goto(t, [j EXCEPT !.pc = "erase"]) /\ UNCHANGED faults
        \/ AnswerLost
     /\ UNCHANGED <<born, db, aborts>>

EraseProject(t) ==
  LET p == jobs[t].project
  IN /\ jobs[t].op = "delete" /\ At(t, "erase")
     /\ projects' = [projects EXCEPT ![p] = NoProject]
     /\ members' = [members EXCEPT ![p] = [u \in Users |-> NoMember]]
     /\ EndDeleting(t, {x \in Threads : jobs[x].project = p})
     /\ UNCHANGED <<born, tickets, tb, faults, aborts>>

(* ---- add_member: invite link, login, approved request ------------------ *)

\* A variant for mutation: takes a join request for an invitation.
PendingAny(kind, p, u) ==
  {k \in Tickets : /\ tickets[k].status = "pending"
                   /\ tickets[k].project = p /\ tickets[k].user = u}

Pending(kind, p, u) ==
  {k \in Tickets : /\ tickets[k].kind = kind /\ tickets[k].status = "pending"
                   /\ tickets[k].project = p /\ tickets[k].user = u}

Admission(op, u, K) == [Idle EXCEPT !.op = op, !.pc = "next", !.user = u, !.todo = K]

BeginAccept(t, u) ==
  /\ \E p \in Projects : \E k \in Pending("invite", p, u) : Begin(t, Admission("accept", u, {k}))
  /\ UNCHANGED <<born, db, tb, faults, aborts>>

\* The login callback runs on the event loop, so one process has one at a time;
\* the model allows more, as several processes would.
BeginLogin(t, u) ==
  LET mine == UNION {Pending("invite", p, u) : p \in Projects}
  IN /\ mine # {} /\ Begin(t, Admission("login", u, mine))
     /\ UNCHANGED <<born, db, tb, faults, aborts>>

BeginApprove(t, p, u) ==
  /\ OwnerActs(p)
  /\ \E k \in Pending("request", p, u) : Begin(t, Admission("approve", u, {k}))
  /\ UNCHANGED <<born, db, tb, faults, aborts>>

\* A variant for mutation: does not advance in the list.
NextTicketAgain(t) ==
  LET j == jobs[t]
  IN /\ At(t, "next")
     /\ \E k \in j.todo :
          LET p == tickets[k].project
          IN Goto(t, [j EXCEPT !.pc = "find", !.now = {k}, !.project = p,
                        !.proj0 = projects[p], !.proj = projects[p],
                        !.mem0 = members[p][j.user], !.gone = FALSE])
     /\ UNCHANGED <<born, db, tb, faults, aborts>>

\* Load the project and the membership row of the next ticket; a login skips
\* projects that are not provisioned, a link only those that are gone.
NextTicket(t) ==
  LET j == jobs[t]
      Open(p) == IF j.op = "login" THEN projects[p].state = "provisioned" ELSE Exists(p)
  IN /\ At(t, "next")
     /\ \E k \in j.todo :
          LET p == tickets[k].project
              rest == [j EXCEPT !.todo = @ \ {k}]
          IN Goto(t, IF ~Open(p) THEN rest
                     ELSE [rest EXCEPT !.pc = "find", !.now = {k}, !.project = p,
                             !.proj0 = projects[p], !.proj = projects[p],
                             !.mem0 = members[p][j.user], !.gone = FALSE])
     /\ UNCHANGED <<born, db, tb, faults, aborts>>

\* add_member's commit also flushes the status of the ticket before this one.
CommitAdd(t) ==
  LET j == jobs[t]
      p == j.project
      mem == [role |-> IF j.mem0 = NoMember THEN "member" ELSE j.mem0.role,
              status |-> "active", tbUser |-> j.tbUser]
      Insert == j.mem0 = NoMember
      Fails == IF Insert THEN Row(p, j.user) ELSE j.gone /\ mem # j.mem0
  IN /\ j.op \in {"accept", "login", "approve"} /\ At(t, "commit")
     /\ IF Fails
        THEN End(t) /\ UNCHANGED <<members, tickets>>
        ELSE /\ members' = IF j.gone THEN members
                           ELSE [members EXCEPT ![p][j.user] = NetMember(p, j.user, j.mem0, mem)]
             /\ tickets' = Resolved(j.done)
             /\ Goto(t, [j EXCEPT !.pc = "next", !.done = j.now, !.now = {},
                           !.project = None, !.proj0 = NoProject, !.proj = NoProject,
                           !.mem0 = NoMember, !.gone = FALSE, !.tbUser = None])
     /\ UNCHANGED <<born, projects, tb, faults, aborts>>

EndAdmission(t) ==
  /\ At(t, "next") /\ jobs[t].todo = {}
  /\ tickets' = Resolved(jobs[t].done)
  /\ End(t)
  /\ UNCHANGED <<born, projects, members, tb, faults, aborts>>

(* ---- remove_member ----------------------------------------------------- *)

\* A variant for mutation: removes owners too.
BeginRemoveAnyone(t, p, u) ==
  /\ OwnerActs(p) /\ Row(p, u)
  /\ Begin(t, Request("remove", IF members[p][u].tbUser = None THEN "erase" ELSE "dropuser", p, u))
  /\ UNCHANGED <<born, db, tb, faults, aborts>>

BeginRemove(t, p, u) ==
  /\ OwnerActs(p) /\ members[p][u].role = "member"
  /\ Begin(t, Request("remove", IF members[p][u].tbUser = None THEN "erase" ELSE "dropuser", p, u))
  /\ UNCHANGED <<born, db, tb, faults, aborts>>

\* Every error is taken for "already gone".
DropUser(t) ==
  LET j == jobs[t]
      b == j.mem0.tbUser
  IN /\ At(t, "dropuser")
     /\ \/ tbUsers' = [tbUsers EXCEPT ![b].live = FALSE] /\ UNCHANGED faults
        \/ Fault /\ UNCHANGED tbUsers
     /\ Goto(t, [j EXCEPT !.pc = "erase"])
     /\ UNCHANGED <<born, db, tenants, aborts>>

EraseMember(t) ==
  LET j == jobs[t]
  IN /\ j.op = "remove" /\ At(t, "erase")
     /\ IF j.gone
        THEN End(t) /\ UNCHANGED members
        ELSE /\ members' = [members EXCEPT ![j.project][j.user] = NoMember]
             /\ EndDeleting(t, {x \in Threads : /\ jobs[x].project = j.project
                                                /\ jobs[x].user = j.user})
     /\ UNCHANGED <<born, projects, tickets, tb, faults, aborts>>

-----------------------------------------------------------------------------
(* Handlers with no call to TB: one transaction each.                      *)

SetMemberStatus(p, u, status) ==
  /\ OwnerActs(p) /\ members[p][u].role = "member"
  /\ members[p][u].status # status
  /\ members' = [members EXCEPT ![p][u].status = status]
  /\ UNCHANGED <<born, projects, tickets, tb, jobs, faults, aborts>>

Issue(kind, p, u) ==
  /\ \E k \in Tickets :
       /\ tickets[k] = NoTicket
       /\ tickets' = [tickets EXCEPT ![k] =
            [kind |-> kind, project |-> p, user |-> u, status |-> "pending"]]
  /\ UNCHANGED <<born, projects, members, tb, jobs, faults, aborts>>

CreateInvite(p, u) == OwnerActs(p) /\ Issue("invite", p, u)

RequestToJoin(p, u) ==
  /\ Exists(p) /\ ~Row(p, u) /\ Pending("request", p, u) = {}
  /\ Issue("request", p, u)

Deny(p, u) ==
  /\ OwnerActs(p)
  /\ \E k \in Pending("request", p, u) :
       tickets' = [tickets EXCEPT ![k].status = "denied"]
  /\ UNCHANGED <<born, projects, members, tb, jobs, faults, aborts>>

\* The process stops (crash, deploy) with this handler in progress.
Abort(t) ==
  /\ jobs[t] # Idle
  /\ aborts < MaxAborts /\ aborts' = aborts + 1
  /\ End(t)
  /\ UNCHANGED <<born, db, tb, faults>>

-----------------------------------------------------------------------------

Arrive(t) ==
  \/ \E p \in Projects, u \in Users :
       \/ BeginCreate(t, p, u) \/ BeginRetry(t, p, u) \/ BeginDelete(t, p, u)
       \/ BeginApprove(t, p, u) \/ BeginRemove(t, p, u)
  \/ \E u \in Users : BeginAccept(t, u) \/ BeginLogin(t, u)

Proceed(t) ==
  \/ FlushInsert(t) \/ SaveTenant(t) \/ FindUser(t) \/ SaveUser(t)
  \/ StarterDashboard(t) \/ TbFails(t) \/ CommitCreate(t) \/ CommitRetry(t)
  \/ DropTenant(t) \/ EraseProject(t) \/ NextTicket(t) \/ CommitAdd(t)
  \/ EndAdmission(t) \/ DropUser(t) \/ EraseMember(t)

Manage ==
  \E p \in Projects, u \in Users :
    \/ \E s \in {"active", "disabled"} : SetMemberStatus(p, u, s)
    \/ CreateInvite(p, u) \/ RequestToJoin(p, u) \/ Deny(p, u)

\* No request comes in: the portal is at rest.
Quiet == (\A t \in Threads : jobs[t] = Idle) /\ UNCHANGED vars

Next ==
  \/ \E t \in Threads : Arrive(t) \/ Proceed(t) \/ Abort(t)
  \/ Manage
  \/ Quiet

Spec == Init /\ [][Next]_vars

\* The owner of a project shown as failed presses "retry" again, and the owner
\* of one whose tenant is already gone presses "delete" again.
RetryAgain(p) ==
  projects[p].state = "failed" /\
  \E t \in Threads, u \in Users : members[p][u].role = "owner" /\ BeginRetry(t, p, u)

DeleteAgain(p) ==
  ~TenantLive(projects[p].tenant) /\
  \E t \in Threads, u \in Users : BeginDelete(t, p, u)

\* Handlers in progress are run on; they are not killed for ever.
FairSpec ==
  /\ Spec
  /\ \A t \in Threads : WF_vars(Proceed(t))
  /\ \A p \in Projects : SF_vars(RetryAgain(p)) /\ SF_vars(DeleteAgain(p))

-----------------------------------------------------------------------------
(* Properties.                                                             *)

\* A membership row never leads into another project's tenant, nor to another
\* human's account: the TB user it names was made for this human in a tenant
\* made for this project, whatever was retried, killed or slugs were reused.
TenantIsolation ==
  \A p \in Projects, u \in Users :
    LET b == members[p][u].tbUser
    IN b # None => /\ tbUsers[b].user = u
                   /\ tenants[tbUsers[b].tenant].project = p

\* Every project row has one owner row, and it is active: no order of
\* invitations, removals and retries leaves a project nobody can manage.
ExactlyOneOwner ==
  \A p \in Projects : Exists(p) =>
    \E o \in Users :
      /\ members[p][o].role = "owner" /\ members[p][o].status = "active"
      /\ \A u \in Users \ {o} : members[p][u].role # "owner"

\* "provisioned" means usable: the tenant is recorded and the owner's row can
\* open a session in it (the gate of every project route needs both).
ProvisionedIsUsable ==
  \A p \in Projects : projects[p].state = "provisioned" =>
    /\ projects[p].tenant # None
    /\ \A u \in Users : members[p][u].role = "owner" => members[p][u].tbUser # None

\* Live slugs are distinct: the unique index backs up unique_slug's racy read.
SlugsDistinct ==
  \A p, q \in Projects :
    Exists(p) /\ Exists(q) /\ projects[p].slug = projects[q].slug => p = q

\* All members work in the tenant the project row names, so what one of them
\* builds the others see.
SharesTenant(p) ==
  \A u \in Users :
    LET b == members[p][u].tbUser
    IN Exists(p) /\ b # None => tbUsers[b].tenant = projects[p].tenant

MembersShareTenant == \A p \in Projects : SharesTenant(p)

\* A row that outlives its project (an admission that commits after the
\* project was deleted) names a TB user that died with the tenant.
LeftoversInert(p) ==
  \A u \in Users : Row(p, u) /\ ~Exists(p) => ~UserLive(members[p][u].tbUser)

OrphanRowsInert == \A p \in Projects : LeftoversInert(p)

\* Handler t is a retry of project p that found no tenant recorded and makes one.
MakesTenant(t, p) ==
  jobs[t].op = "retry" /\ jobs[t].project = p /\ jobs[t].proj0.tenant = None

OneMaker(p) == \A s, t \in Threads : MakesTenant(s, p) /\ MakesTenant(t, p) => s = t

\* Whatever retries, admissions and deletions run at once, in any number: the
\* members of a project are torn between two tenants only if two retries of this
\* project were making one at the same time.
TornOnlyByMakers == \A p \in Projects : []OneMaker(p) => []SharesTenant(p)

\* And only then may a row that outlives this project open anything.
LiveOnlyByMakers == \A p \in Projects : []OneMaker(p) => []LeftoversInert(p)

\* A membership keeps its TB user as long as that user is alive: no retry and
\* no repeated admission moves a human to another account.  One exception: an
\* admission that found the account a removal was deleting, when the removal is
\* cut short before its commit, may write that dead account over a newer one.
StableIdentity ==
  [][\A p \in Projects, u \in Users :
       LET b == members[p][u].tbUser
           c == members'[p][u].tbUser
       IN b # None /\ Row(p, u) /\ Row(p, u)' /\ UserLive(b)
            => (c = b \/ (c \in TbUsers /\ ~UserLive(c)))]_vars

(* The access promised by ProjectAccess.                                   *)

Phase(p) ==
  IF Exists(p) THEN "open"
  ELSE IF p \in born /\ ~\E t \in Threads : jobs[t].op = "create" /\ jobs[t].project = p
       THEN "closed" ELSE "new"

Access(p, u) ==
  IF ~Exists(p) THEN "none"
  ELSE IF members[p][u].role = "owner" THEN "owner" ELSE members[p][u].status

\* tickets whose holder the owner has agreed to admit
Agreed(k) ==
  \/ tickets[k].kind = "invite"
  \/ tickets[k].status = "approved"
  \/ \E t \in Threads : /\ jobs[t].op = "approve"
                         /\ k \in jobs[t].todo \cup jobs[t].done \cup jobs[t].now

Promise == INSTANCE ProjectAccess WITH
  phase   <- [p \in Projects |-> Phase(p)],
  access  <- [p \in Projects |-> [u \in Users |-> Access(p, u)]],
  consent <- {<<tickets[k].project, tickets[k].user>> :
                k \in {k \in Tickets : /\ tickets[k] # NoTicket /\ Agreed(k)
                                       /\ Exists(tickets[k].project)}}

\* The handlers, however they interleave, fail or die, give access only as
\* ProjectAccess allows.
AccessKept == Promise!AccessSpec

(* Progress.                                                               *)

\* A request is answered: nothing a handler waits for (the slug another one
\* holds, the next invite of a login) keeps it for ever.
RequestsEnd == \A t \in Threads : jobs[t] # Idle ~> jobs[t] = Idle

\* "a partial failure is repaired by simply running again" (provisioning.py):
\* a failed project is provisioned in the end, unless it was deleted meanwhile.
Repairable ==
  \A p \in Projects :
    projects[p].state = "failed" ~>
      \/ projects[p].state = "provisioned"
      \/ projects[p].tenant # None /\ ~TenantLive(projects[p].tenant)

\* ADR-001 on archiving and deleting a project: "All idempotent".  A deletion
\* that got as far as the tenant is completed by asking again.
DeleteCompletes ==
  \A p \in Projects :
    Exists(p) /\ projects[p].tenant # None /\ ~TenantLive(projects[p].tenant) ~> ~Exists(p)

\* permissions.py: enabling a member is for the owner.  A disabled member comes
\* back by the owner's switch or the owner's approval of a request, and by
\* nothing the member does.
OnlyOwnerEnables ==
  [][\A p \in Projects, u \in Users :
       members[p][u].status = "disabled" /\ members'[p][u].status = "active" =>
         \/ UNCHANGED jobs
         \/ \E t \in Threads : jobs[t].op = "approve" /\ jobs'[t] # jobs[t]]_vars
=============================================================================
