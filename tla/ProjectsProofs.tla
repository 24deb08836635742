--------------------------- MODULE ProjectsProofs ---------------------------
(***************************************************************************)
(* Proofs about module Projects: type correctness, tenant isolation, and   *)
(* the rows of a project's life (slugs, owners, and what "provisioned"     *)
(* promises), for any numbers of projects, users, handlers, faults and     *)
(* crashes, and with or without concurrent retries.                        *)
(***************************************************************************)
EXTENDS Projects, TLAPS

-----------------------------------------------------------------------------
(* Type correctness.                                                       *)

\* TypeOK alone is not inductive: a handler looks up the row of its user in the
\* project its ticket names, so its tickets must name one.
TodoScoped ==
  \A t \in Threads : \A k \in jobs[t].todo :
    tickets[k].project \in Projects /\ jobs[t].user \in Users

TypeInv == TypeOK /\ TodoScoped

LEMMA IdleType == Idle \in Job /\ Idle.todo = {}
  BY ProjectsAssumption DEF Idle, Job, Ops, Pcs, ProjectRow, MemberRow, NoProject,
       NoMember, Slugs

\* A request starts with well-formed locals.
LEMMA RequestType ==
  ASSUME TypeOK, NEW op \in Ops, NEW pc \in Pcs, NEW p \in Projects, NEW u \in Users
  PROVE  Request(op, pc, p, u) \in Job /\ Request(op, pc, p, u).todo = {}
<1>1. projects[p] \in ProjectRow /\ members[p][u] \in MemberRow
  BY DEF TypeOK
<1> QED
  BY <1>1 DEF Request, Job

\* Starting or moving one handler keeps jobs well formed.
LEMMA GotoType ==
  ASSUME TypeOK, NEW t \in Threads, NEW j \in Job, Goto(t, j)
  PROVE  jobs' \in [Threads -> Job]
  BY DEF Goto, TypeOK

LEMMA TypeInit == Init => TypeInv
  BY IdleType, ProjectsAssumption
  DEF Init, TypeInv, TypeOK, TodoScoped, ProjectRow, MemberRow, TicketRow, TenantRow,
      TbUserRow, NoProject, NoMember, NoTicket, NoTenant, NoTbUser, Slugs

\* A handler that keeps its tickets, or ends, keeps them scoped.
LEMMA GotoScoped ==
  ASSUME TypeInv, NEW t \in Threads, NEW j \in Job, Goto(t, j),
         j.todo \subseteq jobs[t].todo, j.todo = {} \/ j.user = jobs[t].user,
         UNCHANGED tickets
  PROVE  TodoScoped'
  BY DEF Goto, TypeInv, TypeOK, TodoScoped, Job

LEMMA TypeArrive ==
  ASSUME TypeInv, NEW t \in Threads, Arrive(t)
  PROVE  TypeInv'
<1> USE DEF TypeInv
<1>1. ASSUME NEW p \in Projects, NEW u \in Users, BeginCreate(t, p, u)
      PROVE  TypeInv'
  <2>1. PICK n \in 1 .. MaxSlug :
          Begin(t, [Request("create", "flush", p, u) EXCEPT !.proj.slug = n])
    BY <1>1 DEF BeginCreate
  <2> DEFINE j == [Request("create", "flush", p, u) EXCEPT !.proj.slug = n]
  <2>2. Request("create", "flush", p, u) \in Job /\ Request("create", "flush", p, u).todo = {}
    BY RequestType DEF Ops, Pcs
  <2>3. j \in Job /\ j.todo = {}
    BY <2>2, ProjectsAssumption DEF Job, ProjectRow, Slugs
  <2>4. Goto(t, j)
    BY <2>1 DEF Begin, Goto
  <2>5. jobs' \in [Threads -> Job] /\ TodoScoped'
    BY <2>3, <2>4, <1>1, GotoType, GotoScoped DEF BeginCreate, db
  <2> QED
    BY <2>5, <1>1 DEF BeginCreate, TypeOK, db, tb
<1>2. ASSUME NEW p \in Projects, NEW u \in Users, NEW op \in Ops, NEW pc \in Pcs,
             Begin(t, Request(op, pc, p, u)), UNCHANGED <<born, db, tb, faults, aborts>>
      PROVE  TypeInv'
  <2>1. Request(op, pc, p, u) \in Job /\ Request(op, pc, p, u).todo = {}
    BY RequestType
  <2>2. Goto(t, Request(op, pc, p, u))
    BY <1>2 DEF Begin, Goto
  <2>3. jobs' \in [Threads -> Job] /\ TodoScoped'
    BY <2>1, <2>2, <1>2, GotoType, GotoScoped DEF db
  <2> QED
    BY <2>3, <1>2 DEF TypeOK, db, tb
<1>3. ASSUME NEW u \in Users, NEW op \in Ops, NEW K \in SUBSET Tickets,
             \A k \in K : tickets[k].project \in Projects,
             Begin(t, Admission(op, u, K)), UNCHANGED <<born, db, tb, faults, aborts>>
      PROVE  TypeInv'
  <2>1. Admission(op, u, K) \in Job /\ Admission(op, u, K).todo = K
    BY IdleType DEF Admission, Job, Pcs, Idle
  <2>2. Goto(t, Admission(op, u, K))
    BY <1>3 DEF Begin, Goto
  <2>3. jobs' \in [Threads -> Job]
    BY <2>1, <2>2, GotoType
  <2>4. Admission(op, u, K).user = u
    BY DEF Admission, Idle
  <2>5. TodoScoped'
    BY <2>1, <2>4, <1>3 DEF TodoScoped, Begin, TypeOK, db
  <2> QED
    BY <2>3, <2>5, <1>3 DEF TypeOK, db, tb
<1>4. ASSUME NEW p \in Projects, NEW u \in Users, BeginRetry(t, p, u)
      PROVE  TypeInv'
  BY <1>4, <1>2 DEF BeginRetry, Ops, Pcs
<1>5. ASSUME NEW p \in Projects, NEW u \in Users, BeginDelete(t, p, u)
      PROVE  TypeInv'
  BY <1>5, <1>2 DEF BeginDelete, Ops, Pcs
<1>6. ASSUME NEW p \in Projects, NEW u \in Users, BeginApprove(t, p, u)
      PROVE  TypeInv'
  BY <1>6, <1>3 DEF BeginApprove, Ops, Pending
<1>7. ASSUME NEW p \in Projects, NEW u \in Users, BeginRemove(t, p, u)
      PROVE  TypeInv'
  BY <1>7, <1>2 DEF BeginRemove, Ops, Pcs
<1>8. ASSUME NEW u \in Users, BeginAccept(t, u)
      PROVE  TypeInv'
  BY <1>8, <1>3 DEF BeginAccept, Ops, Pending
<1>9. ASSUME NEW u \in Users, BeginLogin(t, u)
      PROVE  TypeInv'
  <2> DEFINE mine == UNION {Pending("invite", p, u) : p \in Projects}
  <2>1. mine \in SUBSET Tickets /\ \A k \in mine : tickets[k].project \in Projects
    BY DEF Pending
  <2> QED
    BY <1>9, <1>3, <2>1 DEF BeginLogin, Ops
<1> QED
  BY <1>1, <1>4, <1>5, <1>6, <1>7, <1>8, <1>9 DEF Arrive

\* What a commit writes is well formed.
LEMMA NetProjectType ==
  ASSUME TypeOK, NEW p \in Projects, NEW old \in ProjectRow, NEW new \in ProjectRow
  PROVE  NetProject(p, old, new) \in ProjectRow
<1>1. projects[p] \in ProjectRow
  BY DEF TypeOK
<1> QED
  BY <1>1 DEF NetProject, Column, ProjectRow

LEMMA NetMemberType ==
  ASSUME TypeOK, NEW p \in Projects, NEW u \in Users, NEW old \in MemberRow, NEW new \in MemberRow
  PROVE  NetMember(p, u, old, new) \in MemberRow
<1>1. members[p][u] \in MemberRow
  BY DEF TypeOK
<1> QED
  BY <1>1 DEF NetMember, Column, MemberRow

LEMMA ResolvedType ==
  ASSUME TypeOK, NEW K, tickets' = Resolved(K)
  PROVE  /\ tickets' \in [Tickets -> TicketRow]
         /\ \A k \in Tickets : tickets'[k].project = tickets[k].project
<1> DEFINE w(k) == IF tickets[k].kind = "invite" THEN "accepted" ELSE "approved"
<1>1. \A k \in Tickets : /\ [tickets[k] EXCEPT !.status = w(k)] \in TicketRow
                         /\ [tickets[k] EXCEPT !.status = w(k)].project = tickets[k].project
  BY DEF TypeOK, TicketRow
<1> QED
  BY <1>1 DEF Resolved, TypeOK

LEMMA TypeProceed ==
  ASSUME TypeInv, NEW t \in Threads, Proceed(t)
  PROVE  TypeInv'
<1> DEFINE j == jobs[t]
<1> USE DEF TypeInv
<1>0. /\ j \in Job /\ Idle \in Job /\ Idle.todo = {} /\ j.todo \subseteq Tickets
      /\ NoProject \in ProjectRow /\ NoMember \in MemberRow
  BY IdleType, ProjectsAssumption
  DEF TypeOK, Job, NoProject, NoMember, ProjectRow, MemberRow, Slugs
<1>pc. ASSUME NEW pc \in Pcs
       PROVE  /\ [j EXCEPT !.pc = pc] \in Job
              /\ [j EXCEPT !.pc = pc].todo = j.todo /\ [j EXCEPT !.pc = pc].user = j.user
  BY <1>0 DEF Job
<1>gt. ASSUME NEW jj \in Job, jj.todo \subseteq j.todo, jj.todo = {} \/ jj.user = j.user,
              Goto(t, jj), UNCHANGED tickets
       PROVE  jobs' \in [Threads -> Job] /\ TodoScoped'
  BY <1>gt, GotoType, GotoScoped
<1>end. ASSUME End(t), UNCHANGED tickets PROVE jobs' \in [Threads -> Job] /\ TodoScoped'
  BY <1>end, <1>0, <1>gt DEF End
<1>f. Fault => faults' \in 0 .. MaxFaults
  BY ProjectsAssumption DEF Fault, TypeOK
<1>gu. ASSUME NEW b \in TbUsers 
       PROVE  GotUser(j, b) \in Job /\ GotUser(j, b).todo = j.todo /\ GotUser(j, b).user = j.user
  BY <1>0 DEF GotUser, Job, Pcs
<1>1. ASSUME FlushInsert(t) PROVE TypeInv'
  <2>1. jobs' \in [Threads -> Job] /\ TodoScoped'
    BY <1>1, <1>pc, <1>gt, <1>end DEF FlushInsert, db, Pcs
  <2> QED BY <2>1, <1>1 DEF FlushInsert, TypeOK, db, tb
<1>2. ASSUME SaveTenant(t) PROVE TypeInv'
  <2>1. PICK T \in Tenants :
          /\ tenants' = [tenants EXCEPT ![T] = [project |-> j.project, live |-> TRUE]]
          /\ \/ Goto(t, [j EXCEPT !.proj.tenant = T, !.pc = "find"]) /\ UNCHANGED faults
             \/ AnswerLost
    BY <1>2 DEF SaveTenant, FreshTenants
  <2>2. tenants' \in [Tenants -> TenantRow]
    BY <2>1, <1>0 DEF TypeOK, TenantRow, Job
  <2>3. /\ [j EXCEPT !.proj.tenant = T, !.pc = "find"] \in Job
        /\ [j EXCEPT !.proj.tenant = T, !.pc = "find"].todo = j.todo
        /\ [j EXCEPT !.proj.tenant = T, !.pc = "find"].user = j.user
    BY <1>0 DEF Job, ProjectRow, Pcs
  <2>4. /\ jobs' \in [Threads -> Job] /\ TodoScoped'
        /\ faults' \in 0 .. MaxFaults
    BY <2>1, <2>3, <1>gt, <1>2, <1>f DEF SaveTenant, AnswerLost, TypeOK, TodoScoped, db
  <2> QED BY <2>2, <2>4, <1>2 DEF SaveTenant, TypeOK, db
<1>3. ASSUME FindUser(t) PROVE TypeInv'
  <2>1. jobs' \in [Threads -> Job] /\ TodoScoped'
    BY <1>3, <1>pc, <1>gt, <1>gu DEF FindUser, db, Pcs
  <2> QED BY <2>1, <1>3 DEF FindUser, TypeOK, db, tb
<1>4. ASSUME SaveUser(t) PROVE TypeInv'
  <2>1. PICK b \in TbUsers :
          /\ tbUsers' = [tbUsers EXCEPT ![b] =
               [tenant |-> j.proj.tenant, slug |-> j.proj.slug, user |-> j.user, live |-> TRUE]]
          /\ \/ Goto(t, GotUser(j, b)) /\ UNCHANGED faults
             \/ AnswerLost
    BY <1>4 DEF SaveUser, FreshTbUsers
  <2>2. tbUsers' \in [TbUsers -> TbUserRow]
    BY <2>1, <1>0 DEF TypeOK, TbUserRow, Job, ProjectRow
  <2>3. /\ jobs' \in [Threads -> Job] /\ TodoScoped'
        /\ faults' \in 0 .. MaxFaults
    BY <2>1, <1>gu, <1>gt, <1>4, <1>f DEF SaveUser, AnswerLost, TypeOK, TodoScoped, db
  <2> QED BY <2>2, <2>3, <1>4 DEF SaveUser, TypeOK, db
<1>5. ASSUME StarterDashboard(t) PROVE TypeInv'
  <2>1. jobs' \in [Threads -> Job] /\ TodoScoped'
    BY <1>5, <1>pc, <1>gt DEF StarterDashboard, db, Pcs
  <2> QED BY <2>1, <1>5 DEF StarterDashboard, TypeOK, db, tb
<1>6. ASSUME TbFails(t) PROVE TypeInv'
  <2>1. jobs' \in [Threads -> Job] /\ TodoScoped' /\ faults' \in 0 .. MaxFaults
    BY <1>6, <1>pc, <1>gt, <1>end, <1>f DEF TbFails, db, Pcs, TypeOK
  <2> QED BY <2>1, <1>6 DEF TbFails, TypeOK, db, tb
<1>out. Outcome(j) \in ProjectRow
  BY <1>0 DEF Outcome, Job, ProjectRow
<1>7. ASSUME CommitCreate(t) PROVE TypeInv'
  <2>1. jobs' \in [Threads -> Job] /\ TodoScoped'
    BY <1>7, <1>end DEF CommitCreate
  <2>2. projects' \in [Projects -> ProjectRow]
    BY <1>7, <1>out DEF CommitCreate, TypeOK
  <2>3. members' \in [Projects -> [Users -> MemberRow]]
    <3> DEFINE owner == [role |-> "owner", status |-> "active",
                         tbUser |-> IF j.pc = "commit" THEN j.tbUser ELSE None]
    <3>1. owner \in MemberRow
      BY <1>0 DEF MemberRow, Job
    <3>2. members' = [members EXCEPT ![j.project][j.user] = owner]
      BY <1>7 DEF CommitCreate
    <3> HIDE DEF owner
    <3> QED BY <3>1, <3>2 DEF TypeOK
  <2> QED BY <2>1, <2>2, <2>3, <1>7 DEF CommitCreate, TypeOK, tb
<1>8. ASSUME CommitRetry(t) PROVE TypeInv'
  <2> DEFINE mem == IF j.pc = "commit" THEN [j.mem0 EXCEPT !.tbUser = j.tbUser] ELSE j.mem0
  <2>1. jobs' \in [Threads -> Job] /\ TodoScoped'
    BY <1>8, <1>end DEF CommitRetry
  <2>2. mem \in MemberRow /\ j.proj0 \in ProjectRow /\ j.mem0 \in MemberRow
    BY <1>0 DEF MemberRow, Job
  <2>3. /\ \/ UNCHANGED projects
           \/ projects' = [projects EXCEPT ![j.project] = NetProject(j.project, j.proj0, Outcome(j))]
        /\ \/ UNCHANGED members
           \/ members' = [members EXCEPT ![j.project][j.user] =
                             NetMember(j.project, j.user, j.mem0, mem)]
    BY <1>8 DEF CommitRetry
  <2> HIDE DEF mem
  <2>4. projects' \in [Projects -> ProjectRow]
    <3>1. j.project \in Projects => NetProject(j.project, j.proj0, Outcome(j)) \in ProjectRow
      BY <2>2, <1>out, NetProjectType
    <3> QED BY <2>3, <3>1 DEF TypeOK
  <2>5. members' \in [Projects -> [Users -> MemberRow]]
    <3>1. j.project \in Projects /\ j.user \in Users
            => NetMember(j.project, j.user, j.mem0, mem) \in MemberRow
      BY <2>2, NetMemberType
    <3> QED BY <2>3, <3>1 DEF TypeOK
  <2> QED BY <2>1, <2>4, <2>5, <1>8 DEF CommitRetry, TypeOK, tb
<1>9. ASSUME DropTenant(t) PROVE TypeInv'
  <2>1. jobs' \in [Threads -> Job] /\ TodoScoped' /\ faults' \in 0 .. MaxFaults
    BY <1>9, <1>pc, <1>gt, <1>f DEF DropTenant, AnswerLost, db, Pcs, TypeOK, TodoScoped
  <2>2. /\ tenants' \in [Tenants -> TenantRow]
        /\ tbUsers' \in [TbUsers -> TbUserRow]
    BY <1>9 DEF DropTenant, KillTenant, TypeOK, TenantRow, TbUserRow
  <2> QED BY <2>1, <2>2, <1>9 DEF DropTenant, TypeOK, db
<1>del. ASSUME NEW X, EndDeleting(t, X), UNCHANGED tickets
        PROVE  jobs' \in [Threads -> Job] /\ TodoScoped'
  <2>1. \A x \in Threads : /\ [jobs[x] EXCEPT !.gone = TRUE] \in Job
                           /\ [jobs[x] EXCEPT !.gone = TRUE].todo = jobs[x].todo
                           /\ [jobs[x] EXCEPT !.gone = TRUE].user = jobs[x].user
    BY DEF TypeOK, Job
  <2> QED BY <2>1, <1>0, <1>del DEF EndDeleting, TypeOK, TodoScoped
<1>10. ASSUME EraseProject(t) PROVE TypeInv'
  <2>1. jobs' \in [Threads -> Job] /\ TodoScoped'
    BY <1>10, <1>del DEF EraseProject
  <2>2. /\ projects' \in [Projects -> ProjectRow]
        /\ members' \in [Projects -> [Users -> MemberRow]]
    BY <1>10, <1>0 DEF EraseProject, TypeOK
  <2> QED BY <2>1, <2>2, <1>10 DEF EraseProject, TypeOK, tb
<1>11. ASSUME NextTicket(t) PROVE TypeInv'
  <2>1. PICK k \in j.todo :
          LET p == tickets[k].project
              rest == [j EXCEPT !.todo = @ \ {k}]
          IN \/ Goto(t, rest)
             \/ Goto(t, [rest EXCEPT !.pc = "find", !.now = {k}, !.project = p,
                            !.proj0 = projects[p], !.proj = projects[p],
                            !.mem0 = members[p][j.user], !.gone = FALSE])
    BY <1>11 DEF NextTicket
  <2> DEFINE p == tickets[k].project
             rest == [j EXCEPT !.todo = @ \ {k}]
             go == [rest EXCEPT !.pc = "find", !.now = {k}, !.project = p,
                      !.proj0 = projects[p], !.proj = projects[p],
                      !.mem0 = members[p][j.user], !.gone = FALSE]
  <2>2. /\ k \in Tickets /\ p \in Projects /\ j.user \in Users
        /\ projects[p] \in ProjectRow /\ members[p][j.user] \in MemberRow
    BY <1>0 DEF TodoScoped, TypeOK
  <2>3. rest \in Job /\ rest.todo \subseteq j.todo /\ rest.user = j.user
    BY <1>0 DEF Job
  <2>4. go \in Job /\ go.todo = rest.todo /\ go.user = j.user
    <3> HIDE DEF rest
    <3> QED BY <2>2, <2>3 DEF Job, Pcs
  <2>5. jobs' \in [Threads -> Job] /\ TodoScoped'
    BY <2>1, <2>3, <2>4, <1>gt, <1>11 DEF NextTicket, db
  <2> QED BY <2>5, <1>11 DEF NextTicket, TypeOK, db, tb
<1>res. ASSUME NEW K, tickets' = Resolved(K), NEW jj \in Job, jj.todo \subseteq j.todo,
               jj.todo = {} \/ jj.user = j.user, Goto(t, jj)
        PROVE  /\ jobs' \in [Threads -> Job] /\ TodoScoped'
               /\ tickets' \in [Tickets -> TicketRow]
  <2>1. /\ tickets' \in [Tickets -> TicketRow]
        /\ \A k \in Tickets : tickets'[k].project = tickets[k].project
    BY <1>res, ResolvedType
  <2>2. \A x \in Threads :
          /\ jobs'[x].todo \subseteq jobs[x].todo /\ jobs[x].todo \subseteq Tickets
          /\ jobs'[x].todo = {} \/ jobs'[x].user = jobs[x].user
    BY <1>res, <1>0 DEF Goto, TypeOK, Job
  <2>3. TodoScoped'
    BY <2>1, <2>2 DEF TodoScoped
  <2> QED BY <2>1, <2>3, <1>res, GotoType
<1>12. ASSUME CommitAdd(t) PROVE TypeInv'
  <2> DEFINE mem == [role |-> IF j.mem0 = NoMember THEN "member" ELSE j.mem0.role,
                     status |-> "active", tbUser |-> j.tbUser]
             jj == [j EXCEPT !.pc = "next", !.done = j.now, !.now = {},
                      !.project = None, !.proj0 = NoProject, !.proj = NoProject,
                      !.mem0 = NoMember, !.gone = FALSE, !.tbUser = None]
  <2>1. CASE End(t) /\ UNCHANGED <<members, tickets>>
    BY <2>1, <1>end, <1>12 DEF CommitAdd, TypeOK, tb
  <2>2. CASE /\ \/ UNCHANGED members
                \/ members' = [members EXCEPT ![j.project][j.user] =
                                  NetMember(j.project, j.user, j.mem0, mem)]
             /\ tickets' = Resolved(j.done)
             /\ Goto(t, jj)
    <3>1. mem \in MemberRow
      BY <1>0 DEF MemberRow, Job
    <3>2. jj \in Job /\ jj.todo = j.todo /\ jj.user = j.user
      BY <1>0, <2>2 DEF Job, Pcs
    <3> HIDE DEF mem, jj
    <3>3. jobs' \in [Threads -> Job] /\ TodoScoped' /\ tickets' \in [Tickets -> TicketRow]
      BY <3>2, <2>2, <1>res
    <3>4. j.project \in Projects /\ j.user \in Users
            => NetMember(j.project, j.user, j.mem0, mem) \in MemberRow
      BY <3>1, <1>0, NetMemberType DEF Job
    <3>5. members' \in [Projects -> [Users -> MemberRow]]
      <4>1. CASE UNCHANGED members
        BY <4>1 DEF TypeOK
      <4>2. CASE members' = [members EXCEPT ![j.project][j.user] =
                               NetMember(j.project, j.user, j.mem0, mem)]
        BY <4>2, <3>4 DEF TypeOK
      <4> QED BY <4>1, <4>2, <2>2
    <3> QED BY <3>3, <3>5, <1>12 DEF CommitAdd, TypeOK, tb
  <2> QED BY <2>1, <2>2, <1>12 DEF CommitAdd
<1>13. ASSUME EndAdmission(t) PROVE TypeInv'
  BY <1>13, <1>res, <1>0 DEF EndAdmission, End, TypeOK, tb
<1>14. ASSUME DropUser(t) PROVE TypeInv'
  <2>1. jobs' \in [Threads -> Job] /\ TodoScoped' /\ faults' \in 0 .. MaxFaults
    BY <1>14, <1>pc, <1>gt, <1>f DEF DropUser, db, Pcs, TypeOK
  <2>2. tbUsers' \in [TbUsers -> TbUserRow]
    <3>1. PICK b : tbUsers' = [tbUsers EXCEPT ![b].live = FALSE] \/ UNCHANGED tbUsers
      BY <1>14 DEF DropUser
    <3>2. tbUsers \in [TbUsers -> TbUserRow]
      BY DEF TypeOK
    <3> QED BY <3>1, <3>2 DEF TbUserRow
  <2> QED BY <2>1, <2>2, <1>14 DEF DropUser, TypeOK, db
<1>15. ASSUME EraseMember(t) PROVE TypeInv'
  <2>1. jobs' \in [Threads -> Job] /\ TodoScoped'
    BY <1>15, <1>del, <1>end DEF EraseMember
  <2>2. \/ UNCHANGED members
        \/ members' = [members EXCEPT ![j.project][j.user] = NoMember]
    BY <1>15 DEF EraseMember
  <2>3. members' \in [Projects -> [Users -> MemberRow]]
    BY <2>2, <1>0 DEF TypeOK
  <2> QED BY <2>1, <2>3, <1>15 DEF EraseMember, TypeOK, tb
<1> QED
  BY <1>1, <1>2, <1>3, <1>4, <1>5, <1>6, <1>7, <1>8, <1>9, <1>10, <1>11, <1>12,
     <1>13, <1>14, <1>15 DEF Proceed

LEMMA TypeManage ==
  ASSUME TypeInv, Manage
  PROVE  TypeInv'
<1> USE DEF TypeInv
<1>1. ASSUME NEW p \in Projects, NEW u \in Users, NEW s \in {"active", "disabled"},
             SetMemberStatus(p, u, s)
      PROVE  TypeInv'
  <2>1. [members[p][u] EXCEPT !.status = s] \in MemberRow
    <3>1. members[p][u] \in MemberRow
      BY DEF TypeOK
    <3> QED BY <3>1 DEF MemberRow
  <2>2. members' = [members EXCEPT ![p][u] = [members[p][u] EXCEPT !.status = s]]
    BY <1>1 DEF SetMemberStatus
  <2>3. members' \in [Projects -> [Users -> MemberRow]]
    BY <2>1, <2>2 DEF TypeOK
  <2> QED BY <2>3, <1>1 DEF SetMemberStatus, TypeOK, TodoScoped, tb
<1>2. ASSUME NEW kind \in {"invite", "request"}, NEW p \in Projects, NEW u \in Users,
             Issue(kind, p, u)
      PROVE  TypeInv'
  <2>1. PICK k \in Tickets : tickets' = [tickets EXCEPT ![k] =
            [kind |-> kind, project |-> p, user |-> u, status |-> "pending"]]
    BY <1>2 DEF Issue
  <2>2. /\ tickets' \in [Tickets -> TicketRow]
        /\ \A x \in Tickets : tickets[x].project \in Projects => tickets'[x].project \in Projects
    BY <2>1 DEF TypeOK, TicketRow
  <2>3. \A t \in Threads : jobs[t].todo \subseteq Tickets
    BY DEF TypeOK, Job
  <2> QED BY <2>2, <2>3, <1>2 DEF Issue, TypeOK, TodoScoped, tb
<1>3. ASSUME NEW p \in Projects, NEW u \in Users, Deny(p, u)
      PROVE  TypeInv'
  <2>1. PICK k \in Tickets : tickets' = [tickets EXCEPT ![k].status = "denied"]
    BY <1>3 DEF Deny, Pending
  <2>2. /\ tickets' \in [Tickets -> TicketRow]
        /\ \A x \in Tickets : tickets'[x].project = tickets[x].project
    BY <2>1 DEF TypeOK, TicketRow
  <2>3. \A t \in Threads : jobs[t].todo \subseteq Tickets
    BY DEF TypeOK, Job
  <2> QED BY <2>2, <2>3, <1>3 DEF Deny, TypeOK, TodoScoped, tb
<1> QED
  BY <1>1, <1>2, <1>3 DEF Manage, CreateInvite, RequestToJoin

LEMMA TypeNext == TypeInv /\ [Next]_vars => TypeInv'
<1> SUFFICES ASSUME TypeInv, [Next]_vars PROVE TypeInv'
  OBVIOUS
<1>1. ASSUME NEW t \in Threads, Abort(t) PROVE TypeInv'
  <2>1. jobs' \in [Threads -> Job] /\ TodoScoped'
    BY <1>1, IdleType, GotoType, GotoScoped DEF Abort, End, db, TypeInv
  <2>2. aborts' \in 0 .. MaxAborts
    BY <1>1, ProjectsAssumption DEF Abort, TypeInv, TypeOK
  <2> QED BY <2>1, <2>2, <1>1 DEF Abort, TypeInv, TypeOK, db, tb
<1>2. CASE UNCHANGED vars
  BY <1>2 DEF vars, TypeInv, TypeOK, TodoScoped
<1> QED
  BY <1>1, <1>2, TypeArrive, TypeProceed, TypeManage DEF Next, Quiet

\* Every reachable state is well typed: in particular no handler ever writes a
\* half-built row, whatever it read and however it was interrupted.
THEOREM TypeCorrect == Spec => []TypeOK
<1>1. Spec => []TypeInv
  BY TypeInit, TypeNext, PTL DEF Spec
<1>2. TypeInv => TypeOK
  BY DEF TypeInv
<1> QED
  BY <1>1, <1>2, PTL

-----------------------------------------------------------------------------
(* Tenant isolation.                                                       *)

\* tenant T was made for project p; TB user b was made for human u in one
MadeFor(T, p) == T \in Tenants /\ p \in Projects /\ tenants[T].project = p

Owned(b, p, u) ==
  b \in TbUsers /\ MadeFor(tbUsers[b].tenant, p) /\ tbUsers[b].user = u

RowsIso ==
  /\ \A p \in Projects :
       projects[p].tenant # None => MadeFor(projects[p].tenant, p)
  /\ \A p \in Projects, u \in Users :
       members[p][u].tbUser # None => Owned(members[p][u].tbUser, p, u)

\* Handlers carry ids from the rows and from the engine to a later commit, so
\* the ids in their locals must be isolated too.
JobIso(j) ==
  /\ j.pc \notin {"idle", "next"} => j.project \in Projects /\ j.user \in Users
  /\ j.proj.tenant # None => MadeFor(j.proj.tenant, j.project)
  /\ j.tbUser # None => Owned(j.tbUser, j.project, j.user)
  /\ j.mem0.tbUser # None => Owned(j.mem0.tbUser, j.project, j.user)
  /\ j.pc = "next" => j.tbUser = None

IsoInv == TypeInv /\ RowsIso /\ \A t \in Threads : JobIso(jobs[t])

\* The engine forgets nothing: a tenant keeps its project and a TB user its
\* tenant and its human, dead or alive.
Grow ==
  /\ \A T \in Tenants, p \in Projects : MadeFor(T, p) => MadeFor(T, p)'
  /\ \A b \in TbUsers : tbUsers[b].tenant \in Tenants =>
       tbUsers'[b].tenant = tbUsers[b].tenant /\ tbUsers'[b].user = tbUsers[b].user

LEMMA OwnedStable ==
  ASSUME Grow, NEW b, NEW p, NEW u, Owned(b, p, u)
  PROVE  Owned(b, p, u)'
  BY DEF Grow, Owned, MadeFor

LEMMA OwnedWritten ==
  ASSUME Grow, NEW p, NEW u, NEW b, Owned(b, p, u), members'[p][u].tbUser = b
  PROVE  Owned(members[p][u].tbUser, p, u)'
  BY DEF Grow, Owned, MadeFor

LEMMA JobIsoStable ==
  ASSUME Grow, NEW j, JobIso(j)
  PROVE  JobIso(j)'
<1>1. j.proj.tenant # None => MadeFor(j.proj.tenant, j.project)'
  BY DEF JobIso, Grow, MadeFor
<1>2. /\ j.tbUser # None => Owned(j.tbUser, j.project, j.user)'
      /\ j.mem0.tbUser # None => Owned(j.mem0.tbUser, j.project, j.user)'
  BY OwnedStable DEF JobIso
<1> QED
  BY <1>1, <1>2 DEF JobIso

\* A step is safe when the rows it writes and the locals of the one handler it
\* moves are isolated.
LEMMA IsoStep ==
  ASSUME IsoInv, TypeInv', Grow,
         \A p \in Projects :
           \/ projects'[p].tenant \in {None, projects[p].tenant}
           \/ MadeFor(projects[p].tenant, p)',
         \A p \in Projects, u \in Users :
           \/ members'[p][u].tbUser \in {None, members[p][u].tbUser}
           \/ Owned(members[p][u].tbUser, p, u)',
         \A t \in Threads :
           \/ jobs'[t] = jobs[t]
           \/ jobs'[t] = [jobs[t] EXCEPT !.gone = TRUE]
           \/ JobIso(jobs'[t]) \/ JobIso(jobs[t])'
  PROVE  IsoInv'
<1>1. \A p \in Projects : projects'[p].tenant # None => MadeFor(projects[p].tenant, p)'
  BY DEF IsoInv, RowsIso, Grow, MadeFor
<1>2. \A p \in Projects, u \in Users :
        members'[p][u].tbUser # None => Owned(members[p][u].tbUser, p, u)'
  BY DEF IsoInv, RowsIso, Grow, Owned, MadeFor
<1>3. ASSUME NEW t \in Threads PROVE JobIso(jobs[t])'
  <2>1. jobs[t] \in Job
    BY DEF IsoInv, TypeInv, TypeOK
  <2>2. JobIso(jobs[t]) /\ JobIso([jobs[t] EXCEPT !.gone = TRUE])
    BY <2>1 DEF IsoInv, JobIso, Job
  <2>3. jobs'[t] = jobs[t] \/ jobs'[t] = [jobs[t] EXCEPT !.gone = TRUE] \/ JobIso(jobs'[t])
          => JobIso(jobs'[t])
    BY <2>2
  <2>4. JobIso(jobs'[t]) => JobIso(jobs[t])'
    <3>1. PICK k : k = jobs'[t]
      OBVIOUS
    <3>2. JobIso(k) => JobIso(k)'
      BY JobIsoStable
    <3> QED BY <3>1, <3>2
  <2> QED BY <2>3, <2>4
<1> QED
  BY <1>1, <1>2, <1>3 DEF IsoInv, RowsIso

LEMMA GrowUnchanged == UNCHANGED tb => Grow
  BY DEF tb, Grow, MadeFor

LEMMA IdleIso == JobIso(Idle)
  BY DEF JobIso, Idle, NoProject, NoMember

\* Steps that only move one handler.
LEMMA IsoJob ==
  ASSUME IsoInv, TypeInv', UNCHANGED <<db, tb>>, NEW t \in Threads, NEW j,
         Goto(t, j), JobIso(j)
  PROVE  IsoInv'
<1>1. \A x \in Threads : jobs'[x] = jobs[x] \/ JobIso(jobs'[x])
  BY DEF Goto, IsoInv, TypeInv, TypeOK
<1>2. Grow /\ UNCHANGED projects /\ UNCHANGED members
  BY GrowUnchanged DEF db
<1> QED
  BY <1>1, <1>2, IsoStep

LEMMA RequestIso ==
  ASSUME IsoInv, NEW op, NEW pc, NEW p \in Projects, NEW u \in Users
  PROVE  JobIso(Request(op, pc, p, u))
  BY DEF IsoInv, RowsIso, JobIso, Request

LEMMA IsoArrive ==
  ASSUME IsoInv, TypeInv', NEW t \in Threads, Arrive(t)
  PROVE  IsoInv'
<1>1. ASSUME NEW p \in Projects, NEW u \in Users, BeginCreate(t, p, u)
      PROVE  IsoInv'
  <2>1. PICK n \in 1 .. MaxSlug :
          Begin(t, [Request("create", "flush", p, u) EXCEPT !.proj.slug = n])
    BY <1>1 DEF BeginCreate
  <2>2. Request("create", "flush", p, u) \in Job
    BY RequestType DEF Ops, Pcs, IsoInv, TypeInv
  <2>3. JobIso([Request("create", "flush", p, u) EXCEPT !.proj.slug = n])
    BY <2>2, RequestIso DEF JobIso, Job, ProjectRow
  <2> QED BY <1>1, <2>1, <2>3, IsoJob DEF Begin, Goto, BeginCreate
<1>2. ASSUME NEW p \in Projects, NEW u \in Users, NEW op, NEW pc,
             Begin(t, Request(op, pc, p, u)), UNCHANGED <<db, tb>>
      PROVE  IsoInv'
  BY <1>2, RequestIso, IsoJob DEF Begin, Goto
<1>3. ASSUME NEW u \in Users, NEW op, NEW K, Begin(t, Admission(op, u, K)), UNCHANGED <<db, tb>>
      PROVE  IsoInv'
  <2>1. JobIso(Admission(op, u, K))
    BY DEF JobIso, Admission, Idle, NoProject, NoMember
  <2> QED BY <1>3, <2>1, IsoJob DEF Begin, Goto
<1>4. ASSUME NEW p \in Projects, NEW u \in Users,
             BeginRetry(t, p, u) \/ BeginDelete(t, p, u) \/ BeginRemove(t, p, u)
      PROVE  IsoInv'
  BY <1>4, <1>2 DEF BeginRetry, BeginDelete, BeginRemove
<1>5. ASSUME NEW u \in Users,
             BeginAccept(t, u) \/ BeginLogin(t, u) \/ \E p \in Projects : BeginApprove(t, p, u)
      PROVE  IsoInv'
  BY <1>5, <1>3 DEF BeginAccept, BeginLogin, BeginApprove
<1> QED
  BY <1>1, <1>4, <1>5 DEF Arrive

LEMMA IsoProceed ==
  ASSUME IsoInv, TypeInv', NEW t \in Threads, Proceed(t)
  PROVE  IsoInv'
<1> DEFINE j == jobs[t]
<1>0. j \in Job /\ JobIso(j) /\ JobIso(Idle)
  BY IdleIso DEF IsoInv, TypeInv, TypeOK
<1>pc. ASSUME NEW pc, j.pc \notin {"idle", "next"}, pc # "next" PROVE JobIso([j EXCEPT !.pc = pc])
  BY <1>0, <1>pc DEF JobIso, Job
<1>gu. ASSUME NEW b \in TbUsers, Owned(b, j.project, j.user), j.pc \notin {"idle", "next"}
       PROVE  JobIso(GotUser(j, b))
  BY <1>0, <1>gu DEF JobIso, Job, GotUser
<1>t. \A x \in Threads \ {t} : \A jj : Goto(t, jj) => jobs'[x] = jobs[x]
  BY DEF Goto, IsoInv, TypeInv, TypeOK
<1>s. \A jj : Goto(t, jj) => jobs'[t] = jj
  BY DEF Goto, IsoInv, TypeInv, TypeOK
<1>1. ASSUME FlushInsert(t) PROVE IsoInv'
  BY <1>1, <1>0, <1>pc, IsoJob DEF FlushInsert, End, At
<1>2. ASSUME SaveTenant(t) PROVE IsoInv'
  <2> DEFINE jj(T) == [j EXCEPT !.proj.tenant = T, !.pc = "find"]
  <2>1. PICK T \in FreshTenants :
          /\ tenants' = [tenants EXCEPT ![T] = [project |-> j.project, live |-> TRUE]]
          /\ Goto(t, jj(T)) \/ UNCHANGED jobs
    BY <1>2 DEF SaveTenant, AnswerLost
  <2>2. T \in Tenants /\ tenants[T].project = None /\ None \notin Projects
    BY <2>1, ProjectsAssumption DEF FreshTenants
  <2>3. Grow /\ UNCHANGED <<projects, members>>
    BY <2>1, <2>2, <1>2 DEF SaveTenant, Grow, MadeFor, IsoInv, TypeInv, TypeOK, db
  <2>4. j.project \in Projects /\ j.user \in Users
    BY <1>2, <1>0 DEF SaveTenant, At, JobIso
  <2>5. T \in Tenants /\ tenants'[T].project = j.project
    BY <2>1, <2>2 DEF IsoInv, TypeInv, TypeOK
  <2>6. ASSUME Goto(t, jj(T)) PROVE JobIso(jobs[t])'
    <3>1. /\ jj(T).project = j.project /\ jj(T).user = j.user /\ jj(T).tbUser = j.tbUser
          /\ jj(T).mem0 = j.mem0 /\ jj(T).proj.tenant = T /\ jj(T).pc = "find"
      BY <1>0 DEF Job, ProjectRow
    <3>2. jobs'[t] = jj(T)
      BY <2>6, <1>s
    <3>3. /\ j.tbUser # None => Owned(j.tbUser, j.project, j.user)
          /\ j.mem0.tbUser # None => Owned(j.mem0.tbUser, j.project, j.user)
      BY <1>0 DEF JobIso
    <3> HIDE DEF jj
    <3> QED BY <3>1, <3>2, <3>3, <2>3, <2>4, <2>5 DEF JobIso, Grow, Owned, MadeFor
  <2>7. \A x \in Threads : jobs'[x] = jobs[x] \/ JobIso(jobs[x])'
    BY <2>1, <2>6, <1>t
  <2> QED BY <2>3, <2>7, IsoStep
<1>3. ASSUME FindUser(t) PROVE IsoInv'
  <2>1. \/ Goto(t, [j EXCEPT !.pc = "save"])
        \/ \E b \in TbUsers : /\ tbUsers[b].tenant = j.proj.tenant /\ tbUsers[b].user = j.user
                              /\ Goto(t, GotUser(j, b))
    BY <1>3 DEF FindUser
  <2>2. MadeFor(j.proj.tenant, j.project)
    BY <1>3, <1>0, ProjectsAssumption DEF FindUser, Refused, At, TenantLive, JobIso
  <2>3. j.pc \notin {"idle", "next"}
    BY <1>3 DEF FindUser, At
  <2>4. CASE Goto(t, [j EXCEPT !.pc = "save"])
    BY <2>4, <2>3, <1>3, <1>pc, IsoJob DEF FindUser
  <2>5. CASE \E b \in TbUsers : /\ tbUsers[b].tenant = j.proj.tenant /\ tbUsers[b].user = j.user
                                /\ Goto(t, GotUser(j, b))
    BY <2>5, <2>2, <2>3, <1>3, <1>gu, IsoJob DEF FindUser, Owned
  <2> QED BY <2>1, <2>4, <2>5
<1>4. ASSUME SaveUser(t) PROVE IsoInv'
  <2>1. PICK b \in FreshTbUsers :
          /\ tbUsers' = [tbUsers EXCEPT ![b] =
               [tenant |-> j.proj.tenant, slug |-> j.proj.slug, user |-> j.user, live |-> TRUE]]
          /\ Goto(t, GotUser(j, b)) \/ UNCHANGED jobs
    BY <1>4 DEF SaveUser, AnswerLost
  <2>2. b \in TbUsers /\ tbUsers[b].tenant = None /\ None \notin Tenants
    BY <2>1, ProjectsAssumption DEF FreshTbUsers
  <2>3. Grow /\ UNCHANGED <<projects, members, tenants>>
    BY <2>1, <2>2, <1>4 DEF SaveUser, Grow, MadeFor, IsoInv, TypeInv, TypeOK, db
  <2>4. /\ j.project \in Projects /\ j.user \in Users
        /\ MadeFor(j.proj.tenant, j.project)
    BY <1>4, <1>0, ProjectsAssumption DEF SaveUser, At, JobIso, Refused, TenantLive
  <2>5. b \in TbUsers /\ tbUsers'[b].tenant = j.proj.tenant /\ tbUsers'[b].user = j.user
    BY <2>1, <2>2 DEF IsoInv, TypeInv, TypeOK
  <2>6. ASSUME Goto(t, GotUser(j, b)) PROVE JobIso(jobs[t])'
    <3>1. /\ GotUser(j, b).project = j.project /\ GotUser(j, b).user = j.user
          /\ GotUser(j, b).tbUser = b
          /\ GotUser(j, b).mem0 = j.mem0 /\ GotUser(j, b).proj = j.proj
          /\ GotUser(j, b).pc # "next"
      BY <1>0 DEF Job, GotUser
    <3>2. jobs'[t] = GotUser(j, b)
      BY <2>6, <1>s
    <3>3. j.mem0.tbUser # None => Owned(j.mem0.tbUser, j.project, j.user)
      BY <1>0 DEF JobIso
    <3> QED BY <3>1, <3>2, <3>3, <2>3, <2>4, <2>5 DEF JobIso, Grow, Owned, MadeFor
  <2>7. \A x \in Threads : jobs'[x] = jobs[x] \/ JobIso(jobs[x])'
    BY <2>1, <2>6, <1>t
  <2> QED BY <2>3, <2>7, IsoStep
<1>5. ASSUME StarterDashboard(t) PROVE IsoInv'
  BY <1>5, <1>pc, IsoJob DEF StarterDashboard, At
<1>6. ASSUME TbFails(t) PROVE IsoInv'
  BY <1>6, <1>0, <1>pc, IsoJob DEF TbFails, End
<1>7. ASSUME CommitCreate(t) PROVE IsoInv'
  <2>1. /\ Grow
        /\ \A x \in Threads : jobs'[x] = jobs[x] \/ JobIso(jobs'[x])
    BY <1>7, <1>0, <1>s, <1>t, GrowUnchanged DEF CommitCreate, End
  <2>2. ASSUME NEW p \in Projects
        PROVE  projects'[p].tenant \in {None, projects[p].tenant} \/ MadeFor(projects[p].tenant, p)'
    <3>1. CASE p # j.project
      BY <3>1, <1>7 DEF CommitCreate, IsoInv, TypeInv, TypeOK
    <3>2. CASE p = j.project
      <4>1. projects'[p].tenant = j.proj.tenant
        BY <3>2, <1>7, <1>0 DEF CommitCreate, IsoInv, TypeInv, TypeOK, Outcome, Job, ProjectRow
      <4> QED BY <4>1, <3>2, <2>1, <1>0 DEF JobIso, Grow, MadeFor
    <3> QED BY <3>1, <3>2
  <2>3. ASSUME NEW p \in Projects, NEW u \in Users
        PROVE  members'[p][u].tbUser \in {None, members[p][u].tbUser} \/ Owned(members[p][u].tbUser, p, u)'
    <3>1. CASE ~(p = j.project /\ u = j.user)
      BY <3>1, <1>7 DEF CommitCreate, IsoInv, TypeInv, TypeOK
    <3>2. CASE p = j.project /\ u = j.user
      <4>1. members'[p][u].tbUser \in {None, j.tbUser}
        BY <3>2, <1>7, <1>0 DEF CommitCreate, IsoInv, TypeInv, TypeOK
      <4>2. CASE members'[p][u].tbUser = None
        BY <4>2
      <4>3. CASE members'[p][u].tbUser # None
        <5>1. PICK b : b = j.tbUser /\ b # None
          BY <4>1, <4>3
        <5>2. Owned(b, p, u)
          BY <1>0, <3>2, <5>1 DEF JobIso
        <5> QED BY <2>1, <4>1, <4>3, <5>1, <5>2, OwnedWritten
      <4> QED BY <4>2, <4>3
    <3> QED BY <3>1, <3>2
  <2> QED BY <2>1, <2>2, <2>3, IsoStep
<1>8. ASSUME CommitRetry(t) PROVE IsoInv'
  <2> DEFINE mem == IF j.pc = "commit" THEN [j.mem0 EXCEPT !.tbUser = j.tbUser] ELSE j.mem0
  <2>1. /\ Grow
        /\ \A x \in Threads : jobs'[x] = jobs[x] \/ JobIso(jobs'[x])
    BY <1>8, <1>0, <1>s, <1>t, GrowUnchanged DEF CommitRetry, End
  <2>2. ASSUME NEW p \in Projects
        PROVE  projects'[p].tenant \in {None, projects[p].tenant} \/ MadeFor(projects[p].tenant, p)'
    <3>1. CASE p # j.project \/ UNCHANGED projects
      BY <3>1, <1>8 DEF CommitRetry, IsoInv, TypeInv, TypeOK
    <3>2. CASE p = j.project /\ projects' = [projects EXCEPT ![j.project] =
                                               NetProject(j.project, j.proj0, Outcome(j))]
      <4>1. projects'[p].tenant \in {projects[p].tenant, j.proj.tenant}
        BY <3>2, <1>0 DEF IsoInv, TypeInv, TypeOK, Outcome, Job, ProjectRow, NetProject, Column
      <4> QED BY <4>1, <3>2, <2>1, <1>0 DEF JobIso, Grow, MadeFor
    <3> QED BY <3>1, <3>2, <1>8 DEF CommitRetry
  <2>3. ASSUME NEW p \in Projects, NEW u \in Users
        PROVE  members'[p][u].tbUser \in {None, members[p][u].tbUser} \/ Owned(members[p][u].tbUser, p, u)'
    <3>1. CASE ~(p = j.project /\ u = j.user) \/ UNCHANGED members
      BY <3>1, <1>8 DEF CommitRetry, IsoInv, TypeInv, TypeOK
    <3>2. CASE /\ p = j.project /\ u = j.user
               /\ members' = [members EXCEPT ![j.project][j.user] =
                                NetMember(j.project, j.user, j.mem0, mem)]
      <4>0. mem.tbUser \in {j.tbUser, j.mem0.tbUser}
        BY <1>0 DEF Job, MemberRow
      <4> HIDE DEF mem
      <4>1. members'[p][u].tbUser \in {members[p][u].tbUser, j.tbUser, j.mem0.tbUser}
        BY <4>0, <3>2, <1>0 DEF IsoInv, TypeInv, TypeOK, NetMember, Column
      <4>2. /\ j.tbUser # None => Owned(j.tbUser, p, u)
            /\ j.mem0.tbUser # None => Owned(j.mem0.tbUser, p, u)
        BY <3>2, <1>0 DEF JobIso
      <4> QED BY <4>1, <4>2, <2>1, OwnedWritten
    <3> QED BY <3>1, <3>2, <1>8 DEF CommitRetry
  <2> QED BY <2>1, <2>2, <2>3, IsoStep
<1>9. ASSUME DropTenant(t) PROVE IsoInv'
  <2>1. Grow /\ UNCHANGED <<projects, members>>
    BY <1>9 DEF DropTenant, KillTenant, Grow, MadeFor, IsoInv, TypeInv, TypeOK, TenantRow, TbUserRow, db
  <2>2. \A x \in Threads : jobs'[x] = jobs[x] \/ JobIso(jobs'[x])
    BY <1>9, <1>pc, <1>s, <1>t DEF DropTenant, AnswerLost, At
  <2> QED BY <2>1, <2>2, IsoStep
<1>del. ASSUME NEW X, EndDeleting(t, X)
        PROVE  \A x \in Threads :
                 \/ jobs'[x] = jobs[x] \/ jobs'[x] = [jobs[x] EXCEPT !.gone = TRUE]
                 \/ JobIso(jobs'[x])
  BY <1>del, <1>0 DEF EndDeleting
<1>10. ASSUME EraseProject(t) PROVE IsoInv'
  <2>1. /\ \A p \in Projects : projects'[p].tenant \in {None, projects[p].tenant}
        /\ \A p \in Projects, u \in Users :
             members'[p][u].tbUser \in {None, members[p][u].tbUser}
    BY <1>10 DEF EraseProject, IsoInv, TypeInv, TypeOK, NoProject, NoMember
  <2>2. Grow
    BY <1>10, GrowUnchanged DEF EraseProject
  <2> QED BY <2>1, <2>2, <1>10, <1>del, IsoStep DEF EraseProject
<1>11. ASSUME NextTicket(t) PROVE IsoInv'
  <2>1. PICK k \in j.todo :
          LET p == tickets[k].project
              rest == [j EXCEPT !.todo = @ \ {k}]
          IN \/ Goto(t, rest)
             \/ Goto(t, [rest EXCEPT !.pc = "find", !.now = {k}, !.project = p,
                            !.proj0 = projects[p], !.proj = projects[p],
                            !.mem0 = members[p][j.user], !.gone = FALSE])
    BY <1>11 DEF NextTicket
  <2> DEFINE p == tickets[k].project
             rest == [j EXCEPT !.todo = @ \ {k}]
             go == [rest EXCEPT !.pc = "find", !.now = {k}, !.project = p,
                      !.proj0 = projects[p], !.proj = projects[p],
                      !.mem0 = members[p][j.user], !.gone = FALSE]
  <2>2. p \in Projects /\ j.user \in Users
    BY DEF TodoScoped, IsoInv, TypeInv
  <2>3. JobIso(rest)
    BY <1>0 DEF JobIso, Job
  <2>4. JobIso(go)
    <3>0. rest \in Job /\ rest.user = j.user /\ rest.tbUser = j.tbUser
      BY <1>0 DEF Job
    <3>1. /\ go.project = p /\ go.user = j.user /\ go.proj = projects[p]
          /\ go.mem0 = members[p][j.user] /\ go.tbUser = j.tbUser
      <4> HIDE DEF rest
      <4> QED BY <3>0 DEF Job
    <3>2. j.tbUser = None
      BY <1>0, <1>11 DEF NextTicket, At, JobIso
    <3> HIDE DEF go
    <3> QED BY <3>1, <3>2, <2>2 DEF JobIso, IsoInv, RowsIso
  <2> QED BY <2>1, <2>3, <2>4, <1>11, IsoJob DEF NextTicket
<1>12. ASSUME CommitAdd(t) PROVE IsoInv'
  <2> DEFINE mem == [role |-> IF j.mem0 = NoMember THEN "member" ELSE j.mem0.role,
                     status |-> "active", tbUser |-> j.tbUser]
             jj == [j EXCEPT !.pc = "next", !.done = j.now, !.now = {},
                      !.project = None, !.proj0 = NoProject, !.proj = NoProject,
                      !.mem0 = NoMember, !.gone = FALSE, !.tbUser = None]
  <2>1. Grow /\ UNCHANGED projects
    BY <1>12, GrowUnchanged DEF CommitAdd
  <2>2. JobIso(jj)
    BY <1>0 DEF JobIso, Job, NoProject, NoMember
  <2>3. \A x \in Threads : jobs'[x] = jobs[x] \/ JobIso(jobs'[x])
    <3> HIDE DEF jj
    <3>1. Goto(t, jj) \/ Goto(t, Idle)
      BY <1>12 DEF CommitAdd, End, jj
    <3> QED BY <3>1, <2>2, <1>0, <1>s, <1>t
  <2>4. ASSUME NEW p \in Projects, NEW u \in Users
        PROVE  members'[p][u].tbUser \in {None, members[p][u].tbUser} \/ Owned(members[p][u].tbUser, p, u)'
    <3>0. \/ UNCHANGED members
          \/ members' = [members EXCEPT ![j.project][j.user] =
                           NetMember(j.project, j.user, j.mem0, mem)]
      BY <1>12 DEF CommitAdd
    <3>1. CASE ~(p = j.project /\ u = j.user) \/ UNCHANGED members
      BY <3>0, <3>1 DEF IsoInv, TypeInv, TypeOK
    <3>2. CASE /\ p = j.project /\ u = j.user
               /\ members' = [members EXCEPT ![j.project][j.user] =
                                NetMember(j.project, j.user, j.mem0, mem)]
      <4>1. members'[p][u].tbUser \in {members[p][u].tbUser, j.tbUser}
        BY <3>2 DEF IsoInv, TypeInv, TypeOK, NetMember, Column
      <4>2. j.tbUser # None => Owned(j.tbUser, p, u)
        BY <3>2, <1>0 DEF JobIso
      <4> QED BY <4>1, <4>2, <2>1, OwnedWritten
    <3> QED BY <3>0, <3>1, <3>2
  <2> QED BY <2>1, <2>3, <2>4, IsoStep
<1>13. ASSUME EndAdmission(t) PROVE IsoInv'
  <2>1. Grow /\ UNCHANGED <<projects, members>>
    BY <1>13, GrowUnchanged DEF EndAdmission
  <2>2. \A x \in Threads : jobs'[x] = jobs[x] \/ JobIso(jobs'[x])
    BY <1>13, <1>0, <1>s, <1>t DEF EndAdmission, End
  <2> QED BY <2>1, <2>2, IsoStep
<1>14. ASSUME DropUser(t) PROVE IsoInv'
  <2>1. Grow /\ UNCHANGED <<projects, members>>
    BY <1>14 DEF DropUser, Grow, MadeFor, IsoInv, TypeInv, TypeOK, TbUserRow, db
  <2>2. \A x \in Threads : jobs'[x] = jobs[x] \/ JobIso(jobs'[x])
    BY <1>14, <1>pc, <1>s, <1>t DEF DropUser, At
  <2> QED BY <2>1, <2>2, IsoStep
<1>15. ASSUME EraseMember(t) PROVE IsoInv'
  <2>1. /\ UNCHANGED projects
        /\ \A p \in Projects, u \in Users :
             members'[p][u].tbUser \in {None, members[p][u].tbUser}
    BY <1>15 DEF EraseMember, IsoInv, TypeInv, TypeOK, NoMember
  <2>2. Grow
    BY <1>15, GrowUnchanged DEF EraseMember
  <2>3. \A x \in Threads :
                 \/ jobs'[x] = jobs[x] \/ jobs'[x] = [jobs[x] EXCEPT !.gone = TRUE]
                 \/ JobIso(jobs'[x])
    BY <1>15, <1>del, <1>0, <1>s, <1>t DEF EraseMember, End
  <2> QED BY <2>1, <2>2, <2>3, IsoStep
<1> QED
  BY <1>1, <1>2, <1>3, <1>4, <1>5, <1>6, <1>7, <1>8, <1>9, <1>10, <1>11, <1>12,
     <1>13, <1>14, <1>15 DEF Proceed

LEMMA IsoNext == IsoInv /\ [Next]_vars => IsoInv'
<1> SUFFICES ASSUME IsoInv, [Next]_vars PROVE IsoInv'
  OBVIOUS
<1>0. TypeInv'
  BY TypeNext DEF IsoInv
<1>1. ASSUME NEW t \in Threads, Abort(t) PROVE IsoInv'
  BY <1>0, <1>1, IdleIso, IsoJob DEF Abort, End
<1>2. ASSUME Manage PROVE IsoInv'
  <2>1. UNCHANGED <<projects, tb, jobs>>
    BY <1>2 DEF Manage, SetMemberStatus, CreateInvite, RequestToJoin, Deny, Issue
  <2>2. \/ UNCHANGED members
        \/ \E q \in Projects, v \in Users, s \in {"active", "disabled"} :
             members' = [members EXCEPT ![q][v].status = s]
    BY <1>2 DEF Manage, SetMemberStatus, CreateInvite, RequestToJoin, Deny, Issue
  <2>3. ASSUME NEW q \in Projects, NEW v \in Users, NEW s \in {"active", "disabled"},
               members' = [members EXCEPT ![q][v].status = s],
               NEW p \in Projects, NEW u \in Users
        PROVE  members'[p][u].tbUser = members[p][u].tbUser
    <3>1. members[q][v] \in MemberRow /\ members \in [Projects -> [Users -> MemberRow]]
      BY DEF IsoInv, TypeInv, TypeOK
    <3>2. [members[q][v] EXCEPT !.status = s].tbUser = members[q][v].tbUser
      BY <3>1 DEF MemberRow
    <3>3. members' = [members EXCEPT ![q][v] = [members[q][v] EXCEPT !.status = s]]
      BY <2>3
    <3> QED BY <3>1, <3>2, <3>3
  <2>4. \A p \in Projects, u \in Users : members'[p][u].tbUser = members[p][u].tbUser
    BY <2>2, <2>3
  <2> QED BY <1>0, <2>1, <2>4, GrowUnchanged, IsoStep
<1>3. CASE UNCHANGED vars
  BY <1>0, <1>3, GrowUnchanged, IsoStep DEF vars, tb
<1> QED
  BY <1>0, <1>1, <1>2, <1>3, IsoArrive, IsoProceed DEF Next, Quiet

LEMMA IsoInit == Init => IsoInv
  BY TypeInit, IdleIso DEF Init, IsoInv, RowsIso, NoProject, NoMember

\* Whatever handlers run, fail, are killed or are submitted twice, a membership
\* row leads only to the account of its own human in a tenant of its project.
THEOREM Isolation == Spec => []TenantIsolation
<1>1. Spec => []IsoInv
  BY IsoInit, IsoNext, PTL DEF Spec
<1>2. IsoInv => TenantIsolation
  BY DEF IsoInv, RowsIso, Owned, MadeFor, TenantIsolation
<1> QED
  BY <1>1, <1>2, PTL

-----------------------------------------------------------------------------
(* The inductive invariant.                                                *)

\* A committed project, or one that was.
Founded(p) ==
  p \in born /\ \A t \in Threads : jobs[t].op = "create" => jobs[t].project # p

OwnerReady(p) ==
  \A u \in Users : members[p][u].role = "owner" => members[p][u].tbUser # None

\* Only the owner's row is made without a TB user, when the project is founded;
\* everybody else was let in by an owner who had one.
RowsLife ==
  /\ \A p \in Projects :
       /\ p \notin born => projects[p] = NoProject
       /\ Exists(p) => projects[p].slug # 0 /\ Founded(p)
  /\ \A p \in Projects, u \in Users :
       /\ ~Row(p, u) => members[p][u] = NoMember
       /\ Row(p, u) => Founded(p)
       /\ members[p][u].role = "owner" => Exists(p) /\ members[p][u].status = "active"
       /\ members[p][u].role = "member" => members[p][u].tbUser # None /\ OwnerReady(p)

TicketsLife ==
  \A k \in Tickets : tickets[k] # NoTicket =>
    /\ tickets[k].kind # "none"
    /\ tickets[k].project \in Projects /\ tickets[k].user \in Users
    /\ Founded(tickets[k].project)
    /\ tickets[k].kind = "invite" => OwnerReady(tickets[k].project)

Admissions == {"accept", "login", "approve"}

\* The places of each handler; provisioning gets to the later ones with what
\* the earlier ones made.
PcLife(j) ==
  /\ j.op = "idle" => j.pc = "idle"
  /\ j.op = "create" => j.pc \in {"flush", "tenant", "find", "save", "dash", "commit", "giveup"}
  /\ j.op = "retry" => j.pc \in {"tenant", "find", "save", "dash", "commit", "giveup"}
  /\ j.op = "delete" => j.pc \in {"drop", "erase"}
  /\ j.op = "remove" => j.pc \in {"dropuser", "erase"}
  /\ j.op \in Admissions => j.pc \in {"next", "find", "save", "commit"}
  /\ j.pc \in {"flush", "tenant"} => j.proj.tenant = None
  /\ Provisioning(j) /\ j.pc \in {"find", "save", "dash", "commit"} => j.proj.tenant # None
  /\ j.pc \in {"dash", "commit"} => j.tbUser # None

\* A project being created has no row yet and no second creator; from the
\* INSERT on its slug is its own.
CreateLife(t, j) ==
  /\ j.project \in born /\ projects[j.project] = NoProject
  /\ j.mem0 = NoMember /\ j.proj.slug # 0
  /\ \A x \in Threads \ {t} : jobs[x].op = "create" => jobs[x].project # j.project
  /\ j.pc # "flush" =>
       /\ \A p \in Projects : projects[p].slug # j.proj.slug
       /\ \A x \in Threads \ {t} :
            jobs[x].op = "create" /\ jobs[x].pc # "flush" => jobs[x].proj.slug # j.proj.slug

\* An admission works on tickets of its own user, all of them backed by an owner.
AdmitLife(j) ==
  /\ \A k \in j.todo \cup j.now \cup j.done :
       /\ tickets[k] # NoTicket /\ tickets[k].user = j.user
       /\ OwnerReady(tickets[k].project)
       /\ j.op # "approve" => tickets[k].kind = "invite"
  /\ IF j.pc = "next" THEN j.mem0 = NoMember
     ELSE j.now # {} /\ \A k \in j.now : tickets[k].project = j.project

\* The membership row in a handler's session, and what is left of it in the
\* table: the same role, unless the row was deleted and the handler knows.
HeldRow(j) ==
  /\ Founded(j.project)
  /\ j.op \in {"retry", "delete", "remove"} => j.mem0 # NoMember
  /\ j.op = "delete" => j.mem0.role = "owner"
  /\ j.op = "remove" => j.mem0.role = "member"
  /\ j.gone => j.mem0 # NoMember
  /\ j.mem0 # NoMember =>
       /\ j.mem0.role # "none"
       /\ j.mem0.role = "member" => j.mem0.tbUser # None /\ OwnerReady(j.project)
       /\ j.mem0.role = "owner" /\ j.gone => ~Exists(j.project)
       /\ ~j.gone => /\ members[j.project][j.user].role = j.mem0.role
                     /\ j.mem0.tbUser # None => members[j.project][j.user].tbUser # None

\* The project row in the session of a retry: only the tenant is ever added.
HeldProject(j) ==
  /\ j.proj0.slug = j.proj.slug
  /\ j.proj0.tenant \in {None, j.proj.tenant}
  /\ Exists(j.project) /\ j.proj0.tenant # None => projects[j.project].tenant # None

JobLife(t, j) ==
  /\ PcLife(j)
  /\ j.op = "idle" => j = Idle
  /\ j.op = "create" => CreateLife(t, j)
  /\ j.op \in Admissions => AdmitLife(j)
  /\ j.op # "create" /\ j.pc \notin {"idle", "next"} => HeldRow(j)
  /\ j.op = "retry" => HeldProject(j)

LifeInv ==
  /\ RowsLife /\ TicketsLife
  /\ ExactlyOneOwner /\ ProvisionedIsUsable /\ SlugsDistinct
  /\ \A t \in Threads : JobLife(t, jobs[t])

LEMMA LifeInit == Init => LifeInv
<1> SUFFICES ASSUME Init PROVE LifeInv
  OBVIOUS
<1>1. RowsLife /\ TicketsLife
  BY DEF Init, RowsLife, TicketsLife, Exists, Row, NoProject, NoMember
<1>2. ExactlyOneOwner /\ ProvisionedIsUsable /\ SlugsDistinct
  BY DEF Init, ExactlyOneOwner, ProvisionedIsUsable, SlugsDistinct, Exists, NoProject
<1>3. ASSUME NEW t \in Threads PROVE JobLife(t, jobs[t])
  BY <1>3 DEF Init, JobLife, PcLife, Idle, Provisioning, Admissions
<1> QED
  BY <1>1, <1>2, <1>3 DEF LifeInv

\* The places of a handler tell what it does.
LEMMA Places ==
  ASSUME NEW j, PcLife(j), j.op \in Ops
  PROVE  /\ j.pc = "idle" => j.op = "idle"
         /\ j.pc = "flush" => j.op = "create"
         /\ j.pc \in {"tenant", "dash", "giveup"} => Provisioning(j)
         /\ j.pc \in {"find", "save", "commit"} => Provisioning(j) \/ j.op \in Admissions
         /\ j.pc = "drop" => j.op = "delete"
         /\ j.pc = "dropuser" => j.op = "remove"
         /\ j.pc = "next" => j.op \in Admissions
         /\ j.pc = "erase" => j.op \in {"delete", "remove"}
  BY DEF PcLife, Ops, Provisioning, Admissions

-----------------------------------------------------------------------------
(* Steps that write no row.                                                *)

\* A handler that moves founds no project and takes no other one's slug: what
\* holds of the rows and of the other handlers stays.
LEMMA LifeMove ==
  ASSUME LifeInv, TypeOK, UNCHANGED <<born, db>>, NEW t \in Threads, NEW jj,
         Goto(t, jj), JobLife(t, jj),
         jj.op = "create" => jobs[t].op = "create" /\ jobs[t].project = jj.project
  PROVE  LifeInv'
<1>1. /\ jobs'[t] = jj
      /\ \A x \in Threads \ {t} : jobs'[x] = jobs[x]
  BY DEF Goto, TypeOK
<1>2. \A p : Founded(p) => Founded(p)'
  BY <1>1 DEF Founded
<1>3. \A p : /\ Exists(p)' <=> Exists(p)
             /\ OwnerReady(p)' <=> OwnerReady(p)
  BY DEF db, Exists, OwnerReady
<1>4. RowsLife' /\ TicketsLife'
  BY <1>2, <1>3 DEF LifeInv, RowsLife, TicketsLife, Row, db
<1>5. ExactlyOneOwner' /\ ProvisionedIsUsable' /\ SlugsDistinct'
  BY DEF LifeInv, ExactlyOneOwner, ProvisionedIsUsable, SlugsDistinct, Exists, db
<1>6. ASSUME NEW x \in Threads PROVE JobLife(x, jobs[x])'
  <2> DEFINE j == jobs'[x]
  <2>1. JobLife(x, j)
    BY <1>1 DEF LifeInv
  <2>2. PcLife(jobs[x])' /\ (j.op = "idle" => j = Idle)
    BY <2>1 DEF JobLife, PcLife, Provisioning
  <2>3. j.op \in Admissions => AdmitLife(jobs[x])'
    BY <2>1, <1>3 DEF JobLife, AdmitLife, db
  <2>4. j.op # "create" /\ j.pc \notin {"idle", "next"} => HeldRow(jobs[x])'
    BY <2>1, <1>2, <1>3 DEF JobLife, HeldRow, db
  <2>5. j.op = "retry" => HeldProject(jobs[x])'
    BY <2>1, <1>3 DEF JobLife, HeldProject, db
  <2>6. ASSUME j.op = "create" PROVE CreateLife(x, jobs[x])'
    <3>1. CreateLife(x, j)
      BY <2>1, <2>6 DEF JobLife
    <3>2. jj.op = "create" => CreateLife(t, jj)
      BY DEF JobLife
    <3>3. \A y \in Threads \ {x} : jobs'[y].op = "create" =>
            /\ jobs'[y].project # j.project
            /\ j.pc # "flush" /\ jobs'[y].pc # "flush" => jobs'[y].proj.slug # j.proj.slug
      BY <3>1, <3>2, <1>1, <2>6 DEF CreateLife
    <3> QED BY <3>1, <3>3 DEF CreateLife, db
  <2> QED BY <2>2, <2>3, <2>4, <2>5, <2>6 DEF JobLife
<1> QED
  BY <1>4, <1>5, <1>6 DEF LifeInv

\* A handler that keeps its request, its session and its tickets.
LEMMA LifeLocals ==
  ASSUME NEW t \in Threads, NEW j, NEW jj, JobLife(t, j), PcLife(jj),
         jj.op = j.op, jj.project = j.project, jj.user = j.user, jj.proj0 = j.proj0,
         jj.mem0 = j.mem0, jj.gone = j.gone, jj.now = j.now, jj.todo = j.todo, jj.done = j.done,
         jj.proj.slug = j.proj.slug,
         jj.proj.tenant = j.proj.tenant \/ j.proj.tenant = None,
         j.pc \notin {"idle", "next", "flush"}, jj.pc \notin {"idle", "next", "flush"},
         j.op # "idle"
  PROVE  JobLife(t, jj)
<1>1. j.op = "create" => CreateLife(t, jj)
  BY DEF JobLife, CreateLife
<1>2. j.op \in Admissions => AdmitLife(jj)
  BY DEF JobLife, AdmitLife
<1>3. j.op # "create" => HeldRow(jj)
  BY DEF JobLife, HeldRow
<1>4. j.op = "retry" => HeldProject(jj)
  BY DEF JobLife, HeldProject
<1> QED
  BY <1>1, <1>2, <1>3, <1>4 DEF JobLife

LEMMA IdleLife == \A t \in Threads : JobLife(t, Idle)
  BY DEF JobLife, PcLife, Idle, Provisioning, Admissions

\* The locals that BeginRetry, BeginDelete and BeginRemove start with.
LEMMA RequestLife ==
  ASSUME LifeInv, TypeOK, NEW t \in Threads, NEW p \in Projects, NEW u \in Users, Row(p, u),
         NEW op \in {"retry", "delete", "remove"}, NEW pc,
         pc = "erase" \/ pc = (IF op = "delete" THEN "drop" ELSE "dropuser") \/ op = "retry",
         op = "retry" => pc = IF projects[p].tenant = None THEN "tenant" ELSE "find",
         op = "delete" => members[p][u].role = "owner",
         op = "remove" => members[p][u].role = "member"
  PROVE  JobLife(t, Request(op, pc, p, u))
<1> DEFINE j == Request(op, pc, p, u)
<1>1. /\ j.op = op /\ j.pc = pc /\ j.project = p /\ j.user = u
      /\ j.proj0 = projects[p] /\ j.proj = projects[p] /\ j.mem0 = members[p][u]
      /\ j.gone = FALSE /\ j.tbUser = None
  BY DEF Request
<1> HIDE DEF j
<1>2. PcLife(j)
  BY <1>1 DEF PcLife, Provisioning, Admissions
<1>3. HeldRow(j)
  <2>1. members[p][u] # NoMember
    BY DEF Row, NoMember
  <2>2. Founded(p) /\ (members[p][u].role = "member" => members[p][u].tbUser # None /\ OwnerReady(p))
    BY DEF LifeInv, RowsLife
  <2> QED BY <1>1, <2>1, <2>2 DEF HeldRow, Row
<1>4. op = "retry" => HeldProject(j)
  BY <1>1 DEF HeldProject
<1> QED
  BY <1>1, <1>2, <1>3, <1>4 DEF JobLife, Admissions, j

\* The locals that BeginAccept, BeginLogin and BeginApprove start with.
LEMMA AdmissionLife ==
  ASSUME LifeInv, TypeOK, NEW t \in Threads, NEW u \in Users, NEW op \in Admissions,
         NEW K \in SUBSET Tickets,
         \A k \in K : /\ tickets[k] # NoTicket /\ tickets[k].user = u
                      /\ OwnerReady(tickets[k].project)
                      /\ op # "approve" => tickets[k].kind = "invite"
  PROVE  JobLife(t, Admission(op, u, K))
<1> DEFINE j == Admission(op, u, K)
<1>1. /\ j.op = op /\ j.pc = "next" /\ j.user = u /\ j.tbUser = None
      /\ j.todo = K /\ j.now = {} /\ j.done = {} /\ j.mem0 = NoMember
  BY DEF Admission, Idle
<1> HIDE DEF j
<1>2. PcLife(j) /\ AdmitLife(j)
  BY <1>1 DEF PcLife, AdmitLife, Provisioning, Admissions
<1> QED
  BY <1>1, <1>2 DEF JobLife, Admissions, j

\* A pending ticket of the right kind is backed by an owner.
LEMMA PendingLife ==
  ASSUME LifeInv, NEW p \in Projects, NEW u, NEW kind, NEW k \in Pending(kind, p, u)
  PROVE  /\ k \in Tickets /\ tickets[k] # NoTicket /\ tickets[k].user = u
         /\ tickets[k].project = p /\ tickets[k].kind = kind
         /\ kind = "invite" => OwnerReady(p)
<1>1. /\ k \in Tickets /\ tickets[k].kind = kind /\ tickets[k].status = "pending"
      /\ tickets[k].project = p /\ tickets[k].user = u
  BY DEF Pending
<1>2. tickets[k] # NoTicket
  BY <1>1 DEF NoTicket
<1> QED
  BY <1>1, <1>2 DEF LifeInv, TicketsLife

\* An owner who acts has a TB user.
LEMMA OwnerActing ==
  ASSUME LifeInv, NEW p \in Projects, OwnerActs(p)
  PROVE  Exists(p) /\ Founded(p) /\ OwnerReady(p) /\ projects[p].tenant # None
<1>1. projects[p].state = "provisioned"
  BY DEF OwnerActs, Entitled
<1> QED
  BY <1>1 DEF LifeInv, RowsLife, ProvisionedIsUsable, OwnerReady, Exists

LEMMA LifeArrive ==
  ASSUME LifeInv, TypeOK, NEW t \in Threads, Arrive(t)
  PROVE  LifeInv'
<1>1. ASSUME NEW p \in Projects, NEW u \in Users, BeginCreate(t, p, u)
      PROVE  LifeInv'
  <2>1. PICK n \in 1 .. MaxSlug :
          jobs' = [jobs EXCEPT ![t] = [Request("create", "flush", p, u) EXCEPT !.proj.slug = n]]
    BY <1>1 DEF BeginCreate, Begin
  <2> DEFINE jj == [Request("create", "flush", p, u) EXCEPT !.proj.slug = n]
  <2>2. Request("create", "flush", p, u) \in Job
    BY RequestType DEF Ops, Pcs
  <2>3. p \notin born /\ born' = born \cup {p} /\ jobs[t] = Idle /\ UNCHANGED db
    BY <1>1 DEF BeginCreate, Begin
  <2>4. projects[p] = NoProject /\ members[p][u] = NoMember
    BY <2>3 DEF LifeInv, RowsLife, Founded
  <2>5. /\ jj.op = "create" /\ jj.pc = "flush" /\ jj.project = p /\ jj.mem0 = NoMember
        /\ jj.proj.slug = n /\ n # 0 /\ jj.tbUser = None /\ jj.proj.tenant = None
    BY <2>2, <2>4 DEF Job, ProjectRow, Request, NoProject
  <2>6. jobs'[t] = jj /\ \A x \in Threads \ {t} : jobs'[x] = jobs[x]
    BY <2>1 DEF TypeOK
  <2> HIDE DEF jj
  <2>7. \A q : Founded(q) => Founded(q)'
    BY <2>3, <2>5, <2>6 DEF Founded
  <2>8. \A q : /\ Exists(q)' <=> Exists(q)
               /\ OwnerReady(q)' <=> OwnerReady(q)
    BY <2>3 DEF db, Exists, OwnerReady
  <2>9. RowsLife' /\ TicketsLife'
    BY <2>3, <2>7, <2>8 DEF LifeInv, RowsLife, TicketsLife, Row, db
  <2>10. ExactlyOneOwner' /\ ProvisionedIsUsable' /\ SlugsDistinct'
    BY <2>3 DEF LifeInv, ExactlyOneOwner, ProvisionedIsUsable, SlugsDistinct, Exists, db
  <2>11. \A x \in Threads : jobs[x].op = "create" => jobs[x].project # p
    BY <2>3 DEF LifeInv, JobLife, CreateLife
  <2>12. ASSUME NEW x \in Threads \ {t} PROVE JobLife(x, jobs[x])'
    <3> DEFINE j == jobs[x]
    <3>1. JobLife(x, j) /\ jobs'[x] = j
      BY <2>6 DEF LifeInv
    <3>2. PcLife(jobs[x])' /\ (j.op = "idle" => j = Idle)
      BY <3>1 DEF JobLife, PcLife, Provisioning
    <3>3. j.op \in Admissions => AdmitLife(jobs[x])'
      BY <3>1, <2>3, <2>8 DEF JobLife, AdmitLife, db
    <3>4. j.op # "create" /\ j.pc \notin {"idle", "next"} => HeldRow(jobs[x])'
      BY <3>1, <2>3, <2>7, <2>8 DEF JobLife, HeldRow, db
    <3>5. j.op = "retry" => HeldProject(jobs[x])'
      BY <3>1, <2>3, <2>8 DEF JobLife, HeldProject, db
    <3>6. j.op = "create" => CreateLife(x, jobs[x])'
      BY <3>1, <2>3, <2>5, <2>6, <2>11 DEF JobLife, CreateLife, db
    <3> QED BY <3>1, <3>2, <3>3, <3>4, <3>5, <3>6 DEF JobLife
  <2>13. JobLife(t, jobs[t])'
    <3>1. PcLife(jobs[t])'
      BY <2>5, <2>6 DEF PcLife, Provisioning, Admissions
    <3>2. CreateLife(t, jobs[t])'
      BY <2>3, <2>4, <2>5, <2>6, <2>11 DEF CreateLife, db
    <3> QED BY <2>5, <2>6, <3>1, <3>2 DEF JobLife, Admissions
  <2> QED BY <2>9, <2>10, <2>12, <2>13 DEF LifeInv
<1>2. ASSUME NEW j, Begin(t, j), JobLife(t, j), j.op # "create", UNCHANGED <<born, db>>
      PROVE  LifeInv'
  BY <1>2, LifeMove DEF Begin, Goto
<1>3. ASSUME NEW p \in Projects, NEW u \in Users, BeginRetry(t, p, u)
      PROVE  LifeInv'
  <2> DEFINE j == Request("retry", IF projects[p].tenant = None THEN "tenant" ELSE "find", p, u)
  <2>1. JobLife(t, j) /\ j.op # "create"
    BY <1>3, RequestLife DEF BeginRetry, Request
  <2> QED BY <1>3, <2>1, <1>2 DEF BeginRetry
<1>4. ASSUME NEW p \in Projects, NEW u \in Users, BeginDelete(t, p, u)
      PROVE  LifeInv'
  <2> DEFINE j == Request("delete", "drop", p, u)
  <2>1. JobLife(t, j) /\ j.op # "create"
    BY <1>4, RequestLife DEF BeginDelete, Entitled, Request
  <2> QED BY <1>4, <2>1, <1>2 DEF BeginDelete
<1>5. ASSUME NEW p \in Projects, NEW u \in Users, BeginRemove(t, p, u)
      PROVE  LifeInv'
  <2> DEFINE pc == IF members[p][u].tbUser = None THEN "erase" ELSE "dropuser"
  <2>1. Row(p, u) /\ (pc = "erase" \/ pc = "dropuser")
    BY <1>5 DEF BeginRemove, Row
  <2>2. Begin(t, Request("remove", pc, p, u)) /\ members[p][u].role = "member" /\ UNCHANGED <<born, db>>
    BY <1>5 DEF BeginRemove
  <2> HIDE DEF pc
  <2>3. JobLife(t, Request("remove", pc, p, u)) /\ Request("remove", pc, p, u).op # "create"
    BY <2>1, <2>2, RequestLife DEF Request
  <2> QED BY <2>2, <2>3, <1>2
<1>6. ASSUME NEW p \in Projects, NEW u \in Users, BeginApprove(t, p, u)
      PROVE  LifeInv'
  <2>1. PICK k \in Pending("request", p, u) : Begin(t, Admission("approve", u, {k}))
    BY <1>6 DEF BeginApprove
  <2>2. OwnerReady(p) /\ UNCHANGED <<born, db>>
    BY <1>6, OwnerActing DEF BeginApprove
  <2>3. JobLife(t, Admission("approve", u, {k}))
    BY <2>2, PendingLife, AdmissionLife DEF Admissions
  <2> QED BY <2>1, <2>2, <2>3, <1>2 DEF Admission, Idle
<1>7. ASSUME NEW u \in Users, BeginAccept(t, u)
      PROVE  LifeInv'
  <2>1. PICK p \in Projects : \E k \in Pending("invite", p, u) : Begin(t, Admission("accept", u, {k}))
    BY <1>7 DEF BeginAccept
  <2>2. PICK k \in Pending("invite", p, u) : Begin(t, Admission("accept", u, {k}))
    BY <2>1
  <2>3. JobLife(t, Admission("accept", u, {k}))
    BY PendingLife, AdmissionLife DEF Admissions
  <2> QED BY <1>7, <2>2, <2>3, <1>2 DEF Admission, Idle, BeginAccept
<1>8. ASSUME NEW u \in Users, BeginLogin(t, u)
      PROVE  LifeInv'
  <2> DEFINE mine == UNION {Pending("invite", p, u) : p \in Projects}
  <2>1. Begin(t, Admission("login", u, mine)) /\ UNCHANGED <<born, db>>
    BY <1>8 DEF BeginLogin
  <2>2. \A k \in mine : /\ k \in Tickets /\ tickets[k] # NoTicket /\ tickets[k].user = u
                        /\ tickets[k].kind = "invite" /\ OwnerReady(tickets[k].project)
    BY PendingLife
  <2> HIDE DEF mine
  <2>3. JobLife(t, Admission("login", u, mine))
    BY <2>2, AdmissionLife DEF Admissions
  <2> QED BY <2>1, <2>3, <1>2 DEF Admission, Idle
<1> QED
  BY <1>1, <1>3, <1>4, <1>5, <1>6, <1>7, <1>8 DEF Arrive

LEMMA LifeStays ==
  ASSUME LifeInv, TypeOK, UNCHANGED <<born, db, jobs>>, NEW t \in Threads
  PROVE  LifeInv'
<1>1. Goto(t, jobs[t]) /\ JobLife(t, jobs[t])
  BY DEF Goto, TypeOK, LifeInv
<1> QED
  BY <1>1, LifeMove

\* The steps that call the engine or load rows.
LEMMA LifeCalls ==
  ASSUME LifeInv, TypeInv, NEW t \in Threads,
         \/ FlushInsert(t) \/ SaveTenant(t) \/ FindUser(t) \/ SaveUser(t) \/ StarterDashboard(t)
         \/ TbFails(t) \/ DropTenant(t) \/ NextTicket(t) \/ DropUser(t)
  PROVE  LifeInv'
<1> DEFINE j == jobs[t]
<1>0. /\ TypeOK /\ j \in Job /\ j.op \in Ops /\ JobLife(t, j) /\ PcLife(j) /\ j.proj \in ProjectRow
      /\ None \notin Tenants /\ None \notin TbUsers
  BY ProjectsAssumption DEF LifeInv, JobLife, TypeInv, TypeOK, Job
<1>e. ASSUME End(t), UNCHANGED <<born, db>> PROVE LifeInv'
  BY <1>0, <1>e, IdleLife, LifeMove DEF End, Idle
<1>l. ASSUME NEW jj, Goto(t, jj), UNCHANGED <<born, db>>, PcLife(jj),
             jj.op = j.op, jj.project = j.project, jj.user = j.user, jj.proj0 = j.proj0,
             jj.mem0 = j.mem0, jj.gone = j.gone, jj.now = j.now, jj.todo = j.todo, jj.done = j.done,
             jj.proj.slug = j.proj.slug,
             jj.proj.tenant = j.proj.tenant \/ j.proj.tenant = None,
             j.pc \notin {"idle", "next", "flush"}, jj.pc \notin {"idle", "next", "flush"},
             j.op # "idle"
      PROVE  LifeInv'
  <2>1. JobLife(t, jj)
    BY <1>0, <1>l, LifeLocals
  <2> QED BY <1>0, <1>l, <2>1, LifeMove
<1>pc. ASSUME NEW pc \in Pcs \ {"idle", "next", "flush"}, Goto(t, [j EXCEPT !.pc = pc]),
              UNCHANGED <<born, db>>,
              PcLife([j EXCEPT !.pc = pc]), j.pc \notin {"idle", "next", "flush"}
       PROVE  LifeInv'
  <2> DEFINE jj == [j EXCEPT !.pc = pc]
  <2>1. /\ jj.op = j.op /\ jj.project = j.project /\ jj.user = j.user /\ jj.proj0 = j.proj0
        /\ jj.mem0 = j.mem0 /\ jj.gone = j.gone /\ jj.now = j.now /\ jj.todo = j.todo
        /\ jj.done = j.done /\ jj.proj = j.proj /\ jj.pc = pc
    BY <1>0 DEF Job
  <2>2. j.op # "idle"
    BY <1>0, <1>pc DEF PcLife
  <2> HIDE DEF jj
  <2>3. Goto(t, jj) /\ PcLife(jj)
    BY <1>pc DEF jj
  <2> QED BY <1>pc, <2>1, <2>2, <2>3, <1>l
<1>gu. ASSUME NEW b \in TbUsers, Goto(t, GotUser(j, b)), UNCHANGED <<born, db>>,
              j.pc \in {"find", "save"}
       PROVE  LifeInv'
  <2> DEFINE jj == GotUser(j, b)
  <2>1. /\ jj.op = j.op /\ jj.project = j.project /\ jj.user = j.user /\ jj.proj0 = j.proj0
        /\ jj.mem0 = j.mem0 /\ jj.gone = j.gone /\ jj.now = j.now /\ jj.todo = j.todo
        /\ jj.done = j.done /\ jj.proj = j.proj /\ jj.tbUser = b
        /\ jj.pc = IF Provisioning(j) THEN "dash" ELSE "commit"
    BY <1>0 DEF Job, GotUser
  <2>2. j.op # "idle" /\ (Provisioning(j) => j.proj.tenant # None)
        /\ (Provisioning(j) \/ j.op \in Admissions)
    BY <1>0, <1>gu DEF PcLife, Provisioning, Admissions, Ops
  <2>3. Goto(t, jj)
    BY <1>gu
  <2> HIDE DEF jj
  <2>4. PcLife(jj)
    BY <1>0, <2>1, <2>2 DEF PcLife, Provisioning, Admissions
  <2> QED BY <1>gu, <2>1, <2>2, <2>3, <2>4, <1>l
<1>1. CASE FlushInsert(t)
  <2> DEFINE jj == [j EXCEPT !.pc = "tenant"]
  <2>1. /\ jj.op = j.op /\ jj.project = j.project /\ jj.user = j.user /\ jj.mem0 = j.mem0
        /\ jj.proj = j.proj /\ jj.pc = "tenant"
    BY <1>0 DEF Job
  <2>2. j.op = "create" /\ j.pc = "flush" /\ UNCHANGED <<born, db>>
    BY <1>0, <1>1 DEF FlushInsert, At, PcLife, Ops, Admissions
  <2>3. CASE End(t)
    BY <2>2, <2>3, <1>e
  <2>4. CASE /\ Goto(t, jj)
             /\ \A p \in Projects : projects[p].slug # j.proj.slug
             /\ \A x \in Threads \ {t} :
                  jobs[x].op = "create" /\ jobs[x].pc # "flush" => jobs[x].proj.slug # j.proj.slug
    <3>1. CreateLife(t, j)
      BY <1>0, <2>2 DEF JobLife
    <3> HIDE DEF jj
    <3>2. CreateLife(t, jj) /\ PcLife(jj)
      BY <1>0, <2>1, <2>2, <2>4, <3>1 DEF CreateLife, PcLife, Provisioning, Admissions
    <3>3. JobLife(t, jj)
      BY <2>1, <2>2, <3>2 DEF JobLife, Admissions
    <3> QED BY <1>0, <2>1, <2>2, <2>4, <3>3, LifeMove
  <2> QED BY <1>1, <2>3, <2>4 DEF FlushInsert
<1>2. CASE SaveTenant(t)
  <2>1. PICK T \in Tenants :
          \/ Goto(t, [j EXCEPT !.proj.tenant = T, !.pc = "find"])
          \/ UNCHANGED jobs
    BY <1>2 DEF SaveTenant, AnswerLost, FreshTenants
  <2> DEFINE jj == [j EXCEPT !.proj.tenant = T, !.pc = "find"]
  <2>2. /\ jj.op = j.op /\ jj.project = j.project /\ jj.user = j.user /\ jj.proj0 = j.proj0
        /\ jj.mem0 = j.mem0 /\ jj.gone = j.gone /\ jj.now = j.now /\ jj.todo = j.todo
        /\ jj.done = j.done /\ jj.proj.slug = j.proj.slug /\ jj.proj.tenant = T /\ jj.pc = "find"
    BY <1>0 DEF Job, ProjectRow
  <2>3. j.pc = "tenant" /\ UNCHANGED <<born, db>> /\ j.op # "idle" /\ Provisioning(j)
    BY <1>0, <1>2 DEF SaveTenant, At, db, PcLife, Ops, Admissions, Provisioning
  <2>4. j.proj.tenant = None
    BY <1>0, <2>3 DEF PcLife
  <2> HIDE DEF jj
  <2>5. PcLife(jj)
    BY <1>0, <2>2, <2>3 DEF PcLife, Provisioning, Admissions
  <2> QED BY <1>0, <2>1, <2>2, <2>3, <2>4, <2>5, <1>l, LifeStays DEF jj
<1>3. CASE FindUser(t)
  <2>1. \/ Goto(t, [j EXCEPT !.pc = "save"])
        \/ \E b \in TbUsers : Goto(t, GotUser(j, b))
    BY <1>3 DEF FindUser
  <2>2. j.pc = "find" /\ UNCHANGED <<born, db>>
    BY <1>3 DEF FindUser, At
  <2>3. PcLife([j EXCEPT !.pc = "save"])
    BY <1>0, <2>2 DEF PcLife, Provisioning, Admissions, Job
  <2> QED BY <2>1, <2>2, <2>3, <1>pc, <1>gu DEF Pcs
<1>4. CASE SaveUser(t)
  <2>1. \/ \E b \in TbUsers : Goto(t, GotUser(j, b))
        \/ UNCHANGED jobs
    BY <1>4 DEF SaveUser, AnswerLost, FreshTbUsers
  <2>2. j.pc = "save" /\ UNCHANGED <<born, db>>
    BY <1>4 DEF SaveUser, At
  <2> QED BY <1>0, <2>1, <2>2, <1>gu, LifeStays
<1>5. CASE StarterDashboard(t)
  <2>1. j.pc = "dash" /\ UNCHANGED <<born, db>> /\ Goto(t, [j EXCEPT !.pc = "commit"])
    BY <1>5 DEF StarterDashboard, At
  <2>2. PcLife([j EXCEPT !.pc = "commit"])
    BY <1>0, <2>1 DEF PcLife, Provisioning, Admissions, Job, Ops
  <2> QED BY <2>1, <2>2, <1>pc DEF Pcs
<1>6. CASE TbFails(t)
  <2>1. j.pc \in {"tenant", "find", "save", "dash", "drop"} /\ UNCHANGED <<born, db>>
    BY <1>6 DEF TbFails
  <2>2. CASE End(t)
    BY <2>1, <2>2, <1>e
  <2>3. CASE Provisioning(j) /\ Goto(t, [j EXCEPT !.pc = "giveup"])
    <3>1. PcLife([j EXCEPT !.pc = "giveup"])
      BY <1>0, <2>1, <2>3 DEF PcLife, Provisioning, Admissions, Job, Ops
    <3> QED BY <2>1, <2>3, <3>1, <1>pc DEF Pcs
  <2> QED BY <1>6, <2>2, <2>3 DEF TbFails
<1>7. CASE DropTenant(t)
  <2>1. j.pc = "drop" /\ UNCHANGED <<born, db>>
        /\ (Goto(t, [j EXCEPT !.pc = "erase"]) \/ UNCHANGED jobs)
    BY <1>7 DEF DropTenant, At, AnswerLost
  <2>2. PcLife([j EXCEPT !.pc = "erase"])
    BY <1>0, <2>1 DEF PcLife, Provisioning, Admissions, Job, Ops
  <2> QED BY <1>0, <2>1, <2>2, <1>pc, LifeStays DEF Pcs
<1>8. CASE NextTicket(t)
  <2>1. PICK k \in j.todo :
          LET p == tickets[k].project
              rest == [j EXCEPT !.todo = @ \ {k}]
          IN \/ Goto(t, rest)
             \/ Goto(t, [rest EXCEPT !.pc = "find", !.now = {k}, !.project = p,
                            !.proj0 = projects[p], !.proj = projects[p],
                            !.mem0 = members[p][j.user], !.gone = FALSE])
    BY <1>8 DEF NextTicket
  <2> DEFINE p == tickets[k].project
             rest == [j EXCEPT !.todo = @ \ {k}]
             go == [rest EXCEPT !.pc = "find", !.now = {k}, !.project = p,
                      !.proj0 = projects[p], !.proj = projects[p],
                      !.mem0 = members[p][j.user], !.gone = FALSE]
  <2>2. /\ j.pc = "next" /\ UNCHANGED <<born, db>> /\ j.op \in Admissions
        /\ j.op \notin {"idle", "create", "retry", "delete", "remove"}
    BY <1>0, <1>8 DEF NextTicket, At, PcLife, Ops, Admissions
  <2>3. /\ k \in Tickets /\ tickets[k] # NoTicket /\ tickets[k].user = j.user
        /\ p \in Projects /\ j.user \in Users /\ Founded(p) /\ OwnerReady(p)
        /\ j.op # "approve" => tickets[k].kind = "invite"
    <3>1. AdmitLife(j)
      BY <1>0, <2>2 DEF JobLife
    <3> QED BY <1>0, <2>1, <3>1 DEF AdmitLife, TypeInv, TodoScoped, Job, LifeInv, TicketsLife
  <2>4. /\ rest.op = j.op /\ rest.pc = "next" /\ rest.user = j.user /\ rest.todo \subseteq j.todo
        /\ rest.now = j.now /\ rest.done = j.done /\ rest.proj = j.proj /\ rest.tbUser = j.tbUser
        /\ rest.mem0 = j.mem0
        /\ rest \in Job
    BY <1>0, <2>2 DEF Job
  <2>5. JobLife(t, rest)
    <3> HIDE DEF rest
    <3> QED BY <1>0, <2>2, <2>4 DEF JobLife, PcLife, AdmitLife, Provisioning
  <2>6. /\ go.op = j.op /\ go.pc = "find" /\ go.user = j.user /\ go.project = p
        /\ go.todo \subseteq j.todo /\ go.now = {k} /\ go.done = j.done
        /\ go.mem0 = members[p][j.user] /\ go.gone = FALSE
    <3> HIDE DEF rest
    <3> QED BY <2>4 DEF Job
  <2>7. JobLife(t, go)
    <3> HIDE DEF go
    <3>1. PcLife(go)
      BY <2>2, <2>6 DEF PcLife, Provisioning
    <3>2. AdmitLife(go)
      BY <1>0, <2>2, <2>3, <2>6 DEF JobLife, AdmitLife
    <3>3. HeldRow(go)
      BY <2>2, <2>3, <2>6 DEF HeldRow, LifeInv, RowsLife, Row, NoMember
    <3> QED BY <2>2, <2>6, <3>1, <3>2, <3>3 DEF JobLife
  <2> HIDE DEF rest, go
  <2>8. Goto(t, rest) \/ Goto(t, go)
    BY <2>1 DEF rest, go
  <2> QED BY <1>0, <2>2, <2>4, <2>5, <2>6, <2>7, <2>8, LifeMove
<1>9. CASE DropUser(t)
  <2>1. j.pc = "dropuser" /\ UNCHANGED <<born, db>> /\ Goto(t, [j EXCEPT !.pc = "erase"])
    BY <1>9 DEF DropUser, At
  <2>2. PcLife([j EXCEPT !.pc = "erase"])
    BY <1>0, <2>1 DEF PcLife, Provisioning, Admissions, Job, Ops
  <2> QED BY <2>1, <2>2, <1>pc DEF Pcs
<1> QED
  BY <1>1, <1>2, <1>3, <1>4, <1>5, <1>6, <1>7, <1>8, <1>9

-----------------------------------------------------------------------------
(* Steps that write rows.                                                  *)

\* What no step takes back: a project founded, an owner with a TB user, an
\* erased project, a recorded tenant, and what a ticket is for.
Kept ==
  /\ \A p \in Projects : Founded(p) =>
       /\ Founded(p)'
       /\ OwnerReady(p) => OwnerReady(p)'
       /\ ~Exists(p) => ~Exists(p)'
       /\ Exists(p)' /\ projects[p].tenant # None => projects'[p].tenant # None
  /\ \A k \in Tickets : tickets[k] # NoTicket =>
       /\ tickets'[k] # NoTicket /\ tickets'[k].kind = tickets[k].kind
       /\ tickets'[k].project = tickets[k].project /\ tickets'[k].user = tickets[k].user

RowKept(p, u) ==
  /\ members'[p][u].role = members[p][u].role
  /\ members[p][u].tbUser # None => members'[p][u].tbUser # None

\* A handler in progress beside the step: its row is kept, or it learns that
\* the row is gone.
Beside(x) ==
  \/ /\ jobs'[x] = jobs[x]
     /\ \/ jobs[x].pc \in {"idle", "next"} \/ jobs[x].op = "create"
        \/ jobs[x].mem0 = NoMember \/ jobs[x].gone
        \/ RowKept(jobs[x].project, jobs[x].user)
  \/ /\ jobs[x].op # "create" /\ jobs[x].mem0 # NoMember
     /\ jobs'[x] = [jobs[x] EXCEPT !.gone = TRUE]
     /\ jobs[x].mem0.role = "owner" => ~Exists(jobs[x].project)'

LEMMA BesideLife ==
  ASSUME LifeInv, IsoInv, Kept, NEW x \in Threads, Beside(x), jobs[x].op # "create"
  PROVE  JobLife(x, jobs[x])'
<1> DEFINE j == jobs[x]
           jj == jobs'[x]
<1>0. j \in Job /\ JobLife(x, j) /\ JobIso(j)
  BY DEF LifeInv, IsoInv, TypeInv, TypeOK
<1>1. /\ jj.op = j.op /\ jj.pc = j.pc /\ jj.project = j.project /\ jj.user = j.user
      /\ jj.proj0 = j.proj0 /\ jj.proj = j.proj /\ jj.mem0 = j.mem0 /\ jj.tbUser = j.tbUser
      /\ jj.now = j.now /\ jj.todo = j.todo /\ jj.done = j.done
  BY <1>0 DEF Beside, Job
<1>2. j.pc \notin {"idle", "next"} => j.project \in Projects /\ j.user \in Users
  BY <1>0 DEF JobIso
<1>3. PcLife(jobs[x])'
  BY <1>0, <1>1 DEF JobLife, PcLife, Provisioning
<1>4. j.op = "idle" => jj = Idle
  <2>1. j.op = "idle" => j = Idle /\ Idle.mem0 = NoMember
    BY <1>0 DEF JobLife, Idle
  <2> QED BY <2>1 DEF Beside
<1>5. j.op \in Admissions => AdmitLife(jobs[x])'
  <2>1. j.todo \cup j.now \cup j.done \subseteq Tickets
    BY <1>0 DEF Job
  <2>2. \A k \in Tickets : tickets[k] # NoTicket =>
          tickets[k].project \in Projects /\ Founded(tickets[k].project)
    BY DEF LifeInv, TicketsLife
  <2>3. ASSUME j.op \in Admissions PROVE AdmitLife(jobs[x])'
    <3>1. AdmitLife(j)
      BY <1>0, <2>3 DEF JobLife
    <3>2. ASSUME NEW k \in jj.todo \cup jj.now \cup jj.done
          PROVE  /\ tickets'[k] # NoTicket /\ tickets'[k].user = jj.user
                 /\ OwnerReady(tickets[k].project)'
                 /\ jj.op # "approve" => tickets'[k].kind = "invite"
      BY <1>1, <2>1, <2>2, <3>1 DEF AdmitLife, Kept
    <3>3. IF jj.pc = "next" THEN jj.mem0 = NoMember
          ELSE jj.now # {} /\ \A k \in jj.now : tickets'[k].project = jj.project
      BY <1>1, <2>1, <3>1 DEF AdmitLife, Kept
    <3> QED BY <3>2, <3>3 DEF AdmitLife
  <2> QED BY <2>3
<1>6. j.pc \notin {"idle", "next"} => HeldRow(jobs[x])'
  <2> SUFFICES ASSUME j.pc \notin {"idle", "next"} PROVE HeldRow(jobs[x])'
    OBVIOUS
  <2>1. HeldRow(j) /\ j.project \in Projects
    BY <1>0, <1>2 DEF JobLife
  <2>2. \A p \in {j.project} : /\ Founded(p)' /\ (OwnerReady(p) => OwnerReady(p)')
                             /\ (~Exists(p) => ~Exists(p)')
    BY <2>1 DEF HeldRow, Kept
  <2>3. jj = j \/ (j.mem0 # NoMember /\ jj.gone)
    BY <1>0 DEF Beside, Job
  <2>4. CASE jj = j
    <3>1. j.mem0 = NoMember \/ j.gone \/ RowKept(j.project, j.user)
      BY <1>0, <2>4 DEF Beside, Job
    <3> QED BY <2>1, <2>2, <2>4, <3>1 DEF HeldRow, RowKept
  <2>5. CASE jj # j
    <3>1. jj.gone /\ j.mem0 # NoMember /\ (j.mem0.role = "owner" => ~Exists(j.project)')
      BY <2>3, <2>5 DEF Beside
    <3> QED BY <1>1, <2>1, <2>2, <3>1 DEF HeldRow
  <2> QED BY <2>4, <2>5
<1>7. j.op = "retry" => HeldProject(jobs[x])'
  <2> SUFFICES ASSUME j.op = "retry" PROVE HeldProject(jobs[x])'
    OBVIOUS
  <2>1. j.pc \notin {"idle", "next"}
    BY <1>0 DEF JobLife, PcLife
  <2>2. Founded(j.project) /\ HeldProject(j) /\ j.project \in Projects
    BY <1>0, <1>2, <2>1 DEF JobLife, HeldRow
  <2> QED BY <1>1, <2>2 DEF HeldProject, Kept
<1> QED
  BY <1>1, <1>3, <1>4, <1>5, <1>6, <1>7 DEF JobLife

\* Every step that writes rows, but the commit of a new project.
LEMMA LifeWrite ==
  ASSUME LifeInv, IsoInv, Kept, UNCHANGED born,
         \A x \in Threads : jobs'[x].op = "create" => jobs'[x] = jobs[x],
         \A p \in Projects : /\ projects'[p].slug \in {0, projects[p].slug}
                             /\ ~Founded(p) => projects'[p] = projects[p],
         \A x \in Threads : Beside(x) \/ JobLife(x, jobs[x])',
         RowsLife', TicketsLife', ExactlyOneOwner', ProvisionedIsUsable'
  PROVE  LifeInv'
<1>1. ASSUME NEW x \in Threads, jobs'[x].op = "create" PROVE JobLife(x, jobs[x])'
  <2> DEFINE j == jobs[x]
  <2>1. jobs'[x] = j /\ j.op = "create" /\ JobLife(x, j)
    BY <1>1 DEF LifeInv
  <2>2. j.project \in Projects /\ ~Founded(j.project)
    BY <2>1 DEF IsoInv, JobIso, JobLife, PcLife, Founded
  <2>3. PcLife(jobs[x])'
    BY <2>1 DEF JobLife, PcLife, Provisioning
  <2>4. CreateLife(x, jobs[x])'
    BY <2>1, <2>2 DEF JobLife, CreateLife
  <2> QED BY <2>1, <2>3, <2>4 DEF JobLife, Admissions
<1>2. ASSUME NEW x \in Threads PROVE JobLife(x, jobs[x])'
  <2>1. CASE jobs'[x].op = "create"
    BY <1>1, <2>1
  <2>2. CASE jobs'[x].op # "create" /\ Beside(x)
    <3>1. jobs[x].op # "create"
      BY <2>2 DEF Beside
    <3> QED BY <2>2, <3>1, BesideLife
  <2> QED BY <2>1, <2>2
<1>3. SlugsDistinct'
  <2> SUFFICES ASSUME NEW p \in Projects, NEW q \in Projects, Exists(p)', Exists(q)',
                      projects'[p].slug = projects'[q].slug
               PROVE  p = q
    BY DEF SlugsDistinct
  <2>1. \A r \in {p, q} : Exists(r) /\ projects'[r].slug = projects[r].slug
    BY DEF RowsLife, Kept, Exists
  <2> QED BY <2>1 DEF LifeInv, SlugsDistinct
<1> QED
  BY <1>2, <1>3 DEF LifeInv

\* The commit of a new project: its row and its owner's appear together.
LEMMA LifeCommitCreate ==
  ASSUME LifeInv, IsoInv, NEW t \in Threads, CommitCreate(t)
  PROVE  LifeInv'
<1> DEFINE j == jobs[t]
           owner == [role |-> "owner", status |-> "active",
                     tbUser |-> IF j.pc = "commit" THEN j.tbUser ELSE None]
<1>0. /\ j \in Job /\ JobLife(t, j) /\ JobIso(j) /\ j.op = "create"
      /\ j.pc \in {"commit", "giveup"} /\ UNCHANGED <<born, tickets>>
      /\ jobs'[t] = Idle /\ \A x \in Threads \ {t} : jobs'[x] = jobs[x]
  BY DEF LifeInv, IsoInv, TypeInv, TypeOK, CommitCreate, End, Goto
<1>1. CreateLife(t, j) /\ PcLife(j)
  BY <1>0 DEF JobLife
<1> SUFFICES ASSUME NEW p, NEW u, p = j.project, u = j.user PROVE LifeInv'
  OBVIOUS
<1>2. p \in Projects /\ u \in Users /\ p \in born /\ projects[p] = NoProject /\ ~Founded(p)
  BY <1>0, <1>1 DEF JobIso, CreateLife, Founded
<1>3. \A v \in Users : members[p][v] = NoMember
  BY <1>2 DEF LifeInv, RowsLife
<1>4. /\ projects'[p].slug = j.proj.slug /\ projects'[p].tenant = j.proj.tenant
      /\ projects'[p].state = IF j.pc = "commit" THEN "provisioned" ELSE "failed"
      /\ \A q \in Projects \ {p} : projects'[q] = projects[q]
  BY <1>0, <1>2 DEF CommitCreate, Outcome, IsoInv, TypeInv, TypeOK, Job, ProjectRow
<1>5. /\ members'[p][u] = owner
      /\ \A v \in Users \ {u} : members'[p][v] = members[p][v]
      /\ \A q \in Projects \ {p} : members'[q] = members[q]
  BY <1>0, <1>2 DEF CommitCreate, IsoInv, TypeInv, TypeOK
<1>6. owner.role = "owner" /\ owner.status = "active" /\ (j.pc = "commit" => owner.tbUser # None)
  BY <1>1 DEF PcLife
<1> HIDE DEF owner
<1>7. \A q \in Projects : Founded(q) => q # p /\ Founded(q)'
  BY <1>0, <1>2, IdleType DEF Founded, Idle
<1>8. Founded(p)'
  BY <1>0, <1>1, <1>2 DEF Founded, CreateLife, Idle
<1>9. Kept
  BY <1>0, <1>4, <1>5, <1>7 DEF Kept, OwnerReady, Exists
<1>10. Exists(p)' /\ \A q \in Projects \ {p} : Exists(q)' <=> Exists(q)
  BY <1>4 DEF Exists
<1>11. RowsLife'
  <2>1. ASSUME NEW q \in Projects
        PROVE  /\ q \notin born' => projects'[q] = NoProject
               /\ Exists(q)' => projects'[q].slug # 0 /\ Founded(q)'
    BY <1>0, <1>1, <1>2, <1>4, <1>7, <1>8, <1>10 DEF LifeInv, RowsLife, CreateLife
  <2>2. ASSUME NEW q \in Projects \ {p}, NEW v \in Users
        PROVE  /\ ~Row(q, v)' => members'[q][v] = NoMember
               /\ Row(q, v)' => Founded(q)'
               /\ members'[q][v].role = "owner" => Exists(q)' /\ members'[q][v].status = "active"
               /\ members'[q][v].role = "member" => members'[q][v].tbUser # None /\ OwnerReady(q)'
    BY <1>5, <1>7, <1>10 DEF LifeInv, RowsLife, Row, OwnerReady
  <2>3. ASSUME NEW v \in Users
        PROVE  /\ ~Row(p, v)' => members'[p][v] = NoMember
               /\ members'[p][v].role = "owner" => members'[p][v].status = "active"
               /\ members'[p][v].role # "member"
    BY <1>3, <1>5, <1>6 DEF Row, NoMember
  <2> QED BY <2>1, <2>2, <2>3, <1>2, <1>8, <1>10 DEF RowsLife
<1>12. TicketsLife'
  <2>1. ASSUME NEW k \in Tickets, tickets[k] # NoTicket
        PROVE  LET q == tickets[k].project IN
               /\ tickets[k].kind # "none" /\ q \in Projects /\ tickets[k].user \in Users
               /\ Founded(q) /\ (tickets[k].kind = "invite" => OwnerReady(q))
    BY <2>1 DEF LifeInv, TicketsLife
  <2>2. \A q \in Projects : Founded(q) => Founded(q)' /\ (OwnerReady(q) => OwnerReady(q)')
    BY <1>9 DEF Kept
  <2> QED BY <1>0, <2>1, <2>2 DEF TicketsLife
<1>13. ExactlyOneOwner'
  <2>1. \A q \in Projects \ {p} : Exists(q)' =>
          \E o \in Users :
            /\ members'[q][o].role = "owner" /\ members'[q][o].status = "active"
            /\ \A v \in Users \ {o} : members'[q][v].role # "owner"
    BY <1>5, <1>10 DEF LifeInv, ExactlyOneOwner
  <2>2. \A v \in Users \ {u} : members'[p][v].role # "owner"
    BY <1>3, <1>5 DEF NoMember
  <2> QED BY <2>1, <2>2, <1>2, <1>5, <1>6 DEF ExactlyOneOwner
<1>14. ProvisionedIsUsable'
  <2>1. \A q \in Projects \ {p} : projects'[q].state = "provisioned" =>
          /\ projects'[q].tenant # None
          /\ \A v \in Users : members'[q][v].role = "owner" => members'[q][v].tbUser # None
    BY <1>4, <1>5 DEF LifeInv, ProvisionedIsUsable
  <2>2. projects'[p].state = "provisioned" =>
          /\ projects'[p].tenant # None
          /\ \A v \in Users : members'[p][v].role = "owner" => members'[p][v].tbUser # None
    BY <1>0, <1>1, <1>3, <1>4, <1>5, <1>6 DEF PcLife, Provisioning, NoMember
  <2> QED BY <2>1, <2>2 DEF ProvisionedIsUsable
<1>15. SlugsDistinct'
  <2>1. \A q \in Projects \ {p} : projects'[q].slug # projects'[p].slug
    BY <1>0, <1>1, <1>4 DEF CreateLife
  <2> QED BY <2>1, <1>4, <1>10 DEF LifeInv, SlugsDistinct
<1>16. ASSUME NEW x \in Threads PROVE JobLife(x, jobs[x])'
  <2>1. CASE x = t
    <3>1. jobs'[x] = Idle
      BY <1>0, <2>1
    <3> QED BY <3>1 DEF JobLife, PcLife, Idle, Provisioning, Admissions
  <2>2. CASE x # t /\ jobs[x].op # "create"
    <3>1. jobs[x].pc \in {"idle", "next"} \/
            (jobs[x].project \in Projects /\ jobs[x].project # p)
      BY <1>2, <2>2 DEF LifeInv, JobLife, HeldRow, IsoInv, JobIso
    <3>2. Beside(x)
      BY <1>0, <1>5, <2>2, <3>1 DEF Beside, RowKept
    <3> QED BY <1>9, <2>2, <3>2, BesideLife
  <2>3. CASE x # t /\ jobs[x].op = "create"
    <3> DEFINE i == jobs[x]
    <3>1. jobs'[x] = i /\ JobLife(x, i) /\ CreateLife(x, i) /\ i.project # p /\ i.project \in Projects
      BY <1>0, <1>1, <2>3 DEF LifeInv, JobLife, CreateLife, IsoInv, JobIso, PcLife
    <3>2. PcLife(jobs[x])'
      BY <3>1 DEF JobLife, PcLife, Provisioning
    <3>3. i.pc # "flush" => i.proj.slug # j.proj.slug
      BY <1>0, <1>1, <2>3 DEF CreateLife
    <3>4. i.pc # "flush" => \A q \in Projects : projects'[q].slug # i.proj.slug
      BY <1>4, <3>1, <3>3 DEF CreateLife
    <3>5. \A y \in Threads : jobs'[y].op = "create" => jobs'[y] = jobs[y]
      BY <1>0 DEF Idle
    <3>6. CreateLife(x, jobs[x])'
      BY <1>0, <1>4, <3>1, <3>4, <3>5 DEF CreateLife
    <3> QED BY <2>3, <3>1, <3>2, <3>6 DEF JobLife, Admissions
  <2> QED BY <2>1, <2>2, <2>3
<1> QED
  BY <1>11, <1>12, <1>13, <1>14, <1>15, <1>16 DEF LifeInv

\* The steps that leave every project and every membership in place.
RowsStay ==
  /\ UNCHANGED born
  /\ \A x \in Threads : jobs'[x].op = "create" => jobs'[x] = jobs[x]
  /\ \A p \in Projects :
       /\ Exists(p)' <=> Exists(p)
       /\ ~Exists(p) => projects'[p] = projects[p]
       /\ projects'[p].slug = projects[p].slug
       /\ projects[p].tenant # None => projects'[p].tenant # None
  /\ \A p \in Projects, u \in Users :
       /\ Row(p, u) => RowKept(p, u)
       /\ ~Row(p, u) => \/ members'[p][u] = members[p][u]
                        \/ /\ members'[p][u].role = "member" /\ members'[p][u].tbUser # None
                           /\ Founded(p) /\ OwnerReady(p)
       /\ members[p][u].role = "owner" => members'[p][u].status = members[p][u].status

TicketsStay ==
  \A k \in Tickets :
    /\ tickets[k] = NoTicket => tickets'[k] = NoTicket
    /\ tickets[k] # NoTicket =>
         /\ tickets'[k] # NoTicket /\ tickets'[k].kind = tickets[k].kind
         /\ tickets'[k].project = tickets[k].project /\ tickets'[k].user = tickets[k].user

LEMMA FoundedStays ==
  ASSUME UNCHANGED born, \A x \in Threads : jobs'[x].op = "create" => jobs'[x] = jobs[x],
         NEW p, Founded(p)
  PROVE  Founded(p)'
  BY DEF Founded

LEMMA TicketsKept ==
  ASSUME LifeInv, Kept, TicketsStay
  PROVE  TicketsLife'
<1>1. ASSUME NEW k \in Tickets, tickets[k] # NoTicket
      PROVE  LET q == tickets[k].project IN
             /\ tickets[k].kind # "none" /\ q \in Projects /\ tickets[k].user \in Users
             /\ Founded(q) /\ (tickets[k].kind = "invite" => OwnerReady(q))
  BY <1>1 DEF LifeInv, TicketsLife
<1>2. \A q \in Projects : Founded(q) => Founded(q)' /\ (OwnerReady(q) => OwnerReady(q)')
  BY DEF Kept
<1> QED
  BY <1>1, <1>2 DEF TicketsLife, TicketsStay

LEMMA RowsStayLife ==
  ASSUME LifeInv, IsoInv, RowsStay,
         \A k \in Tickets : tickets[k] # NoTicket =>
           /\ tickets'[k] # NoTicket /\ tickets'[k].kind = tickets[k].kind
           /\ tickets'[k].project = tickets[k].project /\ tickets'[k].user = tickets[k].user
  PROVE  Kept /\ RowsLife' /\ ExactlyOneOwner'
<1>1. \A p \in Projects : /\ Founded(p) => Founded(p)'
                          /\ OwnerReady(p) => OwnerReady(p)'
  <2>1. \A p \in Projects : OwnerReady(p) => OwnerReady(p)'
    BY DEF RowsStay, RowKept, OwnerReady, Row
  <2> QED BY <2>1, FoundedStays DEF RowsStay
<1>2. Kept
  BY <1>1 DEF Kept, RowsStay
<1>3. ASSUME NEW p \in Projects
      PROVE  /\ p \notin born' => projects'[p] = NoProject
             /\ Exists(p)' => projects'[p].slug # 0 /\ Founded(p)'
  <2>1. /\ p \notin born => projects[p] = NoProject
        /\ Exists(p) => projects[p].slug # 0 /\ Founded(p)
    BY DEF LifeInv, RowsLife
  <2>2. p \notin born => ~Exists(p)
    BY <2>1 DEF Exists, NoProject
  <2> QED BY <2>1, <2>2, <1>1 DEF RowsStay
<1>4. ASSUME NEW p \in Projects, NEW u \in Users
      PROVE  /\ ~Row(p, u)' => members'[p][u] = NoMember
             /\ Row(p, u)' => Founded(p)'
             /\ members'[p][u].role = "owner" => Exists(p)' /\ members'[p][u].status = "active"
             /\ members'[p][u].role = "member" => members'[p][u].tbUser # None /\ OwnerReady(p)'
  <2>1. /\ ~Row(p, u) => members[p][u] = NoMember
        /\ Row(p, u) => Founded(p)
        /\ members[p][u].role = "owner" => Exists(p) /\ members[p][u].status = "active"
        /\ members[p][u].role = "member" => members[p][u].tbUser # None /\ OwnerReady(p)
    BY DEF LifeInv, RowsLife
  <2> QED BY <2>1, <1>1 DEF RowsStay, RowKept, Row
<1>5. RowsLife'
  BY <1>3, <1>4 DEF RowsLife
<1>6. ExactlyOneOwner'
  <2> SUFFICES ASSUME NEW p \in Projects, Exists(p)'
               PROVE  \E o \in Users :
                        /\ members'[p][o].role = "owner" /\ members'[p][o].status = "active"
                        /\ \A u \in Users \ {o} : members'[p][u].role # "owner"
    BY DEF ExactlyOneOwner
  <2>1. PICK o \in Users : /\ members[p][o].role = "owner" /\ members[p][o].status = "active"
                           /\ \A u \in Users \ {o} : members[p][u].role # "owner"
    BY DEF LifeInv, ExactlyOneOwner, RowsStay
  <2>2. members'[p][o].role = "owner" /\ members'[p][o].status = "active"
    BY <2>1 DEF RowsStay, RowKept, Row
  <2>3. \A u \in Users \ {o} : members'[p][u].role # "owner"
    BY <2>1 DEF RowsStay, RowKept, Row
  <2> QED BY <2>2, <2>3
<1> QED
  BY <1>2, <1>5, <1>6

LEMMA BesideRows ==
  ASSUME LifeInv, IsoInv, NEW x \in Threads, jobs'[x] = jobs[x],
         \A p \in Projects, u \in Users : Row(p, u) => RowKept(p, u)
  PROVE  Beside(x)
<1>1. CASE jobs[x].pc \in {"idle", "next"} \/ jobs[x].op = "create" \/ jobs[x].mem0 = NoMember \/ jobs[x].gone
  BY <1>1 DEF Beside
<1>2. CASE /\ jobs[x].pc \notin {"idle", "next"} /\ jobs[x].op # "create"
           /\ jobs[x].mem0 # NoMember /\ ~jobs[x].gone
  <2>1. jobs[x].project \in Projects /\ jobs[x].user \in Users
    BY <1>2 DEF IsoInv, JobIso
  <2>2. Row(jobs[x].project, jobs[x].user)
    BY <1>2 DEF LifeInv, JobLife, HeldRow, Row
  <2> QED BY <2>1, <2>2 DEF Beside
<1> QED
  BY <1>1, <1>2

LEMMA LifeCommitRetry ==
  ASSUME LifeInv, IsoInv, NEW t \in Threads, CommitRetry(t)
  PROVE  LifeInv'
<1> DEFINE j == jobs[t]
           mem == IF j.pc = "commit" THEN [j.mem0 EXCEPT !.tbUser = j.tbUser] ELSE j.mem0
<1>0. /\ j \in Job /\ JobLife(t, j) /\ JobIso(j) /\ j.op = "retry"
      /\ j.pc \in {"commit", "giveup"} /\ UNCHANGED <<born, tickets>>
      /\ jobs'[t] = Idle /\ \A x \in Threads \ {t} : jobs'[x] = jobs[x]
  BY DEF LifeInv, IsoInv, TypeInv, TypeOK, CommitRetry, End, Goto
<1>1. PcLife(j) /\ HeldRow(j) /\ HeldProject(j)
  BY <1>0 DEF JobLife
<1> SUFFICES ASSUME NEW p, NEW u, p = j.project, u = j.user PROVE LifeInv'
  OBVIOUS
<1>2. /\ p \in Projects /\ u \in Users /\ Founded(p)
      /\ projects[p] \in ProjectRow /\ members[p][u] \in MemberRow
      /\ j.proj \in ProjectRow /\ j.proj0 \in ProjectRow /\ j.mem0 \in MemberRow
  BY <1>0, <1>1 DEF JobIso, HeldRow, IsoInv, TypeInv, TypeOK, Job
<1>3. /\ mem.role = j.mem0.role /\ mem.status = j.mem0.status
      /\ mem.tbUser = j.mem0.tbUser \/ (mem.tbUser = j.tbUser /\ j.tbUser # None)
      /\ j.pc = "commit" => mem.tbUser = j.tbUser /\ j.tbUser # None
  BY <1>1, <1>2 DEF MemberRow, PcLife
<1>4. /\ \/ UNCHANGED projects
         \/ /\ Exists(p)
            /\ projects' = [projects EXCEPT ![p] = NetProject(p, j.proj0, Outcome(j))]
      /\ \/ UNCHANGED members
         \/ /\ ~j.gone
            /\ members' = [members EXCEPT ![p][u] = NetMember(p, u, j.mem0, mem)]
      /\ \/ UNCHANGED projects
         \/ j.gone
         \/ members' = [members EXCEPT ![p][u] = NetMember(p, u, j.mem0, mem)]
  BY <1>0 DEF CommitRetry
<1> HIDE DEF mem
<1>5. /\ j.mem0 # NoMember /\ j.mem0.role # "none"
      /\ j.mem0.role = "owner" /\ j.gone => ~Exists(p)
      /\ j.mem0.role = "member" => OwnerReady(p)
      /\ ~j.gone => /\ members[p][u].role = j.mem0.role
                    /\ j.mem0.tbUser # None => members[p][u].tbUser # None
  BY <1>0, <1>1 DEF HeldRow
<1>6. ASSUME ~j.gone, members' = [members EXCEPT ![p][u] = NetMember(p, u, j.mem0, mem)]
      PROVE  /\ members'[p][u].role = members[p][u].role
             /\ members'[p][u].status = members[p][u].status
             /\ members[p][u].tbUser # None => members'[p][u].tbUser # None
             /\ j.pc = "commit" => members'[p][u].tbUser # None
             /\ \A q \in Projects, v \in Users : ~(q = p /\ v = u) => members'[q][v] = members[q][v]
  <2>1. members'[p][u] = NetMember(p, u, j.mem0, mem)
    BY <1>2, <1>6 DEF IsoInv, TypeInv, TypeOK
  <2>2. \A q \in Projects, v \in Users : ~(q = p /\ v = u) => members'[q][v] = members[q][v]
    BY <1>2, <1>6 DEF IsoInv, TypeInv, TypeOK
  <2>3. /\ members'[p][u].role = Column(members[p][u].role, j.mem0.role, mem.role)
        /\ members'[p][u].status = Column(members[p][u].status, j.mem0.status, mem.status)
        /\ members'[p][u].tbUser = Column(members[p][u].tbUser, j.mem0.tbUser, mem.tbUser)
    BY <2>1 DEF NetMember
  <2>4. /\ members'[p][u].role = members[p][u].role
        /\ members'[p][u].status = members[p][u].status
    BY <2>3, <1>3 DEF Column
  <2>5. /\ members[p][u].tbUser # None => members'[p][u].tbUser # None
        /\ j.pc = "commit" => members'[p][u].tbUser # None
    BY <2>3, <1>3, <1>5, <1>6 DEF Column
  <2> QED BY <2>2, <2>4, <2>5
<1>7. \A q \in Projects, v \in Users :
        /\ RowKept(q, v) /\ members'[q][v].status = members[q][v].status
        /\ ~Row(q, v) => members'[q][v] = members[q][v]
  <2>1. CASE UNCHANGED members
    BY <2>1 DEF RowKept
  <2>2. CASE ~j.gone /\ members' = [members EXCEPT ![p][u] = NetMember(p, u, j.mem0, mem)]
    BY <2>2, <1>5, <1>6 DEF RowKept, Row
  <2> QED BY <2>1, <2>2, <1>4
<1>8. /\ \A q \in Projects \ {p} : projects'[q] = projects[q]
      /\ ~Exists(p) => projects'[p] = projects[p]
      /\ Exists(p) => projects'[p].state # "none"
      /\ projects'[p].slug = projects[p].slug
      /\ projects[p].tenant # None => projects'[p].tenant # None
      /\ projects'[p].state = "provisioned" =>
           \/ projects[p].state = "provisioned"
           \/ /\ j.pc = "commit" /\ Exists(p) /\ projects'[p].tenant # None
              /\ projects' = [projects EXCEPT ![p] = NetProject(p, j.proj0, Outcome(j))]
  <2>1. CASE UNCHANGED projects
    BY <2>1 DEF Exists
  <2>2. CASE /\ Exists(p)
             /\ projects' = [projects EXCEPT ![p] = NetProject(p, j.proj0, Outcome(j))]
    <3>1. /\ projects'[p] = NetProject(p, j.proj0, Outcome(j))
          /\ \A q \in Projects \ {p} : projects'[q] = projects[q]
      BY <2>2, <1>2 DEF IsoInv, TypeInv, TypeOK
    <3>2. /\ Outcome(j).slug = j.proj.slug /\ Outcome(j).tenant = j.proj.tenant
          /\ Outcome(j).state = IF j.pc = "commit" THEN "provisioned" ELSE "failed"
      BY <1>2 DEF Outcome, ProjectRow
    <3>3. /\ j.proj0.slug = j.proj.slug /\ j.proj0.tenant \in {None, j.proj.tenant}
          /\ j.proj0.tenant # None => projects[p].tenant # None
          /\ j.pc = "commit" => j.proj.tenant # None
      BY <1>0, <1>1, <2>2 DEF HeldProject, PcLife, Provisioning
    <3> QED BY <2>2, <3>1, <3>2, <3>3, <1>0 DEF NetProject, Column, Exists
  <2> QED BY <2>1, <2>2, <1>4
<1>9. \A q \in Projects : Exists(q)' <=> Exists(q)
  BY <1>8 DEF Exists
<1>10. RowsStay
  BY <1>0, <1>2, <1>7, <1>8, <1>9, IdleType DEF RowsStay, Idle
<1>11. Kept /\ RowsLife' /\ ExactlyOneOwner' /\ TicketsLife'
  BY <1>0, <1>10, RowsStayLife, TicketsKept DEF TicketsStay
<1>12. ProvisionedIsUsable'
  <2>1. ASSUME NEW q \in Projects, projects[q].state = "provisioned", projects'[q].state = "provisioned"
        PROVE  /\ projects'[q].tenant # None
               /\ \A v \in Users : members'[q][v].role = "owner" => members'[q][v].tbUser # None
    BY <2>1, <1>7, <1>8 DEF LifeInv, ProvisionedIsUsable, RowKept
  <2>2. ASSUME j.pc = "commit", Exists(p),
               projects' = [projects EXCEPT ![p] = NetProject(p, j.proj0, Outcome(j))],
               projects[p].state # "provisioned", projects'[p].state = "provisioned"
        PROVE  \A v \in Users : members'[p][v].role = "owner" => members'[p][v].tbUser # None
    <3>1. projects' # projects
      BY <2>2
    <3>2. CASE j.mem0.role = "member"
      BY <3>2, <1>2, <1>5, <1>7 DEF RowKept, OwnerReady
    <3>3. CASE j.mem0.role = "owner"
      <4>1. ~j.gone /\ members[p][u].role = "owner"
        BY <2>2, <3>3, <1>5
      <4>2. members' = [members EXCEPT ![p][u] = NetMember(p, u, j.mem0, mem)]
        BY <3>1, <4>1, <1>4
      <4>3. \A v \in Users \ {u} : members[p][v].role # "owner"
        BY <4>1, <1>2, <2>2 DEF LifeInv, ExactlyOneOwner
      <4> QED BY <4>1, <4>2, <4>3, <2>2, <1>6
    <3> QED BY <3>2, <3>3, <1>2, <1>5 DEF MemberRow
  <2> QED BY <2>1, <2>2, <1>2, <1>8 DEF ProvisionedIsUsable
<1>13. ASSUME NEW x \in Threads PROVE Beside(x) \/ JobLife(x, jobs[x])'
  <2>1. CASE x = t
    <3>1. jobs'[x] = Idle
      BY <1>0, <2>1
    <3> QED BY <3>1 DEF JobLife, PcLife, Idle, Provisioning, Admissions
  <2>2. CASE x # t
    BY <2>2, <1>0, <1>7, BesideRows
  <2> QED BY <2>1, <2>2
<1> QED
  BY <1>0, <1>2, <1>8, <1>10, <1>11, <1>12, <1>13, LifeWrite DEF RowsStay

\* Resolving the tickets of an admission changes their status only.
LEMMA ResolvedStay ==
  ASSUME LifeInv, TypeOK, NEW K, \A k \in K : tickets[k] # NoTicket, tickets' = Resolved(K)
  PROVE  TicketsStay
<1>1. ASSUME NEW k \in Tickets
      PROVE  /\ tickets'[k].kind = tickets[k].kind /\ tickets'[k].project = tickets[k].project
             /\ tickets'[k].user = tickets[k].user
             /\ k \notin K => tickets'[k] = tickets[k]
  BY DEF TypeOK, TicketRow, Resolved
<1>2. \A k \in Tickets : tickets[k] # NoTicket => tickets[k].kind # "none"
  BY DEF LifeInv, TicketsLife
<1> QED
  BY <1>1, <1>2 DEF TicketsStay, NoTicket

LEMMA LifeCommitAdd ==
  ASSUME LifeInv, IsoInv, NEW t \in Threads, CommitAdd(t)
  PROVE  LifeInv'
<1> DEFINE j == jobs[t]
           mem == [role |-> IF j.mem0 = NoMember THEN "member" ELSE j.mem0.role,
                   status |-> "active", tbUser |-> j.tbUser]
           jj == [j EXCEPT !.pc = "next", !.done = j.now, !.now = {},
                    !.project = None, !.proj0 = NoProject, !.proj = NoProject,
                    !.mem0 = NoMember, !.gone = FALSE, !.tbUser = None]
<1>0. /\ TypeOK /\ j \in Job /\ JobLife(t, j) /\ JobIso(j) /\ j.op \in Admissions /\ j.pc = "commit"
      /\ UNCHANGED <<born, projects>>
  BY DEF LifeInv, IsoInv, TypeInv, TypeOK, CommitAdd, At, Admissions
<1>1. PcLife(j) /\ AdmitLife(j) /\ HeldRow(j)
  BY <1>0 DEF JobLife, Admissions
<1> SUFFICES ASSUME NEW p, NEW u, p = j.project, u = j.user PROVE LifeInv'
  OBVIOUS
<1>2. /\ p \in Projects /\ u \in Users /\ Founded(p) /\ OwnerReady(p) /\ j.tbUser # None
      /\ members[p][u] \in MemberRow /\ j.mem0 \in MemberRow
  BY <1>0, <1>1 DEF JobIso, HeldRow, AdmitLife, PcLife, TypeOK, Job
<1>3. CASE End(t) /\ UNCHANGED <<members, tickets>>
  BY <1>0, <1>3, IdleLife, LifeMove DEF End, Idle, db
<1>4. CASE /\ \/ j.gone /\ UNCHANGED members
              \/ /\ ~j.gone /\ (j.mem0 = NoMember => ~Row(p, u))
                 /\ members' = [members EXCEPT ![p][u] = NetMember(p, u, j.mem0, mem)]
           /\ tickets' = Resolved(j.done) /\ Goto(t, jj)
  <2>1. jobs'[t] = jj /\ \A x \in Threads \ {t} : jobs'[x] = jobs[x]
    BY <1>0, <1>4 DEF Goto, TypeOK
  <2>2. /\ jj.op = j.op /\ jj.pc = "next" /\ jj.user = j.user /\ jj.done = j.now
        /\ jj.now = {} /\ jj.todo = j.todo /\ jj.mem0 = NoMember
    BY <1>0 DEF Job
  <2> HIDE DEF jj
  <2>3. TicketsStay
    BY <1>0, <1>1, <1>4, ResolvedStay DEF AdmitLife
  <2>4. ASSUME ~j.gone, members' = [members EXCEPT ![p][u] = NetMember(p, u, j.mem0, mem)],
               j.mem0 = NoMember => ~Row(p, u)
        PROVE  /\ Row(p, u) => /\ RowKept(p, u)
                               /\ members[p][u].role = "owner" =>
                                    members'[p][u].status = members[p][u].status
               /\ ~Row(p, u) => members'[p][u].role = "member" /\ members'[p][u].tbUser # None
               /\ \A q \in Projects, v \in Users : ~(q = p /\ v = u) => members'[q][v] = members[q][v]
    <3>1. /\ members'[p][u] = NetMember(p, u, j.mem0, mem)
          /\ \A q \in Projects, v \in Users : ~(q = p /\ v = u) => members'[q][v] = members[q][v]
      BY <1>0, <1>2, <2>4 DEF TypeOK
    <3>2. /\ members'[p][u].role = Column(members[p][u].role, j.mem0.role, mem.role)
          /\ members'[p][u].status = Column(members[p][u].status, j.mem0.status, "active")
          /\ members'[p][u].tbUser = Column(members[p][u].tbUser, j.mem0.tbUser, j.tbUser)
      BY <3>1 DEF NetMember
    <3>3. CASE j.mem0 = NoMember
      <4>1. members[p][u] = NoMember /\ mem.role = "member"
        BY <2>4, <3>3, <1>2 DEF LifeInv, RowsLife
      <4> QED BY <2>4, <3>1, <3>2, <3>3, <4>1, <1>2 DEF Column, NoMember, Row
    <3>4. CASE j.mem0 # NoMember
      <4>1. /\ mem.role = j.mem0.role /\ Row(p, u) /\ members[p][u].role = j.mem0.role
            /\ members[p][u].role = "owner" => members[p][u].status = "active"
            /\ j.mem0.tbUser # None => members[p][u].tbUser # None
        BY <1>1, <1>2, <2>4, <3>4 DEF HeldRow, Row, LifeInv, RowsLife
      <4> QED BY <3>1, <3>2, <4>1, <1>2 DEF Column, RowKept
    <3> QED BY <3>3, <3>4
  <2>5. RowsStay
    <3>1. \A q \in Projects, v \in Users :
            /\ Row(q, v) => RowKept(q, v)
            /\ ~Row(q, v) => \/ members'[q][v] = members[q][v]
                             \/ /\ members'[q][v].role = "member" /\ members'[q][v].tbUser # None
                                /\ Founded(q) /\ OwnerReady(q)
            /\ members[q][v].role = "owner" => members'[q][v].status = members[q][v].status
      BY <1>2, <1>4, <2>4 DEF RowKept, Row
    <3>2. \A x \in Threads : jobs'[x].op = "create" => jobs'[x] = jobs[x]
      BY <1>0, <2>1, <2>2 DEF Admissions
    <3> QED BY <1>0, <3>1, <3>2 DEF RowsStay, Exists
  <2>6. Kept /\ RowsLife' /\ ExactlyOneOwner' /\ TicketsLife'
    BY <2>3, <2>5, RowsStayLife, TicketsKept DEF TicketsStay
  <2>7. ProvisionedIsUsable'
    BY <1>0, <2>5 DEF LifeInv, ProvisionedIsUsable, RowsStay, RowKept, Row
  <2>8. JobLife(t, jobs[t])'
    <3>1. AdmitLife(jobs[t])'
      <4>1. \A k \in j.todo \cup j.now :
              /\ k \in Tickets /\ tickets[k] # NoTicket /\ tickets[k].user = j.user
              /\ tickets[k].project \in Projects
              /\ Founded(tickets[k].project) /\ OwnerReady(tickets[k].project)
              /\ j.op # "approve" => tickets[k].kind = "invite"
        BY <1>0, <1>1 DEF AdmitLife, Job, LifeInv, TicketsLife
      <4>2. \A q \in Projects : Founded(q) /\ OwnerReady(q) => OwnerReady(q)'
        BY <2>6 DEF Kept
      <4> QED BY <2>1, <2>2, <2>3, <4>1, <4>2 DEF AdmitLife, TicketsStay
    <3>2. PcLife(jobs[t])'
      BY <1>0, <2>1, <2>2 DEF PcLife, Provisioning, Admissions
    <3> QED BY <3>1, <3>2, <1>0, <2>1, <2>2 DEF JobLife, Admissions
  <2>9. \A x \in Threads : Beside(x) \/ JobLife(x, jobs[x])'
    BY <2>1, <2>5, <2>8, BesideRows DEF RowsStay
  <2> QED BY <1>0, <2>5, <2>6, <2>7, <2>9, LifeWrite DEF RowsStay
<1> QED
  BY <1>0, <1>3, <1>4 DEF CommitAdd

LEMMA LifeErase ==
  ASSUME LifeInv, IsoInv, NEW t \in Threads, EraseProject(t)
  PROVE  LifeInv'
<1> DEFINE j == jobs[t]
<1>0. /\ TypeOK /\ j \in Job /\ JobLife(t, j) /\ JobIso(j) /\ j.op = "delete" /\ j.pc = "erase"
      /\ UNCHANGED <<born, tickets>>
  BY DEF LifeInv, IsoInv, TypeInv, TypeOK, EraseProject, At
<1> SUFFICES ASSUME NEW p, p = j.project PROVE LifeInv'
  OBVIOUS
<1>1. p \in Projects /\ Founded(p)
  BY <1>0 DEF JobIso, JobLife, HeldRow
<1>2. /\ projects'[p] = NoProject /\ \A q \in Projects \ {p} : projects'[q] = projects[q]
      /\ \A u \in Users : members'[p][u] = NoMember
      /\ \A q \in Projects \ {p} : members'[q] = members[q]
      /\ jobs'[t] = Idle
      /\ \A x \in Threads \ {t} :
           jobs'[x] = IF jobs[x].project = p /\ jobs[x].mem0 # NoMember
                      THEN [jobs[x] EXCEPT !.gone = TRUE] ELSE jobs[x]
  BY <1>0, <1>1 DEF EraseProject, EndDeleting, TypeOK
<1>3. ~Exists(p)' /\ \A q \in Projects \ {p} : Exists(q)' <=> Exists(q)
  BY <1>2 DEF Exists, NoProject
<1>4. \A x \in Threads : jobs[x].op = "create" => jobs[x].project # p
  BY <1>1 DEF Founded
<1>5. \A x \in Threads : jobs'[x].op = "create" => jobs'[x] = jobs[x]
  <2>1. \A x \in Threads : [jobs[x] EXCEPT !.gone = TRUE].op = jobs[x].op
    BY <1>0 DEF TypeOK, Job
  <2>2. Idle.op # "create"
    BY DEF Idle
  <2>3. ASSUME NEW x \in Threads \ {t}, jobs'[x].op = "create" PROVE jobs'[x] = jobs[x]
    <3>1. \/ jobs'[x] = jobs[x]
          \/ jobs[x].project = p /\ jobs'[x] = [jobs[x] EXCEPT !.gone = TRUE]
      BY <1>2
    <3>2. jobs'[x] = [jobs[x] EXCEPT !.gone = TRUE] => jobs[x].op = "create"
      BY <2>1, <2>3
    <3> QED BY <1>4, <3>1, <3>2
  <2> QED BY <1>2, <2>2, <2>3
<1>6. \A q \in Projects : /\ Founded(q) => Founded(q)'
                          /\ OwnerReady(q) => OwnerReady(q)'
  <2>1. \A q \in Projects : OwnerReady(q) => OwnerReady(q)'
    BY <1>2 DEF OwnerReady, NoMember
  <2> QED BY <2>1, <1>0, <1>5, FoundedStays
<1>7. Kept
  BY <1>0, <1>2, <1>3, <1>6 DEF Kept
<1>8. RowsLife'
  <2>1. ASSUME NEW q \in Projects
        PROVE  /\ q \notin born' => projects'[q] = NoProject
               /\ Exists(q)' => projects'[q].slug # 0 /\ Founded(q)'
    BY <1>0, <1>2, <1>3, <1>6 DEF LifeInv, RowsLife
  <2>2. ASSUME NEW q \in Projects, NEW v \in Users
        PROVE  /\ ~Row(q, v)' => members'[q][v] = NoMember
               /\ Row(q, v)' => Founded(q)'
               /\ members'[q][v].role = "owner" => Exists(q)' /\ members'[q][v].status = "active"
               /\ members'[q][v].role = "member" => members'[q][v].tbUser # None /\ OwnerReady(q)'
    <3>1. CASE q = p
      BY <3>1, <1>2 DEF Row, NoMember
    <3>2. CASE q # p
      BY <3>2, <1>2, <1>3, <1>6 DEF LifeInv, RowsLife, Row
    <3> QED BY <3>1, <3>2
  <2> QED BY <2>1, <2>2 DEF RowsLife
<1>9. ExactlyOneOwner' /\ ProvisionedIsUsable'
  <2>1. ExactlyOneOwner'
    BY <1>2, <1>3 DEF LifeInv, ExactlyOneOwner
  <2>2. projects'[p].state # "provisioned"
    BY <1>2 DEF NoProject
  <2>3. ProvisionedIsUsable'
    BY <1>2, <2>2 DEF LifeInv, ProvisionedIsUsable
  <2> QED BY <2>1, <2>3
<1>10. TicketsLife'
  BY <1>0, <1>7, TicketsKept DEF TicketsStay
<1>11. ASSUME NEW x \in Threads PROVE Beside(x) \/ JobLife(x, jobs[x])'
  <2>1. CASE x = t
    <3>1. jobs'[x] = Idle
      BY <1>2, <2>1
    <3> QED BY <3>1 DEF JobLife, PcLife, Idle, Provisioning, Admissions
  <2>2. CASE x # t /\ jobs[x].project = p /\ jobs[x].mem0 # NoMember
    <3>1. jobs'[x] = [jobs[x] EXCEPT !.gone = TRUE] /\ jobs[x].op # "create"
      BY <2>2, <1>2, <1>4
    <3>2. jobs'[x].project = p
      BY <3>1, <2>2, <1>0 DEF TypeOK, Job
    <3> QED BY <2>2, <3>1, <3>2, <1>3 DEF Beside
  <2>3. CASE x # t /\ jobs[x].project = p /\ jobs[x].mem0 = NoMember
    BY <2>3, <1>2 DEF Beside
  <2>4. CASE x # t /\ jobs[x].project # p
    <3>1. jobs[x].pc \in {"idle", "next"} \/ jobs[x].project \in Projects
      BY DEF IsoInv, JobIso
    <3> QED BY <2>4, <3>1, <1>2 DEF Beside, RowKept
  <2> QED BY <2>1, <2>2, <2>3, <2>4
<1>12. \A q \in Projects : /\ projects'[q].slug \in {0, projects[q].slug}
                           /\ ~Founded(q) => projects'[q] = projects[q]
  BY <1>1, <1>2 DEF NoProject
<1> QED
  BY <1>0, <1>5, <1>7, <1>8, <1>9, <1>10, <1>11, <1>12, LifeWrite

LEMMA LifeEraseMember ==
  ASSUME LifeInv, IsoInv, NEW t \in Threads, EraseMember(t)
  PROVE  LifeInv'
<1> DEFINE j == jobs[t]
<1>0. /\ TypeOK /\ j \in Job /\ JobLife(t, j) /\ JobIso(j) /\ j.op = "remove" /\ j.pc = "erase"
      /\ UNCHANGED <<born, projects, tickets>>
  BY DEF LifeInv, IsoInv, TypeInv, TypeOK, EraseMember, At
<1>1. CASE j.gone
  <2>1. End(t) /\ UNCHANGED <<born, db>>
    BY <1>0, <1>1 DEF EraseMember, db
  <2> QED BY <1>0, <2>1, IdleLife, LifeMove DEF End, Idle
<1>2. CASE ~j.gone
  <2> SUFFICES ASSUME NEW p, NEW u, p = j.project, u = j.user PROVE LifeInv'
    OBVIOUS
  <2>1. p \in Projects /\ u \in Users /\ Founded(p) /\ members[p][u].role = "member"
    BY <1>0, <1>2 DEF JobIso, JobLife, HeldRow
  <2>2. /\ members'[p][u] = NoMember
        /\ \A q \in Projects, v \in Users : ~(q = p /\ v = u) => members'[q][v] = members[q][v]
        /\ jobs'[t] = Idle
        /\ \A x \in Threads \ {t} :
             jobs'[x] = IF jobs[x].project = p /\ jobs[x].user = u /\ jobs[x].mem0 # NoMember
                        THEN [jobs[x] EXCEPT !.gone = TRUE] ELSE jobs[x]
    BY <1>0, <1>2, <2>1 DEF EraseMember, EndDeleting, TypeOK
  <2>3. \A x \in Threads : jobs'[x].op = "create" => jobs'[x] = jobs[x]
    <3>1. \A x \in Threads : [jobs[x] EXCEPT !.gone = TRUE].op = jobs[x].op
      BY <1>0 DEF TypeOK, Job
    <3>2. \A x \in Threads : jobs[x].op = "create" => jobs[x].project # p
      BY <2>1 DEF Founded
    <3>3. Idle.op # "create"
      BY DEF Idle
    <3>4. ASSUME NEW x \in Threads \ {t}, jobs'[x].op = "create" PROVE jobs'[x] = jobs[x]
      <4>1. \/ jobs'[x] = jobs[x]
            \/ jobs[x].project = p /\ jobs'[x] = [jobs[x] EXCEPT !.gone = TRUE]
        BY <2>2
      <4>2. jobs'[x] = [jobs[x] EXCEPT !.gone = TRUE] => jobs[x].op = "create"
        BY <3>1, <3>4
      <4> QED BY <3>2, <4>1, <4>2
    <3> QED BY <2>2, <3>3, <3>4
  <2>4. \A q \in Projects : /\ Founded(q) => Founded(q)'
                            /\ OwnerReady(q) => OwnerReady(q)'
                            /\ Exists(q)' <=> Exists(q)
    <3>1. \A q \in Projects : OwnerReady(q) => OwnerReady(q)'
      BY <2>2 DEF OwnerReady, NoMember
    <3> QED BY <3>1, <1>0, <2>3, FoundedStays DEF Exists
  <2>5. Kept
    BY <1>0, <2>4 DEF Kept
  <2>6. RowsLife'
    <3>1. ASSUME NEW q \in Projects, NEW v \in Users
          PROVE  /\ ~Row(q, v)' => members'[q][v] = NoMember
                 /\ Row(q, v)' => Founded(q)'
                 /\ members'[q][v].role = "owner" => Exists(q)' /\ members'[q][v].status = "active"
                 /\ members'[q][v].role = "member" => members'[q][v].tbUser # None /\ OwnerReady(q)'
      <4>1. CASE q = p /\ v = u
        BY <4>1, <2>2 DEF Row, NoMember
      <4>2. CASE ~(q = p /\ v = u)
        BY <4>2, <2>2, <2>4 DEF LifeInv, RowsLife, Row
      <4> QED BY <4>1, <4>2
    <3>2. ASSUME NEW q \in Projects
          PROVE  /\ q \notin born' => projects'[q] = NoProject
                 /\ Exists(q)' => projects'[q].slug # 0 /\ Founded(q)'
      BY <1>0, <2>4 DEF LifeInv, RowsLife
    <3> QED BY <3>1, <3>2 DEF RowsLife
  <2>7. ExactlyOneOwner'
    <3> SUFFICES ASSUME NEW q \in Projects, Exists(q)'
                 PROVE  \E o \in Users :
                          /\ members'[q][o].role = "owner" /\ members'[q][o].status = "active"
                          /\ \A v \in Users \ {o} : members'[q][v].role # "owner"
      BY DEF ExactlyOneOwner
    <3>1. PICK o \in Users : /\ members[q][o].role = "owner" /\ members[q][o].status = "active"
                             /\ \A v \in Users \ {o} : members[q][v].role # "owner"
      BY <2>4 DEF LifeInv, ExactlyOneOwner
    <3>2. members'[q][o] = members[q][o]
      BY <3>1, <2>1, <2>2
    <3>3. \A v \in Users \ {o} : members'[q][v].role # "owner"
      BY <3>1, <2>2 DEF NoMember
    <3> QED BY <3>1, <3>2, <3>3
  <2>8. ProvisionedIsUsable'
    <3>1. \A q \in Projects, v \in Users : members'[q][v].role = "owner" => members'[q][v] = members[q][v]
      BY <2>2 DEF NoMember
    <3> QED BY <3>1, <1>0 DEF LifeInv, ProvisionedIsUsable
  <2>9. TicketsLife'
    BY <1>0, <2>5, TicketsKept DEF TicketsStay
  <2>10. ASSUME NEW x \in Threads PROVE Beside(x) \/ JobLife(x, jobs[x])'
    <3>1. CASE x = t
      <4>1. jobs'[x] = Idle
        BY <2>2, <3>1
      <4> QED BY <4>1 DEF JobLife, PcLife, Idle, Provisioning, Admissions
    <3>2. CASE x # t /\ jobs[x].project = p /\ jobs[x].user = u /\ jobs[x].mem0 # NoMember
      <4>1. jobs'[x] = [jobs[x] EXCEPT !.gone = TRUE] /\ jobs[x].op # "create"
        BY <3>2, <2>1, <2>2 DEF Founded
      <4>2. jobs[x].pc \notin {"idle", "next"}
        <5>1. PcLife(jobs[x]) /\ jobs[x].op \in Ops
          BY DEF LifeInv, JobLife, IsoInv, TypeInv, TypeOK, Job
        <5>2. jobs[x].op = "idle" => jobs[x].mem0 = NoMember
          BY DEF LifeInv, JobLife, Idle
        <5>3. jobs[x].op \in Admissions /\ jobs[x].pc = "next" => jobs[x].mem0 = NoMember
          BY DEF LifeInv, JobLife, AdmitLife
        <5> QED BY <3>2, <5>1, <5>2, <5>3, Places
      <4>3. HeldRow(jobs[x])
        BY <4>1, <4>2 DEF LifeInv, JobLife
      <4>4. jobs[x].mem0.role = "owner" => ~Exists(p)
        BY <3>2, <4>3, <2>1 DEF HeldRow
      <4>5. jobs'[x].project = p /\ jobs'[x].mem0 = jobs[x].mem0
        BY <4>1, <3>2, <1>0 DEF TypeOK, Job
      <4>6. jobs[x].mem0.role = "owner" => ~Exists(jobs[x].project)'
        BY <4>4, <4>5, <2>1, <2>4
      <4> QED BY <3>2, <4>1, <4>6 DEF Beside
    <3>3. CASE x # t /\ ~(jobs[x].project = p /\ jobs[x].user = u /\ jobs[x].mem0 # NoMember)
      <4>1. jobs[x].pc \in {"idle", "next"} \/ (jobs[x].project \in Projects /\ jobs[x].user \in Users)
        BY DEF IsoInv, JobIso
      <4> QED BY <3>3, <4>1, <2>2 DEF Beside, RowKept
    <3> QED BY <3>1, <3>2, <3>3
  <2> QED BY <1>0, <2>3, <2>5, <2>6, <2>7, <2>8, <2>9, <2>10, LifeWrite
<1> QED
  BY <1>1, <1>2

LEMMA LifeEndAdmission ==
  ASSUME LifeInv, IsoInv, NEW t \in Threads, EndAdmission(t)
  PROVE  LifeInv'
<1> DEFINE j == jobs[t]
<1>0. /\ TypeOK /\ j \in Job /\ JobLife(t, j) /\ j.pc = "next"
      /\ UNCHANGED <<born, projects, members>> /\ tickets' = Resolved(j.done)
      /\ jobs'[t] = Idle /\ \A x \in Threads \ {t} : jobs'[x] = jobs[x]
  BY DEF LifeInv, IsoInv, TypeInv, TypeOK, EndAdmission, At, End, Goto
<1>1. AdmitLife(j)
  <2>1. j.op \in Admissions
    BY <1>0, Places DEF JobLife, Job
  <2> QED BY <1>0, <2>1 DEF JobLife
<1>2. TicketsStay
  BY <1>0, <1>1, ResolvedStay DEF AdmitLife
<1>3. RowsStay
  BY <1>0, IdleType DEF RowsStay, RowKept, Exists, Idle
<1>4. Kept /\ RowsLife' /\ ExactlyOneOwner' /\ TicketsLife'
  BY <1>2, <1>3, RowsStayLife, TicketsKept DEF TicketsStay
<1>5. ProvisionedIsUsable'
  BY <1>0 DEF LifeInv, ProvisionedIsUsable
<1>6. ASSUME NEW x \in Threads PROVE Beside(x) \/ JobLife(x, jobs[x])'
  <2>1. CASE x = t
    <3>1. jobs'[x] = Idle
      BY <1>0, <2>1
    <3> QED BY <3>1 DEF JobLife, PcLife, Idle, Provisioning, Admissions
  <2>2. CASE x # t
    BY <2>2, <1>0, BesideRows DEF RowKept
  <2> QED BY <2>1, <2>2
<1> QED
  BY <1>0, <1>3, <1>4, <1>5, <1>6, LifeWrite DEF RowsStay

\* The owner's switches, the invite form, and the request to join.
LEMMA LifeManage ==
  ASSUME LifeInv, IsoInv, Manage
  PROVE  LifeInv'
<1>0. TypeOK
  BY DEF IsoInv, TypeInv
<1>k. ASSUME UNCHANGED <<born, projects, jobs>>, RowsStay, Kept, RowsLife', ExactlyOneOwner',
             TicketsLife', ProvisionedIsUsable',
             \A p \in Projects, u \in Users : Row(p, u) => RowKept(p, u)
      PROVE  LifeInv'
  <2>1. \A x \in Threads : Beside(x)
    BY <1>k, BesideRows
  <2> QED BY <1>k, <2>1, LifeWrite
<1>1. ASSUME NEW p \in Projects, NEW u \in Users, NEW s, SetMemberStatus(p, u, s)
      PROVE  LifeInv'
  <2>1. /\ members[p][u].role = "member" /\ UNCHANGED <<born, projects, tickets, jobs>>
        /\ members' = [members EXCEPT ![p][u].status = s] /\ members[p][u] \in MemberRow
    BY <1>0, <1>1 DEF SetMemberStatus, TypeOK
  <2>2. /\ members'[p][u].role = "member" /\ members'[p][u].tbUser = members[p][u].tbUser
        /\ \A q \in Projects, v \in Users : ~(q = p /\ v = u) => members'[q][v] = members[q][v]
    BY <1>0, <2>1 DEF TypeOK, MemberRow
  <2>3. \A q \in Projects, v \in Users :
          /\ RowKept(q, v) /\ (~Row(q, v) => members'[q][v] = members[q][v])
          /\ members[q][v].role = "owner" => members'[q][v] = members[q][v]
    BY <2>1, <2>2 DEF RowKept, Row
  <2>4. RowsStay
    BY <2>1, <2>3 DEF RowsStay, Exists
  <2>5. TicketsStay
    BY <2>1 DEF TicketsStay
  <2>6. Kept /\ RowsLife' /\ ExactlyOneOwner' /\ TicketsLife'
    BY <2>4, <2>5, RowsStayLife, TicketsKept DEF TicketsStay
  <2>7. ProvisionedIsUsable'
    BY <2>1, <2>3 DEF LifeInv, ProvisionedIsUsable, RowKept
  <2> QED BY <2>1, <2>3, <2>4, <2>6, <2>7, <1>k
<1>2. ASSUME NEW p \in Projects, NEW u \in Users, NEW kind \in {"invite", "request"},
             Founded(p), kind = "invite" => OwnerReady(p), Issue(kind, p, u)
      PROVE  LifeInv'
  <2>1. UNCHANGED <<born, projects, members, jobs>>
    BY <1>2 DEF Issue
  <2>2. PICK k \in Tickets :
          /\ tickets[k] = NoTicket
          /\ tickets' = [tickets EXCEPT ![k] =
               [kind |-> kind, project |-> p, user |-> u, status |-> "pending"]]
    BY <1>2 DEF Issue
  <2>3. /\ tickets'[k].kind = kind /\ tickets'[k].project = p /\ tickets'[k].user = u
        /\ \A i \in Tickets \ {k} : tickets'[i] = tickets[i]
    BY <1>0, <2>2 DEF TypeOK
  <2>4. RowsStay
    BY <2>1 DEF RowsStay, RowKept, Exists
  <2>5. Kept /\ RowsLife' /\ ExactlyOneOwner'
    BY <2>2, <2>3, <2>4, RowsStayLife
  <2>6. TicketsLife'
    <3>1. \A q \in Projects : Founded(q)' <=> Founded(q)
      BY <2>1 DEF Founded
    <3>2. \A q \in Projects : OwnerReady(q)' <=> OwnerReady(q)
      BY <2>1 DEF OwnerReady
    <3>3. ASSUME NEW i \in Tickets, i # k, tickets'[i] # NoTicket
          PROVE  /\ tickets'[i].kind # "none"
                 /\ tickets'[i].project \in Projects /\ tickets'[i].user \in Users
                 /\ Founded(tickets[i].project)'
                 /\ tickets'[i].kind = "invite" => OwnerReady(tickets[i].project)'
      <4>1. tickets'[i] = tickets[i]
        BY <2>3, <3>3
      <4> QED BY <3>1, <3>2, <3>3, <4>1 DEF LifeInv, TicketsLife
    <3>4. /\ tickets'[k].kind # "none" /\ tickets'[k].project \in Projects
          /\ tickets'[k].user \in Users /\ Founded(tickets[k].project)'
          /\ tickets'[k].kind = "invite" => OwnerReady(tickets[k].project)'
      BY <1>2, <2>3, <3>1, <3>2
    <3> QED BY <3>3, <3>4 DEF TicketsLife
  <2>7. ProvisionedIsUsable'
    BY <2>1 DEF LifeInv, ProvisionedIsUsable
  <2> QED BY <2>1, <2>4, <2>5, <2>6, <2>7, <1>k DEF RowsStay
<1>3. ASSUME NEW p \in Projects, NEW u \in Users, CreateInvite(p, u)
      PROVE  LifeInv'
  BY <1>2, <1>3, OwnerActing DEF CreateInvite
<1>4. ASSUME NEW p \in Projects, NEW u \in Users, RequestToJoin(p, u)
      PROVE  LifeInv'
  BY <1>2, <1>4 DEF RequestToJoin, LifeInv, RowsLife
<1>5. ASSUME NEW p \in Projects, NEW u \in Users, Deny(p, u)
      PROVE  LifeInv'
  <2>1. UNCHANGED <<born, projects, members, jobs>>
    BY <1>5 DEF Deny
  <2>2. PICK k \in Pending("request", p, u) : tickets' = [tickets EXCEPT ![k].status = "denied"]
    BY <1>5 DEF Deny
  <2>3. k \in Tickets /\ tickets[k].kind = "request"
    BY DEF Pending
  <2>4. /\ tickets'[k].kind = "request" /\ tickets'[k].project = tickets[k].project
        /\ tickets'[k].user = tickets[k].user
        /\ \A i \in Tickets \ {k} : tickets'[i] = tickets[i]
    BY <1>0, <2>2, <2>3 DEF TypeOK, TicketRow
  <2>5. TicketsStay
    BY <2>3, <2>4 DEF TicketsStay, NoTicket
  <2>6. RowsStay
    BY <2>1 DEF RowsStay, RowKept, Exists
  <2>7. Kept /\ RowsLife' /\ ExactlyOneOwner' /\ TicketsLife'
    BY <2>5, <2>6, RowsStayLife, TicketsKept DEF TicketsStay
  <2>8. ProvisionedIsUsable'
    BY <2>1 DEF LifeInv, ProvisionedIsUsable
  <2> QED BY <2>1, <2>6, <2>7, <2>8, <1>k DEF RowsStay
<1> QED
  BY <1>1, <1>3, <1>4, <1>5 DEF Manage

LEMMA LifeNext == LifeInv /\ IsoInv /\ [Next]_vars => LifeInv'
<1> SUFFICES ASSUME LifeInv, IsoInv, [Next]_vars PROVE LifeInv'
  OBVIOUS
<1>0. TypeOK /\ TypeInv
  BY DEF IsoInv, TypeInv
<1>1. ASSUME NEW t \in Threads, Proceed(t) PROVE LifeInv'
  <2>1. CASE \/ FlushInsert(t) \/ SaveTenant(t) \/ FindUser(t) \/ SaveUser(t) \/ StarterDashboard(t)
             \/ TbFails(t) \/ DropTenant(t) \/ NextTicket(t) \/ DropUser(t)
    BY <1>0, <2>1, LifeCalls
  <2> QED
    BY <1>1, <2>1, LifeCommitCreate, LifeCommitRetry, LifeCommitAdd, LifeErase, LifeEraseMember,
       LifeEndAdmission DEF Proceed
<1>2. ASSUME NEW t \in Threads, Abort(t) PROVE LifeInv'
  BY <1>0, <1>2, IdleLife, LifeMove DEF Abort, End, Idle
<1>3. CASE UNCHANGED vars
  <2>1. UNCHANGED <<born, db, jobs>>
    BY <1>3 DEF vars, db
  <2>2. CASE Threads = {}
    <3>1. UNCHANGED <<born, projects, members, tickets, jobs>>
      BY <1>3 DEF vars
    <3> QED BY <2>2, <3>1 DEF LifeInv, RowsLife, TicketsLife, ExactlyOneOwner, ProvisionedIsUsable,
              SlugsDistinct, Founded, OwnerReady, Exists, Row
  <2>3. CASE \E t : t \in Threads
    BY <2>1, <2>3, <1>0, LifeStays
  <2> QED BY <2>2, <2>3
<1> QED
  BY <1>0, <1>1, <1>2, <1>3, LifeArrive, LifeManage DEF Next, Quiet

LEMMA LifeAlways == Spec => [](IsoInv /\ LifeInv)
<1>1. Init => IsoInv /\ LifeInv
  BY IsoInit, LifeInit
<1>2. IsoInv /\ LifeInv /\ [Next]_vars => IsoInv' /\ LifeInv'
  BY IsoNext, LifeNext
<1> QED
  BY <1>1, <1>2, PTL DEF Spec

-----------------------------------------------------------------------------
(* What the rows promise.                                                  *)

\* Every project has exactly one owner, and the owner is active, in every
\* interleaving of invitations, removals, retries and deletions.
THEOREM OneOwner == Spec => []ExactlyOneOwner
<1>1. LifeInv => ExactlyOneOwner
  BY DEF LifeInv
<1> QED
  BY <1>1, LifeAlways, PTL

\* A project shown as provisioned has its tenant, and its owner an account in
\* the engine, whichever handler recorded the outcome last.
THEOREM Usable == Spec => []ProvisionedIsUsable
<1>1. LifeInv => ProvisionedIsUsable
  BY DEF LifeInv
<1> QED
  BY <1>1, LifeAlways, PTL

\* Two live projects never share a slug, though unique_slug picks it from a
\* read that other handlers overtake.
THEOREM SlugsApart == Spec => []SlugsDistinct
<1>1. LifeInv => SlugsDistinct
  BY DEF LifeInv
<1> QED
  BY <1>1, LifeAlways, PTL
=============================================================================
