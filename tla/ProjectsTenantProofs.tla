------------------------ MODULE ProjectsTenantProofs ------------------------
(***************************************************************************)
(* Proofs about the accounts of a project in module Projects: the          *)
(* addresses of TB users, the stability of a membership's account, and     *)
(* that only two retries of one project that both make it a tenant tear    *)
(* its members apart.                                                      *)
(***************************************************************************)
EXTENDS ProjectsProofs

-----------------------------------------------------------------------------
(* Addresses.                                                              *)

\* n is the slug of project p wherever p's slug is kept: in its row, in the
\* session of a handler, in the address of a TB user of any of its tenants.
SlugIs(p, n) ==
  /\ Exists(p) => projects[p].slug = n
  /\ \A t \in Threads : jobs[t].project = p => jobs[t].proj.slug = n
  /\ \A b \in TbUsers :
       tbUsers[b].tenant # None /\ tenants[tbUsers[b].tenant].project = p => tbUsers[b].slug = n

Named == \A p \in Projects : \E n \in Slugs : SlugIs(p, n)

AddressInv ==
  /\ Named
  /\ \A t \in Threads : jobs[t].project \in born \cup {None}
  /\ \A T \in Tenants : tenants[T].project \in born \cup {None}
  /\ \A b \in TbUsers :
       IF tbUsers[b].tenant = None THEN ~tbUsers[b].live
       ELSE tbUsers[b].tenant \in Tenants /\ tenants[tbUsers[b].tenant].project # None
  /\ \A a, b \in TbUsers :
       /\ tbUsers[a].live /\ tbUsers[b].live
       /\ tbUsers[a].slug = tbUsers[b].slug /\ tbUsers[a].user = tbUsers[b].user
       => a = b

LEMMA AddressInit == Init => AddressInv
<1> SUFFICES ASSUME Init PROVE AddressInv
  OBVIOUS
<1>1. ASSUME NEW p \in Projects PROVE SlugIs(p, 0)
  <2>1. ~Exists(p)
    BY DEF Init, Exists, NoProject
  <2>2. \A t \in Threads : jobs[t].project # p
    BY ProjectsAssumption DEF Init, Idle
  <2>3. \A b \in TbUsers : tbUsers[b].tenant = None
    BY DEF Init, NoTbUser
  <2> QED BY <2>1, <2>2, <2>3 DEF SlugIs
<1>2. 0 \in Slugs
  BY ProjectsAssumption DEF Slugs
<1> QED
  BY <1>1, <1>2 DEF AddressInv, Named, Init, Idle, NoTenant, NoTbUser

\* The engine ends accounts, and makes none.
UsersStay ==
  \A b \in TbUsers : tbUsers'[b] = tbUsers[b] \/ tbUsers'[b] = [tbUsers[b] EXCEPT !.live = FALSE]

\* A slug is written where it was, or copied from a row to a session or back.
SlugsMove ==
  /\ \A p \in Projects : Exists(p)' =>
       \/ Exists(p) /\ projects'[p].slug = projects[p].slug
       \/ \E t \in Threads : jobs[t].project = p /\ projects'[p].slug = jobs[t].proj.slug
  /\ \A t \in Threads :
       \/ jobs'[t].project = None
       \/ jobs'[t].project = jobs[t].project /\ jobs'[t].proj.slug = jobs[t].proj.slug
       \/ /\ jobs'[t].project \in Projects /\ Exists(jobs'[t].project)
          /\ jobs'[t].proj.slug = projects[jobs'[t].project].slug
  /\ \A T \in Tenants :
       \/ tenants'[T].project = tenants[T].project
       \/ tenants[T].project = None /\ \E t \in Threads : tenants'[T].project = jobs[t].project

LEMMA AddressStep ==
  ASSUME AddressInv, LifeInv, TypeOK, SlugsMove, UsersStay, UNCHANGED born
  PROVE  AddressInv'
<1>1. ASSUME NEW b \in TbUsers
      PROVE  /\ tbUsers'[b].tenant = tbUsers[b].tenant /\ tbUsers'[b].slug = tbUsers[b].slug
             /\ tbUsers'[b].user = tbUsers[b].user
             /\ tbUsers'[b].live => tbUsers[b].live
  BY DEF UsersStay, TypeOK, TbUserRow
<1>2. ASSUME NEW p \in Projects PROVE \E n \in Slugs : SlugIs(p, n)'
  <2>1. PICK n \in Slugs : SlugIs(p, n)
    BY DEF AddressInv, Named
  <2>2. p # None
    BY ProjectsAssumption
  <2>3. Exists(p)' => projects'[p].slug = n
    BY <2>1 DEF SlugsMove, SlugIs
  <2>4. \A t \in Threads : jobs'[t].project = p => jobs'[t].proj.slug = n
    BY <2>1, <2>2 DEF SlugsMove, SlugIs
  <2>5. ASSUME NEW b \in TbUsers, tbUsers'[b].tenant # None,
               tenants'[tbUsers'[b].tenant].project = p
        PROVE  tbUsers'[b].slug = n
    <3>1. tbUsers[b].tenant \in Tenants /\ tenants[tbUsers[b].tenant].project # None
      BY <1>1, <2>5 DEF AddressInv
    <3>2. tenants[tbUsers[b].tenant].project = p
      BY <1>1, <2>5, <3>1 DEF SlugsMove
    <3> QED BY <1>1, <2>1, <2>5, <3>2 DEF SlugIs
  <2>6. SlugIs(p, n)'
    BY <2>3, <2>4, <2>5 DEF SlugIs
  <2> QED BY <2>6
<1>3. Named'
  BY <1>2 DEF Named, Slugs
<1>4. \A t \in Threads : jobs'[t].project \in born' \cup {None}
  <2>1. \A p \in Projects : Exists(p) => p \in born
    BY DEF LifeInv, RowsLife, Founded
  <2> QED BY <2>1 DEF SlugsMove, AddressInv
<1>5. \A T \in Tenants : tenants'[T].project \in born' \cup {None}
  BY DEF SlugsMove, AddressInv
<1>6. ASSUME NEW b \in TbUsers
      PROVE  IF tbUsers'[b].tenant = None THEN ~tbUsers'[b].live
             ELSE tbUsers'[b].tenant \in Tenants /\ tenants'[tbUsers'[b].tenant].project # None
  <2>1. CASE tbUsers[b].tenant = None
    BY <1>1, <2>1 DEF AddressInv
  <2>2. CASE tbUsers[b].tenant # None
    <3>1. tbUsers[b].tenant \in Tenants /\ tenants[tbUsers[b].tenant].project # None
      BY <2>2 DEF AddressInv
    <3> QED BY <1>1, <2>2, <3>1 DEF SlugsMove
  <2> QED BY <2>1, <2>2
<1>7. \A a, b \in TbUsers :
       /\ tbUsers'[a].live /\ tbUsers'[b].live
       /\ tbUsers'[a].slug = tbUsers'[b].slug /\ tbUsers'[a].user = tbUsers'[b].user
       => a = b
  BY <1>1 DEF AddressInv
<1> QED
  BY <1>3, <1>4, <1>5, <1>6, <1>7 DEF AddressInv

\* Steps that move one handler and make no project.
LEMMA AddressMove ==
  ASSUME AddressInv, LifeInv, TypeOK, UNCHANGED <<born, projects, tenants>>, UsersStay,
         NEW t \in Threads, NEW jj, Goto(t, jj),
         \/ jj.project = None
         \/ jj.project = jobs[t].project /\ jj.proj.slug = jobs[t].proj.slug
         \/ jj.project \in Projects /\ Exists(jj.project) /\ jj.proj.slug = projects[jj.project].slug
  PROVE  AddressInv'
<1>1. jobs'[t] = jj /\ \A x \in Threads \ {t} : jobs'[x] = jobs[x]
  BY DEF Goto, TypeOK
<1>2. SlugsMove
  BY <1>1 DEF SlugsMove, Exists
<1> QED
  BY <1>2, AddressStep

LEMMA UsersUnchanged == UNCHANGED tbUsers => UsersStay
  BY DEF UsersStay

LEMMA AddressArrive ==
  ASSUME AddressInv, LifeInv, TypeOK, NEW t \in Threads, Arrive(t)
  PROVE  AddressInv'
<1>0. Idle.project = None
  BY DEF Idle
<1>1. ASSUME NEW p \in Projects, NEW u \in Users, BeginCreate(t, p, u)
      PROVE  AddressInv'
  <2>1. PICK n \in 1 .. MaxSlug :
          jobs' = [jobs EXCEPT ![t] = [Request("create", "flush", p, u) EXCEPT !.proj.slug = n]]
    BY <1>1 DEF BeginCreate, Begin
  <2>2. Request("create", "flush", p, u) \in Job
    BY RequestType DEF Ops, Pcs
  <2>3. p \notin born /\ born' = born \cup {p} /\ jobs[t] = Idle /\ UNCHANGED <<projects, tenants, tbUsers>>
    BY <1>1 DEF BeginCreate, Begin, db, tb
  <2>4. jobs'[t].project = p /\ jobs'[t].proj.slug = n /\ \A x \in Threads \ {t} : jobs'[x] = jobs[x]
    BY <2>1, <2>2 DEF TypeOK, Job, ProjectRow, Request
  <2>5. n \in Slugs
    BY ProjectsAssumption DEF Slugs
  <2>6. SlugIs(p, n)'
    <3>1. ~Exists(p)'
      BY <2>3 DEF LifeInv, RowsLife, Exists, NoProject
    <3>2. \A x \in Threads : jobs[x].project # p
      BY <2>3, ProjectsAssumption DEF AddressInv
    <3>3. \A T \in Tenants : tenants[T].project # p
      BY <2>3, ProjectsAssumption DEF AddressInv
    <3> QED BY <2>3, <2>4, <3>1, <3>2, <3>3 DEF SlugIs, AddressInv
  <2>7. ASSUME NEW q \in Projects \ {p}, NEW m, SlugIs(q, m) PROVE SlugIs(q, m)'
    BY <2>3, <2>4, <2>7 DEF SlugIs, Exists
  <2>8. Named'
    BY <2>5, <2>6, <2>7 DEF AddressInv, Named, Slugs
  <2> QED BY <2>3, <2>4, <2>8 DEF AddressInv
<1>2. ASSUME NEW p \in Projects, Exists(p), NEW u \in Users, NEW op, NEW pc,
             Begin(t, Request(op, pc, p, u)), UNCHANGED <<born, projects, tenants, tbUsers>>
      PROVE  AddressInv'
  BY <1>2, UsersUnchanged, AddressMove DEF Begin, Goto, Request
<1>3. ASSUME NEW u \in Users, NEW op, NEW K, Begin(t, Admission(op, u, K)),
             UNCHANGED <<born, projects, tenants, tbUsers>>
      PROVE  AddressInv'
  BY <1>0, <1>3, UsersUnchanged, AddressMove DEF Begin, Goto, Admission, Idle
<1>4. ASSUME NEW p \in Projects, NEW u \in Users,
             BeginRetry(t, p, u) \/ BeginDelete(t, p, u) \/ BeginRemove(t, p, u)
      PROVE  AddressInv'
  <2>1. Exists(p)
    BY <1>4 DEF BeginRetry, BeginDelete, BeginRemove, OwnerActs, Entitled, Exists
  <2>2. UNCHANGED <<born, projects, tenants, tbUsers>>
    BY <1>4 DEF BeginRetry, BeginDelete, BeginRemove, db, tb
  <2> QED BY <1>4, <2>1, <2>2, <1>2 DEF BeginRetry, BeginDelete, BeginRemove
<1>5. ASSUME NEW u \in Users,
             BeginAccept(t, u) \/ BeginLogin(t, u) \/ \E p \in Projects : BeginApprove(t, p, u)
      PROVE  AddressInv'
  <2>1. UNCHANGED <<born, projects, tenants, tbUsers>>
    BY <1>5 DEF BeginAccept, BeginLogin, BeginApprove, db, tb
  <2> QED BY <1>5, <2>1, <1>3 DEF BeginAccept, BeginLogin, BeginApprove
<1> QED
  BY <1>1, <1>4, <1>5 DEF Arrive

\* A new account: its address was free.
LEMMA AddressSaveUser ==
  ASSUME AddressInv, LifeInv, IsoInv, NEW t \in Threads, SaveUser(t)
  PROVE  AddressInv'
<1> DEFINE j == jobs[t]
<1>0. TypeOK /\ j \in Job /\ JobIso(j) /\ j.pc = "save" /\ UNCHANGED <<born, projects, tenants>>
  BY DEF IsoInv, TypeInv, TypeOK, SaveUser, At, db
<1>1. /\ TenantLive(j.proj.tenant) /\ ~Held(j.proj.slug, j.user)
  BY <1>0 DEF SaveUser, Refused
<1>2. PICK b \in FreshTbUsers :
        /\ tbUsers' = [tbUsers EXCEPT ![b] =
             [tenant |-> j.proj.tenant, slug |-> j.proj.slug, user |-> j.user, live |-> TRUE]]
        /\ Goto(t, GotUser(j, b)) \/ UNCHANGED jobs
  BY DEF SaveUser, AnswerLost
<1>3. /\ b \in TbUsers /\ tbUsers[b].tenant = None
      /\ tbUsers'[b] = [tenant |-> j.proj.tenant, slug |-> j.proj.slug, user |-> j.user, live |-> TRUE]
      /\ \A a \in TbUsers \ {b} : tbUsers'[a] = tbUsers[a]
  BY <1>0, <1>2 DEF FreshTbUsers, TypeOK
<1>4. /\ j.proj.tenant \in Tenants /\ j.proj.tenant # None
      /\ j.project \in Projects /\ j.project # None /\ tenants[j.proj.tenant].project = j.project
  BY <1>0, <1>1, ProjectsAssumption DEF TenantLive, JobIso, MadeFor
<1>5. \A x \in Threads : jobs'[x].project = jobs[x].project /\ jobs'[x].proj = jobs[x].proj
  <2>1. \A a : GotUser(j, a).project = j.project /\ GotUser(j, a).proj = j.proj
    BY <1>0 DEF GotUser, Job
  <2> QED BY <1>0, <1>2, <2>1 DEF Goto, TypeOK
<1>6. ASSUME NEW p \in Projects, NEW n, SlugIs(p, n) PROVE SlugIs(p, n)'
  <2>1. \A a \in TbUsers :
          tbUsers'[a].tenant # None /\ tenants'[tbUsers'[a].tenant].project = p => tbUsers'[a].slug = n
    BY <1>0, <1>3, <1>4, <1>6 DEF SlugIs
  <2> QED BY <1>0, <1>5, <1>6, <2>1 DEF SlugIs, Exists
<1>7. Named'
  BY <1>6 DEF AddressInv, Named, Slugs
<1>8. \A a \in TbUsers :
        IF tbUsers'[a].tenant = None THEN ~tbUsers'[a].live
        ELSE tbUsers'[a].tenant \in Tenants /\ tenants'[tbUsers'[a].tenant].project # None
  BY <1>0, <1>3, <1>4 DEF AddressInv
<1>9. \A a, c \in TbUsers :
       /\ tbUsers'[a].live /\ tbUsers'[c].live
       /\ tbUsers'[a].slug = tbUsers'[c].slug /\ tbUsers'[a].user = tbUsers'[c].user
       => a = c
  BY <1>1, <1>3 DEF AddressInv, Held
<1> QED
  BY <1>0, <1>5, <1>7, <1>8, <1>9 DEF AddressInv

LEMMA AddressProceed ==
  ASSUME AddressInv, LifeInv, IsoInv, NEW t \in Threads, Proceed(t)
  PROVE  AddressInv'
<1> DEFINE j == jobs[t]
<1>0. TypeOK /\ j \in Job /\ JobIso(j) /\ JobLife(t, j) /\ PcLife(j) /\ j.op \in Ops /\ Idle.project = None
  BY DEF IsoInv, TypeInv, TypeOK, LifeInv, JobLife, Idle, Job
<1>m. ASSUME UNCHANGED <<born, projects, tenants>>, UsersStay, NEW jj, Goto(t, jj),
             \/ jj.project = None
             \/ jj.project = j.project /\ jj.proj.slug = j.proj.slug
             \/ jj.project \in Projects /\ Exists(jj.project) /\ jj.proj.slug = projects[jj.project].slug
      PROVE  AddressInv'
  BY <1>0, <1>m, AddressMove
<1>pc. \A pc : [j EXCEPT !.pc = pc].project = j.project /\ [j EXCEPT !.pc = pc].proj = j.proj
  BY <1>0 DEF Job
<1>gu. \A b : GotUser(j, b).project = j.project /\ GotUser(j, b).proj = j.proj
  BY <1>0 DEF GotUser, Job
<1>1. CASE FlushInsert(t) \/ StarterDashboard(t) \/ TbFails(t)
  <2>1. UNCHANGED <<born, projects, tenants>> /\ UsersStay
    BY <1>1, UsersUnchanged DEF FlushInsert, StarterDashboard, TbFails, db, tb
  <2>2. Goto(t, Idle) \/ \E pc : Goto(t, [j EXCEPT !.pc = pc])
    BY <1>1 DEF FlushInsert, StarterDashboard, TbFails, End
  <2> QED BY <1>0, <2>1, <2>2, <1>m, <1>pc
<1>2. CASE FindUser(t)
  <2>1. UNCHANGED <<born, projects, tenants>> /\ UsersStay
    BY <1>2, UsersUnchanged DEF FindUser, db, tb
  <2>2. (\E b : Goto(t, GotUser(j, b))) \/ Goto(t, [j EXCEPT !.pc = "save"])
    BY <1>2 DEF FindUser
  <2> QED BY <2>1, <2>2, <1>m, <1>pc, <1>gu
<1>3. CASE SaveTenant(t)
  <2>1. UNCHANGED <<born, projects>> /\ UsersStay /\ j.pc = "tenant"
    BY <1>3, UsersUnchanged DEF SaveTenant, At, db
  <2>2. PICK T \in FreshTenants :
          /\ tenants' = [tenants EXCEPT ![T] = [project |-> j.project, live |-> TRUE]]
          /\ Goto(t, [j EXCEPT !.proj.tenant = T, !.pc = "find"]) \/ UNCHANGED jobs
    BY <1>3 DEF SaveTenant, AnswerLost
  <2>3. /\ tenants[T].project = None /\ tenants'[T].project = j.project
        /\ \A S \in Tenants \ {T} : tenants'[S] = tenants[S]
    BY <1>0, <2>2 DEF FreshTenants, TypeOK
  <2>4. \A x \in Threads : jobs'[x].project = jobs[x].project /\ jobs'[x].proj.slug = jobs[x].proj.slug
    <3>1. /\ [j EXCEPT !.proj.tenant = T, !.pc = "find"].project = j.project
          /\ [j EXCEPT !.proj.tenant = T, !.pc = "find"].proj.slug = j.proj.slug
      BY <1>0 DEF Job, ProjectRow
    <3> QED BY <1>0, <2>2, <3>1 DEF Goto, TypeOK
  <2>5. SlugsMove
    BY <2>1, <2>3, <2>4 DEF SlugsMove, Exists
  <2> QED BY <1>0, <2>1, <2>5, AddressStep
<1>4. CASE SaveUser(t)
  BY <1>4, AddressSaveUser
<1>5. CASE CommitCreate(t)
  <2>1. /\ UNCHANGED <<born, tenants>> /\ UsersStay /\ Goto(t, Idle) /\ j.op = "create"
        /\ projects' = [projects EXCEPT ![j.project] = Outcome(j)] /\ j.pc \in {"commit", "giveup"}
    BY <1>5, UsersUnchanged DEF CommitCreate, tb, End
  <2>2. j.project \in Projects /\ Outcome(j).slug = j.proj.slug
    BY <1>0, <2>1 DEF JobIso, Outcome, Job, ProjectRow
  <2>3. projects'[j.project].slug = j.proj.slug /\ \A q \in Projects \ {j.project} : projects'[q] = projects[q]
    BY <1>0, <2>1, <2>2 DEF TypeOK
  <2>4. jobs'[t] = Idle /\ \A x \in Threads \ {t} : jobs'[x] = jobs[x]
    BY <1>0, <2>1 DEF Goto, TypeOK
  <2>5. SlugsMove
    BY <1>0, <2>1, <2>2, <2>3, <2>4 DEF SlugsMove, Exists
  <2> QED BY <1>0, <2>1, <2>5, AddressStep
<1>6. CASE CommitRetry(t)
  <2>1. /\ UNCHANGED <<born, tenants>> /\ UsersStay /\ Goto(t, Idle) /\ j.op = "retry"
        /\ \/ UNCHANGED projects
           \/ /\ Exists(j.project)
              /\ projects' = [projects EXCEPT ![j.project] = NetProject(j.project, j.proj0, Outcome(j))]
        /\ j.pc \in {"commit", "giveup"}
    BY <1>6, UsersUnchanged DEF CommitRetry, tb, End
  <2>2. j.project \in Projects /\ Outcome(j).slug = j.proj0.slug
    BY <1>0, <2>1 DEF JobIso, JobLife, HeldProject, Outcome, Job, ProjectRow
  <2>3. NetProject(j.project, j.proj0, Outcome(j)).slug = projects[j.project].slug
    BY <2>2 DEF NetProject, Column
  <2>4. \A q \in Projects : projects'[q].slug = projects[q].slug /\ (Exists(q)' => Exists(q))
    BY <1>0, <2>1, <2>2, <2>3 DEF TypeOK, Exists
  <2>5. jobs'[t] = Idle /\ \A x \in Threads \ {t} : jobs'[x] = jobs[x]
    BY <1>0, <2>1 DEF Goto, TypeOK
  <2>6. SlugsMove
    BY <1>0, <2>1, <2>4, <2>5 DEF SlugsMove
  <2> QED BY <1>0, <2>1, <2>6, AddressStep
<1>7. CASE DropTenant(t)
  <2>1. /\ UNCHANGED <<born, projects>> /\ KillTenant(j.proj.tenant)
        /\ Goto(t, [j EXCEPT !.pc = "erase"]) \/ UNCHANGED jobs
    BY <1>7 DEF DropTenant, AnswerLost, db
  <2>2. UsersStay /\ \A T \in Tenants : tenants'[T].project = tenants[T].project
    BY <1>0, <2>1 DEF KillTenant, UsersStay, TypeOK, TenantRow
  <2>3. \A x \in Threads : jobs'[x].project = jobs[x].project /\ jobs'[x].proj = jobs[x].proj
    BY <1>0, <1>pc, <2>1 DEF Goto, TypeOK
  <2>4. SlugsMove
    BY <2>1, <2>2, <2>3 DEF SlugsMove, Exists
  <2> QED BY <1>0, <2>1, <2>2, <2>4, AddressStep
<1>8. CASE EraseProject(t)
  <2>1. /\ UNCHANGED <<born, tenants>> /\ UsersStay
        /\ projects' = [projects EXCEPT ![j.project] = NoProject]
        /\ EndDeleting(t, {x \in Threads : jobs[x].project = j.project})
    BY <1>8, UsersUnchanged DEF EraseProject, tb
  <2>2. \A x \in Threads :
          jobs'[x] = Idle \/ jobs'[x] = jobs[x] \/ jobs'[x] = [jobs[x] EXCEPT !.gone = TRUE]
    BY <1>0, <2>1 DEF EndDeleting, TypeOK
  <2>3. \A x \in Threads : /\ [jobs[x] EXCEPT !.gone = TRUE].project = jobs[x].project
                           /\ [jobs[x] EXCEPT !.gone = TRUE].proj = jobs[x].proj
    BY <1>0 DEF TypeOK, Job
  <2>4. \A q \in Projects : Exists(q)' => Exists(q) /\ projects'[q].slug = projects[q].slug
    BY <1>0, <2>1 DEF TypeOK, Exists, NoProject
  <2>5. SlugsMove
    BY <1>0, <2>1, <2>2, <2>3, <2>4 DEF SlugsMove
  <2> QED BY <1>0, <2>1, <2>5, AddressStep
<1>9. CASE EraseMember(t)
  <2>1. UNCHANGED <<born, projects, tenants>> /\ UsersStay
    BY <1>9, UsersUnchanged DEF EraseMember, tb
  <2>2. End(t) \/ EndDeleting(t, {x \in Threads : /\ jobs[x].project = j.project
                                                 /\ jobs[x].user = j.user})
    BY <1>9 DEF EraseMember
  <2>3. \A x \in Threads :
          jobs'[x] = Idle \/ jobs'[x] = jobs[x] \/ jobs'[x] = [jobs[x] EXCEPT !.gone = TRUE]
    BY <1>0, <2>2 DEF EndDeleting, End, Goto, TypeOK
  <2>4. \A x \in Threads : /\ [jobs[x] EXCEPT !.gone = TRUE].project = jobs[x].project
                           /\ [jobs[x] EXCEPT !.gone = TRUE].proj = jobs[x].proj
    BY <1>0 DEF TypeOK, Job
  <2>5. SlugsMove
    BY <1>0, <2>1, <2>3, <2>4 DEF SlugsMove, Exists
  <2> QED BY <1>0, <2>1, <2>5, AddressStep
<1>10. CASE NextTicket(t)
  <2>1. UNCHANGED <<born, projects, tenants>> /\ UsersStay
    BY <1>10, UsersUnchanged DEF NextTicket, db, tb
  <2>2. PICK k \in j.todo :
          LET p == tickets[k].project
              rest == [j EXCEPT !.todo = @ \ {k}]
              Open == IF j.op = "login" THEN projects[p].state = "provisioned" ELSE Exists(p)
          IN \/ Goto(t, rest)
             \/ Open /\ Goto(t, [rest EXCEPT !.pc = "find", !.now = {k}, !.project = p,
                            !.proj0 = projects[p], !.proj = projects[p],
                            !.mem0 = members[p][j.user], !.gone = FALSE])
    BY <1>10 DEF NextTicket
  <2> DEFINE p == tickets[k].project
             rest == [j EXCEPT !.todo = @ \ {k}]
             go == [rest EXCEPT !.pc = "find", !.now = {k}, !.project = p,
                      !.proj0 = projects[p], !.proj = projects[p],
                      !.mem0 = members[p][j.user], !.gone = FALSE]
  <2>3. p \in Projects
    BY DEF IsoInv, TypeInv, TodoScoped
  <2>4. rest.project = j.project /\ rest.proj = j.proj /\ rest \in Job
    BY <1>0 DEF Job
  <2>5. go.project = p /\ go.proj = projects[p]
    <3> HIDE DEF rest
    <3> QED BY <2>4 DEF Job
  <2>6. Goto(t, rest) \/ (Exists(p) /\ Goto(t, go))
    BY <2>2 DEF Exists
  <2> HIDE DEF rest, go
  <2> QED BY <2>1, <2>3, <2>4, <2>5, <2>6, <1>m
<1>11. CASE CommitAdd(t)
  <2>1. UNCHANGED <<born, projects, tenants>> /\ UsersStay
    BY <1>11, UsersUnchanged DEF CommitAdd, tb
  <2> DEFINE jj == [j EXCEPT !.pc = "next", !.done = j.now, !.now = {},
                      !.project = None, !.proj0 = NoProject, !.proj = NoProject,
                      !.mem0 = NoMember, !.gone = FALSE, !.tbUser = None]
  <2>2. Goto(t, Idle) \/ Goto(t, jj)
    BY <1>11 DEF CommitAdd, End
  <2>3. jj.project = None
    BY <1>0 DEF Job
  <2> HIDE DEF jj
  <2> QED BY <1>0, <2>1, <2>2, <2>3, <1>m
<1>12. CASE EndAdmission(t)
  BY <1>0, <1>12, <1>m, UsersUnchanged DEF EndAdmission, End, tb
<1>13. CASE DropUser(t)
  <2>1. UNCHANGED <<born, projects, tenants>> /\ Goto(t, [j EXCEPT !.pc = "erase"])
    BY <1>13 DEF DropUser, db
  <2>2. UsersStay
    BY <1>0, <1>13 DEF DropUser, UsersStay, TypeOK
  <2> QED BY <2>1, <2>2, <1>m, <1>pc
<1> QED
  BY <1>1, <1>2, <1>3, <1>4, <1>5, <1>6, <1>7, <1>8, <1>9, <1>10, <1>11, <1>12, <1>13 DEF Proceed

LEMMA AddressNext == AddressInv /\ LifeInv /\ IsoInv /\ [Next]_vars => AddressInv'
<1> SUFFICES ASSUME AddressInv, LifeInv, IsoInv, [Next]_vars PROVE AddressInv'
  OBVIOUS
<1>0. TypeOK /\ Idle.project = None
  BY DEF IsoInv, TypeInv, Idle
<1>1. ASSUME NEW t \in Threads, Abort(t) PROVE AddressInv'
  BY <1>0, <1>1, AddressMove, UsersUnchanged DEF Abort, End, db, tb
<1>2. CASE UNCHANGED <<born, projects, tenants, tbUsers, jobs>>
  <2>1. SlugsMove
    BY <1>2 DEF SlugsMove, Exists
  <2> QED BY <1>0, <1>2, <2>1, UsersUnchanged, AddressStep
<1>3. CASE Manage
  BY <1>2, <1>3 DEF Manage, SetMemberStatus, CreateInvite, RequestToJoin, Deny, Issue, tb
<1>4. CASE UNCHANGED vars
  BY <1>2, <1>4 DEF vars
<1> QED
  BY <1>0, <1>1, <1>3, <1>4, AddressArrive, AddressProceed DEF Next, Quiet

LEMMA AddressAlways == Spec => [](IsoInv /\ LifeInv /\ AddressInv)
<1>1. Init => IsoInv /\ LifeInv /\ AddressInv
  BY IsoInit, LifeInit, AddressInit
<1>2. IsoInv /\ LifeInv /\ AddressInv /\ [Next]_vars => IsoInv' /\ LifeInv' /\ AddressInv'
  BY IsoNext, LifeNext, AddressNext
<1> QED
  BY <1>1, <1>2, PTL DEF Spec

\* Two accounts of one human in tenants of one project have one address, so at
\* most one of them is alive.
LEMMA OneAlive ==
  ASSUME AddressInv, TypeOK, NEW p \in Projects, NEW u, NEW b, NEW c,
         Owned(b, p, u), Owned(c, p, u), UserLive(b), UserLive(c)
  PROVE  b = c
<1>1. PICK n \in Slugs : SlugIs(p, n)
  BY DEF AddressInv, Named
<1>2. tbUsers[b].tenant # None /\ tbUsers[c].tenant # None
  BY ProjectsAssumption DEF Owned, MadeFor
<1>3. tbUsers[b].slug = n /\ tbUsers[c].slug = n
  BY <1>1, <1>2 DEF SlugIs, Owned, MadeFor
<1> QED
  BY <1>3 DEF AddressInv, Owned, UserLive

\* A step that leaves a membership in place leaves its account, or puts in one
\* that a handler got for it.
LEMMA AccountWritten ==
  ASSUME IsoInv, LifeInv, [Next]_vars, NEW p \in Projects, NEW u \in Users,
         Row(p, u), Row(p, u)'
  PROVE  members'[p][u].tbUser = members[p][u].tbUser \/ Owned(members'[p][u].tbUser, p, u)
<1>0. /\ TypeOK /\ members[p][u] \in MemberRow
      /\ \A t \in Threads : jobs[t] \in Job /\ JobIso(jobs[t]) /\ JobLife(t, jobs[t])
  BY DEF IsoInv, TypeInv, TypeOK, LifeInv
<1>1. CASE UNCHANGED members
  BY <1>1
<1>2. ASSUME NEW t \in Threads, CommitCreate(t) PROVE members'[p][u] = members[p][u]
  <2>1. jobs[t].op = "create" /\ members' = [members EXCEPT ![jobs[t].project][jobs[t].user] =
          [role |-> "owner", status |-> "active",
           tbUser |-> IF jobs[t].pc = "commit" THEN jobs[t].tbUser ELSE None]]
    BY <1>2 DEF CommitCreate
  <2>2. Founded(p)
    BY DEF LifeInv, RowsLife
  <2>3. jobs[t].project # p
    BY <2>1, <2>2 DEF Founded
  <2> QED BY <1>0, <2>1, <2>3 DEF TypeOK
<1>3. ASSUME NEW t \in Threads, CommitRetry(t)
      PROVE  members'[p][u].tbUser = members[p][u].tbUser \/ Owned(members'[p][u].tbUser, p, u)
  <2> DEFINE j == jobs[t]
             mem == IF j.pc = "commit" THEN [j.mem0 EXCEPT !.tbUser = j.tbUser] ELSE j.mem0
  <2>1. /\ j.op = "retry"
        /\ \/ UNCHANGED members
           \/ members' = [members EXCEPT ![j.project][j.user] = NetMember(j.project, j.user, j.mem0, mem)]
    BY <1>3 DEF CommitRetry
  <2>2. /\ mem.tbUser \in {j.mem0.tbUser, j.tbUser}
        /\ mem.tbUser # j.mem0.tbUser => mem.tbUser = j.tbUser /\ j.tbUser # None
    BY <1>0, <1>3 DEF CommitRetry, Job, MemberRow, JobLife, PcLife
  <2> HIDE DEF mem
  <2>3. CASE /\ p = j.project /\ u = j.user
             /\ members' = [members EXCEPT ![j.project][j.user] = NetMember(j.project, j.user, j.mem0, mem)]
    <3>1. members'[p][u].tbUser = Column(members[p][u].tbUser, j.mem0.tbUser, mem.tbUser)
      BY <1>0, <2>3 DEF TypeOK, NetMember
    <3> QED BY <1>0, <2>2, <2>3, <3>1 DEF Column, JobIso
  <2>4. CASE ~(p = j.project /\ u = j.user)
    BY <1>0, <2>1, <2>4 DEF TypeOK
  <2> QED BY <2>1, <2>3, <2>4
<1>4. ASSUME NEW t \in Threads, CommitAdd(t)
      PROVE  members'[p][u].tbUser = members[p][u].tbUser \/ Owned(members'[p][u].tbUser, p, u)
  <2> DEFINE j == jobs[t]
             mem == [role |-> IF j.mem0 = NoMember THEN "member" ELSE j.mem0.role,
                     status |-> "active", tbUser |-> j.tbUser]
  <2>1. /\ j.pc = "commit"
        /\ \/ UNCHANGED members
           \/ members' = [members EXCEPT ![j.project][j.user] = NetMember(j.project, j.user, j.mem0, mem)]
    BY <1>4 DEF CommitAdd, At
  <2>2. mem.tbUser = j.tbUser /\ j.tbUser # None
    BY <1>0, <2>1 DEF JobLife, PcLife
  <2> HIDE DEF mem
  <2>3. CASE /\ p = j.project /\ u = j.user
             /\ members' = [members EXCEPT ![j.project][j.user] = NetMember(j.project, j.user, j.mem0, mem)]
    <3>1. members'[p][u].tbUser = Column(members[p][u].tbUser, j.mem0.tbUser, mem.tbUser)
      BY <1>0, <2>3 DEF TypeOK, NetMember
    <3> QED BY <1>0, <2>2, <2>3, <3>1 DEF Column, JobIso
  <2>4. CASE ~(p = j.project /\ u = j.user)
    BY <1>0, <2>1, <2>4 DEF TypeOK
  <2> QED BY <2>1, <2>3, <2>4
<1>5. ASSUME NEW t \in Threads, EraseProject(t) PROVE members'[p][u] = members[p][u]
  <2>1. members' = [members EXCEPT ![jobs[t].project] = [v \in Users |-> NoMember]]
    BY <1>5 DEF EraseProject
  <2> QED BY <1>0, <2>1 DEF TypeOK, Row, NoMember
<1>6. ASSUME NEW t \in Threads, EraseMember(t) PROVE members'[p][u] = members[p][u]
  <2>1. UNCHANGED members \/ members' = [members EXCEPT ![jobs[t].project][jobs[t].user] = NoMember]
    BY <1>6 DEF EraseMember
  <2> QED BY <1>0, <2>1 DEF TypeOK, Row, NoMember
<1>7. CASE Manage
  <2>1. \/ UNCHANGED members
        \/ \E q \in Projects, v \in Users, s \in {"active", "disabled"} :
             members' = [members EXCEPT ![q][v].status = s]
    BY <1>7 DEF Manage, SetMemberStatus, CreateInvite, RequestToJoin, Deny, Issue
  <2>2. ASSUME NEW q \in Projects, NEW v \in Users, NEW s \in {"active", "disabled"},
               members' = [members EXCEPT ![q][v].status = s]
        PROVE  members'[p][u].tbUser = members[p][u].tbUser
    <3>1. members' = [members EXCEPT ![q][v] = [members[q][v] EXCEPT !.status = s]]
      BY <2>2
    <3>2. [members[q][v] EXCEPT !.status = s].tbUser = members[q][v].tbUser
      BY <1>0 DEF TypeOK, MemberRow
    <3> QED BY <1>0, <3>1, <3>2 DEF TypeOK
  <2> QED BY <2>1, <2>2
<1>8. ASSUME NEW t \in Threads, Arrive(t) \/ Abort(t) PROVE UNCHANGED members
  BY <1>8 DEF Arrive, Abort, BeginCreate, BeginRetry, BeginDelete, BeginApprove, BeginRemove,
       BeginAccept, BeginLogin, db
<1>9. ASSUME NEW t \in Threads,
             \/ FlushInsert(t) \/ SaveTenant(t) \/ FindUser(t) \/ SaveUser(t) \/ StarterDashboard(t)
             \/ TbFails(t) \/ DropTenant(t) \/ NextTicket(t) \/ EndAdmission(t) \/ DropUser(t)
      PROVE  UNCHANGED members
  BY <1>9 DEF FlushInsert, SaveTenant, FindUser, SaveUser, StarterDashboard, TbFails, DropTenant,
       NextTicket, EndAdmission, DropUser, db
<1>10. CASE UNCHANGED vars
  BY <1>10 DEF vars
<1> QED
  BY <1>1, <1>2, <1>3, <1>4, <1>5, <1>6, <1>7, <1>8, <1>9, <1>10 DEF Next, Proceed, Quiet

\* Nothing but a removal cut short takes a member's live account away: no retry
\* and no repeated admission moves a human to another one.
THEOREM Stable == Spec => StableIdentity
<1>1. ASSUME IsoInv, LifeInv, AddressInv, [Next]_vars, NEW p \in Projects, NEW u \in Users,
             members[p][u].tbUser # None, Row(p, u), Row(p, u)', UserLive(members[p][u].tbUser)
      PROVE  \/ members'[p][u].tbUser = members[p][u].tbUser
             \/ /\ members'[p][u].tbUser \in TbUsers
                /\ ~UserLive(members'[p][u].tbUser)
  <2>1. Owned(members[p][u].tbUser, p, u) /\ TypeOK
    BY <1>1 DEF IsoInv, RowsIso, TypeInv
  <2>2. \/ members'[p][u].tbUser = members[p][u].tbUser
        \/ Owned(members'[p][u].tbUser, p, u)
    BY <1>1, AccountWritten
  <2> QED BY <1>1, <2>1, <2>2, OneAlive DEF Owned
<1>2. IsoInv /\ LifeInv /\ AddressInv /\ [Next]_vars =>
        [\A p \in Projects, u \in Users :
           LET b == members[p][u].tbUser
               c == members'[p][u].tbUser
           IN b # None /\ Row(p, u) /\ Row(p, u)' /\ UserLive(b)
                => (c = b \/ (c \in TbUsers /\ ~UserLive(c)))]_vars
  BY <1>1
<1> QED
  BY <1>2, AddressAlways, PTL DEF Spec, StableIdentity

-----------------------------------------------------------------------------
(* One tenant per project, unless two retries of it both make one.         *)

\* What a handler knows of the tenant it works in: the account it got is in it,
\* and a deletion has one, dead once it is dropped.  Of project g: a retry knows
\* the tenant its row names, and an admission or a deletion holds that tenant, or
\* a dead one when the project is gone.
JobTenant(g, j) ==
  /\ j.tbUser # None => tbUsers[j.tbUser].tenant = j.proj.tenant
  /\ j.op = "delete" => /\ j.proj.tenant # None
                        /\ j.pc = "erase" => ~TenantLive(j.proj.tenant)
  /\ j.op = "retry" /\ j.project = g =>
       IF Exists(g) THEN projects[g].tenant = j.proj0.tenant ELSE j.gone
  /\ /\ j.op \in Admissions \cup {"delete"} /\ j.project = g
     /\ j.pc # "next" /\ j.proj.tenant # None
     => IF Exists(g) THEN j.proj.tenant = projects[g].tenant ELSE ~TenantLive(j.proj.tenant)

UsersOfLive == \A b \in TbUsers : tbUsers[b].live => TenantLive(tbUsers[b].tenant)

TenantInv(g) ==
  /\ UsersOfLive
  /\ \A t \in Threads : JobTenant(g, jobs[t])
  /\ SharesTenant(g) /\ LeftoversInert(g)

LEMMA TenantInit == \A g \in Projects : Init => TenantInv(g)
<1> SUFFICES ASSUME NEW g \in Projects, Init PROVE TenantInv(g)
  OBVIOUS
<1>1. Idle.op = "idle" /\ Idle.tbUser = None
  BY DEF Idle
<1>2. \A t \in Threads : JobTenant(g, jobs[t])
  BY <1>1 DEF Init, JobTenant, Admissions
<1>3. UsersOfLive /\ SharesTenant(g) /\ LeftoversInert(g)
  BY DEF Init, UsersOfLive, SharesTenant, LeftoversInert, Exists, Row, NoProject, NoMember,
         NoTbUser
<1> QED
  BY <1>2, <1>3 DEF TenantInv

\* The engine keeps the tenant of an account, and revives nothing.
EngineMoves ==
  /\ \A T \in Tenants : tenants[T].project # None => (TenantLive(T)' => TenantLive(T))
  /\ \A b \in TbUsers : tbUsers[b].tenant # None =>
       tbUsers'[b].tenant = tbUsers[b].tenant /\ (tbUsers'[b].live => tbUsers[b].live)

LEMMA EngineUnchanged == UNCHANGED tb => EngineMoves
  BY DEF tb, EngineMoves, TenantLive

\* A handler beside the step, whose project keeps its tenant.
LEMMA JobTenantStays ==
  ASSUME NEW g \in Projects, TenantInv(g), IsoInv, LifeInv, EngineMoves, NEW x \in Threads,
         jobs'[x] = jobs[x] \/ jobs'[x] = [jobs[x] EXCEPT !.gone = TRUE],
         jobs[x].project = g =>
           (Exists(g)' <=> Exists(g)) /\ projects'[g].tenant = projects[g].tenant
  PROVE  JobTenant(g, jobs[x])'
<1> DEFINE j == jobs[x]
           jj == jobs'[x]
<1>0. j \in Job /\ JobIso(j) /\ JobLife(x, j) /\ JobTenant(g, j) /\ PcLife(j) /\ None \notin Projects \cup Tenants
  BY ProjectsAssumption DEF IsoInv, TypeInv, TypeOK, LifeInv, JobLife, TenantInv
<1>1. /\ jj.op = j.op /\ jj.pc = j.pc /\ jj.project = j.project /\ jj.proj = j.proj
      /\ jj.proj0 = j.proj0 /\ jj.tbUser = j.tbUser /\ (j.gone => jj.gone)
      /\ j.project \in Projects \cup {None}
  BY <1>0 DEF Job
<1>2. j.tbUser # None => tbUsers'[j.tbUser].tenant = tbUsers[j.tbUser].tenant
  BY <1>0 DEF JobIso, Owned, MadeFor, EngineMoves
<1>3. \A T \in {j.proj.tenant} : T # None /\ ~TenantLive(T) => ~TenantLive(T)'
  BY <1>0, ProjectsAssumption DEF JobIso, MadeFor, EngineMoves
<1>4. jj.tbUser # None => tbUsers'[jj.tbUser].tenant = jj.proj.tenant
  BY <1>0, <1>1, <1>2 DEF JobTenant
<1>5. jj.op = "retry" /\ jj.project = g =>
        IF Exists(g)' THEN projects'[g].tenant = jj.proj0.tenant ELSE jj.gone
  BY <1>0, <1>1 DEF JobTenant
<1>6. jj.op \in Admissions \cup {"delete"} /\ jj.project = g /\ jj.pc # "next" /\ jj.proj.tenant # None =>
        IF Exists(g)' THEN jj.proj.tenant = projects'[g].tenant
        ELSE ~TenantLive(jobs[x].proj.tenant)'
  BY <1>0, <1>1, <1>3 DEF JobTenant
<1>7. jj.op = "delete" => /\ jj.proj.tenant # None
                          /\ jj.pc = "erase" => ~TenantLive(jobs[x].proj.tenant)'
  BY <1>0, <1>1, <1>3 DEF JobTenant
<1> QED
  BY <1>4, <1>5, <1>6, <1>7 DEF JobTenant

\* Steps that write no project and no membership.
LEMMA TenantMove ==
  ASSUME NEW g \in Projects, TenantInv(g), IsoInv, LifeInv, EngineMoves, UsersOfLive', UNCHANGED <<projects, members>>,
         NEW t \in Threads, \A x \in Threads \ {t} : jobs'[x] = jobs[x],
         JobTenant(g, jobs[t])'
  PROVE  TenantInv(g)'
<1>1. \A p : (Exists(p)' <=> Exists(p)) /\ projects'[p].tenant = projects[p].tenant
  BY DEF Exists
<1>2. \A x \in Threads : JobTenant(g, jobs[x])'
  BY <1>1, JobTenantStays
<1>4. \A p \in Projects, u \in Users : members[p][u].tbUser # None =>
        Owned(members[p][u].tbUser, p, u)
  BY DEF IsoInv, RowsIso
<1>5. \A p \in Projects, u \in Users : \A b \in {members[p][u].tbUser} : b # None =>
        tbUsers'[b].tenant = tbUsers[b].tenant /\ (UserLive(b)' => UserLive(b))
  BY <1>4, ProjectsAssumption DEF Owned, MadeFor, EngineMoves, UserLive
<1>6. SharesTenant(g)'
  BY <1>1, <1>5 DEF TenantInv, SharesTenant
<1>7. LeftoversInert(g)'
  BY <1>1, <1>5, ProjectsAssumption DEF TenantInv, LeftoversInert, Row, UserLive
<1> QED
  BY <1>2, <1>6, <1>7 DEF TenantInv

\* Steps of one handler that leave the engine alone.
LEMMA TenantGoto ==
  ASSUME NEW g \in Projects, TenantInv(g), IsoInv, LifeInv, UNCHANGED <<projects, members, tb>>,
         NEW t \in Threads, NEW jj, Goto(t, jj), JobTenant(g, jj)
  PROVE  TenantInv(g)'
<1>1. jobs'[t] = jj /\ \A x \in Threads \ {t} : jobs'[x] = jobs[x]
  BY DEF Goto, IsoInv, TypeInv, TypeOK
<1>2. UsersOfLive'
  BY DEF TenantInv, UsersOfLive, TenantLive, tb
<1>3. JobTenant(g, jobs[t])'
  BY <1>1 DEF JobTenant, TenantLive, Exists, tb
<1> QED
  BY <1>1, <1>2, <1>3, EngineUnchanged, TenantMove

LEMMA TenantArrive ==
  ASSUME NEW g \in Projects, TenantInv(g), IsoInv, LifeInv, NEW t \in Threads, Arrive(t)
  PROVE  TenantInv(g)'
<1>1. UNCHANGED <<projects, members, tb>>
  BY DEF Arrive, BeginCreate, BeginRetry, BeginDelete, BeginApprove, BeginRemove,
         BeginAccept, BeginLogin, db
<1>2. ASSUME NEW p \in Projects, NEW u \in Users, BeginCreate(t, p, u) PROVE TenantInv(g)'
  <2>1. PICK n \in 1 .. MaxSlug :
          Begin(t, [Request("create", "flush", p, u) EXCEPT !.proj.slug = n])
    BY <1>2 DEF BeginCreate
  <2> DEFINE jj == [Request("create", "flush", p, u) EXCEPT !.proj.slug = n]
  <2>2. jj.op = "create" /\ jj.tbUser = None
    BY DEF Request
  <2> HIDE DEF jj
  <2>3. JobTenant(g, jj)
    BY <2>2 DEF JobTenant, Admissions
  <2> QED BY <1>1, <2>1, <2>2, <2>3, TenantGoto DEF Begin, Goto, jj
<1>3. ASSUME NEW p \in Projects, NEW u \in Users, BeginRetry(t, p, u) PROVE TenantInv(g)'
  <2> DEFINE pc == IF projects[p].tenant = None THEN "tenant" ELSE "find"
             jj == Request("retry", pc, p, u)
  <2>1. Goto(t, jj) /\ Exists(p)
    BY <1>3 DEF BeginRetry, Begin, Goto
  <2> HIDE DEF pc
  <2>2. jj.op = "retry" /\ jj.tbUser = None /\ jj.project = p /\ jj.proj0 = projects[p]
    BY DEF Request
  <2> HIDE DEF jj
  <2>3. JobTenant(g, jj)
    BY <2>1, <2>2 DEF JobTenant, Admissions
  <2> QED BY <1>1, <2>1, <2>2, <2>3, TenantGoto
<1>4. ASSUME NEW p \in Projects, NEW u \in Users, BeginDelete(t, p, u) PROVE TenantInv(g)'
  <2> DEFINE jj == Request("delete", "drop", p, u)
  <2>1. Goto(t, jj) /\ projects[p].state = "provisioned"
    BY <1>4 DEF BeginDelete, Begin, Goto, Entitled
  <2>2. Exists(p) /\ projects[p].tenant # None
    BY <2>1 DEF LifeInv, ProvisionedIsUsable, Exists
  <2>3. /\ jj.op = "delete" /\ jj.tbUser = None /\ jj.project = p /\ jj.proj = projects[p]
        /\ jj.pc = "drop"
    BY DEF Request
  <2> HIDE DEF jj
  <2>4. JobTenant(g, jj)
    BY <2>2, <2>3 DEF JobTenant
  <2> QED BY <1>1, <2>1, <2>3, <2>4, TenantGoto
<1>5. ASSUME NEW p \in Projects, NEW u \in Users, BeginRemove(t, p, u) PROVE TenantInv(g)'
  <2> DEFINE pc == IF members[p][u].tbUser = None THEN "erase" ELSE "dropuser"
             jj == Request("remove", pc, p, u)
  <2>1. Goto(t, jj)
    BY <1>5 DEF BeginRemove, Begin, Goto
  <2>2. jj.op = "remove" /\ jj.tbUser = None
    BY DEF Request
  <2> HIDE DEF jj
  <2>3. JobTenant(g, jj)
    BY <2>2 DEF JobTenant, Admissions
  <2> QED BY <1>1, <2>1, <2>2, <2>3, TenantGoto
<1>6. ASSUME NEW op \in Admissions, NEW u, NEW K, Begin(t, Admission(op, u, K))
      PROVE  TenantInv(g)'
  <2> DEFINE jj == Admission(op, u, K)
  <2>1. jj.op = op /\ jj.tbUser = None /\ jj.pc = "next"
    BY DEF Admission, Idle
  <2>2. Goto(t, jj)
    BY <1>6 DEF Begin, Goto
  <2> HIDE DEF jj
  <2>3. JobTenant(g, jj)
    BY <2>1 DEF JobTenant, Admissions
  <2> QED BY <1>1, <2>1, <2>2, <2>3, TenantGoto DEF Admissions
<1>7. ASSUME NEW u \in Users,
             BeginAccept(t, u) \/ BeginLogin(t, u) \/ \E p \in Projects : BeginApprove(t, p, u)
      PROVE  TenantInv(g)'
  BY <1>6, <1>7 DEF BeginAccept, BeginLogin, BeginApprove, Admissions
<1> QED
  BY <1>2, <1>3, <1>4, <1>5, <1>7 DEF Arrive

\* A handler that keeps its request and its session keeps what it knows.
LEMMA JobTenantLocals ==
  ASSUME NEW g, NEW j, NEW jj, JobTenant(g, j), jj.op = j.op, jj.project = j.project, jj.proj0 = j.proj0,
         jj.gone = j.gone, jj.proj = j.proj, j.pc # "next" \/ jj.pc = "next",
         jj.tbUser = j.tbUser \/ (jj.tbUser # None => tbUsers[jj.tbUser].tenant = j.proj.tenant),
         j.op = "delete" => (jj.pc = "erase" => j.pc = "erase" \/ ~TenantLive(j.proj.tenant))
  PROVE  JobTenant(g, jj)
  BY DEF JobTenant

\* The steps that move one handler and write no row of the portal.
LEMMA TenantCalls ==
  ASSUME NEW g \in Projects, TenantInv(g), IsoInv, LifeInv, AddressInv, NEW t \in Threads,
         \/ FlushInsert(t) \/ SaveTenant(t) \/ FindUser(t) \/ SaveUser(t) \/ StarterDashboard(t)
         \/ TbFails(t) \/ DropTenant(t) \/ NextTicket(t) \/ DropUser(t)
         \/ EndAdmission(t) \/ Abort(t)
  PROVE  TenantInv(g)'
<1> DEFINE j == jobs[t]
<1>0. /\ TypeOK /\ j \in Job /\ JobIso(j) /\ JobLife(t, j) /\ PcLife(j) /\ JobTenant(g, j) /\ j.op \in Ops
      /\ j.proj \in ProjectRow /\ None \notin Tenants
  BY ProjectsAssumption DEF IsoInv, TypeInv, TypeOK, LifeInv, JobLife, TenantInv, Job
<1>i. /\ Idle.op = "idle" /\ JobTenant(g, Idle)
  BY DEF Idle, JobTenant, Admissions
<1>e. ASSUME End(t), UNCHANGED <<projects, members, tb>> PROVE TenantInv(g)'
  BY <1>e, <1>i, TenantGoto DEF End
<1>pc. \A pc : LET jj == [j EXCEPT !.pc = pc] IN
         /\ jj.op = j.op /\ jj.project = j.project /\ jj.proj0 = j.proj0 /\ jj.gone = j.gone
         /\ jj.proj = j.proj /\ jj.tbUser = j.tbUser /\ jj.pc = pc
  BY <1>0 DEF Job
<1>go. ASSUME NEW pc, Goto(t, [j EXCEPT !.pc = pc]), UNCHANGED <<projects, members, tb>>,
              j.pc # "next", j.op = "delete" => pc # "erase"
       PROVE  TenantInv(g)'
  <2> DEFINE jj == [j EXCEPT !.pc = pc]
  <2>1. /\ jj.op = j.op /\ jj.project = j.project /\ jj.proj0 = j.proj0 /\ jj.gone = j.gone
        /\ jj.proj = j.proj /\ jj.tbUser = j.tbUser /\ jj.pc = pc
    BY <1>pc
  <2>2. Goto(t, jj)
    BY <1>go
  <2> HIDE DEF jj
  <2>3. JobTenant(g, jj)
    BY <1>0, <1>go, <2>1, JobTenantLocals
  <2> QED BY <1>0, <1>go, <2>1, <2>2, <2>3, TenantGoto
<1>gu. \A b : LET jj == GotUser(j, b) IN
         /\ jj.op = j.op /\ jj.project = j.project /\ jj.proj0 = j.proj0 /\ jj.gone = j.gone
         /\ jj.proj = j.proj /\ jj.tbUser = b /\ jj.pc \in {"dash", "commit"}
  BY <1>0 DEF Job, GotUser
<1>1. CASE FlushInsert(t)
  <2>1. UNCHANGED <<projects, members, tb>> /\ (End(t) \/ Goto(t, [j EXCEPT !.pc = "tenant"]))
        /\ j.pc # "next"
    BY <1>1 DEF FlushInsert, db, At
  <2> QED BY <2>1, <1>e, <1>go
<1>2. CASE StarterDashboard(t)
  <2>1. UNCHANGED <<projects, members, tb>> /\ Goto(t, [j EXCEPT !.pc = "commit"])
        /\ j.pc # "next"
    BY <1>2 DEF StarterDashboard, db, At
  <2> QED BY <2>1, <1>go
<1>3. CASE TbFails(t)
  <2>1. UNCHANGED <<projects, members, tb>> /\ (End(t) \/ Goto(t, [j EXCEPT !.pc = "giveup"]))
        /\ j.pc # "next"
    BY <1>3 DEF TbFails, db
  <2> QED BY <2>1, <1>e, <1>go
<1>4. CASE EndAdmission(t) \/ Abort(t)
  <2>1. UNCHANGED <<projects, members, tb>> /\ End(t)
    BY <1>4 DEF EndAdmission, Abort, db, tb
  <2> QED BY <2>1, <1>e
<1>5. CASE FindUser(t)
  <2>1. UNCHANGED <<projects, members, tb>> /\ j.pc = "find"
    BY <1>5 DEF FindUser, db, At
  <2>2. \/ Goto(t, [j EXCEPT !.pc = "save"])
        \/ \E b \in TbUsers : tbUsers[b].tenant = j.proj.tenant /\ Goto(t, GotUser(j, b))
    BY <1>5 DEF FindUser
  <2>3. ASSUME NEW b \in TbUsers, tbUsers[b].tenant = j.proj.tenant, Goto(t, GotUser(j, b))
        PROVE  TenantInv(g)'
    <3>1. JobTenant(g, GotUser(j, b))
      BY <1>0, <1>gu, <2>1, <2>3, JobTenantLocals
    <3> QED BY <1>0, <1>gu, <2>1, <2>3, <3>1, TenantGoto
  <2> QED BY <2>1, <2>2, <2>3, <1>go
<1>6. CASE NextTicket(t)
  <2>1. UNCHANGED <<projects, members, tb>> /\ j.pc = "next"
    BY <1>6 DEF NextTicket, At, db, tb
  <2>2. PICK k \in j.todo :
          LET p == tickets[k].project
              rest == [j EXCEPT !.todo = @ \ {k}]
              Open == IF j.op = "login" THEN projects[p].state = "provisioned" ELSE Exists(p)
          IN \/ Goto(t, rest)
             \/ Open /\ Goto(t, [rest EXCEPT !.pc = "find", !.now = {k}, !.project = p,
                            !.proj0 = projects[p], !.proj = projects[p],
                            !.mem0 = members[p][j.user], !.gone = FALSE])
    BY <1>6 DEF NextTicket
  <2> DEFINE p == tickets[k].project
             rest == [j EXCEPT !.todo = @ \ {k}]
             go == [rest EXCEPT !.pc = "find", !.now = {k}, !.project = p,
                      !.proj0 = projects[p], !.proj = projects[p],
                      !.mem0 = members[p][j.user], !.gone = FALSE]
  <2>3. j.tbUser = None /\ j.op \in Admissions
    BY <1>0, <2>1, Places DEF JobIso
  <2>4. /\ rest.op = j.op /\ rest.project = j.project /\ rest.proj0 = j.proj0 /\ rest.gone = j.gone
        /\ rest.proj = j.proj /\ rest.tbUser = j.tbUser /\ rest.pc = j.pc /\ rest \in Job
    BY <1>0 DEF Job
  <2>5. go.op = j.op /\ go.project = p /\ go.proj = projects[p] /\ go.tbUser = None
    <3> HIDE DEF rest
    <3> QED BY <2>3, <2>4 DEF Job
  <2>6. Goto(t, rest) \/ (Exists(p) /\ Goto(t, go))
    BY <2>2 DEF Exists
  <2> HIDE DEF rest, go
  <2>7. JobTenant(g, rest)
    BY <1>0, <2>4, JobTenantLocals
  <2>8. Exists(p) => JobTenant(g, go)
    BY <2>3, <2>5 DEF JobTenant, Admissions
  <2> QED BY <2>1, <2>3, <2>4, <2>5, <2>6, <2>7, <2>8, TenantGoto DEF Admissions
<1>7. CASE SaveTenant(t)
  <2>1. UNCHANGED <<projects, members, tbUsers>> /\ j.pc = "tenant"
    BY <1>7 DEF SaveTenant, At, db
  <2>2. PICK T \in FreshTenants :
          /\ tenants' = [tenants EXCEPT ![T] = [project |-> j.project, live |-> TRUE]]
          /\ Goto(t, [j EXCEPT !.proj.tenant = T, !.pc = "find"]) \/ UNCHANGED jobs
    BY <1>7 DEF SaveTenant, AnswerLost
  <2>3. /\ T \in Tenants /\ tenants[T].project = None /\ tenants'[T].live
        /\ \A S \in Tenants \ {T} : tenants'[S] = tenants[S]
    BY <1>0, <2>2 DEF FreshTenants, TypeOK
  <2>4. EngineMoves
    BY <2>1, <2>3 DEF EngineMoves, TenantLive
  <2>5. UsersOfLive'
    BY <2>1, <2>3 DEF TenantInv, UsersOfLive, TenantLive
  <2>6. Provisioning(j) /\ j.proj.tenant = None
    BY <1>0, <2>1, Places DEF PcLife
  <2>7. j.tbUser = None
    BY <1>0, <2>6 DEF JobTenant, JobIso, Owned, MadeFor
  <2> DEFINE jj == [j EXCEPT !.proj.tenant = T, !.pc = "find"]
  <2>8. /\ jj.op = j.op /\ jj.project = j.project /\ jj.proj0 = j.proj0 /\ jj.tbUser = j.tbUser
        /\ jj.gone = j.gone
    BY <1>0 DEF Job
  <2>9. CASE Goto(t, jj)
    <3>1. jobs'[t] = jj /\ \A x \in Threads \ {t} : jobs'[x] = jobs[x]
      BY <1>0, <2>9 DEF Goto, TypeOK
    <3> HIDE DEF jj
    <3>2. JobTenant(g, jobs[t])'
      BY <1>0, <2>1, <2>6, <2>7, <2>8, <3>1 DEF JobTenant, Provisioning, Admissions, Exists
    <3> QED BY <1>0, <2>1, <2>4, <2>5, <2>8, <3>1, <3>2, TenantMove
  <2>10. CASE UNCHANGED jobs
    <3>1. JobTenant(g, jobs[t])'
      BY <2>1, <2>4, <2>10, JobTenantStays DEF Exists
    <3> QED BY <1>0, <2>1, <2>4, <2>5, <2>10, <3>1, TenantMove
  <2> QED BY <2>2, <2>9, <2>10
<1>8. CASE SaveUser(t)
  <2>1. UNCHANGED <<projects, members, tenants>> /\ j.pc = "save"
    BY <1>8 DEF SaveUser, At, db
  <2>2. TenantLive(j.proj.tenant)
    BY <1>8, <2>1 DEF SaveUser, Refused
  <2>3. PICK b \in FreshTbUsers :
          /\ tbUsers' = [tbUsers EXCEPT ![b] =
               [tenant |-> j.proj.tenant, slug |-> j.proj.slug, user |-> j.user, live |-> TRUE]]
          /\ Goto(t, GotUser(j, b)) \/ UNCHANGED jobs
    BY <1>8 DEF SaveUser, AnswerLost
  <2>4. /\ b \in TbUsers /\ tbUsers[b].tenant = None /\ tbUsers'[b].tenant = j.proj.tenant
        /\ \A a \in TbUsers \ {b} : tbUsers'[a] = tbUsers[a]
    BY <1>0, <2>3 DEF FreshTbUsers, TypeOK
  <2>5. EngineMoves
    BY <2>1, <2>4 DEF EngineMoves, TenantLive
  <2>6. UsersOfLive'
    BY <2>1, <2>2, <2>4 DEF TenantInv, UsersOfLive, TenantLive
  <2>7. CASE Goto(t, GotUser(j, b))
    <3>1. jobs'[t] = GotUser(j, b) /\ \A x \in Threads \ {t} : jobs'[x] = jobs[x]
      BY <1>0, <2>7 DEF Goto, TypeOK
    <3>2. JobTenant(g, jobs[t])'
      <4>1. Provisioning(j) \/ j.op \in Admissions
        BY <1>0, <2>1, Places
      <4> QED BY <1>0, <1>gu, <2>1, <2>2, <2>4, <3>1, <4>1
              DEF JobTenant, Provisioning, Admissions, Exists, TenantLive
    <3> QED BY <1>0, <1>gu, <2>1, <2>5, <2>6, <3>1, <3>2, TenantMove
  <2>8. CASE UNCHANGED jobs
    <3>1. JobTenant(g, jobs[t])'
      BY <2>1, <2>5, <2>8, JobTenantStays DEF Exists
    <3> QED BY <1>0, <2>1, <2>5, <2>6, <2>8, <3>1, TenantMove
  <2> QED BY <2>3, <2>7, <2>8
<1>9. CASE DropTenant(t)
  <2>1. UNCHANGED <<projects, members>> /\ j.pc = "drop"
    BY <1>9 DEF DropTenant, At, db
  <2>2. /\ KillTenant(j.proj.tenant)
        /\ Goto(t, [j EXCEPT !.pc = "erase"]) \/ UNCHANGED jobs
    BY <1>9 DEF DropTenant, AnswerLost
  <2>3. j.op = "delete" /\ j.proj.tenant \in Tenants
    <3>1. j.op = "delete"
      BY <1>0, <2>1, Places
    <3> QED BY <1>0, <3>1 DEF JobTenant, ProjectRow
  <2>4. /\ \A T \in Tenants : tenants'[T].live => tenants[T].live /\ T # j.proj.tenant
        /\ \A T \in Tenants \ {j.proj.tenant} : tenants'[T] = tenants[T]
        /\ \A b \in TbUsers : /\ tbUsers'[b].tenant = tbUsers[b].tenant
                              /\ tbUsers'[b].live => tbUsers[b].live /\ tbUsers[b].tenant # j.proj.tenant
    BY <1>0, <2>2, <2>3 DEF KillTenant, TypeOK, TenantRow, TbUserRow
  <2>5. EngineMoves
    BY <2>4 DEF EngineMoves, TenantLive
  <2>6. UsersOfLive'
    BY <2>4 DEF TenantInv, UsersOfLive, TenantLive
  <2>7. CASE Goto(t, [j EXCEPT !.pc = "erase"])
    <3> DEFINE jj == [j EXCEPT !.pc = "erase"]
    <3>1. jobs'[t] = jj /\ \A x \in Threads \ {t} : jobs'[x] = jobs[x]
      BY <1>0, <2>7 DEF Goto, TypeOK
    <3>2. /\ jj.op = j.op /\ jj.project = j.project /\ jj.proj = j.proj /\ jj.tbUser = j.tbUser
      BY <1>pc
    <3> HIDE DEF jj
    <3>3. j.tbUser # None => tbUsers'[j.tbUser].tenant = j.proj.tenant
      BY <1>0, <2>4 DEF JobTenant, JobIso, Owned
    <3>4. ~TenantLive(jobs[t].proj.tenant)'
      BY <2>3, <2>4, <3>1, <3>2 DEF TenantLive
    <3>5. jj.project = g /\ Exists(g)' => jj.proj.tenant = projects'[g].tenant
      BY <1>0, <2>1, <2>3, <3>1, <3>2 DEF JobTenant, Exists
    <3>6. JobTenant(g, jobs[t])'
      BY <2>3, <3>1, <3>2, <3>3, <3>4, <3>5, <1>0 DEF JobTenant, Admissions
    <3> QED BY <2>1, <2>3, <2>5, <2>6, <3>1, <3>2, <3>6, TenantMove
  <2>8. CASE UNCHANGED jobs
    <3>1. JobTenant(g, jobs[t])'
      BY <2>1, <2>5, <2>8, JobTenantStays DEF Exists
    <3> QED BY <1>0, <2>1, <2>5, <2>6, <2>8, <3>1, TenantMove
  <2> QED BY <2>2, <2>7, <2>8
<1>10. CASE DropUser(t)
  <2>1. /\ UNCHANGED <<projects, members, tenants>> /\ j.pc = "dropuser"
        /\ Goto(t, [j EXCEPT !.pc = "erase"])
    BY <1>10 DEF DropUser, At, db
  <2>2. j.op = "remove"
    BY <1>0, <2>1, Places
  <2>3. \A b \in TbUsers : /\ tbUsers'[b].tenant = tbUsers[b].tenant
                           /\ tbUsers'[b].live => tbUsers[b].live
    BY <1>0, <1>10 DEF DropUser, TypeOK, TbUserRow
  <2>4. EngineMoves /\ UsersOfLive'
    BY <2>1, <2>3 DEF EngineMoves, TenantLive, TenantInv, UsersOfLive
  <2>5. jobs'[t] = [j EXCEPT !.pc = "erase"] /\ \A x \in Threads \ {t} : jobs'[x] = jobs[x]
    BY <1>0, <2>1 DEF Goto, TypeOK
  <2>6. JobTenant(g, jobs[t])'
    <3>1. jobs'[t].tbUser # None => tbUsers'[jobs'[t].tbUser].tenant = jobs'[t].proj.tenant
      BY <1>0, <1>pc, <2>3, <2>5 DEF JobTenant, JobIso, Owned
    <3> QED BY <1>pc, <2>2, <2>5, <3>1 DEF JobTenant, Admissions
  <2>7. jobs'[t].op = "remove"
    BY <1>pc, <2>2, <2>5
  <2> QED BY <2>1, <2>4, <2>5, <2>6, <2>7, TenantMove
<1> QED
  BY <1>1, <1>2, <1>3, <1>4, <1>5, <1>6, <1>7, <1>8, <1>9, <1>10

\* Steps that write rows: the engine rests, and every handler but the one that
\* moves works on.
LEMMA TenantWrite ==
  ASSUME NEW g \in Projects, TenantInv(g), IsoInv, LifeInv, UNCHANGED tb,
         \A x \in Threads :
           \/ JobTenant(g, jobs[x])'
           \/ /\ jobs'[x] = jobs[x] \/ jobs'[x] = [jobs[x] EXCEPT !.gone = TRUE]
              /\ jobs[x].project = g =>
                   (Exists(g)' <=> Exists(g)) /\ projects'[g].tenant = projects[g].tenant,
         SharesTenant(g)', LeftoversInert(g)'
  PROVE  TenantInv(g)'
<1>1. ASSUME NEW x \in Threads PROVE JobTenant(g, jobs[x])'
  BY EngineUnchanged, JobTenantStays
<1>2. UsersOfLive'
  BY DEF TenantInv, UsersOfLive, TenantLive, tb
<1> QED
  BY <1>1, <1>2 DEF TenantInv

LEMMA IdleTenant == ASSUME NEW g PROVE JobTenant(g, Idle) /\ Idle.op = "idle" /\ Idle.tbUser = None
  BY DEF Idle, JobTenant, Admissions

\* The account of a membership row of the project.
LEMMA RowAccount ==
  ASSUME NEW g \in Projects, TenantInv(g), IsoInv, LifeInv, NEW u \in Users
  PROVE  LET b == members[g][u].tbUser IN
         /\ b # None => Owned(b, g, u) /\ Row(g, u)
         /\ b # None /\ Exists(g) => tbUsers[b].tenant = projects[g].tenant
         /\ ~Exists(g) => ~UserLive(b)
<1>1. None \notin TbUsers
  BY ProjectsAssumption
<1> QED
  BY <1>1 DEF TenantInv, SharesTenant, LeftoversInert, IsoInv, RowsIso, LifeInv, RowsLife, NoMember,
       UserLive

\* The rows of another project are written, or of this one only a status.
LEMMA TenantElsewhere ==
  ASSUME NEW g \in Projects, TenantInv(g), IsoInv, LifeInv, UNCHANGED tb,
         projects'[g] = projects[g],
         \A u \in Users : /\ members'[g][u].tbUser = members[g][u].tbUser
                          /\ members'[g][u].role = members[g][u].role,
         \A x \in Threads : \/ JobTenant(g, jobs[x])'
                            \/ jobs'[x] = jobs[x]
                            \/ jobs'[x] = [jobs[x] EXCEPT !.gone = TRUE]
  PROVE  TenantInv(g)'
<1>1. Exists(g)' <=> Exists(g)
  BY DEF Exists
<1>2. SharesTenant(g)' /\ LeftoversInert(g)'
  BY <1>1 DEF TenantInv, SharesTenant, LeftoversInert, Row, UserLive, tb
<1> QED
  BY <1>1, <1>2, TenantWrite

LEMMA TenantCommitCreate ==
  ASSUME NEW g \in Projects, TenantInv(g), IsoInv, LifeInv, NEW t \in Threads, CommitCreate(t)
  PROVE  TenantInv(g)'
<1> DEFINE j == jobs[t]
           owner == [role |-> "owner", status |-> "active",
                     tbUser |-> IF j.pc = "commit" THEN j.tbUser ELSE None]
<1>0. /\ TypeOK /\ j \in Job /\ JobLife(t, j) /\ JobIso(j) /\ JobTenant(g, j) /\ j.op = "create"
      /\ j.pc \in {"commit", "giveup"} /\ UNCHANGED tb
      /\ jobs'[t] = Idle /\ \A x \in Threads \ {t} : jobs'[x] = jobs[x]
  BY DEF LifeInv, IsoInv, TypeInv, TypeOK, TenantInv, CommitCreate, End, Goto
<1>i. JobTenant(g, jobs[t])'
  BY <1>0, IdleTenant DEF JobTenant, Admissions
<1> SUFFICES ASSUME NEW p, NEW u, p = j.project, u = j.user PROVE TenantInv(g)'
  OBVIOUS
<1>1. p \in Projects /\ u \in Users /\ ~Founded(p)
  BY <1>0 DEF JobIso, JobLife, CreateLife, Founded
<1>2. /\ projects'[p].tenant = j.proj.tenant /\ projects'[p].state # "none"
      /\ \A q \in Projects \ {p} : projects'[q] = projects[q]
  BY <1>0, <1>1 DEF CommitCreate, Outcome, TypeOK, Job, ProjectRow
<1>3. /\ members'[p][u] = owner /\ owner.tbUser \in {None, j.tbUser}
      /\ \A q \in Projects, v \in Users : ~(q = p /\ v = u) => members'[q][v] = members[q][v]
  BY <1>0, <1>1 DEF CommitCreate, TypeOK
<1> HIDE DEF owner
<1>4. CASE p # g
  BY <1>0, <1>i, <1>2, <1>3, <1>4, TenantElsewhere
<1>5. CASE p = g
  <2>1. \A v \in Users : members[g][v] = NoMember
    BY <1>1, <1>5 DEF LifeInv, RowsLife
  <2>2. SharesTenant(g)'
    <3>1. ASSUME NEW v \in Users, members'[g][v].tbUser # None
          PROVE  tbUsers'[members'[g][v].tbUser].tenant = projects'[g].tenant
      <4>1. v = u
        BY <1>3, <1>5, <2>1, <3>1 DEF NoMember
      <4> QED BY <1>0, <1>2, <1>3, <1>5, <3>1, <4>1 DEF JobTenant, tb
    <3> QED BY <3>1 DEF SharesTenant
  <2>3. LeftoversInert(g)'
    BY <1>2, <1>5 DEF LeftoversInert, Exists
  <2>4. ASSUME NEW x \in Threads \ {t}
        PROVE  JobTenant(g, jobs[x])' \/ (jobs'[x] = jobs[x] /\ jobs[x].project # g)
    <3>1. /\ JobTenant(g, jobs[x]) /\ jobs[x].op \in Ops /\ PcLife(jobs[x]) /\ JobIso(jobs[x])
          /\ JobLife(x, jobs[x]) /\ jobs'[x] = jobs[x]
      BY <1>0 DEF TenantInv, IsoInv, TypeInv, TypeOK, Job, LifeInv, JobLife
    <3>2. CASE jobs[x].op # "create" /\ jobs[x].pc \notin {"idle", "next"}
      BY <1>1, <1>5, <3>1, <3>2 DEF JobLife, HeldRow
    <3>3. CASE jobs[x].op = "create" \/ jobs[x].pc \in {"idle", "next"}
      <4>1. jobs[x].op \in {"create", "idle"} \/ (jobs[x].op \in Admissions /\ jobs[x].pc = "next")
        BY <3>1, <3>3, Places
      <4> QED BY <1>0, <3>1, <4>1 DEF JobTenant, Admissions, tb
    <3> QED BY <3>2, <3>3
  <2> QED BY <1>0, <1>i, <2>2, <2>3, <2>4, TenantWrite
<1> QED
  BY <1>4, <1>5

\* Here the hypothesis is needed: two retries that both made a tenant would each
\* write its own over the other's.
LEMMA TenantCommitRetry ==
  ASSUME NEW g \in Projects, TenantInv(g), IsoInv, LifeInv, OneMaker(g),
         NEW t \in Threads, CommitRetry(t)
  PROVE  TenantInv(g)'
<1> DEFINE j == jobs[t]
           mem == IF j.pc = "commit" THEN [j.mem0 EXCEPT !.tbUser = j.tbUser] ELSE j.mem0
<1>0. /\ TypeOK /\ j \in Job /\ JobLife(t, j) /\ JobIso(j) /\ JobTenant(g, j) /\ j.op = "retry"
      /\ j.pc \in {"commit", "giveup"} /\ UNCHANGED tb /\ Goto(t, Idle)
      /\ jobs'[t] = Idle /\ \A x \in Threads \ {t} : jobs'[x] = jobs[x]
  BY DEF LifeInv, IsoInv, TypeInv, TypeOK, TenantInv, CommitRetry, End, Goto
<1>i. JobTenant(g, jobs[t])'
  BY <1>0, IdleTenant DEF JobTenant, Admissions
<1> SUFFICES ASSUME NEW p, NEW u, p = j.project, u = j.user PROVE TenantInv(g)'
  OBVIOUS
<1>1. /\ p \in Projects /\ u \in Users /\ HeldProject(j) /\ PcLife(j) /\ None \notin Tenants
  BY <1>0, ProjectsAssumption DEF JobIso, JobLife
<1>2. CASE UNCHANGED <<projects, members>>
  BY <1>0, <1>2, IdleTenant, TenantGoto
<1>3. CASE /\ projects' = [projects EXCEPT ![p] = NetProject(p, j.proj0, Outcome(j))] \/ UNCHANGED projects
           /\ members' = [members EXCEPT ![p][u] = NetMember(p, u, j.mem0, mem)] \/ UNCHANGED members
           /\ p # g
  <2>1. projects'[g] = projects[g] /\ members'[g] = members[g]
    BY <1>0, <1>3 DEF TypeOK
  <2> QED BY <1>0, <1>i, <2>1, TenantElsewhere
<1>4. CASE /\ Exists(p)
           /\ projects' = [projects EXCEPT ![p] = NetProject(p, j.proj0, Outcome(j))]
           /\ \/ UNCHANGED members
              \/ members' = [members EXCEPT ![p][u] = NetMember(p, u, j.mem0, mem)]
           /\ p = g
  <2>1. projects[g].tenant = j.proj0.tenant /\ j.proj0.tenant \in {None, j.proj.tenant}
    BY <1>0, <1>1, <1>4 DEF JobTenant, HeldProject
  <2>2. projects'[g] = NetProject(g, j.proj0, Outcome(j))
    BY <1>0, <1>1, <1>4 DEF TypeOK
  <2>3. Outcome(j).tenant = j.proj.tenant /\ Outcome(j).state # "none"
    BY <1>0 DEF Outcome, Job, ProjectRow
  <2>4. projects'[g].tenant = j.proj.tenant /\ Exists(g)'
    BY <1>4, <2>1, <2>2, <2>3 DEF NetProject, Column, Exists
  <2>5. mem.tbUser \in {j.mem0.tbUser, j.tbUser} /\ (mem.tbUser # j.mem0.tbUser => mem.tbUser = j.tbUser)
    BY <1>0 DEF Job, MemberRow
  <2> HIDE DEF mem
  <2>6. /\ members'[g][u].tbUser \in {members[g][u].tbUser, j.tbUser}
        /\ \A v \in Users \ {u} : members'[g][v] = members[g][v]
    <3>1. CASE UNCHANGED members
      BY <3>1
    <3>2. CASE members' = [members EXCEPT ![p][u] = NetMember(p, u, j.mem0, mem)]
      <4>1. members'[g][u].tbUser = Column(members[g][u].tbUser, j.mem0.tbUser, mem.tbUser)
        BY <1>0, <1>1, <1>4, <3>2 DEF TypeOK, NetMember
      <4> QED BY <1>0, <1>1, <1>4, <2>5, <3>2, <4>1 DEF TypeOK, Column
    <3> QED BY <1>4, <3>1, <3>2
  <2>7. SharesTenant(g)'
    <3>1. ASSUME NEW v \in Users, members'[g][v].tbUser # None
          PROVE  tbUsers'[members'[g][v].tbUser].tenant = projects'[g].tenant
      <4>1. CASE members'[g][v].tbUser = members[g][v].tbUser
        <5>1. LET b == members[g][v].tbUser IN
              Owned(b, g, v) /\ tbUsers[b].tenant = projects[g].tenant
          BY <1>4, <3>1, <4>1, RowAccount
        <5>2. projects[g].tenant # None
          BY <1>1, <5>1 DEF Owned, MadeFor
        <5> QED BY <1>0, <2>1, <2>4, <4>1, <5>1, <5>2 DEF tb
      <4>2. CASE members'[g][v].tbUser = j.tbUser
        BY <1>0, <2>4, <3>1, <4>2 DEF JobTenant, tb
      <4> QED BY <2>6, <4>1, <4>2
    <3> QED BY <3>1 DEF SharesTenant
  <2>8. LeftoversInert(g)'
    BY <2>4 DEF LeftoversInert
  <2>9. ASSUME NEW x \in Threads \ {t}, jobs[x].project = g, projects'[g].tenant # projects[g].tenant
        PROVE  JobTenant(g, jobs[x])'
    <3>1. jobs'[x] = jobs[x] /\ JobTenant(g, jobs[x]) /\ PcLife(jobs[x])
      BY <1>0 DEF TenantInv, LifeInv, JobLife
    <3>2. projects[g].tenant = None /\ j.proj0.tenant = None
      BY <2>1, <2>4, <2>9
    <3>3. jobs[x].op # "retry"
      <4>1. MakesTenant(t, g)
        BY <1>0, <1>4, <3>2 DEF MakesTenant
      <4>2. jobs[x].op = "retry" => MakesTenant(x, g)
        BY <1>4, <2>9, <3>1, <3>2 DEF MakesTenant, JobTenant
      <4> QED BY <2>9, <4>1, <4>2 DEF OneMaker
    <3>4. jobs[x].op \in Admissions \cup {"delete"} /\ jobs[x].pc # "next" => jobs[x].proj.tenant = None
      BY <1>4, <2>9, <3>1, <3>2 DEF JobTenant
    <3>5. jobs[x].op # "delete"
      BY <3>1, <3>4 DEF JobTenant, PcLife
    <3> QED BY <1>0, <3>1, <3>3, <3>4, <3>5 DEF JobTenant, tb
  <2>10. \A x \in Threads \ {t} :
           \/ JobTenant(g, jobs[x])'
           \/ /\ jobs'[x] = jobs[x]
              /\ jobs[x].project = g =>
                   (Exists(g)' <=> Exists(g)) /\ projects'[g].tenant = projects[g].tenant
    BY <1>0, <1>4, <2>4, <2>9
  <2> QED BY <1>0, <1>i, <2>7, <2>8, <2>10, TenantWrite
<1>5. p = g => Exists(p) \/ j.gone
  BY <1>0 DEF JobTenant
<1>6. p # g =>
        /\ projects' = [projects EXCEPT ![p] = NetProject(p, j.proj0, Outcome(j))] \/ UNCHANGED projects
        /\ members' = [members EXCEPT ![p][u] = NetMember(p, u, j.mem0, mem)] \/ UNCHANGED members
  BY DEF CommitRetry
<1>7. p = g =>
        \/ UNCHANGED <<projects, members>>
        \/ /\ Exists(p)
           /\ projects' = [projects EXCEPT ![p] = NetProject(p, j.proj0, Outcome(j))]
           /\ \/ UNCHANGED members
              \/ members' = [members EXCEPT ![p][u] = NetMember(p, u, j.mem0, mem)]
  BY <1>5 DEF CommitRetry
<1> HIDE DEF mem
<1> QED
  BY <1>2, <1>3, <1>4, <1>6, <1>7

LEMMA TenantCommitAdd ==
  ASSUME NEW g \in Projects, TenantInv(g), IsoInv, LifeInv, NEW t \in Threads, CommitAdd(t)
  PROVE  TenantInv(g)'
<1> DEFINE j == jobs[t]
           mem == [role |-> IF j.mem0 = NoMember THEN "member" ELSE j.mem0.role,
                   status |-> "active", tbUser |-> j.tbUser]
           jj == [j EXCEPT !.pc = "next", !.done = j.now, !.now = {},
                    !.project = None, !.proj0 = NoProject, !.proj = NoProject,
                    !.mem0 = NoMember, !.gone = FALSE, !.tbUser = None]
<1>0. /\ TypeOK /\ j \in Job /\ JobLife(t, j) /\ JobIso(j) /\ JobTenant(g, j) /\ PcLife(j)
      /\ j.op \in Admissions /\ j.pc = "commit" /\ UNCHANGED <<projects, tb>>
  BY DEF LifeInv, IsoInv, TypeInv, TypeOK, TenantInv, JobLife, CommitAdd, At, Admissions
<1> SUFFICES ASSUME NEW p, NEW u, p = j.project, u = j.user PROVE TenantInv(g)'
  OBVIOUS
<1>1. /\ p \in Projects /\ u \in Users /\ None \notin Tenants /\ None \notin TbUsers
      /\ Owned(j.tbUser, p, u) /\ tbUsers[j.tbUser].tenant = j.proj.tenant /\ j.proj.tenant # None
  <2>1. j.tbUser # None
    BY <1>0 DEF PcLife
  <2> QED BY <1>0, <2>1, ProjectsAssumption DEF JobIso, JobTenant, Owned, MadeFor
<1>2. p = g => /\ Exists(g) => tbUsers[j.tbUser].tenant = projects[g].tenant
               /\ ~Exists(g) => ~UserLive(j.tbUser)
  <2>1. p = g => IF Exists(g) THEN j.proj.tenant = projects[g].tenant ELSE ~TenantLive(j.proj.tenant)
    BY <1>0, <1>1 DEF JobTenant
  <2> QED BY <1>1, <2>1 DEF TenantInv, UsersOfLive, UserLive
<1>3. CASE End(t) /\ UNCHANGED members
  BY <1>0, <1>3, IdleTenant, TenantGoto DEF End
<1>4. CASE /\ \/ UNCHANGED members
              \/ members' = [members EXCEPT ![p][u] = NetMember(p, u, j.mem0, mem)]
           /\ Goto(t, jj)
  <2>1. jobs'[t] = jj /\ \A x \in Threads \ {t} : jobs'[x] = jobs[x]
    BY <1>0, <1>4 DEF Goto, TypeOK
  <2>2. jj.op = j.op /\ jj.pc = "next" /\ jj.tbUser = None
    BY <1>0 DEF Job
  <2>3. mem.tbUser = j.tbUser
    OBVIOUS
  <2> HIDE DEF jj, mem
  <2>4. /\ members'[p][u].tbUser \in {members[p][u].tbUser, j.tbUser}
        /\ \A q \in Projects, v \in Users : ~(q = p /\ v = u) => members'[q][v] = members[q][v]
    <3>1. CASE UNCHANGED members
      BY <3>1
    <3>2. CASE members' = [members EXCEPT ![p][u] = NetMember(p, u, j.mem0, mem)]
      <4>1. members'[p][u].tbUser = Column(members[p][u].tbUser, j.mem0.tbUser, mem.tbUser)
        BY <1>0, <1>1, <2>3, <3>2 DEF TypeOK, NetMember
      <4>2. \A q \in Projects, v \in Users : ~(q = p /\ v = u) => members'[q][v] = members[q][v]
        BY <1>0, <1>1, <3>2 DEF TypeOK
      <4>3. members'[p][u].tbUser \in {members[p][u].tbUser, j.tbUser}
        BY <2>3, <4>1 DEF Column
      <4> QED BY <4>2, <4>3
    <3> QED BY <1>4, <3>1, <3>2
  <2>5. \A v \in Users :
          \/ members'[g][v].tbUser = members[g][v].tbUser
          \/ g = p /\ members'[g][v].tbUser = j.tbUser
    BY <2>4
  <2>6. SharesTenant(g)'
    BY <1>0, <1>2, <2>5 DEF TenantInv, SharesTenant, Exists, tb
  <2>7. LeftoversInert(g)'
    <3>1. ASSUME NEW v \in Users, ~Exists(g)'
          PROVE  ~UserLive(members[g][v].tbUser)'
      <4>1. ~Exists(g)
        BY <1>0, <3>1 DEF Exists
      <4>2. \A b \in {members[g][v].tbUser} : ~UserLive(b)
        BY <4>1, RowAccount
      <4> QED BY <1>0, <1>2, <2>5, <4>1, <4>2 DEF UserLive, tb
    <3> QED BY <3>1 DEF LeftoversInert
  <2>8. JobTenant(g, jobs[t])'
    BY <1>0, <2>1, <2>2 DEF JobTenant, Admissions
  <2>9. (Exists(g)' <=> Exists(g)) /\ projects'[g].tenant = projects[g].tenant
    BY <1>0 DEF Exists
  <2> QED BY <1>0, <2>1, <2>6, <2>7, <2>8, <2>9, TenantWrite
<1> QED
  BY <1>0, <1>3, <1>4 DEF CommitAdd

LEMMA TenantErase ==
  ASSUME NEW g \in Projects, TenantInv(g), IsoInv, LifeInv, NEW t \in Threads, EraseProject(t)
  PROVE  TenantInv(g)'
<1> DEFINE j == jobs[t]
<1>0. /\ TypeOK /\ j \in Job /\ JobLife(t, j) /\ JobIso(j) /\ JobTenant(g, j)
      /\ j.op = "delete" /\ j.pc = "erase" /\ UNCHANGED tb
  BY DEF LifeInv, IsoInv, TypeInv, TypeOK, TenantInv, EraseProject, At
<1> SUFFICES ASSUME NEW p, p = j.project PROVE TenantInv(g)'
  OBVIOUS
<1>1. /\ p \in Projects /\ None \notin TbUsers
      /\ j.proj.tenant # None /\ ~TenantLive(j.proj.tenant)
      /\ p = g /\ Exists(g) => j.proj.tenant = projects[g].tenant
  BY <1>0, ProjectsAssumption DEF JobIso, JobTenant
<1>2. /\ projects'[p] = NoProject /\ \A q \in Projects \ {p} : projects'[q] = projects[q]
      /\ \A u \in Users : members'[p][u] = NoMember
      /\ \A q \in Projects \ {p} : members'[q] = members[q]
      /\ jobs'[t] = Idle
      /\ \A x \in Threads \ {t} :
           jobs'[x] = IF jobs[x].project = p /\ jobs[x].mem0 # NoMember
                      THEN [jobs[x] EXCEPT !.gone = TRUE] ELSE jobs[x]
  BY <1>0, <1>1 DEF EraseProject, EndDeleting, TypeOK
<1>i. JobTenant(g, jobs[t])'
  BY <1>2, IdleTenant DEF JobTenant, Admissions
<1>3. CASE p # g
  BY <1>0, <1>2, <1>i, <1>3, TenantElsewhere
<1>4. CASE p = g
  <2>1. ~Exists(g)' /\ SharesTenant(g)' /\ LeftoversInert(g)'
    BY <1>2, <1>4 DEF Exists, NoProject, SharesTenant, LeftoversInert, Row, NoMember
  <2>2. ASSUME NEW x \in Threads \ {t}, jobs[x].project = g
        PROVE  JobTenant(g, jobs[x])'
    <3> DEFINE i == jobs[x]
               ii == jobs'[x]
    <3>1. i \in Job /\ JobTenant(g, i) /\ JobLife(x, i) /\ PcLife(i)
      BY <1>0 DEF TypeOK, TenantInv, LifeInv, JobLife
    <3>2. /\ ii = i \/ ii = [i EXCEPT !.gone = TRUE]
          /\ i.mem0 # NoMember => ii.gone
          /\ ii.op = i.op /\ ii.pc = i.pc /\ ii.proj = i.proj /\ ii.tbUser = i.tbUser
      BY <1>2, <1>4, <2>2, <3>1 DEF Job
    <3>3. i.op = "retry" => i.mem0 # NoMember
      BY <3>1 DEF JobLife, PcLife, HeldRow
    <3>4. ii.tbUser # None => tbUsers'[ii.tbUser].tenant = ii.proj.tenant
      BY <1>0, <3>1, <3>2 DEF JobTenant, tb
    <3>5. i.op \in Admissions \cup {"delete"} /\ i.pc # "next" /\ i.proj.tenant # None =>
            ~TenantLive(i.proj.tenant)
      BY <1>1, <1>4, <2>2, <3>1 DEF JobTenant
    <3>6. \A T : TenantLive(T)' <=> TenantLive(T)
      BY <1>0 DEF TenantLive, tb
    <3> QED BY <2>1, <3>1, <3>2, <3>3, <3>4, <3>5, <3>6 DEF JobTenant, TenantLive
  <2>3. \A x \in Threads \ {t} : jobs[x].project # g => jobs'[x] = jobs[x]
    BY <1>2, <1>4
  <2> QED BY <1>0, <1>i, <2>1, <2>2, <2>3, TenantWrite
<1> QED
  BY <1>3, <1>4

LEMMA TenantEraseMember ==
  ASSUME NEW g \in Projects, TenantInv(g), IsoInv, LifeInv, NEW t \in Threads, EraseMember(t)
  PROVE  TenantInv(g)'
<1> DEFINE j == jobs[t]
<1>0. /\ TypeOK /\ j \in Job /\ JobIso(j) /\ j.op = "remove" /\ j.pc = "erase"
      /\ UNCHANGED <<projects, tb>> /\ None \notin TbUsers
  BY ProjectsAssumption DEF IsoInv, TypeInv, TypeOK, EraseMember, At
<1>1. j.project \in Projects /\ j.user \in Users
  BY <1>0 DEF JobIso
<1>2. /\ \A v \in Users : members'[g][v] = members[g][v] \/ members'[g][v] = NoMember
      /\ \A x \in Threads :
           jobs'[x] = Idle \/ jobs'[x] = jobs[x] \/ jobs'[x] = [jobs[x] EXCEPT !.gone = TRUE]
  <2>1. CASE j.gone
    BY <1>0, <2>1 DEF EraseMember, End, Goto, TypeOK
  <2>2. CASE ~j.gone
    <3>1. /\ members' = [members EXCEPT ![j.project][j.user] = NoMember]
          /\ EndDeleting(t, {x \in Threads : /\ jobs[x].project = j.project
                                             /\ jobs[x].user = j.user})
      BY <2>2 DEF EraseMember
    <3>2. \A v \in Users : members'[g][v] = members[g][v] \/ members'[g][v] = NoMember
      BY <1>0, <1>1, <3>1 DEF TypeOK
    <3>3. \A x \in Threads :
            jobs'[x] = Idle \/ jobs'[x] = jobs[x] \/ jobs'[x] = [jobs[x] EXCEPT !.gone = TRUE]
      BY <3>1 DEF EndDeleting
    <3> QED BY <3>2, <3>3
  <2> QED BY <2>1, <2>2
<1>3. SharesTenant(g)'
  BY <1>0, <1>2 DEF TenantInv, SharesTenant, Exists, NoMember, tb
<1>4. LeftoversInert(g)'
  BY <1>0, <1>2 DEF TenantInv, LeftoversInert, Exists, Row, NoMember, UserLive, tb
<1>5. \A x \in Threads : jobs'[x] = Idle => JobTenant(g, jobs[x])'
  BY IdleTenant DEF JobTenant, Admissions
<1>6. (Exists(g)' <=> Exists(g)) /\ projects'[g].tenant = projects[g].tenant
  BY <1>0 DEF Exists
<1> QED
  BY <1>0, <1>2, <1>3, <1>4, <1>5, <1>6, TenantWrite

LEMMA TenantManage ==
  ASSUME NEW g \in Projects, TenantInv(g), IsoInv, LifeInv, Manage
  PROVE  TenantInv(g)'
<1>1. UNCHANGED <<projects, tb, jobs>>
  BY DEF Manage, SetMemberStatus, CreateInvite, RequestToJoin, Deny, Issue
<1>2. \A v \in Users :
        members'[g][v].tbUser = members[g][v].tbUser /\ members'[g][v].role = members[g][v].role
  <2>1. \/ UNCHANGED members
        \/ \E q \in Projects, v \in Users, s \in {"active", "disabled"} :
             members' = [members EXCEPT ![q][v].status = s]
    BY DEF Manage, SetMemberStatus, CreateInvite, RequestToJoin, Deny, Issue
  <2>2. ASSUME NEW q \in Projects, NEW v \in Users, NEW s \in {"active", "disabled"},
               members' = [members EXCEPT ![q][v].status = s]
        PROVE  \A p \in Projects, u \in Users :
                 members'[p][u].tbUser = members[p][u].tbUser /\ members'[p][u].role = members[p][u].role
    <3>1. members' = [members EXCEPT ![q][v] = [members[q][v] EXCEPT !.status = s]]
      BY <2>2
    <3>2. /\ [members[q][v] EXCEPT !.status = s].tbUser = members[q][v].tbUser
          /\ [members[q][v] EXCEPT !.status = s].role = members[q][v].role
      BY DEF IsoInv, TypeInv, TypeOK, MemberRow
    <3> QED BY <3>1, <3>2 DEF IsoInv, TypeInv, TypeOK
  <2> QED BY <2>1, <2>2
<1> QED
  BY <1>1, <1>2, TenantElsewhere

LEMMA TenantNext ==
  ASSUME NEW g \in Projects
  PROVE  TenantInv(g) /\ AddressInv /\ LifeInv /\ IsoInv /\ OneMaker(g) /\ [Next]_vars => TenantInv(g)'
<1> SUFFICES ASSUME TenantInv(g), AddressInv, LifeInv, IsoInv, OneMaker(g), [Next]_vars
             PROVE  TenantInv(g)'
  OBVIOUS
<1>1. ASSUME NEW t \in Threads, Proceed(t) PROVE TenantInv(g)'
  <2>1. CASE \/ FlushInsert(t) \/ SaveTenant(t) \/ FindUser(t) \/ SaveUser(t) \/ StarterDashboard(t)
             \/ TbFails(t) \/ DropTenant(t) \/ NextTicket(t) \/ DropUser(t) \/ EndAdmission(t)
    BY <2>1, TenantCalls
  <2> QED
    BY <1>1, <2>1, TenantCommitCreate, TenantCommitRetry, TenantCommitAdd, TenantErase,
       TenantEraseMember DEF Proceed
<1>2. ASSUME NEW t \in Threads, Abort(t) PROVE TenantInv(g)'
  BY <1>2, TenantCalls
<1>3. CASE UNCHANGED vars
  BY <1>3, TenantElsewhere DEF vars, tb
<1> QED
  BY <1>1, <1>2, <1>3, TenantArrive, TenantManage DEF Next, Quiet

\* Whatever fails, is killed or runs at once, every account the members of a
\* project hold is in the tenant the project's row names, as long as no two
\* retries of this project make it a tenant at the same time.
THEOREM OneTenant == Spec => TornOnlyByMakers
<1>1. ASSUME NEW p \in Projects PROVE Spec => ([]OneMaker(p) => []SharesTenant(p))
  <2>1. TenantInv(p) => SharesTenant(p)
    BY DEF TenantInv
  <2>2. Init => TenantInv(p)
    BY TenantInit
  <2>3. TenantInv(p) /\ AddressInv /\ LifeInv /\ IsoInv /\ OneMaker(p) /\ [Next]_vars => TenantInv(p)'
    BY TenantNext
  <2> QED
    BY <2>1, <2>2, <2>3, AddressAlways, PTL DEF Spec
<1> QED
  BY <1>1 DEF TornOnlyByMakers

\* And a membership row that outlives its project opens nothing: the account it
\* names is dead, as long as no two retries of this project make it a tenant at
\* the same time.
THEOREM OrphansInert == Spec => LiveOnlyByMakers
<1>1. ASSUME NEW p \in Projects PROVE Spec => ([]OneMaker(p) => []LeftoversInert(p))
  <2>1. TenantInv(p) => LeftoversInert(p)
    BY DEF TenantInv
  <2>2. Init => TenantInv(p)
    BY TenantInit
  <2>3. TenantInv(p) /\ AddressInv /\ LifeInv /\ IsoInv /\ OneMaker(p) /\ [Next]_vars => TenantInv(p)'
    BY TenantNext
  <2> QED
    BY <2>1, <2>2, <2>3, AddressAlways, PTL DEF Spec
<1> QED
  BY <1>1 DEF LiveOnlyByMakers
=============================================================================
