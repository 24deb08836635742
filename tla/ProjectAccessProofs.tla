------------------------- MODULE ProjectAccessProofs -------------------------
(***************************************************************************)
(* Proof that the handlers of module Projects, however they interleave,    *)
(* fail or die, give and take access only as module ProjectAccess allows:  *)
(* every step of Projects is a step of ProjectAccess or changes nothing    *)
(* that ProjectAccess sees.                                                *)
(***************************************************************************)
EXTENDS ProjectsProofs

-----------------------------------------------------------------------------
(* The refinement mapping.                                                 *)

PhaseOf == [p \in Projects |-> Phase(p)]

AccessOf == [p \in Projects |-> [u \in Users |-> Access(p, u)]]

\* a ticket that lets its holder in
Given(k) == tickets[k] # NoTicket /\ Agreed(k) /\ Exists(tickets[k].project)

ConsentOf == {<<tickets[k].project, tickets[k].user>> : k \in {k \in Tickets : Given(k)}}

Seen == <<PhaseOf, AccessOf, ConsentOf>>

LEMMA SeenVars == Promise!accessVars = Seen
  BY DEF Promise!accessVars, Seen, PhaseOf, AccessOf, ConsentOf, Given

LEMMA SeenInit == Init => Promise!AccessInit
<1> SUFFICES ASSUME Init PROVE Promise!AccessInit
  OBVIOUS
<1>1. \A p \in Projects : ~Exists(p)
  BY DEF Init, Exists, NoProject
<1>2. \A p \in Projects : Phase(p) = "new"
  BY <1>1 DEF Init, Phase
<1>3. \A p \in Projects, u \in Users : Access(p, u) = "none"
  BY <1>1 DEF Access
<1>4. \A k \in Tickets : tickets[k] = NoTicket
  BY DEF Init
<1> QED
  BY <1>2, <1>3, <1>4 DEF Promise!AccessInit, Promise!Nobody

Simulated == Promise!AccessNext \/ UNCHANGED Seen

-----------------------------------------------------------------------------
(* Each action of ProjectAccess, read off the mapping.                     *)

LEMMA DoFound ==
  ASSUME NEW p \in Projects, NEW u \in Users, PhaseOf[p] = "new",
         PhaseOf' = [PhaseOf EXCEPT ![p] = "open"],
         AccessOf' = [AccessOf EXCEPT ![p] = [[v \in Users |-> "none"] EXCEPT ![u] = "owner"]],
         ConsentOf' = ConsentOf
  PROVE  Simulated
<1>1. Promise!Found(p, u)
  BY DEF Promise!Found, Promise!Nobody, PhaseOf, AccessOf, ConsentOf, Given
<1> QED
  BY <1>1 DEF Simulated, Promise!AccessNext

LEMMA DoClose ==
  ASSUME NEW p \in Projects, PhaseOf[p] # "closed",
         PhaseOf' = [PhaseOf EXCEPT ![p] = "closed"],
         AccessOf' = [AccessOf EXCEPT ![p] = [v \in Users |-> "none"]],
         ConsentOf' = {c \in ConsentOf : c[1] # p}
  PROVE  Simulated
<1>1. Promise!Close(p)
  BY DEF Promise!Close, Promise!Nobody, PhaseOf, AccessOf, ConsentOf, Given
<1> QED
  BY <1>1 DEF Simulated, Promise!AccessNext

LEMMA DoAgree ==
  ASSUME NEW p \in Projects, NEW u \in Users, PhaseOf[p] = "open",
         UNCHANGED <<PhaseOf, AccessOf>>, ConsentOf' = ConsentOf \cup {<<p, u>>}
  PROVE  Simulated
<1>1. Promise!Agree(p, u)
  BY DEF Promise!Agree, PhaseOf, AccessOf, ConsentOf, Given
<1> QED
  BY <1>1 DEF Simulated, Promise!AccessNext

LEMMA DoWithdraw ==
  ASSUME NEW p \in Projects, NEW u \in Users,
         UNCHANGED <<PhaseOf, AccessOf>>, ConsentOf' = ConsentOf \ {<<p, u>>}
  PROVE  Simulated
<1>1. Promise!Withdraw(p, u)
  BY DEF Promise!Withdraw, PhaseOf, AccessOf, ConsentOf, Given
<1> QED
  BY <1>1 DEF Simulated, Promise!AccessNext

LEMMA DoAdmit ==
  ASSUME NEW p \in Projects, NEW u \in Users, PhaseOf[p] = "open", <<p, u>> \in ConsentOf,
         AccessOf[p][u] \in {"none", "disabled"},
         AccessOf' = [AccessOf EXCEPT ![p][u] = "active"], UNCHANGED <<PhaseOf, ConsentOf>>
  PROVE  Simulated
<1>1. Promise!Admit(p, u)
  BY DEF Promise!Admit, PhaseOf, AccessOf, ConsentOf, Given
<1> QED
  BY <1>1 DEF Simulated, Promise!AccessNext

\* Suspend, Resume and Expel
LEMMA DoTurn ==
  ASSUME NEW p \in Projects, NEW u \in Users, PhaseOf[p] = "open", NEW to,
         \/ AccessOf[p][u] = "active" /\ to = "disabled"
         \/ AccessOf[p][u] = "disabled" /\ to = "active"
         \/ AccessOf[p][u] \in {"active", "disabled"} /\ to = "none",
         AccessOf' = [AccessOf EXCEPT ![p][u] = to], UNCHANGED <<PhaseOf, ConsentOf>>
  PROVE  Simulated
<1>1. Promise!Suspend(p, u) \/ Promise!Resume(p, u) \/ Promise!Expel(p, u)
  BY DEF Promise!Suspend, Promise!Resume, Promise!Expel, Promise!Turn, PhaseOf, AccessOf, ConsentOf, Given
<1> QED
  BY <1>1 DEF Simulated, Promise!AccessNext

-----------------------------------------------------------------------------
(* What the mapping sees of a step.                                        *)

\* Row changes that are not seen.
LEMMA SameAccess ==
  ASSUME \A p \in Projects, u \in Users : Access(p, u)' = Access(p, u)
  PROVE  UNCHANGED AccessOf
  BY DEF AccessOf

LEMMA SamePhase ==
  ASSUME \A p \in Projects : Phase(p)' = Phase(p)
  PROVE  UNCHANGED PhaseOf
  BY DEF PhaseOf

LEMMA OneAccess ==
  ASSUME NEW p \in Projects, NEW u \in Users,
         \A q \in Projects, v \in Users : ~(q = p /\ v = u) => Access(q, v)' = Access(q, v)
  PROVE  AccessOf' = [AccessOf EXCEPT ![p][u] = Access(p, u)']
  BY DEF AccessOf

\* A ticket's holder does not change, so consent follows the tickets.
PairsStay ==
  \A k \in Tickets : tickets[k] # NoTicket =>
    tickets'[k].project = tickets[k].project /\ tickets'[k].user = tickets[k].user

LEMMA SameConsent ==
  ASSUME PairsStay, \A k \in Tickets : Given(k)' <=> Given(k)
  PROVE  UNCHANGED ConsentOf
<1>1. \A k \in Tickets : Given(k) =>
        <<tickets'[k].project, tickets'[k].user>> = <<tickets[k].project, tickets[k].user>>
  BY DEF PairsStay, Given
<1>2. ASSUME NEW c PROVE c \in ConsentOf' <=> c \in ConsentOf
  BY <1>1 DEF ConsentOf
<1> QED
  BY <1>2

\* Consent that is lost for one holder at most.
LEMMA LessConsent ==
  ASSUME LifeInv, PairsStay, UNCHANGED <<PhaseOf, AccessOf>>,
         \A k \in Tickets : Given(k)' => Given(k), NEW q, NEW v,
         \A k \in Tickets : Given(k) /\ ~(tickets[k].project = q /\ tickets[k].user = v) => Given(k)'
  PROVE  Simulated
<1>1. \A k \in Tickets : Given(k) =>
        /\ <<tickets'[k].project, tickets'[k].user>> = <<tickets[k].project, tickets[k].user>>
        /\ tickets[k].project \in Projects /\ tickets[k].user \in Users
  BY DEF PairsStay, Given, LifeInv, TicketsLife
<1>2. \A c : c \in ConsentOf' => c \in ConsentOf
  BY <1>1 DEF ConsentOf
<1>3. \A c : c \in ConsentOf /\ c # <<q, v>> => c \in ConsentOf'
  BY <1>1 DEF ConsentOf
<1>4. CASE <<q, v>> \in ConsentOf' \/ <<q, v>> \notin ConsentOf
  <2>1. ConsentOf' = ConsentOf
    BY <1>2, <1>3, <1>4
  <2> QED BY <2>1 DEF Simulated, Seen
<1>5. CASE <<q, v>> \notin ConsentOf' /\ <<q, v>> \in ConsentOf
  <2>1. q \in Projects /\ v \in Users
    BY <1>1, <1>5 DEF ConsentOf
  <2>2. ConsentOf' = ConsentOf \ {<<q, v>>}
    BY <1>2, <1>3, <1>5
  <2> QED BY <2>1, <2>2, DoWithdraw
<1> QED
  BY <1>4, <1>5

-----------------------------------------------------------------------------
(* What the mapping needs beyond LifeInv.                                  *)

Mine(j) == j.todo \cup j.done \cup j.now

\* Only rows with a status are seen, and an approval is about one ticket.
SeenInv ==
  /\ \A p \in Projects, u \in Users : Row(p, u) => members[p][u].status # "none"
  /\ \A t \in Threads : jobs[t].op = "approve" => \A k, l \in Mine(jobs[t]) : k = l

LEMMA SeenInvInit == Init => SeenInv
  BY DEF Init, SeenInv, Row, NoMember, Idle

\* A step that keeps the statuses and adds no ticket to an approval.
LEMMA SeenInvStep ==
  ASSUME SeenInv, TypeOK,
         \A p \in Projects, u \in Users :
           Row(p, u)' => (Row(p, u) /\ members'[p][u].status = members[p][u].status)
                           \/ members'[p][u].status # "none",
         \A x \in Threads : jobs'[x].op = "approve" =>
           \/ jobs[x].op = "approve" /\ Mine(jobs'[x]) \subseteq Mine(jobs[x])
           \/ \E k : Mine(jobs'[x]) = {k}
  PROVE  SeenInv'
<1>1. \A p \in Projects, u \in Users : Row(p, u)' => members'[p][u].status # "none"
  BY DEF SeenInv
<1>2. \A x \in Threads : jobs'[x].op = "approve" => \A k, l \in Mine(jobs'[x]) : k = l
  BY DEF SeenInv
<1> QED
  BY <1>1, <1>2 DEF SeenInv, Mine

\* Handlers that write no row the mapping sees.
LEMMA SeenInvMove ==
  ASSUME SeenInv, TypeOK, UNCHANGED members, NEW t \in Threads,
         \A x \in Threads \ {t} : jobs'[x] = jobs[x],
         jobs'[t].op = "approve" =>
           \/ jobs[t].op = "approve" /\ Mine(jobs'[t]) \subseteq Mine(jobs[t])
           \/ \E k : Mine(jobs'[t]) = {k}
  PROVE  SeenInv'
  BY SeenInvStep DEF Row

Creates(t, p) == jobs[t].op = "create" /\ jobs[t].project = p

\* The phases, when no project is founded or erased and no creation ends.
LEMMA PhasesStay ==
  ASSUME LifeInv, \A p \in Projects : Exists(p)' <=> Exists(p),
         \A t \in Threads, p \in Projects : Creates(t, p)' <=> Creates(t, p),
         UNCHANGED born
  PROVE  UNCHANGED PhaseOf
<1>1. ASSUME NEW p \in Projects PROVE Phase(p)' = Phase(p)
  BY DEF Phase, Creates
<1> QED
  BY <1>1, SamePhase

\* One handler moves, no row is written, and an approval may drop its ticket.
LEMMA SimMove ==
  ASSUME LifeInv, SeenInv, TypeOK, UNCHANGED <<born, projects, members, tickets>>,
         NEW t \in Threads, NEW jj, Goto(t, jj),
         \A p \in Projects : (jj.op = "create" /\ jj.project = p) <=> Creates(t, p),
         jj.op = "approve" => jobs[t].op = "approve" /\ Mine(jj) \subseteq Mine(jobs[t])
  PROVE  Simulated /\ SeenInv'
<1>1. jobs'[t] = jj /\ \A x \in Threads \ {t} : jobs'[x] = jobs[x]
  BY DEF Goto, TypeOK
<1>2. UNCHANGED PhaseOf
  BY <1>1, PhasesStay DEF Creates, Exists
<1>3. UNCHANGED AccessOf
  BY SameAccess DEF Access, Exists
<1>4. PairsStay
  BY DEF PairsStay
<1>5. \A k \in Tickets : Given(k)' => Given(k)
  BY <1>1 DEF Given, Agreed, Exists, Mine
<1>6. ASSUME NEW k \in Tickets, Given(k), ~Given(k)' PROVE jobs[t].op = "approve" /\ k \in Mine(jobs[t])
  BY <1>1, <1>6 DEF Given, Agreed, Exists, Mine
<1>7. PICK q, v : \A k \in Tickets : Given(k) /\ ~Given(k)' => tickets[k].project = q /\ tickets[k].user = v
  <2>1. CASE \E k \in Tickets : Given(k) /\ ~Given(k)'
    <3>1. PICK l \in Tickets : Given(l) /\ ~Given(l)'
      BY <2>1
    <3>2. \A k \in Tickets : Given(k) /\ ~Given(k)' => k = l
      BY <3>1, <1>6 DEF SeenInv
    <3> QED BY <3>2
  <2> QED BY <2>1
<1>8. Simulated
  BY <1>2, <1>3, <1>4, <1>5, <1>7, LessConsent
<1>9. SeenInv'
  BY <1>1, SeenInvMove
<1> QED
  BY <1>8, <1>9

\* A creation that ends without a row closes the project for good.
LEMMA SimEndCreate ==
  ASSUME LifeInv, IsoInv, SeenInv, UNCHANGED <<born, projects, members, tickets>>,
         NEW t \in Threads, End(t), jobs[t].op = "create"
  PROVE  Simulated /\ SeenInv'
<1> DEFINE p == jobs[t].project
<1>0. TypeOK /\ JobLife(t, jobs[t]) /\ CreateLife(t, jobs[t]) /\ JobIso(jobs[t]) /\ PcLife(jobs[t])
  BY DEF LifeInv, IsoInv, TypeInv, JobLife
<1>1. p \in Projects /\ p \in born /\ ~Exists(p) /\ ~Founded(p)
  BY <1>0 DEF JobIso, PcLife, CreateLife, Founded, Exists, NoProject
<1>2. jobs'[t] = Idle /\ Idle.op = "idle" /\ \A x \in Threads \ {t} : jobs'[x] = jobs[x]
  BY <1>0 DEF End, Goto, TypeOK, Idle
<1>3. PhaseOf[p] = "new"
  BY <1>1 DEF PhaseOf, Phase
<1>4. PhaseOf' = [PhaseOf EXCEPT ![p] = "closed"]
  <2>1. \A q \in Projects \ {p} : Phase(q)' = Phase(q)
    BY <1>2 DEF Phase, Exists
  <2>2. \A q \in {p} : Phase(q)' = "closed"
    BY <1>0, <1>1, <1>2 DEF Phase, Exists, CreateLife
  <2> QED BY <1>1, <2>1, <2>2 DEF PhaseOf
<1>5. AccessOf' = [AccessOf EXCEPT ![p] = [v \in Users |-> "none"]]
  <2>1. \A q \in Projects, v \in Users : Access(q, v)' = Access(q, v)
    BY DEF Access, Exists
  <2>2. \A v \in Users : \A q \in {p} : Access(q, v) = "none"
    BY <1>1 DEF Access
  <2> QED BY <1>1, <2>1, <2>2 DEF AccessOf
<1>6. UNCHANGED ConsentOf
  <2>1. \A k \in Tickets : Given(k)' <=> Given(k)
    BY <1>2 DEF Given, Agreed, Exists
  <2> QED BY <2>1, SameConsent DEF PairsStay
<1>7. \A c \in ConsentOf : c[1] # p
  BY <1>1 DEF ConsentOf, Given
<1>8. SeenInv'
  BY <1>0, <1>2, SeenInvMove
<1> QED
  BY <1>1, <1>3, <1>4, <1>5, <1>6, <1>7, <1>8, DoClose

-----------------------------------------------------------------------------
(* The steps of Projects.                                                  *)

LEMMA SimArrive ==
  ASSUME LifeInv, IsoInv, SeenInv, NEW t \in Threads, Arrive(t)
  PROVE  Simulated /\ SeenInv'
<1>0. TypeOK /\ Idle.op = "idle" /\ Mine(Idle) = {}
  BY DEF IsoInv, TypeInv, Idle, Mine
<1>1. ASSUME NEW p \in Projects, NEW u \in Users, BeginCreate(t, p, u)
      PROVE  Simulated /\ SeenInv'
  <2>1. PICK n \in 1 .. MaxSlug :
          jobs' = [jobs EXCEPT ![t] = [Request("create", "flush", p, u) EXCEPT !.proj.slug = n]]
    BY <1>1 DEF BeginCreate, Begin
  <2> DEFINE jj == [Request("create", "flush", p, u) EXCEPT !.proj.slug = n]
  <2>2. jj.op = "create" /\ jj.project = p
    BY DEF Request
  <2>3. p \notin born /\ born' = born \cup {p} /\ jobs[t] = Idle /\ UNCHANGED <<projects, members, tickets>>
    BY <1>1 DEF BeginCreate, Begin, db
  <2>4. jobs'[t] = jj /\ \A x \in Threads \ {t} : jobs'[x] = jobs[x]
    BY <1>0, <2>1 DEF TypeOK
  <2> HIDE DEF jj
  <2>5. UNCHANGED PhaseOf
    <3>1. ASSUME NEW q \in Projects PROVE Phase(q)' = Phase(q)
      <4>1. CASE q = p
        BY <2>2, <2>3, <2>4, <4>1 DEF Phase, Exists
      <4>2. CASE q # p
        BY <1>0, <2>2, <2>3, <2>4, <4>2 DEF Phase, Exists
      <4> QED BY <4>1, <4>2
    <3> QED BY <3>1, SamePhase
  <2>6. UNCHANGED AccessOf
    BY <2>3, SameAccess DEF Access, Exists
  <2>7. UNCHANGED ConsentOf
    <3>1. \A k \in Tickets : Given(k)' <=> Given(k)
      BY <1>0, <2>2, <2>3, <2>4 DEF Given, Agreed, Exists
    <3> QED BY <2>3, <3>1, SameConsent DEF PairsStay
  <2>8. SeenInv'
    BY <1>0, <2>2, <2>3, <2>4, SeenInvMove
  <2> QED BY <2>5, <2>6, <2>7, <2>8 DEF Simulated, Seen
<1>2. ASSUME NEW jj, Begin(t, jj), jj.op \notin {"create", "approve"},
             UNCHANGED <<born, projects, members, tickets>>
      PROVE  Simulated /\ SeenInv'
  <2>1. \A p \in Projects : (jj.op = "create" /\ jj.project = p) <=> Creates(t, p)
    BY <1>0, <1>2 DEF Begin, Creates
  <2> QED BY <1>0, <1>2, <2>1, SimMove DEF Begin, Goto
<1>3. ASSUME NEW p \in Projects, NEW u \in Users,
             BeginRetry(t, p, u) \/ BeginDelete(t, p, u) \/ BeginRemove(t, p, u)
      PROVE  Simulated /\ SeenInv'
  <2>1. UNCHANGED <<born, projects, members, tickets>>
    BY <1>3 DEF BeginRetry, BeginDelete, BeginRemove, db
  <2>2. \A op, pc : Request(op, pc, p, u).op = op
    BY DEF Request
  <2> QED BY <1>2, <1>3, <2>1, <2>2 DEF BeginRetry, BeginDelete, BeginRemove
<1>4. ASSUME NEW u \in Users, BeginAccept(t, u) \/ BeginLogin(t, u)
      PROVE  Simulated /\ SeenInv'
  <2>1. UNCHANGED <<born, projects, members, tickets>>
    BY <1>4 DEF BeginAccept, BeginLogin, db
  <2>2. \A op, K : Admission(op, u, K).op = op
    BY DEF Admission, Idle
  <2>3. PICK op \in {"accept", "login"}, K \in SUBSET Tickets : Begin(t, Admission(op, u, K))
    <3>1. CASE BeginAccept(t, u)
      <4>1. PICK p \in Projects : \E k \in Pending("invite", p, u) : Begin(t, Admission("accept", u, {k}))
        BY <3>1 DEF BeginAccept
      <4>2. PICK k \in Pending("invite", p, u) : Begin(t, Admission("accept", u, {k}))
        BY <4>1
      <4>3. {k} \in SUBSET Tickets
        BY PendingLife
      <4> QED BY <4>2, <4>3
    <3>2. CASE BeginLogin(t, u)
      <4> DEFINE mine == UNION {Pending("invite", p, u) : p \in Projects}
      <4>1. Begin(t, Admission("login", u, mine))
        BY <3>2 DEF BeginLogin
      <4>2. mine \in SUBSET Tickets
        BY DEF Pending
      <4> QED BY <4>1, <4>2
    <3> QED BY <1>4, <3>1, <3>2
  <2>4. Admission(op, u, K).op \notin {"create", "approve"}
    BY <2>2
  <2> QED BY <1>2, <2>1, <2>3, <2>4
<1>5. ASSUME NEW p \in Projects, NEW u \in Users, BeginApprove(t, p, u)
      PROVE  Simulated /\ SeenInv'
  <2>1. PICK k \in Pending("request", p, u) : Begin(t, Admission("approve", u, {k}))
    BY <1>5 DEF BeginApprove
  <2> DEFINE jj == Admission("approve", u, {k})
  <2>2. jj.op = "approve" /\ jj.todo = {k} /\ jj.done = {} /\ jj.now = {}
    BY DEF Admission, Idle
  <2>3. /\ jobs[t] = Idle /\ jobs'[t] = jj /\ \A x \in Threads \ {t} : jobs'[x] = jobs[x]
        /\ UNCHANGED <<born, projects, members, tickets>> /\ OwnerActs(p)
    BY <1>0, <1>5, <2>1 DEF Begin, TypeOK, BeginApprove, db
  <2> HIDE DEF jj
  <2>4. /\ k \in Tickets /\ tickets[k].project = p /\ tickets[k].user = u /\ tickets[k] # NoTicket
    BY PendingLife
  <2>5. Exists(p)
    BY <2>3, OwnerActing
  <2>6. UNCHANGED PhaseOf
    BY <1>0, <2>2, <2>3, PhasesStay DEF Creates, Exists
  <2>7. UNCHANGED AccessOf
    BY <2>3, SameAccess DEF Access, Exists
  <2>8. ConsentOf' = ConsentOf \cup {<<p, u>>}
    <3>1. \A i \in Tickets : Given(i)' <=> Given(i) \/ i = k
      BY <1>0, <2>2, <2>3, <2>4, <2>5 DEF Given, Agreed, Exists, Mine
    <3> QED BY <2>3, <2>4, <3>1 DEF ConsentOf
  <2>9. SeenInv'
    BY <1>0, <2>2, <2>3, SeenInvMove DEF Mine
  <2>10. PhaseOf[p] = "open"
    BY <2>5 DEF PhaseOf, Phase
  <2> QED BY <2>6, <2>7, <2>8, <2>9, <2>10, DoAgree
<1> QED
  BY <1>1, <1>3, <1>4, <1>5 DEF Arrive

LEMMA SimCalls ==
  ASSUME LifeInv, IsoInv, SeenInv, NEW t \in Threads,
         \/ FlushInsert(t) \/ SaveTenant(t) \/ FindUser(t) \/ SaveUser(t) \/ StarterDashboard(t)
         \/ TbFails(t) \/ DropTenant(t) \/ NextTicket(t) \/ DropUser(t) \/ Abort(t)
  PROVE  Simulated /\ SeenInv'
<1> DEFINE j == jobs[t]
<1>0. TypeOK /\ j \in Job /\ JobLife(t, j) /\ PcLife(j) /\ j.op \in Ops /\ Idle.op = "idle" /\ Mine(Idle) = {}
  BY DEF IsoInv, TypeInv, TypeOK, LifeInv, JobLife, Job, Idle, Mine
<1>1. UNCHANGED <<born, projects, members, tickets>>
  BY DEF FlushInsert, SaveTenant, FindUser, SaveUser, StarterDashboard, TbFails, DropTenant,
         NextTicket, DropUser, Abort, db
<1>e. ASSUME End(t) PROVE Simulated /\ SeenInv'
  <2>1. CASE j.op = "create"
    BY <1>1, <1>e, <2>1, SimEndCreate
  <2>2. CASE j.op # "create"
    <3>1. \A p \in Projects : (Idle.op = "create" /\ Idle.project = p) <=> Creates(t, p)
      BY <1>0, <2>2 DEF Creates
    <3> QED BY <1>0, <1>1, <1>e, <3>1, SimMove DEF End
  <2> QED BY <2>1, <2>2
<1>m. ASSUME NEW jj, Goto(t, jj), jj.op = j.op, jj.project = j.project \/ j.op # "create",
             Mine(jj) \subseteq Mine(j)
      PROVE  Simulated /\ SeenInv'
  <2>1. \A p \in Projects : (jj.op = "create" /\ jj.project = p) <=> Creates(t, p)
    BY <1>m DEF Creates
  <2> QED BY <1>0, <1>1, <1>m, <2>1, SimMove
<1>pc. ASSUME NEW pc, Goto(t, [j EXCEPT !.pc = pc]) PROVE Simulated /\ SeenInv'
  <2> DEFINE jj == [j EXCEPT !.pc = pc]
  <2>1. jj.op = j.op /\ jj.project = j.project /\ Mine(jj) = Mine(j)
    BY <1>0 DEF Job, Mine
  <2> HIDE DEF jj
  <2> QED BY <1>pc, <1>m, <2>1 DEF jj
<1>gu. ASSUME NEW b, Goto(t, GotUser(j, b)) PROVE Simulated /\ SeenInv'
  <2> DEFINE jj == GotUser(j, b)
  <2>1. jj.op = j.op /\ jj.project = j.project /\ Mine(jj) = Mine(j)
    BY <1>0 DEF Job, Mine, GotUser
  <2> HIDE DEF jj
  <2> QED BY <1>gu, <1>m, <2>1 DEF jj
<1>u. ASSUME UNCHANGED jobs PROVE Simulated /\ SeenInv'
  <2>1. Goto(t, j)
    BY <1>0, <1>u DEF Goto, TypeOK
  <2> QED BY <2>1, <1>m
<1>2. CASE FlushInsert(t)
  BY <1>2, <1>e, <1>pc DEF FlushInsert
<1>3. CASE SaveTenant(t)
  <2>1. PICK T : Goto(t, [j EXCEPT !.proj.tenant = T, !.pc = "find"]) \/ UNCHANGED jobs
    BY <1>3 DEF SaveTenant, AnswerLost
  <2> DEFINE jj == [j EXCEPT !.proj.tenant = T, !.pc = "find"]
  <2>2. jj.op = j.op /\ jj.project = j.project /\ Mine(jj) = Mine(j)
    BY <1>0 DEF Job, Mine
  <2> HIDE DEF jj
  <2> QED BY <1>m, <1>u, <2>1, <2>2 DEF jj
<1>4. CASE FindUser(t)
  BY <1>4, <1>pc, <1>gu DEF FindUser
<1>5. CASE SaveUser(t)
  BY <1>5, <1>gu, <1>u DEF SaveUser, AnswerLost
<1>6. CASE StarterDashboard(t)
  BY <1>6, <1>pc DEF StarterDashboard
<1>7. CASE TbFails(t)
  BY <1>7, <1>e, <1>pc DEF TbFails
<1>8. CASE DropTenant(t)
  BY <1>8, <1>pc, <1>u DEF DropTenant, AnswerLost
<1>9. CASE NextTicket(t)
  <2>0. j.pc = "next"
    BY <1>9 DEF NextTicket, At
  <2>1. PICK k \in j.todo :
          LET p == tickets[k].project
              rest == [j EXCEPT !.todo = @ \ {k}]
          IN \/ Goto(t, rest)
             \/ Goto(t, [rest EXCEPT !.pc = "find", !.now = {k}, !.project = p,
                            !.proj0 = projects[p], !.proj = projects[p],
                            !.mem0 = members[p][j.user], !.gone = FALSE])
    BY <1>9 DEF NextTicket
  <2> DEFINE p == tickets[k].project
             rest == [j EXCEPT !.todo = @ \ {k}]
             go == [rest EXCEPT !.pc = "find", !.now = {k}, !.project = p,
                      !.proj0 = projects[p], !.proj = projects[p],
                      !.mem0 = members[p][j.user], !.gone = FALSE]
  <2>2. j.op # "create"
    BY <1>0, <2>0 DEF PcLife
  <2>3. /\ rest.op = j.op /\ rest.todo = j.todo \ {k} /\ rest.now = j.now /\ rest.done = j.done
        /\ rest \in Job
    BY <1>0 DEF Job
  <2>4. go.op = rest.op /\ go.todo = rest.todo /\ go.now = {k} /\ go.done = rest.done
    <3> HIDE DEF rest
    <3> QED BY <2>3 DEF Job
  <2> HIDE DEF rest, go
  <2>5. Mine(rest) \subseteq Mine(j) /\ Mine(go) \subseteq Mine(j)
    BY <2>1, <2>3, <2>4 DEF Mine
  <2>6. Goto(t, rest) \/ Goto(t, go)
    BY <2>1 DEF rest, go
  <2> QED BY <2>2, <2>3, <2>4, <2>5, <2>6, <1>m
<1>10. CASE DropUser(t)
  BY <1>10, <1>pc DEF DropUser
<1>11. CASE Abort(t)
  BY <1>11, <1>e DEF Abort
<1> QED
  BY <1>2, <1>3, <1>4, <1>5, <1>6, <1>7, <1>8, <1>9, <1>10, <1>11

\* The handler whose tickets are resolved loses no consent: an invite stays an
\* invite, and a request it has admitted becomes approved.
LEMMA ResolvedGiven ==
  ASSUME LifeInv, TypeOK, NEW t \in Threads, AdmitLife(jobs[t]), UNCHANGED projects,
         tickets' = Resolved(jobs[t].done),
         \A x \in Threads \ {t} : jobs'[x] = jobs[x],
         jobs'[t].op = "approve" => jobs[t].op = "approve" /\ Mine(jobs'[t]) \subseteq Mine(jobs[t])
  PROVE  /\ PairsStay
         /\ \A k \in Tickets : Given(k)' => Given(k)
         /\ \A k \in Tickets : Given(k) /\ ~Given(k)' =>
              /\ jobs[t].op = "approve" /\ k \in Mine(jobs[t]) /\ k \notin jobs[t].done
              /\ jobs'[t].op = "approve" => k \notin Mine(jobs'[t])
<1> DEFINE D == jobs[t].done
<1>1. ASSUME NEW k \in Tickets
      PROVE  /\ tickets'[k].kind = tickets[k].kind /\ tickets'[k].project = tickets[k].project
             /\ tickets'[k].user = tickets[k].user
             /\ k \notin D => tickets'[k] = tickets[k]
             /\ k \in D => tickets'[k].status = IF tickets[k].kind = "invite" THEN "accepted" ELSE "approved"
  BY DEF TypeOK, TicketRow, Resolved
<1>2. \A k \in Tickets : tickets'[k] # NoTicket <=> tickets[k] # NoTicket
  <2>1. \A k \in D : tickets[k] # NoTicket
    BY DEF AdmitLife
  <2>2. \A k \in Tickets : tickets[k] # NoTicket => tickets[k].kind # "none"
    BY DEF LifeInv, TicketsLife
  <2>3. NoTicket.kind = "none"
    BY DEF NoTicket
  <2> QED BY <1>1, <2>1, <2>2, <2>3
<1>3. \A k \in Tickets : tickets'[k].status = "approved" =>
        tickets[k].status = "approved" \/ (k \in D /\ tickets[k].kind # "invite")
  BY <1>1
<1>4. \A k \in D : tickets[k].kind # "invite" => jobs[t].op = "approve"
  BY DEF AdmitLife
<1>5. ASSUME NEW k \in Tickets PROVE Agreed(k)' => Agreed(k)
  BY <1>1, <1>3, <1>4 DEF Agreed, Mine
<1>6. ASSUME NEW k \in Tickets, Agreed(k), ~Agreed(k)'
      PROVE  /\ jobs[t].op = "approve" /\ k \in Mine(jobs[t]) /\ k \notin D
             /\ jobs'[t].op = "approve" => k \notin Mine(jobs'[t])
  BY <1>1, <1>6 DEF Agreed, Mine
<1>7. \A k \in Tickets : Exists(tickets[k].project)' <=> Exists(tickets[k].project)
  BY <1>1 DEF Exists
<1>8. PairsStay
  BY <1>1 DEF PairsStay
<1>9. \A k \in Tickets : (tickets[k] # NoTicket /\ Exists(tickets[k].project))'
                          <=> (tickets[k] # NoTicket /\ Exists(tickets[k].project))
  BY <1>2, <1>7
<1>10. ASSUME NEW k \in Tickets, Given(k)' PROVE Given(k)
  BY <1>5, <1>9, <1>10 DEF Given
<1>11. ASSUME NEW k \in Tickets, Given(k), ~Given(k)' PROVE Agreed(k) /\ ~Agreed(k)'
  BY <1>9, <1>11 DEF Given
<1> QED
  BY <1>6, <1>8, <1>10, <1>11

LEMMA SimEndAdmission ==
  ASSUME LifeInv, IsoInv, SeenInv, NEW t \in Threads, EndAdmission(t)
  PROVE  Simulated /\ SeenInv'
<1> DEFINE j == jobs[t]
<1>0. /\ TypeOK /\ j \in Job /\ JobLife(t, j) /\ j.pc = "next"
      /\ UNCHANGED <<born, projects, members>> /\ tickets' = Resolved(j.done)
      /\ jobs'[t] = Idle /\ Idle.op = "idle" /\ \A x \in Threads \ {t} : jobs'[x] = jobs[x]
  BY DEF LifeInv, IsoInv, TypeInv, TypeOK, EndAdmission, At, End, Goto, Idle
<1>1. AdmitLife(j) /\ j.op \in Admissions
  <2>1. j.op \in Admissions
    BY <1>0, Places DEF JobLife, Job
  <2> QED BY <1>0, <2>1 DEF JobLife
<1>2. UNCHANGED PhaseOf
  BY <1>0, <1>1, PhasesStay DEF Creates, Exists, Admissions
<1>3. UNCHANGED AccessOf
  BY <1>0, SameAccess DEF Access, Exists
<1>4. /\ PairsStay
      /\ \A k \in Tickets : Given(k)' => Given(k)
      /\ \A k \in Tickets : Given(k) /\ ~Given(k)' => jobs[t].op = "approve" /\ k \in Mine(jobs[t])
  BY <1>0, <1>1, ResolvedGiven
<1>5. PICK q, v : \A k \in Tickets : Given(k) /\ ~Given(k)' => tickets[k].project = q /\ tickets[k].user = v
  <2>1. CASE \E k \in Tickets : Given(k) /\ ~Given(k)'
    <3>1. PICK l \in Tickets : Given(l) /\ ~Given(l)'
      BY <2>1
    <3>2. \A k \in Tickets : Given(k) /\ ~Given(k)' => k = l
      BY <3>1, <1>4 DEF SeenInv
    <3> QED BY <3>2
  <2> QED BY <2>1
<1>6. Simulated
  BY <1>2, <1>3, <1>4, <1>5, LessConsent
<1>7. SeenInv'
  BY <1>0, SeenInvMove
<1> QED
  BY <1>6, <1>7

LEMMA SimCommitCreate ==
  ASSUME LifeInv, IsoInv, SeenInv, NEW t \in Threads, CommitCreate(t)
  PROVE  Simulated /\ SeenInv'
<1> DEFINE j == jobs[t]
           owner == [role |-> "owner", status |-> "active",
                     tbUser |-> IF j.pc = "commit" THEN j.tbUser ELSE None]
<1>0. /\ TypeOK /\ j \in Job /\ JobLife(t, j) /\ JobIso(j) /\ j.op = "create"
      /\ j.pc \in {"commit", "giveup"} /\ UNCHANGED <<born, tickets>>
      /\ jobs'[t] = Idle /\ Idle.op = "idle" /\ \A x \in Threads \ {t} : jobs'[x] = jobs[x]
  BY DEF LifeInv, IsoInv, TypeInv, TypeOK, CommitCreate, End, Goto, Idle
<1>1. CreateLife(t, j)
  BY <1>0 DEF JobLife
<1> SUFFICES ASSUME NEW p, NEW u, p = j.project, u = j.user PROVE Simulated /\ SeenInv'
  OBVIOUS
<1>2. p \in Projects /\ u \in Users /\ p \in born /\ ~Exists(p) /\ ~Founded(p)
  BY <1>0, <1>1 DEF JobIso, CreateLife, Founded, Exists, NoProject
<1>3. /\ projects'[p].state # "none"
      /\ \A q \in Projects \ {p} : projects'[q] = projects[q]
  BY <1>0, <1>2 DEF CommitCreate, Outcome, TypeOK, Job, ProjectRow
<1>4. /\ members'[p][u] = owner
      /\ \A v \in Users \ {u} : members'[p][v] = members[p][v]
      /\ \A q \in Projects \ {p} : members'[q] = members[q]
  BY <1>0, <1>2 DEF CommitCreate, TypeOK
<1>5. owner.role = "owner" /\ owner.status = "active"
  OBVIOUS
<1> HIDE DEF owner
<1>6. Exists(p)' /\ \A q \in Projects \ {p} : Exists(q)' <=> Exists(q)
  BY <1>3 DEF Exists
<1>7. \A v \in Users : members[p][v] = NoMember
  BY <1>2 DEF LifeInv, RowsLife
<1>8. PhaseOf[p] = "new"
  BY <1>0, <1>2 DEF PhaseOf, Phase
<1>9. PhaseOf' = [PhaseOf EXCEPT ![p] = "open"]
  <2>1. \A q \in Projects \ {p} : Phase(q)' = Phase(q)
    BY <1>0, <1>6 DEF Phase
  <2>2. Phase(p)' = "open"
    BY <1>6 DEF Phase
  <2> QED BY <1>2, <2>1, <2>2 DEF PhaseOf
<1>10. AccessOf' = [AccessOf EXCEPT ![p] = [[v \in Users |-> "none"] EXCEPT ![u] = "owner"]]
  <2>1. \A q \in Projects \ {p}, v \in Users : Access(q, v)' = Access(q, v)
    BY <1>4, <1>6 DEF Access
  <2>2. \A v \in Users \ {u} : Access(p, v)' = "none"
    BY <1>4, <1>6, <1>7 DEF Access, NoMember
  <2>3. Access(p, u)' = "owner"
    BY <1>4, <1>5, <1>6 DEF Access
  <2> DEFINE row == [[v \in Users |-> "none"] EXCEPT ![u] = "owner"]
  <2>4. [v \in Users |-> Access(p, v)'] = row
    BY <1>2, <2>2, <2>3
  <2> HIDE DEF row
  <2>5. AccessOf' = [AccessOf EXCEPT ![p] = row]
    BY <1>2, <2>1, <2>4 DEF AccessOf
  <2> QED BY <2>5 DEF row
<1>11. UNCHANGED ConsentOf
  <2>1. \A k \in Tickets : Given(k)' <=> Given(k)
    <3>1. \A k \in Tickets : tickets[k] # NoTicket => tickets[k].project \in Projects \ {p}
      BY <1>2 DEF LifeInv, TicketsLife
    <3>2. \A k \in Tickets : Agreed(k)' <=> Agreed(k)
      BY <1>0 DEF Agreed
    <3>3. \A k \in Tickets : tickets[k] # NoTicket =>
            (Exists(tickets[k].project)' <=> Exists(tickets[k].project))
      BY <1>0, <1>6, <3>1 DEF Exists
    <3> QED BY <1>0, <3>2, <3>3 DEF Given
  <2> QED BY <1>0, <2>1, SameConsent DEF PairsStay
<1>12. SeenInv'
  <2>1. \A q \in Projects, v \in Users :
          Row(q, v)' => (Row(q, v) /\ members'[q][v].status = members[q][v].status)
                          \/ members'[q][v].status # "none"
    <3>1. ASSUME NEW q \in Projects, NEW v \in Users, Row(q, v)'
          PROVE  (Row(q, v) /\ members'[q][v].status = members[q][v].status)
                   \/ members'[q][v].status # "none"
      <4>1. CASE q = p /\ v = u
        BY <4>1, <1>4, <1>5
      <4>2. CASE ~(q = p /\ v = u)
        BY <3>1, <4>2, <1>4 DEF Row
      <4> QED BY <4>1, <4>2
    <3> QED BY <3>1
  <2>2. \A x \in Threads : jobs'[x].op = "approve" => jobs'[x] = jobs[x]
    BY <1>0
  <2> QED BY <1>0, <2>1, <2>2, SeenInvStep DEF Mine
<1> QED
  BY <1>2, <1>8, <1>9, <1>10, <1>11, <1>12, DoFound

\* A retry writes the outcome and an account: nothing ProjectAccess sees.
LEMMA SimCommitRetry ==
  ASSUME LifeInv, IsoInv, SeenInv, NEW t \in Threads, CommitRetry(t)
  PROVE  Simulated /\ SeenInv'
<1> DEFINE j == jobs[t]
           mem == IF j.pc = "commit" THEN [j.mem0 EXCEPT !.tbUser = j.tbUser] ELSE j.mem0
<1>0. /\ TypeOK /\ j \in Job /\ JobIso(j) /\ j.op = "retry"
      /\ j.pc \in {"commit", "giveup"} /\ UNCHANGED <<born, tickets>>
      /\ jobs'[t] = Idle /\ Idle.op = "idle" /\ \A x \in Threads \ {t} : jobs'[x] = jobs[x]
  BY DEF LifeInv, IsoInv, TypeInv, TypeOK, CommitRetry, End, Goto, Idle
<1> SUFFICES ASSUME NEW p, NEW u, p = j.project, u = j.user PROVE Simulated /\ SeenInv'
  OBVIOUS
<1>1. /\ p \in Projects /\ u \in Users
      /\ j.proj \in ProjectRow /\ j.proj0 \in ProjectRow /\ j.mem0 \in MemberRow
  BY <1>0 DEF JobIso, Job
<1>2. mem.role = j.mem0.role /\ mem.status = j.mem0.status
  BY <1>1 DEF MemberRow
<1>3. /\ \/ UNCHANGED projects
         \/ /\ Exists(p)
            /\ projects' = [projects EXCEPT ![p] = NetProject(p, j.proj0, Outcome(j))]
      /\ \/ UNCHANGED members
         \/ members' = [members EXCEPT ![p][u] = NetMember(p, u, j.mem0, mem)]
  BY <1>0 DEF CommitRetry
<1> HIDE DEF mem
<1>4. \A q \in Projects : Exists(q)' <=> Exists(q)
  <2>1. CASE UNCHANGED projects
    BY <2>1 DEF Exists
  <2>2. CASE /\ Exists(p)
             /\ projects' = [projects EXCEPT ![p] = NetProject(p, j.proj0, Outcome(j))]
    <3>1. /\ projects'[p] = NetProject(p, j.proj0, Outcome(j))
          /\ \A q \in Projects \ {p} : projects'[q] = projects[q]
      BY <2>2, <1>0, <1>1 DEF TypeOK
    <3>2. Outcome(j).state # "none"
      BY <1>1 DEF Outcome, ProjectRow
    <3>3. projects'[p].state # "none"
      BY <2>2, <3>1, <3>2 DEF NetProject, Column, Exists
    <3> QED BY <2>2, <3>1, <3>3 DEF Exists
  <2> QED BY <1>3, <2>1, <2>2
<1>5. \A q \in Projects, v \in Users :
        members'[q][v].role = members[q][v].role /\ members'[q][v].status = members[q][v].status
  <2>1. CASE UNCHANGED members
    BY <2>1
  <2>2. CASE members' = [members EXCEPT ![p][u] = NetMember(p, u, j.mem0, mem)]
    <3>1. /\ members'[p][u] = NetMember(p, u, j.mem0, mem)
          /\ \A q \in Projects, v \in Users : ~(q = p /\ v = u) => members'[q][v] = members[q][v]
      BY <2>2, <1>0, <1>1 DEF TypeOK
    <3>2. members'[p][u].role = members[p][u].role /\ members'[p][u].status = members[p][u].status
      BY <3>1, <1>2 DEF NetMember, Column
    <3> QED BY <3>1, <3>2
  <2> QED BY <1>3, <2>1, <2>2
<1>6. UNCHANGED PhaseOf
  BY <1>0, <1>4, PhasesStay DEF Creates
<1>7. UNCHANGED AccessOf
  BY <1>4, <1>5, SameAccess DEF Access
<1>8. UNCHANGED ConsentOf
  <2>1. \A k \in Tickets : Agreed(k)' <=> Agreed(k)
    BY <1>0 DEF Agreed
  <2>2. \A k \in Tickets : tickets[k] # NoTicket =>
          (Exists(tickets[k].project)' <=> Exists(tickets[k].project))
    BY <1>0, <1>4 DEF LifeInv, TicketsLife, Exists
  <2>3. \A k \in Tickets : Given(k)' <=> Given(k)
    BY <1>0, <2>1, <2>2 DEF Given
  <2> QED BY <1>0, <2>3, SameConsent DEF PairsStay
<1>9. SeenInv'
  <2>1. \A x \in Threads : jobs'[x].op = "approve" => jobs'[x] = jobs[x]
    BY <1>0
  <2>2. \A q \in Projects, v \in Users :
          Row(q, v)' => Row(q, v) /\ members'[q][v].status = members[q][v].status
    BY <1>5 DEF Row
  <2> QED BY <1>0, <2>1, <2>2, SeenInvStep DEF Mine
<1> QED
  BY <1>6, <1>7, <1>8, <1>9 DEF Simulated, Seen

\* Other handlers learn that a row of theirs is gone.
LEMMA ToldGone ==
  ASSUME TypeOK, NEW t \in Threads, NEW X, EndDeleting(t, X)
  PROVE  /\ jobs'[t].op = "idle"
         /\ \A x \in Threads \ {t} :
              jobs'[x].op = jobs[x].op /\ jobs'[x].project = jobs[x].project /\ Mine(jobs'[x]) = Mine(jobs[x])
<1>1. jobs'[t].op = "idle"
  BY DEF EndDeleting, Idle
<1>2. ASSUME NEW x \in Threads \ {t}
      PROVE  jobs'[x].op = jobs[x].op /\ jobs'[x].project = jobs[x].project /\ Mine(jobs'[x]) = Mine(jobs[x])
  <2>1. jobs'[x] = jobs[x] \/ jobs'[x] = [jobs[x] EXCEPT !.gone = TRUE]
    BY DEF EndDeleting
  <2>2. jobs[x] \in Job
    BY DEF TypeOK
  <2> DEFINE jj == [jobs[x] EXCEPT !.gone = TRUE]
  <2>3. /\ jj.op = jobs[x].op /\ jj.project = jobs[x].project /\ jj.todo = jobs[x].todo
        /\ jj.done = jobs[x].done /\ jj.now = jobs[x].now
    BY <2>2 DEF Job
  <2> HIDE DEF jj
  <2>4. jobs'[x] = jobs[x] \/ jobs'[x] = jj
    BY <2>1 DEF jj
  <2> QED BY <2>3, <2>4 DEF Mine
<1> QED
  BY <1>1, <1>2

\* A deletion and a removal give no consent and take none of a live project.
LEMMA AgreedBeside ==
  ASSUME TypeOK, UNCHANGED tickets, NEW t \in Threads, jobs[t].op # "approve", jobs'[t].op # "approve",
         \A x \in Threads \ {t} : jobs'[x].op = jobs[x].op /\ Mine(jobs'[x]) = Mine(jobs[x])
  PROVE  \A k \in Tickets : Agreed(k)' <=> Agreed(k)
<1>1. \A x \in Threads, k \in Tickets :
        (jobs'[x].op = "approve" /\ k \in Mine(jobs'[x])) <=> (jobs[x].op = "approve" /\ k \in Mine(jobs[x]))
  OBVIOUS
<1> QED
  BY <1>1 DEF Agreed, Mine

LEMMA SimErase ==
  ASSUME LifeInv, IsoInv, SeenInv, NEW t \in Threads, EraseProject(t)
  PROVE  Simulated /\ SeenInv'
<1> DEFINE j == jobs[t]
<1>0. /\ TypeOK /\ j \in Job /\ JobLife(t, j) /\ JobIso(j) /\ j.op = "delete" /\ j.pc = "erase"
      /\ UNCHANGED <<born, tickets>>
  BY DEF LifeInv, IsoInv, TypeInv, TypeOK, EraseProject, At
<1> SUFFICES ASSUME NEW p, p = j.project PROVE Simulated /\ SeenInv'
  OBVIOUS
<1>1. p \in Projects /\ Founded(p)
  BY <1>0 DEF JobIso, JobLife, HeldRow
<1>2. /\ projects'[p] = NoProject /\ \A q \in Projects \ {p} : projects'[q] = projects[q]
      /\ \A u \in Users : members'[p][u] = NoMember
      /\ \A q \in Projects \ {p} : members'[q] = members[q]
  BY <1>0, <1>1 DEF EraseProject, TypeOK
<1>3. EndDeleting(t, {x \in Threads : jobs[x].project = p})
  BY DEF EraseProject
<1>4. /\ jobs'[t].op = "idle"
      /\ \A x \in Threads \ {t} :
           jobs'[x].op = jobs[x].op /\ jobs'[x].project = jobs[x].project /\ Mine(jobs'[x]) = Mine(jobs[x])
  BY <1>0, <1>3, ToldGone
<1>5. ~Exists(p)' /\ \A q \in Projects \ {p} : Exists(q)' <=> Exists(q)
  BY <1>2 DEF Exists, NoProject
<1>6. \A x \in Threads, q \in Projects : Creates(x, q)' <=> Creates(x, q)
  BY <1>0, <1>4 DEF Creates
<1>7. \A k \in Tickets : Agreed(k)' <=> Agreed(k)
  BY <1>0, <1>4, AgreedBeside
<1>8. SeenInv'
  <2>1. \A q \in Projects, v \in Users :
          Row(q, v)' => Row(q, v) /\ members'[q][v].status = members[q][v].status
    <3>1. ~\E v \in Users : Row(p, v)'
      BY <1>2 DEF Row, NoMember
    <3>2. \A q \in Projects \ {p}, v \in Users :
            (Row(q, v)' <=> Row(q, v)) /\ members'[q][v].status = members[q][v].status
      BY <1>2 DEF Row
    <3> QED BY <3>1, <3>2
  <2>2. \A x \in Threads : jobs'[x].op = "approve" => jobs[x].op = "approve" /\ Mine(jobs'[x]) = Mine(jobs[x])
    BY <1>4
  <2> QED BY <1>0, <2>1, <2>2, SeenInvStep
<1>9. CASE Exists(p)
  <2>1. PhaseOf[p] # "closed"
    BY <1>1, <1>9 DEF PhaseOf, Phase
  <2>2. PhaseOf' = [PhaseOf EXCEPT ![p] = "closed"]
    <3>1. \A q \in Projects \ {p} : Phase(q)' = Phase(q)
      BY <1>0, <1>5, <1>6 DEF Phase, Creates
    <3>2. Phase(p)' = "closed"
      BY <1>0, <1>1, <1>5, <1>6 DEF Phase, Creates, Founded
    <3> QED BY <1>1, <3>1, <3>2 DEF PhaseOf
  <2>3. AccessOf' = [AccessOf EXCEPT ![p] = [v \in Users |-> "none"]]
    <3>1. \A q \in Projects \ {p}, v \in Users : Access(q, v)' = Access(q, v)
      BY <1>2, <1>5 DEF Access
    <3>2. \A v \in Users : Access(p, v)' = "none"
      BY <1>5 DEF Access
    <3> QED BY <1>1, <3>1, <3>2 DEF AccessOf
  <2>4. ConsentOf' = {c \in ConsentOf : c[1] # p}
    <3>1. \A k \in Tickets : Given(k)' <=> (Given(k) /\ tickets[k].project # p)
      <4>1. ASSUME NEW k \in Tickets, tickets[k] # NoTicket
            PROVE  Exists(tickets[k].project)' <=> (Exists(tickets[k].project) /\ tickets[k].project # p)
        <5>1. tickets[k].project \in Projects /\ tickets'[k] = tickets[k]
          BY <1>0, <4>1 DEF LifeInv, TicketsLife
        <5>2. CASE tickets[k].project = p
          BY <5>1, <5>2, <1>2 DEF Exists, NoProject
        <5>3. CASE tickets[k].project # p
          BY <5>1, <5>3, <1>2 DEF Exists
        <5> QED BY <5>2, <5>3
      <4> QED BY <1>0, <1>7, <4>1 DEF Given
    <3> QED BY <1>0, <3>1 DEF ConsentOf
  <2> QED BY <1>1, <1>8, <2>1, <2>2, <2>3, <2>4, DoClose
<1>10. CASE ~Exists(p)
  <2>1. \A q \in Projects : Exists(q)' <=> Exists(q)
    BY <1>5, <1>10
  <2>2. UNCHANGED PhaseOf
    BY <1>0, <1>6, <2>1, PhasesStay
  <2>3. UNCHANGED AccessOf
    BY <1>2, <1>5, <2>1, SameAccess DEF Access
  <2>4. UNCHANGED ConsentOf
    <3>1. \A k \in Tickets : tickets[k] # NoTicket =>
            (Exists(tickets[k].project)' <=> Exists(tickets[k].project))
      BY <1>0, <2>1 DEF LifeInv, TicketsLife, Exists
    <3>2. \A k \in Tickets : Given(k)' <=> Given(k)
      BY <1>0, <1>7, <3>1 DEF Given
    <3> QED BY <1>0, <3>2, SameConsent DEF PairsStay
  <2> QED BY <1>8, <2>2, <2>3, <2>4 DEF Simulated, Seen
<1> QED
  BY <1>9, <1>10

\* What leaves the projects, the tickets and the consent of approvals alone.
LEMMA RowStep ==
  ASSUME LifeInv, IsoInv, SeenInv, UNCHANGED <<born, projects>>,
         UNCHANGED ConsentOf, \A x \in Threads, q \in Projects : Creates(x, q)' <=> Creates(x, q),
         NEW p \in Projects, NEW u \in Users,
         \A q \in Projects, v \in Users : ~(q = p /\ v = u) => members'[q][v] = members[q][v],
         Row(p, u)' => members'[p][u].status # "none",
         \A x \in Threads : jobs'[x].op = "approve" =>
           jobs[x].op = "approve" /\ Mine(jobs'[x]) \subseteq Mine(jobs[x]),
         \/ ~Exists(p)
         \/ Access(p, u)' = Access(p, u)
         \/ Access(p, u) = "active" /\ Access(p, u)' = "disabled"
         \/ Access(p, u) = "disabled" /\ Access(p, u)' = "active"
         \/ Access(p, u) \in {"active", "disabled"} /\ Access(p, u)' = "none"
         \/ /\ Access(p, u) = "none" /\ Access(p, u)' = "active"
            /\ \E k \in Tickets : Given(k) /\ tickets[k].project = p /\ tickets[k].user = u
  PROVE  Simulated /\ SeenInv'
<1>0. TypeOK
  BY DEF IsoInv, TypeInv
<1>1. \A q \in Projects : Exists(q)' <=> Exists(q)
  BY DEF Exists
<1>2. UNCHANGED PhaseOf
  BY <1>1, PhasesStay
<1>3. \A q \in Projects, v \in Users : ~(q = p /\ v = u) => Access(q, v)' = Access(q, v)
  BY <1>1 DEF Access
<1>4. AccessOf' = [AccessOf EXCEPT ![p][u] = Access(p, u)']
  BY <1>3, OneAccess
<1>5. AccessOf[p][u] = Access(p, u)
  BY DEF AccessOf
<1>6. SeenInv'
  <2>1. \A q \in Projects, v \in Users :
          Row(q, v)' => (Row(q, v) /\ members'[q][v].status = members[q][v].status)
                          \/ members'[q][v].status # "none"
    BY DEF Row
  <2> QED BY <1>0, <2>1, SeenInvStep
<1>7. CASE ~Exists(p) \/ Access(p, u)' = Access(p, u)
  <2>1. Access(p, u)' = Access(p, u)
    BY <1>1, <1>7 DEF Access
  <2>2. UNCHANGED AccessOf
    BY <1>3, <2>1, SameAccess
  <2> QED BY <1>2, <1>6, <2>2 DEF Simulated, Seen
<1>8. CASE Exists(p) /\ Access(p, u)' # Access(p, u)
  <2>1. PhaseOf[p] = "open"
    BY <1>8 DEF PhaseOf, Phase
  <2>2. CASE Access(p, u) = "none" /\ Access(p, u)' = "active"
    <3>1. <<p, u>> \in ConsentOf
      BY <1>8, <2>2 DEF ConsentOf
    <3> QED BY <1>2, <1>4, <1>5, <1>6, <2>1, <2>2, <3>1, DoAdmit
  <2>3. CASE Access(p, u) # "none"
    BY <1>2, <1>4, <1>5, <1>6, <1>8, <2>1, <2>3, DoTurn
  <2> QED BY <1>8, <2>2, <2>3
<1> QED
  BY <1>7, <1>8

LEMMA SimEraseMember ==
  ASSUME LifeInv, IsoInv, SeenInv, NEW t \in Threads, EraseMember(t)
  PROVE  Simulated /\ SeenInv'
<1> DEFINE j == jobs[t]
<1>0. /\ TypeOK /\ j \in Job /\ JobLife(t, j) /\ JobIso(j) /\ j.op = "remove" /\ j.pc = "erase"
      /\ UNCHANGED <<born, projects, tickets>>
  BY DEF LifeInv, IsoInv, TypeInv, TypeOK, EraseMember, At
<1>1. CASE j.gone
  <2>1. End(t) /\ UNCHANGED <<born, projects, members, tickets>>
    BY <1>0, <1>1 DEF EraseMember
  <2>2. \A p \in Projects : (Idle.op = "create" /\ Idle.project = p) <=> Creates(t, p)
    BY <1>0 DEF Creates, Idle
  <2>3. Idle.op # "approve"
    BY DEF Idle
  <2> QED BY <1>0, <2>1, <2>2, <2>3, SimMove DEF End
<1>2. CASE ~j.gone
  <2> SUFFICES ASSUME NEW p, NEW u, p = j.project, u = j.user PROVE Simulated /\ SeenInv'
    OBVIOUS
  <2>1. /\ p \in Projects /\ u \in Users /\ members[p][u].role = "member"
        /\ members[p][u] \in MemberRow
    BY <1>0, <1>2 DEF JobIso, JobLife, HeldRow, TypeOK
  <2>2. /\ members'[p][u] = NoMember
        /\ \A q \in Projects, v \in Users : ~(q = p /\ v = u) => members'[q][v] = members[q][v]
    BY <1>0, <1>2, <2>1 DEF EraseMember, TypeOK
  <2>3. PICK X : EndDeleting(t, X)
    BY <1>2 DEF EraseMember
  <2>4. /\ jobs'[t].op = "idle"
        /\ \A x \in Threads \ {t} :
             jobs'[x].op = jobs[x].op /\ jobs'[x].project = jobs[x].project /\ Mine(jobs'[x]) = Mine(jobs[x])
    BY <1>0, <2>3, ToldGone
  <2>5. \A x \in Threads, q \in Projects : Creates(x, q)' <=> Creates(x, q)
    BY <1>0, <2>4 DEF Creates
  <2>6. \A k \in Tickets : Agreed(k)' <=> Agreed(k)
    BY <1>0, <2>4, AgreedBeside
  <2>7. UNCHANGED ConsentOf
    <3>1. \A k \in Tickets : Given(k)' <=> Given(k)
      BY <1>0, <2>6 DEF Given, Exists
    <3> QED BY <1>0, <3>1, SameConsent DEF PairsStay
  <2>8. ~Row(p, u)' /\ (Exists(p) => Access(p, u) \in {"active", "disabled"} /\ Access(p, u)' = "none")
    <3>1. members[p][u].status # "none"
      BY <2>1 DEF SeenInv, Row
    <3> QED BY <1>0, <2>1, <2>2, <3>1 DEF Row, Access, Exists, NoMember, MemberRow
  <2>9. \A x \in Threads : jobs'[x].op = "approve" =>
          jobs[x].op = "approve" /\ Mine(jobs'[x]) \subseteq Mine(jobs[x])
    BY <2>4
  <2> QED BY <1>0, <2>1, <2>2, <2>5, <2>7, <2>8, <2>9, RowStep
<1> QED
  BY <1>1, <1>2

LEMMA SimCommitAdd ==
  ASSUME LifeInv, IsoInv, SeenInv, NEW t \in Threads, CommitAdd(t)
  PROVE  Simulated /\ SeenInv'
<1> DEFINE j == jobs[t]
           mem == [role |-> IF j.mem0 = NoMember THEN "member" ELSE j.mem0.role,
                   status |-> "active", tbUser |-> j.tbUser]
           jj == [j EXCEPT !.pc = "next", !.done = j.now, !.now = {},
                    !.project = None, !.proj0 = NoProject, !.proj = NoProject,
                    !.mem0 = NoMember, !.gone = FALSE, !.tbUser = None]
<1>0. /\ TypeOK /\ j \in Job /\ JobLife(t, j) /\ JobIso(j) /\ j.op \in Admissions /\ j.pc = "commit"
      /\ UNCHANGED <<born, projects>>
  BY DEF LifeInv, IsoInv, TypeInv, TypeOK, CommitAdd, At, Admissions
<1>1. AdmitLife(j) /\ HeldRow(j)
  BY <1>0 DEF JobLife, Admissions
<1> SUFFICES ASSUME NEW p, NEW u, p = j.project, u = j.user PROVE Simulated /\ SeenInv'
  OBVIOUS
<1>2. /\ p \in Projects /\ u \in Users /\ members[p][u] \in MemberRow /\ j.mem0 \in MemberRow
  BY <1>0 DEF JobIso, TypeOK, Job
<1>3. CASE End(t) /\ UNCHANGED <<members, tickets>>
  <2>1. \A q \in Projects : (Idle.op = "create" /\ Idle.project = q) <=> Creates(t, q)
    BY <1>0 DEF Creates, Idle, Admissions
  <2>2. Idle.op # "approve"
    BY DEF Idle
  <2> QED BY <1>0, <1>3, <2>1, <2>2, SimMove DEF End
<1>4. CASE /\ \/ j.gone /\ UNCHANGED members
              \/ /\ ~j.gone /\ (j.mem0 = NoMember => ~Row(p, u))
                 /\ members' = [members EXCEPT ![p][u] = NetMember(p, u, j.mem0, mem)]
           /\ tickets' = Resolved(j.done) /\ Goto(t, jj)
  <2>1. jobs'[t] = jj /\ \A x \in Threads \ {t} : jobs'[x] = jobs[x]
    BY <1>0, <1>4 DEF Goto, TypeOK
  <2>2. jj.op = j.op /\ jj.todo = j.todo /\ jj.done = j.now /\ jj.now = {}
    BY <1>0 DEF Job
  <2> HIDE DEF jj
  <2>3. Mine(jj) \subseteq Mine(j) /\ Mine(j) \ j.done \subseteq Mine(jj)
    BY <2>2 DEF Mine
  <2>4. UNCHANGED ConsentOf
    <3>1. /\ PairsStay
          /\ \A k \in Tickets : Given(k)' => Given(k)
          /\ \A k \in Tickets : Given(k) /\ ~Given(k)' =>
               /\ j.op = "approve" /\ k \in Mine(j) /\ k \notin j.done
               /\ jobs'[t].op = "approve" => k \notin Mine(jobs'[t])
      BY <1>0, <1>1, <1>4, <2>1, <2>2, <2>3, ResolvedGiven
    <3>2. \A k \in Tickets : Given(k) => Given(k)'
      BY <2>1, <2>2, <2>3, <3>1
    <3> QED BY <3>1, <3>2, SameConsent
  <2>5. \A x \in Threads, q \in Projects : Creates(x, q)' <=> Creates(x, q)
    BY <1>0, <2>1, <2>2 DEF Creates, Admissions
  <2>6. \A x \in Threads : jobs'[x].op = "approve" =>
          jobs[x].op = "approve" /\ Mine(jobs'[x]) \subseteq Mine(jobs[x])
    BY <2>1, <2>2, <2>3
  <2>7. CASE UNCHANGED members
    <3>1. Access(p, u)' = Access(p, u)
      BY <1>0, <2>7 DEF Access, Exists
    <3>2. Row(p, u)' => members'[p][u].status # "none"
      BY <1>2, <2>7 DEF SeenInv, Row
    <3> QED BY <1>0, <1>2, <2>4, <2>5, <2>6, <2>7, <3>1, <3>2, RowStep
  <2>8. CASE /\ ~j.gone /\ (j.mem0 = NoMember => ~Row(p, u))
             /\ members' = [members EXCEPT ![p][u] = NetMember(p, u, j.mem0, mem)]
    <3>1. /\ members'[p][u] = NetMember(p, u, j.mem0, mem)
          /\ \A q \in Projects, v \in Users : ~(q = p /\ v = u) => members'[q][v] = members[q][v]
      BY <1>0, <1>2, <2>8 DEF TypeOK
    <3>2. /\ members'[p][u].role = Column(members[p][u].role, j.mem0.role, mem.role)
          /\ members'[p][u].status = Column(members[p][u].status, j.mem0.status, "active")
      BY <3>1 DEF NetMember
    <3>3. CASE j.mem0 = NoMember
      <4>1. members[p][u] = NoMember /\ mem.role = "member"
        BY <2>8, <3>3, <1>2 DEF LifeInv, RowsLife
      <4>2. members'[p][u].role = "member" /\ members'[p][u].status = "active"
        BY <3>2, <3>3, <4>1 DEF Column, NoMember
      <4>3. ~Exists(p) \/ (Access(p, u) = "none" /\ Access(p, u)' = "active")
        BY <1>0, <4>1, <4>2 DEF Access, Exists, NoMember
      <4>4. ~Exists(p) \/ \E k \in Tickets : Given(k) /\ tickets[k].project = p /\ tickets[k].user = u
        <5>1. PICK k \in j.now : tickets[k].project = p
          BY <1>0, <1>1 DEF AdmitLife
        <5>2. /\ k \in Tickets /\ tickets[k] # NoTicket /\ tickets[k].user = u
              /\ j.op # "approve" => tickets[k].kind = "invite"
          BY <1>0, <1>1, <5>1 DEF AdmitLife, Job
        <5>3. Agreed(k)
          BY <5>1, <5>2 DEF Agreed
        <5> QED BY <5>1, <5>2, <5>3 DEF Given
      <4> QED BY <1>0, <1>2, <2>4, <2>5, <2>6, <3>1, <4>2, <4>3, <4>4, RowStep
    <3>4. CASE j.mem0 # NoMember
      <4>1. /\ mem.role = j.mem0.role /\ Row(p, u) /\ members[p][u].role = j.mem0.role
            /\ members[p][u].status # "none"
        BY <1>1, <1>2, <2>8, <3>4 DEF HeldRow, Row, SeenInv
      <4>2. /\ members'[p][u].role = members[p][u].role
            /\ members'[p][u].status \in {members[p][u].status, "active"}
        BY <3>2, <4>1 DEF Column
      <4>3. members'[p][u].status # "none"
        BY <4>1, <4>2
      <4>4. \/ Access(p, u)' = Access(p, u)
            \/ Access(p, u) = "disabled" /\ Access(p, u)' = "active"
        BY <1>0, <1>2, <4>1, <4>2 DEF Access, Exists, MemberRow
      <4> QED BY <1>0, <1>2, <2>4, <2>5, <2>6, <3>1, <4>3, <4>4, RowStep
    <3> QED BY <3>3, <3>4
  <2> QED BY <1>4, <2>7, <2>8
<1> QED
  BY <1>0, <1>3, <1>4 DEF CommitAdd

LEMMA SimManage ==
  ASSUME LifeInv, IsoInv, SeenInv, Manage
  PROVE  Simulated /\ SeenInv'
<1>0. TypeOK
  BY DEF IsoInv, TypeInv
<1>t. ASSUME UNCHANGED <<born, projects, members, jobs>>
      PROVE  UNCHANGED <<PhaseOf, AccessOf>> /\ SeenInv'
  <2>1. UNCHANGED PhaseOf
    BY <1>t, PhasesStay DEF Exists, Creates
  <2>2. UNCHANGED AccessOf
    BY <1>t, SameAccess DEF Access, Exists
  <2>3. SeenInv'
    BY <1>t DEF SeenInv, Row, Mine
  <2> QED BY <2>1, <2>2, <2>3
<1>1. ASSUME NEW p \in Projects, NEW u \in Users, NEW s \in {"active", "disabled"},
             SetMemberStatus(p, u, s)
      PROVE  Simulated /\ SeenInv'
  <2>1. /\ members[p][u].role = "member" /\ members[p][u].status # s
        /\ UNCHANGED <<born, projects, tickets, jobs>>
        /\ members' = [members EXCEPT ![p][u].status = s] /\ members[p][u] \in MemberRow
    BY <1>0, <1>1 DEF SetMemberStatus, TypeOK
  <2>2. /\ members'[p][u].role = "member" /\ members'[p][u].status = s
        /\ \A q \in Projects, v \in Users : ~(q = p /\ v = u) => members'[q][v] = members[q][v]
    BY <1>0, <2>1 DEF TypeOK, MemberRow
  <2>3. UNCHANGED ConsentOf
    <3>1. \A k \in Tickets : Given(k)' <=> Given(k)
      BY <2>1 DEF Given, Agreed, Exists
    <3> QED BY <2>1, <3>1, SameConsent DEF PairsStay
  <2>4. \A x \in Threads, q \in Projects : Creates(x, q)' <=> Creates(x, q)
    BY <2>1 DEF Creates
  <2>5. members[p][u].status # "none"
    BY <2>1 DEF SeenInv, Row
  <2>6. \/ ~Exists(p)
        \/ Access(p, u) = "active" /\ Access(p, u)' = "disabled"
        \/ Access(p, u) = "disabled" /\ Access(p, u)' = "active"
    BY <2>1, <2>2, <2>5 DEF Access, Exists, MemberRow
  <2> QED BY <2>1, <2>2, <2>3, <2>4, <2>6, RowStep DEF Mine
<1>2. ASSUME NEW p \in Projects, NEW u \in Users, NEW kind, Issue(kind, p, u)
      PROVE  /\ UNCHANGED <<PhaseOf, AccessOf>> /\ SeenInv'
             /\ kind = "request" => UNCHANGED ConsentOf
             /\ kind = "invite" /\ Exists(p) => ConsentOf' = ConsentOf \cup {<<p, u>>}
  <2>1. UNCHANGED <<born, projects, members, jobs>>
    BY <1>2 DEF Issue
  <2>2. PICK k \in Tickets :
          /\ tickets[k] = NoTicket
          /\ tickets' = [tickets EXCEPT ![k] =
               [kind |-> kind, project |-> p, user |-> u, status |-> "pending"]]
    BY <1>2 DEF Issue
  <2>3. /\ tickets'[k].kind = kind /\ tickets'[k].project = p /\ tickets'[k].user = u
        /\ tickets'[k].status = "pending"
        /\ \A i \in Tickets \ {k} : tickets'[i] = tickets[i]
    BY <1>0, <2>2 DEF TypeOK
  <2>4. \A x \in Threads : jobs[x].op = "approve" => k \notin Mine(jobs[x])
    BY <2>2 DEF LifeInv, JobLife, AdmitLife, Admissions, Mine
  <2>5. \A i \in Tickets \ {k} : Given(i)' <=> Given(i)
    BY <2>1, <2>3 DEF Given, Agreed, Exists
  <2>6. ~Given(k)
    BY <2>2 DEF Given
  <2>7. kind = "request" => ~Given(k)'
    BY <2>1, <2>3, <2>4 DEF Given, Agreed, Mine
  <2>8. kind = "invite" => (Given(k)' <=> Exists(p))
    <3>1. kind = "invite" => tickets'[k] # NoTicket
      BY <2>3 DEF NoTicket
    <3>2. Exists(tickets[k].project)' <=> Exists(p)
      BY <2>1, <2>3 DEF Exists
    <3>3. kind = "invite" => Agreed(k)'
      BY <2>3 DEF Agreed
    <3> QED BY <3>1, <3>2, <3>3 DEF Given
  <2>9. PairsStay
    BY <2>2, <2>3 DEF PairsStay
  <2>10. kind = "request" => UNCHANGED ConsentOf
    BY <2>5, <2>6, <2>7, <2>9, SameConsent
  <2>11. ASSUME kind = "invite", Exists(p) PROVE ConsentOf' = ConsentOf \cup {<<p, u>>}
    <3>1. \A i \in Tickets : Given(i)' <=> Given(i) \/ i = k
      BY <2>5, <2>8, <2>11
    <3>2. \A i \in Tickets : i # k => tickets'[i] = tickets[i]
      BY <2>3
    <3> QED BY <2>3, <2>6, <3>1, <3>2 DEF ConsentOf
  <2> QED BY <1>t, <2>1, <2>10, <2>11
<1>3. ASSUME NEW p \in Projects, NEW u \in Users, CreateInvite(p, u)
      PROVE  Simulated /\ SeenInv'
  <2>1. Exists(p)
    BY <1>3, OwnerActing DEF CreateInvite
  <2>2. PhaseOf[p] = "open"
    BY <2>1 DEF PhaseOf, Phase
  <2>3. /\ UNCHANGED <<PhaseOf, AccessOf>> /\ SeenInv'
        /\ ConsentOf' = ConsentOf \cup {<<p, u>>}
    BY <1>2, <1>3, <2>1 DEF CreateInvite
  <2> QED BY <2>2, <2>3, DoAgree
<1>4. ASSUME NEW p \in Projects, NEW u \in Users, RequestToJoin(p, u)
      PROVE  Simulated /\ SeenInv'
  BY <1>2, <1>4 DEF RequestToJoin, Simulated, Seen
<1>5. ASSUME NEW p \in Projects, NEW u \in Users, Deny(p, u)
      PROVE  Simulated /\ SeenInv'
  <2>1. UNCHANGED <<born, projects, members, jobs>>
    BY <1>5 DEF Deny
  <2>2. PICK k \in Pending("request", p, u) : tickets' = [tickets EXCEPT ![k].status = "denied"]
    BY <1>5 DEF Deny
  <2>3. k \in Tickets /\ tickets[k].kind = "request" /\ tickets[k].status = "pending"
    BY DEF Pending
  <2>4. /\ tickets'[k].kind = "request" /\ tickets'[k].project = tickets[k].project
        /\ tickets'[k].user = tickets[k].user /\ tickets'[k].status = "denied"
        /\ \A i \in Tickets \ {k} : tickets'[i] = tickets[i]
    BY <1>0, <2>2, <2>3 DEF TypeOK, TicketRow
  <2>5. \A i \in Tickets \ {k} : Given(i)' <=> Given(i)
    BY <2>1, <2>4 DEF Given, Agreed, Exists
  <2>6. Given(k)' <=> Given(k)
    BY <2>1, <2>3, <2>4 DEF Given, Agreed, Exists, NoTicket
  <2>7. UNCHANGED ConsentOf
    BY <2>4, <2>5, <2>6, SameConsent DEF PairsStay
  <2> QED BY <1>t, <2>1, <2>7 DEF Simulated, Seen
<1> QED
  BY <1>1, <1>3, <1>4, <1>5 DEF Manage

LEMMA SimNext == LifeInv /\ IsoInv /\ SeenInv /\ [Next]_vars => Simulated /\ SeenInv'
<1> SUFFICES ASSUME LifeInv, IsoInv, SeenInv, [Next]_vars PROVE Simulated /\ SeenInv'
  OBVIOUS
<1>1. ASSUME NEW t \in Threads, Proceed(t) \/ Abort(t) PROVE Simulated /\ SeenInv'
  <2>1. CASE \/ FlushInsert(t) \/ SaveTenant(t) \/ FindUser(t) \/ SaveUser(t) \/ StarterDashboard(t)
             \/ TbFails(t) \/ DropTenant(t) \/ NextTicket(t) \/ DropUser(t) \/ Abort(t)
    BY <2>1, SimCalls
  <2> QED
    BY <1>1, <2>1, SimCommitCreate, SimCommitRetry, SimCommitAdd, SimErase, SimEraseMember,
       SimEndAdmission DEF Proceed
<1>2. CASE UNCHANGED vars
  <2>1. UNCHANGED <<born, projects, members, tickets, jobs>>
    BY <1>2 DEF vars
  <2>2. UNCHANGED PhaseOf
    BY <2>1, PhasesStay DEF Exists, Creates
  <2>3. UNCHANGED AccessOf
    BY <2>1, SameAccess DEF Access, Exists
  <2>4. UNCHANGED ConsentOf
    <3>1. \A k \in Tickets : Given(k)' <=> Given(k)
      BY <2>1 DEF Given, Agreed, Exists
    <3> QED BY <2>1, <3>1, SameConsent DEF PairsStay
  <2>5. SeenInv'
    BY <2>1 DEF SeenInv, Row, Mine
  <2> QED BY <2>2, <2>3, <2>4, <2>5 DEF Simulated, Seen
<1> QED
  BY <1>1, <1>2, SimArrive, SimManage DEF Next, Quiet

-----------------------------------------------------------------------------

\* Module Projects implements module ProjectAccess: whatever handlers overlap,
\* fail or die, a user enters a project only with the owner's consent, owners
\* are never displaced, and a deleted project admits nobody again.
THEOREM AccessRefined == Spec => AccessKept
<1>1. Init => LifeInv /\ IsoInv /\ SeenInv /\ Promise!AccessInit
  BY LifeInit, IsoInit, SeenInvInit, SeenInit
<1>2. LifeInv /\ IsoInv /\ SeenInv /\ [Next]_vars => LifeInv' /\ IsoInv' /\ SeenInv' /\ Simulated
  BY LifeNext, IsoNext, SimNext
<1>3. Simulated => [Promise!AccessNext]_(Promise!accessVars)
  <2>1. UNCHANGED Seen => UNCHANGED Promise!accessVars
    BY DEF Promise!accessVars, Seen, PhaseOf, AccessOf, ConsentOf, Given
  <2> QED BY <2>1 DEF Simulated
<1> QED
  BY <1>1, <1>2, <1>3, PTL DEF Spec, AccessKept, Promise!AccessSpec
=============================================================================
