----------------------------- MODULE FlowsProofs -----------------------------
(***************************************************************************)
(* Types and two safety properties of Flows, for any projects, handlers    *)
(* and bounds: a start never answers with an outdated instance, and no     *)
(* recreation removes an up-to-date container. The latter two follow from  *)
(* what a handler's container object says about the container that now     *)
(* has the name.                                                           *)
(***************************************************************************)
EXTENDS Flows, TLAPS

ContainerRow == [status : {"absent", "exited", "running"}, old : BOOLEAN]

StartOrStop ==
  [op : {"idle", "start", "stop"},
   pc : {"idle", "inspect", "remove", "boot", "run", "halt", "record"},
   project : Projects \cup {None}, handle : {"none", "live", "dead"}]

\* What is needed of the types.
Shapes ==
  /\ containers \in [Projects -> ContainerRow]
  /\ jobs \in [Threads -> StartOrStop]

\* A handler knows, from looking at the container, whether it is outdated, and
\* that stays true while its container object is live.
Knows(c, j) ==
  /\ j.op # "idle" => j.project \in Projects
  /\ j.pc \in {"remove", "boot"} => j.handle # "none"
  /\ j.pc = "remove" /\ j.handle = "live" => c[j.project].old
  /\ j.pc = "boot" /\ j.handle = "live" => ~c[j.project].old
  /\ j.op = "start" /\ j.pc = "record" => ~c[j.project].old
  /\ j.handle = "live" => j.op # "idle" /\ c[j.project].status # "absent"

\* The name is free or the container has a definite age.
AbsentIsNew == \A p \in Projects : containers[p].status = "absent" => ~containers[p].old

Inv == Shapes /\ AbsentIsNew /\ \A t \in Threads : Knows(containers, jobs[t])

\* A change of a container that keeps its age and does not make it disappear
\* leaves what handlers know true.
LEMMA KnowsStable ==
  ASSUME NEW c \in [Projects -> ContainerRow], NEW d \in [Projects -> ContainerRow],
         NEW j \in StartOrStop, Knows(c, j),
         \A p \in Projects : /\ d[p].old = c[p].old
                             /\ c[p].status # "absent" => d[p].status # "absent"
  PROVE  Knows(d, j)
  BY DEF Knows, StartOrStop

LEMMA InitInv == Init => Inv
  BY FlowsAssumption DEF Init, Inv, Shapes, AbsentIsNew, Knows, Absent, Idle, ContainerRow, StartOrStop

\* A step that leaves the containers alone and replaces one handler's locals.
LEMMA OneHandler ==
  ASSUME Inv, NEW t \in Threads, NEW j \in StartOrStop,
         jobs' = [jobs EXCEPT ![t] = j], UNCHANGED containers, Knows(containers, j)
  PROVE  Inv'
  <1>1. Shapes' BY DEF Inv, Shapes
  <1>2. AbsentIsNew' BY DEF Inv, AbsentIsNew
  <1>3. ASSUME NEW x \in Threads PROVE Knows(containers, jobs[x])'
    BY <1>3 DEF Inv, Shapes, Knows
  <1> QED BY <1>1, <1>2, <1>3 DEF Inv

\* A step that also gives one container another status, of the same age.
LEMMA OneContainer ==
  ASSUME Inv, NEW t \in Threads, NEW j \in StartOrStop, NEW p \in Projects,
         NEW s \in {"exited", "running"},
         jobs' = [jobs EXCEPT ![t] = j],
         SetContainer(p, s, containers[p].old), Knows(containers', j)
  PROVE  Inv'
  <1>1. Shapes' BY DEF Inv, Shapes, SetContainer, ContainerRow
  <1>2. AbsentIsNew' BY DEF Inv, Shapes, ContainerRow, AbsentIsNew, SetContainer
  <1>3. ASSUME NEW x \in Threads PROVE Knows(containers, jobs[x])'
    <2>1. CASE x = t BY <2>1 DEF Inv, Shapes
    <2>2. CASE x # t
      <3>1. jobs'[x] = jobs[x] /\ jobs[x] \in StartOrStop BY <2>2 DEF Inv, Shapes
      <3>2. \A q \in Projects : /\ containers'[q].old = containers[q].old
                                /\ containers[q].status # "absent" => containers'[q].status # "absent"
        BY DEF Inv, Shapes, ContainerRow, SetContainer
      <3>3. Knows(containers, jobs[x]) BY DEF Inv
      <3>4. Knows(containers', jobs[x])
        BY <1>1, <3>1, <3>2, <3>3, KnowsStable DEF Inv, Shapes
      <3> QED BY <3>1, <3>4 DEF Knows
    <2> QED BY <2>1, <2>2
  <1> QED BY <1>1, <1>2, <1>3 DEF Inv

\* The culler stops a container: no handler moves.
LEMMA CullerHalts ==
  ASSUME Inv, UNCHANGED jobs, NEW p, SetContainer(p, "exited", containers[p].old)
  PROVE  Inv'
  <1>1. CASE p \notin Projects
    <2>1. containers' = containers BY <1>1 DEF SetContainer, Inv, Shapes, ContainerRow
    <2> QED BY <2>1 DEF Inv, Shapes, AbsentIsNew, Knows
  <1>2. CASE p \in Projects
    <2>1. Shapes' BY <1>2 DEF Inv, Shapes, SetContainer, ContainerRow
    <2>2. AbsentIsNew' BY <1>2 DEF Inv, Shapes, ContainerRow, AbsentIsNew, SetContainer
    <2>3. ASSUME NEW x \in Threads PROVE Knows(containers, jobs[x])'
      <3>1. \A q \in Projects : /\ containers'[q].old = containers[q].old
                                /\ containers[q].status # "absent" => containers'[q].status # "absent"
        BY <1>2 DEF Inv, Shapes, ContainerRow, SetContainer
      <3>2. Knows(containers, jobs[x]) /\ jobs[x] \in StartOrStop BY DEF Inv, Shapes
      <3>3. Knows(containers', jobs[x]) BY <2>1, <3>1, <3>2, KnowsStable DEF Inv, Shapes
      <3> QED BY <3>3 DEF Knows
    <2> QED BY <2>1, <2>2, <2>3 DEF Inv
  <1> QED BY <1>1, <1>2

\* What a handler that acts knows.
LEMMA Facts ==
  ASSUME Inv, NEW t \in Threads
  PROVE  /\ jobs[t] \in StartOrStop
         /\ jobs[t].op # "idle" => jobs[t].project \in Projects
         /\ Knows(containers, jobs[t])
  BY DEF Inv, Shapes, Knows

LEMMA IdleKnows == Idle \in StartOrStop /\ Knows(containers, Idle) /\ Knows(containers', Idle)
  BY DEF Idle, StartOrStop, Knows

LEMMA StartSteps ==
  ASSUME Inv, NEW t \in Threads,
         \/ InspectForStart(t) \/ Boot(t) \/ Run(t) \/ RunHalfway(t) \/ RecordStart(t)
  PROVE  Inv'
  <1> DEFINE j == jobs[t]
             p == jobs[t].project
  <1>0. j \in StartOrStop /\ (j.op # "idle" => p \in Projects) /\ Knows(containers, j) BY Facts
  <1>1. CASE InspectForStart(t)
    <2> DEFINE c == containers[p]
               pc == CASE c.status = "absent" -> "run"
                       [] c.status # "absent" /\ c.old -> "remove"
                       [] c.status = "exited" /\ ~c.old -> "boot"
                       [] OTHER -> "record"
               next == [j EXCEPT !.pc = pc, !.handle = IF pc = "run" THEN "none" ELSE "live"]
    <2>1. p \in Projects /\ j.op = "start" BY <1>0, <1>1 DEF InspectForStart, At
    <2>2. c \in ContainerRow BY <2>1 DEF Inv, Shapes
    <2>3. /\ pc \in {"run", "remove", "boot", "record"}
          /\ pc = "run" <=> c.status = "absent"
          /\ pc = "remove" => c.old
          /\ pc \in {"boot", "record"} => ~c.old
      BY <2>2 DEF ContainerRow
    <2>4. next \in StartOrStop BY <1>0, <2>3 DEF StartOrStop
    <2>5. next.op = "start" /\ next.pc = pc /\ next.project = p
            /\ next.handle = IF pc = "run" THEN "none" ELSE "live"
      BY <1>0, <2>1 DEF StartOrStop
    <2> HIDE DEF next, pc
    <2>6. Knows(containers, next) BY <2>1, <2>3, <2>5 DEF Knows
    <2>7. jobs' = [jobs EXCEPT ![t] = next] /\ UNCHANGED containers
      BY <1>1 DEF InspectForStart, Goto, next, pc
    <2> QED BY <2>4, <2>6, <2>7, OneHandler
  <1>2. CASE Boot(t)
    <2>1. j.op = "start" /\ j.pc = "boot" /\ p \in Projects BY <1>0, <1>2 DEF Boot, At
    <2>2. CASE j.handle = "dead"
      <3> DEFINE next == [j EXCEPT !.pc = "run", !.handle = "none"]
      <3>1. next \in StartOrStop /\ Knows(containers, next) BY <1>0, <2>1 DEF StartOrStop, Knows
      <3>2. jobs' = [jobs EXCEPT ![t] = next] /\ UNCHANGED containers BY <1>2, <2>2 DEF Boot, Goto
      <3> QED BY <3>1, <3>2, OneHandler
    <2>3. CASE j.handle # "dead"
      <3> DEFINE next == [j EXCEPT !.pc = "record", !.handle = "none"]
      <3>1. j.handle = "live" /\ ~containers[p].old BY <1>0, <2>1, <2>3 DEF Knows, StartOrStop
      <3>2. SetContainer(p, "running", containers[p].old) BY <1>2, <2>3 DEF Boot
      <3>3. ~containers'[p].old BY <2>1, <3>1, <3>2 DEF SetContainer, Inv, Shapes
      <3>4. next \in StartOrStop /\ Knows(containers', next)
        BY <1>0, <2>1, <3>3 DEF StartOrStop, Knows
      <3>5. jobs' = [jobs EXCEPT ![t] = next] BY <1>2, <2>3 DEF Boot, Goto
      <3> HIDE DEF next
      <3> QED BY <2>1, <3>2, <3>4, <3>5, OneContainer
    <2> QED BY <2>2, <2>3
  <1>3. CASE Run(t) \/ RunHalfway(t)
    <2>1. j.op = "start" /\ j.pc = "run" /\ p \in Projects BY <1>0, <1>3 DEF Run, RunHalfway, At
    <2>2. containers[p].status = "absent" => ~containers[p].old BY <2>1 DEF Inv, AbsentIsNew
    <2>3. containers[p].status = "absent" => containers[p].old = FALSE
      BY <2>1, <2>2 DEF Inv, Shapes, ContainerRow
    <2>4. CASE UNCHANGED containers /\ Goto(t, Idle)
      BY <2>4, IdleKnows, OneHandler DEF Goto
    <2>5. CASE /\ containers[p].status = "absent" /\ SetContainer(p, "running", FALSE)
               /\ Goto(t, [j EXCEPT !.pc = "record"])
      <3> DEFINE next == [j EXCEPT !.pc = "record"]
      <3>1. SetContainer(p, "running", containers[p].old) BY <2>3, <2>5
      <3>2. ~containers'[p].old /\ containers'[p].status # "absent"
        BY <2>1, <2>5 DEF SetContainer, Inv, Shapes
      <3>3. next \in StartOrStop /\ Knows(containers', next)
        BY <1>0, <2>1, <3>2 DEF StartOrStop, Knows
      <3>4. jobs' = [jobs EXCEPT ![t] = next] BY <2>5 DEF Goto
      <3> HIDE DEF next
      <3> QED BY <2>1, <3>1, <3>3, <3>4, OneContainer
    <2>6. CASE /\ containers[p].status = "absent" /\ SetContainer(p, "exited", FALSE)
               /\ Goto(t, Idle)
      <3>1. SetContainer(p, "exited", containers[p].old) BY <2>3, <2>6
      <3> QED BY <2>1, <2>6, <3>1, IdleKnows, OneContainer DEF Goto
    <2> QED BY <1>3, <2>4, <2>5, <2>6 DEF Run, RunHalfway
  <1>4. CASE RecordStart(t)
    BY <1>4, IdleKnows, OneHandler DEF RecordStart, Goto
  <1> QED BY <1>1, <1>2, <1>3, <1>4

LEMMA RemoveStep ==
  ASSUME Inv, NEW t \in Threads, RemoveOld(t)
  PROVE  Inv'
  <1> DEFINE j == jobs[t]
             p == jobs[t].project
             mine == [j EXCEPT !.pc = "run", !.handle = "none"]
  <1>0. j \in StartOrStop /\ Knows(containers, j) BY Facts
  <1>1. j.op = "start" /\ j.pc = "remove" /\ p \in Projects BY Facts DEF RemoveOld, At
  <1>2. mine \in StartOrStop /\ Knows(containers, mine) /\ Knows(containers', mine)
    BY <1>0, <1>1 DEF StartOrStop, Knows
  <1>3. CASE j.handle = "dead"
    <2>1. jobs' = [jobs EXCEPT ![t] = mine] /\ UNCHANGED containers BY <1>3 DEF RemoveOld, Goto
    <2> HIDE DEF mine
    <2> QED BY <1>2, <2>1, OneHandler
  <1>4. CASE j.handle # "dead"
    <2> DEFINE Holds(x) == x # t /\ jobs[x].project = p /\ jobs[x].handle = "live"
    <2>1. containers' = [containers EXCEPT ![p] = Absent] BY <1>4 DEF RemoveOld
    <2>2. jobs' = [x \in Threads |->
                     IF x = t THEN mine
                     ELSE IF Holds(x) THEN [jobs[x] EXCEPT !.handle = "dead"] ELSE jobs[x]]
      BY <1>4 DEF RemoveOld
    <2>3. Absent \in ContainerRow /\ ~Absent.old BY DEF Absent, ContainerRow
    <2>4. \A x \in Threads : jobs'[x] \in StartOrStop
      <3>1. TAKE x \in Threads
      <3>2. jobs[x] \in StartOrStop /\ [jobs[x] EXCEPT !.handle = "dead"] \in StartOrStop
        BY DEF Inv, Shapes, StartOrStop
      <3> HIDE DEF mine
      <3> QED BY <1>2, <2>2, <3>2
    <2>5. Shapes'
      <3>1. containers' \in [Projects -> ContainerRow] BY <2>1, <2>3 DEF Inv, Shapes
      <3>2. jobs' \in [Threads -> StartOrStop] BY <2>2, <2>4
      <3> QED BY <3>1, <3>2 DEF Shapes
    <2>6. AbsentIsNew' BY <2>1, <2>3 DEF Inv, Shapes, AbsentIsNew
    <2>7. ASSUME NEW x \in Threads PROVE Knows(containers, jobs[x])'
      <3>1. CASE x = t BY <1>2, <2>2, <3>1
      <3>2. CASE x # t /\ Holds(x)
        <4>1. jobs'[x] = [jobs[x] EXCEPT !.handle = "dead"] BY <2>2, <3>2
        <4>2. Knows(containers, jobs[x]) /\ jobs[x] \in StartOrStop BY Facts
        <4>3. \A q \in Projects : ~containers'[q].old \/ q # p
          BY <2>1, <2>3 DEF Inv, Shapes
        <4> QED BY <1>1, <2>1, <2>3, <3>2, <4>1, <4>2, <4>3 DEF Knows, StartOrStop, Inv, Shapes
      <3>3. CASE x # t /\ ~Holds(x)
        <4>1. jobs'[x] = jobs[x] BY <2>2, <3>3
        <4>2. Knows(containers, jobs[x]) /\ jobs[x] \in StartOrStop BY Facts
        <4> QED BY <1>1, <2>1, <2>3, <3>3, <4>1, <4>2 DEF Knows, StartOrStop, Inv, Shapes
      <3> QED BY <3>1, <3>2, <3>3
    <2> QED BY <2>5, <2>6, <2>7 DEF Inv
  <1> QED BY <1>3, <1>4

LEMMA StopSteps ==
  ASSUME Inv, NEW t \in Threads,
         \/ InspectForStop(t) \/ Halt(t) \/ RecordStop(t) \/ DockerFails(t)
  PROVE  Inv'
  <1> DEFINE j == jobs[t]
             p == jobs[t].project
  <1>0. j \in StartOrStop /\ (j.op # "idle" => p \in Projects) /\ Knows(containers, j) BY Facts
  <1>1. CASE InspectForStop(t)
    <2> DEFINE running == containers[p].status = "running"
               next == [j EXCEPT !.pc = IF running THEN "halt" ELSE "record",
                                 !.handle = IF running THEN "live" ELSE "none"]
    <2>1. j.op = "stop" BY <1>1 DEF InspectForStop, At
    <2>2. next \in StartOrStop /\ Knows(containers, next) BY <1>0, <2>1 DEF StartOrStop, Knows
    <2>3. jobs' = [jobs EXCEPT ![t] = next] /\ UNCHANGED containers
      BY <1>1 DEF InspectForStop, Goto
    <2> HIDE DEF next
    <2> QED BY <2>2, <2>3, OneHandler
  <1>2. CASE Halt(t)
    <2>1. j.op = "stop" /\ p \in Projects BY <1>0, <1>2 DEF Halt, At
    <2>2. CASE j.handle = "dead"
      BY <1>2, <2>2, IdleKnows, OneHandler DEF Halt, Goto
    <2>3. CASE j.handle # "dead"
      <3> DEFINE next == [j EXCEPT !.pc = "record", !.handle = "none"]
      <3>1. next \in StartOrStop /\ Knows(containers', next) BY <1>0, <2>1 DEF StartOrStop, Knows
      <3>2. jobs' = [jobs EXCEPT ![t] = next] /\ SetContainer(p, "exited", containers[p].old)
        BY <1>2, <2>3 DEF Halt, Goto
      <3> HIDE DEF next
      <3> QED BY <2>1, <3>1, <3>2, OneContainer
    <2> QED BY <2>2, <2>3
  <1>3. CASE RecordStop(t) \/ DockerFails(t)
    BY <1>3, IdleKnows, OneHandler DEF RecordStop, DockerFails, Goto
  <1> QED BY <1>1, <1>2, <1>3

LEMMA BeginSteps ==
  ASSUME Inv, NEW t \in Threads, NEW p \in Projects, BeginStart(t, p) \/ BeginStop(t, p)
  PROVE  Inv'
  <1>1. PICK op \in {"start", "stop"} :
          /\ jobs' = [jobs EXCEPT ![t] =
                        [op |-> op, pc |-> "inspect", project |-> p, handle |-> "none"]]
          /\ UNCHANGED containers
    BY DEF BeginStart, BeginStop, Goto
  <1> DEFINE next == [op |-> op, pc |-> "inspect", project |-> p, handle |-> "none"]
  <1>2. next \in StartOrStop /\ Knows(containers, next) BY DEF StartOrStop, Knows
  <1> HIDE DEF next
  <1> QED BY <1>1, <1>2, OneHandler DEF next

LEMMA RestartStep ==
  ASSUME Inv, NEW newImage \in BOOLEAN, Restart(newImage)
  PROVE  Inv'
  <1>1. \A p \in Projects :
          /\ containers'[p] \in ContainerRow
          /\ containers'[p].status = "absent" => ~containers'[p].old
    BY DEF Restart, Inv, Shapes, ContainerRow
  <1>2. Shapes'
    <2>1. containers' \in [Projects -> ContainerRow] BY <1>1 DEF Restart
    <2>2. jobs' \in [Threads -> StartOrStop] BY IdleKnows DEF Restart
    <2> QED BY <2>1, <2>2 DEF Shapes
  <1>3. AbsentIsNew' BY <1>1 DEF AbsentIsNew
  <1>4. \A x \in Threads : Knows(containers, jobs[x])' BY IdleKnows DEF Restart
  <1> QED BY <1>2, <1>3, <1>4 DEF Inv

LEMMA NextInv == Inv /\ [Next]_vars => Inv'
  <1> SUFFICES ASSUME Inv, [Next]_vars PROVE Inv' OBVIOUS
  <1>1. CASE UNCHANGED <<containers, jobs>>
    BY <1>1 DEF Inv, Shapes, AbsentIsNew, Knows
  <1>2. ASSUME NEW t \in Threads, Proceed(t) PROVE Inv'
    BY <1>2, StartSteps, RemoveStep, StopSteps DEF Proceed
  <1>3. ASSUME NEW t \in Threads, NEW p \in Projects, BeginStart(t, p) \/ BeginStop(t, p)
        PROVE Inv'
    BY <1>3, BeginSteps
  <1>4. CASE Cull
    <2>1. CASE HaltForCull
      <3>1. CASE culler.handle = "dead" BY <1>1, <2>1, <3>1 DEF HaltForCull
      <3>2. CASE culler.handle # "dead" BY <2>1, <3>2, CullerHalts DEF HaltForCull
      <3> QED BY <3>1, <3>2
    <2>2. CASE Scan \/ InspectForCull \/ CullFails \/ CommitCull
      BY <1>1, <2>2 DEF Scan, InspectForCull, CullFails, CommitCull
    <2> QED BY <1>4, <2>1, <2>2 DEF Cull
  <1>5. ASSUME NEW p \in Projects, FlowsAuth(p) \/ BecomeIdle(p) PROVE Inv'
    BY <1>1, <1>5 DEF FlowsAuth, BecomeIdle
  <1>6. ASSUME NEW newImage \in BOOLEAN, Restart(newImage) PROVE Inv'
    BY <1>6, RestartStep
  <1>7. CASE UNCHANGED vars BY <1>1, <1>7 DEF vars
  <1> QED BY <1>2, <1>3, <1>4, <1>5, <1>6, <1>7 DEF Next

\* A start that is about to answer has an up-to-date instance.
THEOREM StartIsCurrent == Spec => []StartedIsCurrent
  <1>1. Inv => StartedIsCurrent BY DEF Inv, Knows, StartedIsCurrent, At
  <1> QED BY InitInv, NextInv, <1>1, PTL DEF Spec

\* Only a container a handler has seen to be outdated, and still holds, is
\* removed; so an up-to-date one never is.
THEOREM CurrentIsKept == Spec => CurrentKept
  <1> DEFINE Kept == \A p \in Projects :
                       containers[p].status # "absent" /\ ~containers[p].old
                         => containers'[p].status # "absent"
  <1>1. ASSUME Inv, [Next]_vars PROVE Kept
    <2> SUFFICES ASSUME NEW p \in Projects, containers[p].status # "absent", ~containers[p].old
                 PROVE  containers'[p].status # "absent"
      OBVIOUS
    <2>1. CASE UNCHANGED containers BY <2>1
    <2>2. ASSUME NEW q, NEW s \in {"exited", "running"}, NEW o, SetContainer(q, s, o)
          PROVE  containers'[p].status # "absent"
      BY <2>2 DEF SetContainer, Inv, Shapes
    <2>3. ASSUME NEW t \in Threads, RemoveOld(t) PROVE containers'[p].status # "absent"
      <3>1. CASE jobs[t].handle = "dead" BY <2>1, <2>3, <3>1 DEF RemoveOld
      <3>2. CASE jobs[t].handle # "dead"
        <4>1. jobs[t].handle = "live" /\ containers[jobs[t].project].old
          <5>1. jobs[t] \in StartOrStop /\ Knows(containers, jobs[t]) BY Facts, <1>1
          <5>2. jobs[t].pc = "remove" BY <2>3 DEF RemoveOld, At
          <5> QED BY <3>2, <5>1, <5>2 DEF Knows, StartOrStop
        <4>2. jobs[t].project # p BY <4>1
        <4>3. containers' = [containers EXCEPT ![jobs[t].project] = Absent]
          BY <2>3, <3>2 DEF RemoveOld
        <4> QED BY <4>2, <4>3 DEF Inv, Shapes
      <3> QED BY <3>1, <3>2
    <2>4. ASSUME NEW t \in Threads, Boot(t) \/ Run(t) \/ RunHalfway(t) \/ Halt(t)
          PROVE  containers'[p].status # "absent"
      BY <2>1, <2>2, <2>4 DEF Boot, Run, RunHalfway, Halt
    <2>5. ASSUME NEW newImage \in BOOLEAN, Restart(newImage)
          PROVE  containers'[p].status # "absent"
      <3>1. containers[p] \in ContainerRow BY <1>1 DEF Inv, Shapes
      <3>2. \A o : [containers[p] EXCEPT !.old = o].status = containers[p].status
        BY <3>1 DEF ContainerRow
      <3>3. \E o : containers'[p] = [containers[p] EXCEPT !.old = o] BY <2>5 DEF Restart
      <3> QED BY <3>2, <3>3
    <2>6. CASE HaltForCull BY <2>1, <2>2, <2>6 DEF HaltForCull
    <2> QED BY <1>1, <2>1, <2>3, <2>4, <2>5, <2>6
         DEF Next, vars, Proceed, Cull, InspectForStart, RecordStart, InspectForStop, RecordStop,
             DockerFails, BeginStart, BeginStop, Scan, InspectForCull, CullFails, CommitCull,
             FlowsAuth, BecomeIdle
  <1>2. Inv /\ [Next]_vars => [Kept]_vars BY <1>1
  <1> QED BY InitInv, NextInv, <1>2, PTL DEF Spec, CurrentKept

-----------------------------------------------------------------------------
(* Types.  The shapes of containers and handlers are part of Inv; the rows, *)
(* the culler and the counters have theirs from step to step.               *)

CullerShape ==
  [pc : {"sleep", "inspect", "halt"}, at : Projects \cup {None},
   handle : {"none", "live", "dead"}, todo : SUBSET Projects, marked : SUBSET Projects]

RowShape == [state : {"none", "running", "stopped"}, idle : BOOLEAN]

OtherShapes ==
  /\ rows \in [Projects -> RowShape]
  /\ culler \in CullerShape
  /\ culler.pc = "halt" => culler.at \in Projects
  /\ faults \in 0 .. MaxFaults
  /\ restarts \in 0 .. MaxRestarts

LEMMA InitOther == Init => OtherShapes
  BY FlowsAssumption DEF Init, OtherShapes, RowShape, CullerShape, NoRow, Asleep

LEMMA AsleepShape == Asleep \in CullerShape /\ Asleep.pc # "halt"
  BY DEF Asleep, CullerShape

LEMMA HandlersOther ==
  ASSUME Inv, OtherShapes, NEW t \in Threads,
         Proceed(t) \/ \E p \in Projects : BeginStart(t, p) \/ BeginStop(t, p)
  PROVE  OtherShapes'
  <1>1. rows' \in [Projects -> RowShape]
    <2>1. CASE RecordStart(t) BY <2>1 DEF RecordStart, OtherShapes, RowShape
    <2>2. CASE RecordStop(t) BY <2>2 DEF RecordStop, OtherShapes, RowShape
    <2>3. CASE UNCHANGED rows BY <2>3 DEF OtherShapes
    <2> QED BY <2>1, <2>2, <2>3
         DEF Proceed, InspectForStart, RemoveOld, Boot, Run, RunHalfway, InspectForStop, Halt,
             DockerFails, BeginStart, BeginStop
  <1>2. culler' \in CullerShape /\ (culler'.pc = "halt" => culler'.at \in Projects)
    <2>1. CASE RemoveOld(t)
      <3>1. culler' = culler \/ culler' = [culler EXCEPT !.handle = "dead"]
        BY <2>1 DEF RemoveOld
      <3> QED BY <3>1 DEF OtherShapes, CullerShape
    <2>2. CASE UNCHANGED culler BY <2>2 DEF OtherShapes
    <2> QED BY <2>1, <2>2
         DEF Proceed, InspectForStart, RecordStart, RecordStop, Boot, Run, RunHalfway,
             InspectForStop, Halt, DockerFails, BeginStart, BeginStop
  <1>3. faults' \in 0 .. MaxFaults /\ restarts' = restarts
    <2>1. Fault => faults' \in 0 .. MaxFaults BY FlowsAssumption DEF Fault, OtherShapes
    <2>2. faults' = faults \/ Fault
      BY DEF Proceed, InspectForStart, RemoveOld, Boot, Run, RunHalfway, RecordStart,
             InspectForStop, Halt, RecordStop, DockerFails, BeginStart, BeginStop
    <2>3. restarts' = restarts
      BY DEF Proceed, InspectForStart, RemoveOld, Boot, Run, RunHalfway, RecordStart,
             InspectForStop, Halt, RecordStop, DockerFails, BeginStart, BeginStop
    <2> QED BY <2>1, <2>2, <2>3 DEF OtherShapes
  <1> QED BY <1>1, <1>2, <1>3 DEF OtherShapes

LEMMA CullOther ==
  ASSUME Inv, OtherShapes, Cull
  PROVE  OtherShapes'
  <1>1. CASE Scan
    <2> DEFINE todo == {p \in Projects : rows[p].state = "running" /\ rows[p].idle}
    <2>1. culler' = [Asleep EXCEPT !.pc = "inspect", !.todo = todo] BY <1>1 DEF Scan
    <2> HIDE DEF todo
    <2>2. todo \subseteq Projects BY DEF todo
    <2>3. culler' \in CullerShape /\ culler'.pc = "inspect"
      BY <2>1, <2>2, AsleepShape DEF CullerShape
    <2> QED BY <1>1, <2>3 DEF Scan, OtherShapes
  <1>2. CASE InspectForCull
    <2>1. PICK p \in culler.todo :
            culler' = IF containers[p].status = "running"
                      THEN [culler EXCEPT !.pc = "halt", !.at = p, !.handle = "live",
                                          !.todo = @ \ {p}]
                      ELSE [culler EXCEPT !.todo = @ \ {p}, !.marked = @ \cup {p}]
      BY <1>2 DEF InspectForCull
    <2>2. culler \in CullerShape /\ p \in Projects /\ culler.pc = "inspect"
      BY <1>2 DEF OtherShapes, CullerShape, InspectForCull
    <2>3. culler' \in CullerShape /\ (culler'.pc = "halt" => culler'.at \in Projects)
      <3>1. CASE containers[p].status = "running"
        BY <2>1, <2>2, <3>1 DEF CullerShape
      <3>2. CASE containers[p].status # "running"
        BY <2>1, <2>2, <3>2 DEF CullerShape
      <3> QED BY <3>1, <3>2
    <2> QED BY <1>2, <2>3 DEF InspectForCull, OtherShapes
  <1>3. CASE HaltForCull
    <2>1. culler.at \in Projects /\ culler \in CullerShape
      BY <1>3 DEF HaltForCull, OtherShapes
    <2>2. \/ culler' = Asleep
          \/ culler' = [culler EXCEPT !.pc = "inspect", !.at = None, !.handle = "none",
                                       !.marked = @ \cup {culler.at}]
      BY <1>3 DEF HaltForCull
    <2>3. culler' \in CullerShape /\ culler'.pc # "halt"
      <3>1. CASE culler' = Asleep BY <3>1, AsleepShape
      <3>2. CASE culler' # Asleep
        <4>1. culler.marked \cup {culler.at} \in SUBSET Projects BY <2>1 DEF CullerShape
        <4> QED BY <2>1, <2>2, <3>2, <4>1 DEF CullerShape
      <3> QED BY <3>1, <3>2
    <2> QED BY <1>3, <2>3 DEF HaltForCull, OtherShapes
  <1>4. CASE CullFails
    BY <1>4, AsleepShape, FlowsAssumption DEF CullFails, Fault, OtherShapes
  <1>5. CASE CommitCull
    <2>1. rows' \in [Projects -> RowShape]
      BY <1>5 DEF CommitCull, OtherShapes, RowShape
    <2> QED BY <1>5, <2>1, AsleepShape DEF CommitCull, OtherShapes
  <1> QED BY <1>1, <1>2, <1>3, <1>4, <1>5 DEF Cull

LEMMA NextOther == Inv /\ OtherShapes /\ [Next]_vars => OtherShapes'
  <1> SUFFICES ASSUME Inv, OtherShapes, [Next]_vars PROVE OtherShapes' OBVIOUS
  <1>1. ASSUME NEW p \in Projects, FlowsAuth(p) \/ BecomeIdle(p) PROVE OtherShapes'
    <2>1. rows' \in [Projects -> RowShape]
      BY <1>1 DEF FlowsAuth, BecomeIdle, OtherShapes, RowShape
    <2> QED BY <1>1, <2>1 DEF FlowsAuth, BecomeIdle, OtherShapes
  <1>2. ASSUME NEW newImage \in BOOLEAN, Restart(newImage) PROVE OtherShapes'
    BY <1>2, AsleepShape, FlowsAssumption DEF Restart, OtherShapes
  <1>3. CASE UNCHANGED vars BY <1>3 DEF vars, OtherShapes
  <1> QED BY <1>1, <1>2, <1>3, HandlersOther, CullOther DEF Next

\* Every reachable state of the model of the instances is well typed: rows,
\* handlers and the culler's batch (main.py, routers/flows.py).
THEOREM FlowsTyped == Spec => []TypeOK
  <1>1. Inv /\ OtherShapes => TypeOK
    BY DEF Inv, Shapes, ContainerRow, StartOrStop, OtherShapes, RowShape, CullerShape, TypeOK
  <1> QED BY InitInv, NextInv, InitOther, NextOther, <1>1, PTL DEF Spec
=============================================================================
