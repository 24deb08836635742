-------------------------------- MODULE Flows --------------------------------
(***************************************************************************)
(* One Node-RED instance per project (portal/app/flows.py and              *)
(* routers/flows.py) and the culler thread that stops idle ones            *)
(* (main.py, cull_idle).                                                   *)
(*                                                                         *)
(* An instance is a Docker container with a fixed name; the portal keeps a *)
(* row per project that is meant to mirror it.  The handlers of start and  *)
(* stop and the culler each look the container up, act on the object they  *)
(* got (Docker finds it by its id, not by its name) and commit the row at  *)
(* the end, without a lock.  The culler loads all running rows at once and *)
(* commits them at once.                                                   *)
(*                                                                         *)
(* Time is kept as one bit per row, whether last_active is older than      *)
(* IDLE_STOP.  The membership gate of the routes is that of Projects.      *)
(***************************************************************************)
EXTENDS Naturals

CONSTANTS
  Projects,     \* project ids
  Threads,      \* request handlers that may be in progress at once
  None,
  MaxFaults,    \* bound on failing Docker calls
  MaxRestarts   \* bound on restarts of the portal (crash, deploy)

ASSUME FlowsAssumption ==
  None \notin Projects /\ MaxFaults \in Nat /\ MaxRestarts \in Nat

VARIABLES
  containers,   \* Docker: the container named nodered-<project>
  rows,         \* table flow_instances
  jobs,         \* start and stop handlers in progress
  culler,       \* the culler thread
  faults, restarts

vars == <<containers, rows, jobs, culler, faults, restarts>>

Absent == [status |-> "absent", old |-> FALSE]
NoRow  == [state |-> "none", idle |-> TRUE]
\* handle: the container object a call returned; "dead" once that container
\* has been removed
Idle   == [op |-> "idle", pc |-> "idle", project |-> None, handle |-> "none"]
Asleep == [pc |-> "sleep", at |-> None, handle |-> "none", todo |-> {}, marked |-> {}]

(***************************************************************************)
(* Every variable has the right shape.                                     *)
(***************************************************************************)
TypeOK ==
  /\ containers \in [Projects -> [status : {"absent", "exited", "running"}, old : BOOLEAN]]
  /\ rows \in [Projects -> [state : {"none", "running", "stopped"}, idle : BOOLEAN]]
  /\ jobs \in [Threads ->
       [op : {"idle", "start", "stop"},
        pc : {"idle", "inspect", "remove", "boot", "run", "halt", "record"},
        project : Projects \cup {None}, handle : {"none", "live", "dead"}]]
  /\ culler \in [pc : {"sleep", "inspect", "halt"}, at : Projects \cup {None},
                 handle : {"none", "live", "dead"},
                 todo : SUBSET Projects, marked : SUBSET Projects]
  /\ faults \in 0 .. MaxFaults
  /\ restarts \in 0 .. MaxRestarts

Init ==
  /\ containers = [p \in Projects |-> Absent]
  /\ rows = [p \in Projects |-> NoRow]
  /\ jobs = [t \in Threads |-> Idle]
  /\ culler = Asleep
  /\ faults = 0 /\ restarts = 0

Goto(t, j) == jobs' = [jobs EXCEPT ![t] = j]
At(t, op, pc) == jobs[t].op = op /\ jobs[t].pc = pc
Fault == faults < MaxFaults /\ faults' = faults + 1

SetContainer(p, status, old) ==
  containers' = [containers EXCEPT ![p] = [status |-> status, old |-> old]]

-----------------------------------------------------------------------------
(* POST /flows/start: spawn, then the row.                                 *)

BeginStart(t, p) ==
  /\ jobs[t] = Idle
  /\ Goto(t, [op |-> "start", pc |-> "inspect", project |-> p, handle |-> "none"])
  /\ UNCHANGED <<containers, rows, culler, faults, restarts>>

\* A variant for mutation: reuses whatever image the container has.
InspectForStartAnyImage(t) ==
  LET c == containers[jobs[t].project]
      pc == CASE c.status = "absent" -> "run" [] c.status = "exited" -> "boot"
              [] OTHER -> "record"
  IN /\ At(t, "start", "inspect")
     /\ Goto(t, [jobs[t] EXCEPT !.pc = pc, !.handle = IF pc = "run" THEN "none" ELSE "live"])
     /\ UNCHANGED <<containers, rows, culler, faults, restarts>>

InspectForStart(t) ==
  LET c == containers[jobs[t].project]
      pc == CASE c.status = "absent" -> "run"
              [] c.status # "absent" /\ c.old -> "remove"
              [] c.status = "exited" /\ ~c.old -> "boot"
              [] OTHER -> "record"
  IN /\ At(t, "start", "inspect")
     /\ Goto(t, [jobs[t] EXCEPT !.pc = pc, !.handle = IF pc = "run" THEN "none" ELSE "live"])
     /\ UNCHANGED <<containers, rows, culler, faults, restarts>>

\* A variant for mutation: removes by name.
RemoveOldByName(t) ==
  LET p == jobs[t].project
  IN /\ At(t, "start", "remove")
     /\ containers' = [containers EXCEPT ![p] = Absent]
     /\ Goto(t, [jobs[t] EXCEPT !.pc = "run", !.handle = "none"])
     /\ UNCHANGED <<rows, culler, faults, restarts>>

\* c.remove(force=True): if that container is gone, NotFound is caught.
RemoveOld(t) ==
  LET p == jobs[t].project
      Holds(x) == x # t /\ jobs[x].project = p /\ jobs[x].handle = "live"
      mine == [jobs[t] EXCEPT !.pc = "run", !.handle = "none"]
  IN /\ At(t, "start", "remove")
     /\ IF jobs[t].handle = "dead"
        THEN Goto(t, mine) /\ UNCHANGED <<containers, culler>>
        ELSE /\ containers' = [containers EXCEPT ![p] = Absent]
             /\ jobs' = [x \in Threads |->
                           IF x = t THEN mine
                           ELSE IF Holds(x) THEN [jobs[x] EXCEPT !.handle = "dead"] ELSE jobs[x]]
             /\ culler' = IF culler.at = p THEN [culler EXCEPT !.handle = "dead"] ELSE culler
     /\ UNCHANGED <<rows, faults, restarts>>

\* c.start(): likewise.
Boot(t) ==
  LET p == jobs[t].project
  IN /\ At(t, "start", "boot")
     /\ IF jobs[t].handle = "dead"
        THEN Goto(t, [jobs[t] EXCEPT !.pc = "run", !.handle = "none"]) /\ UNCHANGED containers
        ELSE /\ SetContainer(p, "running", containers[p].old)
             /\ Goto(t, [jobs[t] EXCEPT !.pc = "record", !.handle = "none"])
     /\ UNCHANGED <<rows, culler, faults, restarts>>

\* containers.run: a container of that name makes it fail.
Run(t) ==
  LET p == jobs[t].project
  IN /\ At(t, "start", "run")
     /\ IF containers[p].status = "absent"
        THEN SetContainer(p, "running", FALSE) /\ Goto(t, [jobs[t] EXCEPT !.pc = "record"])
        ELSE Goto(t, Idle) /\ UNCHANGED containers
     /\ UNCHANGED <<rows, culler, faults, restarts>>

\* containers.run creates, then starts; the start may fail.
RunHalfway(t) ==
  /\ At(t, "start", "run") /\ containers[jobs[t].project].status = "absent"
  /\ Fault
  /\ SetContainer(jobs[t].project, "exited", FALSE)
  /\ Goto(t, Idle)
  /\ UNCHANGED <<rows, culler, restarts>>

RecordStart(t) ==
  /\ At(t, "start", "record")
  /\ rows' = [rows EXCEPT ![jobs[t].project] = [state |-> "running", idle |-> FALSE]]
  /\ Goto(t, Idle)
  /\ UNCHANGED <<containers, culler, faults, restarts>>

(* ---- POST /flows/stop -------------------------------------------------- *)

BeginStop(t, p) ==
  /\ jobs[t] = Idle
  /\ Goto(t, [op |-> "stop", pc |-> "inspect", project |-> p, handle |-> "none"])
  /\ UNCHANGED <<containers, rows, culler, faults, restarts>>

InspectForStop(t) ==
  LET running == containers[jobs[t].project].status = "running"
  IN /\ At(t, "stop", "inspect")
     /\ Goto(t, [jobs[t] EXCEPT !.pc = IF running THEN "halt" ELSE "record",
                                !.handle = IF running THEN "live" ELSE "none"])
     /\ UNCHANGED <<containers, rows, culler, faults, restarts>>

\* c.stop(): NotFound is not caught here
Halt(t) ==
  LET p == jobs[t].project
  IN /\ At(t, "stop", "halt")
     /\ IF jobs[t].handle = "dead"
        THEN Goto(t, Idle) /\ UNCHANGED containers
        ELSE /\ SetContainer(p, "exited", containers[p].old)
             /\ Goto(t, [jobs[t] EXCEPT !.pc = "record", !.handle = "none"])
     /\ UNCHANGED <<rows, culler, faults, restarts>>

\* A variant for mutation: writes Docker's word for the state.
RecordStopRaw(t) ==
  LET p == jobs[t].project
  IN /\ At(t, "stop", "record")
     /\ rows' = IF rows[p] = NoRow THEN rows
                ELSE [rows EXCEPT ![p].state = containers[p].status]
     /\ Goto(t, Idle)
     /\ UNCHANGED <<containers, culler, faults, restarts>>

RecordStop(t) ==
  LET p == jobs[t].project
  IN /\ At(t, "stop", "record")
     /\ rows' = IF rows[p] = NoRow THEN rows ELSE [rows EXCEPT ![p].state = "stopped"]
     /\ Goto(t, Idle)
     /\ UNCHANGED <<containers, culler, faults, restarts>>

\* A Docker call raises: the handler ends, its session is rolled back.
DockerFails(t) ==
  /\ jobs[t].pc \in {"inspect", "remove", "boot", "run", "halt"}
  /\ Fault
  /\ Goto(t, Idle)
  /\ UNCHANGED <<containers, rows, culler, restarts>>

\* forward_auth of the editor's requests
FlowsAuth(p) ==
  /\ rows[p] # NoRow
  /\ rows' = [rows EXCEPT ![p].idle = FALSE]
  /\ UNCHANGED <<containers, jobs, culler, faults, restarts>>

-----------------------------------------------------------------------------
(* cull_idle.  cutoff and last_active are both fixed when the rows load,   *)
(* so which of them are idle is settled then.                              *)

Scan ==
  /\ culler.pc = "sleep"
  /\ culler' = [Asleep EXCEPT !.pc = "inspect",
                  !.todo = {p \in Projects : rows[p].state = "running" /\ rows[p].idle}]
  /\ UNCHANGED <<containers, rows, jobs, faults, restarts>>

\* A variant for mutation: a container that is not running is passed over.
InspectForCullSkipping ==
  /\ culler.pc = "inspect"
  /\ \E p \in culler.todo :
       culler' = IF containers[p].status = "running"
                 THEN [culler EXCEPT !.pc = "halt", !.at = p, !.handle = "live", !.todo = @ \ {p}]
                 ELSE [culler EXCEPT !.todo = @ \ {p}]
  /\ UNCHANGED <<containers, rows, jobs, faults, restarts>>

InspectForCull ==
  /\ culler.pc = "inspect"
  /\ \E p \in culler.todo :
       culler' = IF containers[p].status = "running"
                 THEN [culler EXCEPT !.pc = "halt", !.at = p, !.handle = "live", !.todo = @ \ {p}]
                 ELSE [culler EXCEPT !.todo = @ \ {p}, !.marked = @ \cup {p}]
  /\ UNCHANGED <<containers, rows, jobs, faults, restarts>>

HaltForCull ==
  LET p == culler.at
  IN /\ culler.pc = "halt"
     /\ IF culler.handle = "dead"
        THEN culler' = Asleep /\ UNCHANGED containers
        ELSE /\ SetContainer(p, "exited", containers[p].old)
             /\ culler' = [culler EXCEPT !.pc = "inspect", !.at = None, !.handle = "none",
                                         !.marked = @ \cup {p}]
     /\ UNCHANGED <<rows, jobs, faults, restarts>>

\* The loop catches the exception; what the iteration marked is rolled back.
CullFails ==
  /\ culler.pc = "halt" \/ culler.todo # {}
  /\ Fault
  /\ culler' = Asleep
  /\ UNCHANGED <<containers, rows, jobs, restarts>>

CommitCull ==
  /\ culler.pc = "inspect" /\ culler.todo = {}
  /\ rows' = [p \in Projects |->
                IF p \in culler.marked THEN [rows[p] EXCEPT !.state = "stopped"] ELSE rows[p]]
  /\ culler' = Asleep
  /\ UNCHANGED <<containers, jobs, faults, restarts>>

-----------------------------------------------------------------------------
(* Time and the host.                                                      *)

\* IDLE_STOP has passed since last_active
BecomeIdle(p) ==
  /\ ~rows[p].idle
  /\ rows' = [rows EXCEPT ![p].idle = TRUE]
  /\ UNCHANGED <<containers, jobs, culler, faults, restarts>>

\* The portal stops and starts again, perhaps with a new Node-RED image.
Restart(newImage) ==
  /\ restarts < MaxRestarts /\ restarts' = restarts + 1
  /\ jobs' = [t \in Threads |-> Idle] /\ culler' = Asleep
  /\ containers' = [p \in Projects |->
       [containers[p] EXCEPT !.old = containers[p].status # "absent" /\ (@ \/ newImage)]]
  /\ UNCHANGED <<rows, faults>>

-----------------------------------------------------------------------------

Proceed(t) ==
  \/ InspectForStart(t) \/ RemoveOld(t) \/ Boot(t) \/ Run(t) \/ RunHalfway(t) \/ RecordStart(t)
  \/ InspectForStop(t) \/ Halt(t) \/ RecordStop(t) \/ DockerFails(t)

Cull == Scan \/ InspectForCull \/ HaltForCull \/ CullFails \/ CommitCull

Next ==
  \/ \E t \in Threads :
       Proceed(t) \/ \E p \in Projects : BeginStart(t, p) \/ BeginStop(t, p)
  \/ Cull
  \/ \E p \in Projects : FlowsAuth(p) \/ BecomeIdle(p)
  \/ \E newImage \in BOOLEAN : Restart(newImage)

Spec == Init /\ [][Next]_vars

\* Handlers run on, and the culler wakes every five minutes for ever.
FairSpec == Spec /\ (\A t \in Threads : WF_vars(Proceed(t))) /\ WF_vars(Cull)

-----------------------------------------------------------------------------
(* Properties.                                                             *)

\* A start never answers with an instance of an outdated image, whoever else
\* starts, stops or recreates the container meanwhile.
StartedIsCurrent ==
  \A t \in Threads : At(t, "start", "record") => ~containers[jobs[t].project].old

\* Recreating an instance after an upgrade never removes the container another
\* handler has already recreated (under that same name).
CurrentKept ==
  [][\A p \in Projects :
       containers[p].status # "absent" /\ ~containers[p].old
         => containers'[p].status # "absent"]_vars

\* The culler settles every row that is running and idle, whatever happened to
\* its container and to earlier iterations, unless somebody comes back.
IdleRowsSettle ==
  \A p \in Projects :
    rows[p].state = "running" /\ rows[p].idle ~> rows[p].state # "running" \/ ~rows[p].idle

\* main.py: "Every 5 minutes, stop Node-RED instances idle > 30 min".  An
\* instance nobody uses does not run for ever.
IdleInstancesStop ==
  \A p \in Projects :
    containers[p].status = "running" /\ rows[p].idle
      ~> containers[p].status # "running" \/ ~rows[p].idle
=============================================================================
