----------------------------- MODULE Notebooks ------------------------------
(***************************************************************************)
(* Notebook servers of JupyterHub, one for each member of a project        *)
(* (portal/app/lab.py, routers/internal.py, lab/hub/jupyterhub_config.py). *)
(*                                                                         *)
(* The hub starts a server only after the portal has minted a token for an *)
(* active member, so portal and hub wait for each other across three steps *)
(* while the project may be deleted.  Deletion asks the hub to stop the    *)
(* servers of the members it listed, then removes the volumes that are not *)
(* in use, and never stops for a failure.                                  *)
(***************************************************************************)
EXTENDS Workspaces

CONSTANT
  ServerLimit   \* named_server_limit_per_user: records a user may have

VARIABLES
  servers,      \* the hub's record of each user's server for each project
  volumes,      \* the Docker volumes jupyter-user-project
  missed        \* servers that a deletion did not stop for good (a history)

ASSUME NotebooksAssumption == ServerLimit \in Nat

notebookVars == <<servers, volumes, missed>>

States == {"none", "pending", "starting", "ready", "stopping", "stopped"}
Running(u, p) == servers[<<u, p>>] \in {"starting", "ready", "stopping"}
Records(u) == {p \in WProjects : servers[<<u, p>>] # "none"}
Deleting(p) == \E t \in Threads : ~At(t, "idle") /\ jobs[t].project = p
Turns(u, p, state) == servers' = [servers EXCEPT ![<<u, p>>] = state]

\* while a deletion is under way, whatever starts may be missed by it
Miss(u, p) == missed' = IF Deleting(p) THEN missed \cup {<<u, p>>} ELSE missed

-----------------------------------------------------------------------------
(* The hub.                                                                *)

\* a user follows the spawn link, or writes it by hand for any project; the
\* limit counts records, stopped ones included
SpawnNotebook(u, p) ==
  /\ servers[<<u, p>>] \in {"none", "stopped"}
  /\ servers[<<u, p>>] = "none" => Cardinality(Records(u)) < ServerLimit
  /\ Turns(u, p, "pending") /\ Miss(u, p)
  /\ UNCHANGED <<workspaceVars, volumes, handlerVars>>

\* lab_token: an active membership row with a TB user, and a session for it
Admitted(u, p) == workspaces[p].members[u] = "active" /\ Session(p)

\* pre_spawn_hook: the portal mints a token or refuses; a refused spawn leaves
\* the record behind
MintToken(u, p) ==
  /\ servers[<<u, p>>] = "pending"
  /\ Turns(u, p, IF Admitted(u, p) THEN "starting" ELSE "stopped") /\ Miss(u, p)
  /\ UNCHANGED <<workspaceVars, volumes, handlerVars>>

\* DockerSpawner: the volume is made with the container
StartNotebook(u, p) ==
  /\ servers[<<u, p>>] = "starting"
  /\ Turns(u, p, "ready") /\ Miss(u, p)
  /\ volumes' = volumes \cup {<<u, p>>}
  /\ UNCHANGED <<workspaceVars, handlerVars>>

\* the idle culler, the user, or a start that fails; the container is removed
StopNotebook(u, p) ==
  /\ Running(u, p) /\ Turns(u, p, "stopped")
  /\ UNCHANGED <<workspaceVars, volumes, missed, handlerVars>>

-----------------------------------------------------------------------------
(* delete_project_notebooks, a part of delete_project.                     *)

\* what DELETE does to a server: without a body that says remove, the record
\* stays; a spawn under way is answered 400 and left alone
Deleted(state) == IF state = "ready" THEN {"stopped", "stopping"} ELSE {state}

\* DELETE /users/u/servers/p for the next member; a hub that cannot be reached
\* is only logged, and so is a stop that takes longer than the answer
DeleteServer(t, u) ==
  LET p == jobs[t].project
      pending == {"pending", "starting", "stopping"}
  IN /\ At(t, "notebooks") /\ u \in jobs[t].emails
     /\ Become(t, [jobs[t] EXCEPT !.emails = @ \ {u}])
     /\ \/ /\ \E s \in Deleted(servers[<<u, p>>]) :
             /\ Turns(u, p, s)
             /\ missed' = IF s \in pending THEN missed \cup {<<u, p>>} ELSE missed
           /\ UNCHANGED faults
        \/ /\ Fault /\ missed' = missed \cup {<<u, p>>}
           /\ UNCHANGED servers
     /\ UNCHANGED <<workspaceVars, volumes>>

\* A variant for mutation: only the volumes of the member who deletes.
OwnVolumes(p) == {v \in volumes : v[2] = p /\ v[1] = workspaces[p].owner}

\* _remove_project_volumes: every volume whose name ends in the project id
ProjectVolumes(p) == {v \in volumes : v[2] = p}

\* a volume in use is not removed; Docker may be out of reach
RemoveVolumes(t) ==
  LET p == jobs[t].project IN
  /\ At(t, "notebooks") /\ jobs[t].emails = {}
  /\ Become(t, [jobs[t] EXCEPT !.pc = "tenant"])
  /\ \/ /\ volumes' = volumes \ {v \in ProjectVolumes(p) : ~Running(v[1], p)}
        /\ UNCHANGED <<missed, faults>>
     \/ /\ Fault /\ missed' = missed \cup (People \X {p})
        /\ UNCHANGED volumes
  /\ UNCHANGED <<workspaceVars, servers>>

\* members come, leave and are disabled; their notebooks are not touched
ChangeMember(p, u, status) ==
  /\ SetMembership(p, u, status)
  /\ missed' = IF status = "none" /\ (Running(u, p) \/ servers[<<u, p>>] = "pending")
               THEN missed \cup {<<u, p>>} ELSE missed
  /\ UNCHANGED <<servers, volumes>>

DeletionFails(t) == Killed(t) /\ UNCHANGED <<workspaceVars, notebookVars>>

NotebooksInit ==
  /\ servers = [x \in People \X WProjects |-> "none"]
  /\ volumes = {} /\ missed = {}

NotebooksNext ==
  \/ \E u \in People, p \in WProjects :
       \/ SpawnNotebook(u, p) \/ MintToken(u, p) \/ StartNotebook(u, p)
       \/ StopNotebook(u, p)
       \/ \E s \in {"none", "active", "disabled"} : ChangeMember(p, u, s)
  \/ \E t \in Threads : RemoveVolumes(t) \/ DeletionFails(t) \/ \E u \in People : DeleteServer(t, u)

\* notebooks and the life of their projects, where notebooks are enabled
NotebooksSpec ==
  /\ HandlersInit /\ WorkspacesInit /\ NotebooksInit /\ labEnabled
  /\ [][(WorkspacesNext /\ UNCHANGED notebookVars) \/ NotebooksNext]_<<
       handlerVars, workspaceVars, notebookVars>>

-----------------------------------------------------------------------------
(***************************************************************************)
(* Once a project is deleted no notebook of it runs and no volume of it is *)
(* left, whoever's they were, unless the deletion was disturbed: a spawn   *)
(* or stop that overlapped it, a hub or Docker that failed, or a member    *)
(* removed before with a notebook open.  "So a deleted project leaves no   *)
(* orphaned notebook" (delete_project_notebooks), made exact.              *)
(***************************************************************************)
DeletionClearsNotebooks ==
  \A p \in {p \in WProjects : workspaces[p].state = "gone"}, u \in People :
    <<u, p>> \notin missed => ~Running(u, p) /\ <<u, p>> \notin volumes
=============================================================================
