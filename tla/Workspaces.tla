----------------------------- MODULE Workspaces -----------------------------
(***************************************************************************)
(* A project as its devices and notebooks see it: created, joined, left    *)
(* and deleted (portal/app/project.py).  How a project comes to be         *)
(* provisioned, with everything that can go wrong there, is the subject of *)
(* Projects; here it appears whole, and its deletion goes step by step,    *)
(* because that is what races with devices and notebooks.                  *)
(***************************************************************************)
EXTENDS Handlers

CONSTANTS
  WProjects,   \* project ids, never reused
  People       \* portal users

ASSUME WorkspacesAssumption == None \notin WProjects

VARIABLES
  workspaces,  \* rows of projects and project_members, and is the tenant there
  labEnabled   \* the setting lab_enabled, fixed for a deployment

workspaceVars == <<workspaces, labEnabled>>

NoWorkspace ==
  [state |-> "none", slug |-> 0, tenant |-> FALSE, owner |-> None,
   members |-> [u \in People |-> "none"]]

Open(p) == workspaces[p].state = "open"

\* require_membership
Enters(u, p) == Open(p) /\ workspaces[p].members[u] = "active"

\* as_project: a session in the project's tenant
Session(p) == workspaces[p].tenant

\* create_project, when all goes well; the slug is the first one free
OpenProject(p, u) ==
  LET taken == {workspaces[q].slug : q \in {q \in WProjects : Open(q)}}
      slug == CHOOSE n \in 1 .. Cardinality(WProjects) :
                n \notin taken /\ \A k \in 1 .. n - 1 : k \in taken
  IN /\ workspaces[p].state = "none"
     /\ workspaces' = [workspaces EXCEPT ![p] =
          [state |-> "open", slug |-> slug, tenant |-> TRUE, owner |-> u,
           members |-> [v \in People |-> IF v = u THEN "active" ELSE "none"]]]
     /\ UNCHANGED <<labEnabled, jobs, faults>>

\* delete_project: the members are listed first, notebooks are deleted where
\* there are any
CloseProject(t, p) ==
  /\ \E u \in People : Enters(u, p) /\ workspaces[p].owner = u
  /\ Start(t, [pc |-> IF labEnabled THEN "notebooks" ELSE "tenant", project |-> p,
               emails |-> {u \in People : workspaces[p].members[u] # "none"}])
  /\ UNCHANGED workspaceVars

\* delete_tenant; it raises when the tenant is gone already
DropWorkspace(t) ==
  LET p == jobs[t].project IN
  /\ At(t, "tenant")
  /\ workspaces' = [workspaces EXCEPT ![p].tenant = FALSE]
  /\ IF workspaces[p].tenant THEN Goto(t, "rows") ELSE Finish(t)
  /\ UNCHANGED labEnabled

EraseWorkspace(t) ==
  /\ At(t, "rows")
  /\ workspaces' = [workspaces EXCEPT ![jobs[t].project] =
                      [NoWorkspace EXCEPT !.state = "gone", !.slug = workspaces[jobs[t].project].slug]]
  /\ Finish(t)
  /\ UNCHANGED labEnabled

\* add_member, set_member_status and remove_member, seen from here
SetMembership(p, u, status) ==
  /\ Open(p) /\ u # workspaces[p].owner
  /\ workspaces[p].members[u] # status
  /\ workspaces' = [workspaces EXCEPT ![p].members[u] = status]
  /\ UNCHANGED <<labEnabled, jobs, faults>>

WorkspacesInit == workspaces = [p \in WProjects |-> NoWorkspace]

WorkspacesNext ==
  \/ \E p \in WProjects, u \in People : OpenProject(p, u)
  \/ \E t \in Threads, p \in WProjects : CloseProject(t, p)
  \/ \E t \in Threads : DropWorkspace(t) \/ EraseWorkspace(t)
=============================================================================
