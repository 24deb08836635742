------------------------------ MODULE MCPortal ------------------------------
(***************************************************************************)
(* Small instances of the portal's smaller components, for TLC.  They      *)
(* share nothing but the handler threads, so each behaviour is one of a    *)
(* single component, its scene, while the variables of the others keep     *)
(* their initial values.  LoRaWAN devices and notebooks are composed with  *)
(* the life of their projects, which runs beside them.                     *)
(***************************************************************************)
EXTENDS Alerts, Lora, Notebooks, Accounts, Staff, Monitoring, RateLimit, Export,
        TbSession, Students, Setup, Snapshots, Panels

CONSTANT Scenes
VARIABLE scene

Actions == <<"email", "webhook", "alarm">>
PageOf == [k \in CacheKeys |-> "p"]
ActivityPages == {"b"}
\* names are alike, and people: one may as well be this one
AnyName == CHOOSE n \in Names : TRUE
AnyEui == CHOOSE e \in Euis : TRUE
AnyPerson == CHOOSE u \in People : TRUE

LastDevice == 3  \* may be past the first page
ExportKeys == <<"a", "b">>

\* what varies among a component's initial states varies in its own scene only
PortalInit ==
  /\ scene \in Scenes /\ labEnabled = (scene = "notebooks")
  /\ HandlersInit /\ WorkspacesInit /\ DevicesInit /\ AlertsInit /\ NotebooksInit
  /\ AccountsInit /\ StaffInit /\ MonitoringInit /\ RateInit /\ StudentsInit /\ PanelsInit
  /\ LoraInit
  /\ IF scene = "lora" THEN nameOf[AnyEui] = AnyName ELSE nameOf = [e \in Euis |-> AnyName]
  /\ ExportInit
  /\ scene # "export" => points = {}
  /\ SessionInit
  /\ scene # "session" => userEnabled
  /\ SetupInit
  /\ scene # "setup" => ~edition.mail /\ ~edition.lora
  /\ SnapshotsInit /\ inventory[LastDevice] \in {None, SnapKeys}
  /\ scene # "snapshots" => inventory = [d \in SnapDevices |-> None]

\* one handler at a time, where handlers share nothing
Solo == \A s, t \in Threads : s # t => jobs'[s] = Free \/ jobs'[t] = Free

\* only a call of a client, and deployments, meet more than one fault
FewFaults == scene = "session" \/ faults' <= IF scene = "setup" THEN 2 ELSE 1

\* one person's account is deleted in Keycloak, maybe again and again
OneRecreated == recreated' \subseteq {AnyPerson}

\* deployments overlap in the first edition only
Overlaps == overlapped' => edition'.settings = 1 /\ envFile' = "ready"

\* any person may as well be the owner
OwnerIsAny == \A p \in WProjects : workspaces'[p].owner \in {None, AnyPerson}

LoraScene ==
  \/ WorkspacesNext /\ OwnerIsAny /\ UNCHANGED <<deviceVars, loraVars>>
  \/ DevicesNext /\ UNCHANGED loraVars
  \/ LoraNext

NotebooksScene ==
  \/ WorkspacesNext /\ OwnerIsAny /\ UNCHANGED notebookVars
  \/ NotebooksNext

PortalNext ==
  /\ UNCHANGED scene
  /\ \/ /\ scene = "alerts" /\ AlertsNext
        /\ UNCHANGED <<workspaceVars, deviceVars, loraVars, notebookVars, accountVars, staffVars,
             monitoringVars, rateVars, exportVars, sessionVars, studentVars, setupVars,
             snapshotVars, panelVars>>
     \/ /\ scene = "lora" /\ LoraScene
        /\ UNCHANGED <<alertVars, notebookVars, accountVars, staffVars, monitoringVars, rateVars,
             exportVars, sessionVars, studentVars, setupVars,
             snapshotVars, panelVars>>
     \/ /\ scene = "notebooks" /\ NotebooksScene
        /\ UNCHANGED <<alertVars, deviceVars, loraVars, accountVars, staffVars, monitoringVars,
             rateVars, exportVars, sessionVars, studentVars, setupVars,
             snapshotVars, panelVars>>
     \/ /\ scene = "accounts" /\ AccountsNext /\ OneRecreated
        /\ UNCHANGED <<workspaceVars, deviceVars, loraVars, notebookVars, alertVars, staffVars,
             monitoringVars, rateVars, exportVars, sessionVars, studentVars, setupVars,
             snapshotVars, panelVars>>
     \/ /\ scene = "staff" /\ StaffNext
        /\ UNCHANGED <<workspaceVars, deviceVars, loraVars, notebookVars, alertVars, accountVars,
             monitoringVars, rateVars, exportVars, sessionVars, studentVars, setupVars,
             snapshotVars, panelVars>>
     \/ /\ scene = "monitoring" /\ MonitoringNext
        /\ UNCHANGED <<workspaceVars, deviceVars, loraVars, notebookVars, alertVars, accountVars,
             staffVars, rateVars, exportVars, sessionVars, studentVars, setupVars,
             snapshotVars, panelVars>>
     \/ /\ scene = "rate" /\ RateNext
        /\ UNCHANGED <<workspaceVars, deviceVars, loraVars, notebookVars, alertVars, accountVars,
             staffVars, monitoringVars, exportVars, sessionVars, studentVars, setupVars,
             snapshotVars, panelVars>>
     \/ /\ scene = "export" /\ ExportNext /\ Solo
        /\ UNCHANGED <<workspaceVars, deviceVars, loraVars, notebookVars, alertVars, accountVars,
             staffVars, monitoringVars, rateVars, sessionVars, studentVars, setupVars,
             snapshotVars, panelVars>>
     \/ /\ scene = "session" /\ SessionNext /\ Solo
        /\ UNCHANGED <<workspaceVars, deviceVars, loraVars, notebookVars, alertVars, accountVars,
             staffVars, monitoringVars, rateVars, exportVars, studentVars, setupVars,
             snapshotVars, panelVars>>
     \/ /\ scene = "students" /\ StudentsNext
        /\ UNCHANGED <<workspaceVars, deviceVars, loraVars, notebookVars, alertVars, accountVars,
             staffVars, monitoringVars, rateVars, exportVars, sessionVars, setupVars,
             snapshotVars, panelVars>>
     \/ /\ scene = "setup" /\ SetupNext /\ Overlaps
        /\ UNCHANGED <<workspaceVars, deviceVars, loraVars, notebookVars, alertVars, accountVars,
             staffVars, monitoringVars, rateVars, exportVars, sessionVars, studentVars,
             snapshotVars, panelVars>>
     \/ /\ scene = "snapshots" /\ SnapshotsNext /\ Solo
        /\ UNCHANGED <<workspaceVars, deviceVars, loraVars, notebookVars, alertVars, accountVars,
             staffVars, monitoringVars, rateVars, exportVars, sessionVars, studentVars, setupVars,
             panelVars>>
     \/ /\ scene = "panels" /\ PanelsNext
        /\ UNCHANGED <<workspaceVars, deviceVars, loraVars, notebookVars, alertVars, accountVars,
             staffVars, monitoringVars, rateVars, exportVars, sessionVars, studentVars, setupVars,
             snapshotVars>>
  /\ FewFaults

portalVars ==
  <<scene, handlerVars, workspaceVars, deviceVars, loraVars, notebookVars, alertVars, accountVars,
    staffVars, monitoringVars, rateVars, exportVars, sessionVars, studentVars, setupVars,
    snapshotVars, panelVars>>

PortalSpec == PortalInit /\ [][PortalNext]_portalVars

\* devices double as tenants and as the projects with a panel: no scene uses both
Symmetry == Permutations(Threads) \cup Permutations(DeviceIds)
=============================================================================
