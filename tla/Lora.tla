-------------------------------- MODULE Lora --------------------------------
(***************************************************************************)
(* LoRaWAN devices of projects: registration (portal/app/lora.py and       *)
(* chirpstack.py) and the bridge that forwards their uplinks               *)
(* (portal/scripts/lora_bridge.py).                                        *)
(*                                                                         *)
(* Registration writes to three stores in turn, without undoing anything:  *)
(* ChirpStack's applications, devices and keys, the engine's devices, and  *)
(* last the mapping row in the portal's database.  The bridge reads the    *)
(* mapping, closes its session and only then looks for the engine's device *)
(* by name; an uplink it cannot place is dropped.                          *)
(***************************************************************************)
EXTENDS Devices, Sequences

CONSTANTS
  Euis,        \* DevEUIs a registration may draw
  Apps         \* ChirpStack application ids, a segment 1 .. n

VARIABLES
  nameOf,      \* lora- and the first six digits of each DevEUI
  apps,        \* ChirpStack: the name (a slug) of each application made so far
  motes,       \* ChirpStack: devices by DevEUI, with their application and keys
  mappings,    \* rows of table lora_devices, by DevEUI
  uplink       \* the message the bridge works on

loraVars == <<nameOf, apps, motes, mappings, uplink>>

NoMote == [app |-> None, keys |-> FALSE]
NoUplink == [pc |-> "idle"]
Mapped(e) == mappings[e] # None
\* the project row has its chirpstack_application_id: set with the first mapping
AppKnown(p) == \E e \in Euis : Mapped(e) /\ mappings[e].project = p
AppsNamed(slug) == {a \in DOMAIN apps : apps[a] = slug}

\* register, from the route's membership check to the list of applications
BeginRegister(t, p) ==
  /\ \E u \in People : Enters(u, p)
  /\ Start(t, [pc |-> "listapps", project |-> p, known |-> AppKnown(p), app |-> None, eui |-> None])
  /\ UNCHANGED <<workspaceVars, deviceVars, loraVars>>

\* ensure_application: find by name ...
ListApps(t) ==
  LET found == AppsNamed(workspaces[jobs[t].project].slug) IN
  /\ At(t, "listapps")
  /\ \/ \E a \in found : Become(t, [jobs[t] EXCEPT !.pc = "device", !.app = a])
     \/ found = {} /\ Become(t, [jobs[t] EXCEPT !.pc = "createapp"])
  /\ UNCHANGED <<workspaceVars, deviceVars, loraVars, faults>>

\* ... or create; ChirpStack does not keep the names apart
CreateApp(t) ==
  LET a == Len(apps) + 1 IN
  /\ At(t, "createapp") /\ a \in Apps
  /\ apps' = Append(apps, workspaces[jobs[t].project].slug)
  /\ Become(t, [jobs[t] EXCEPT !.pc = "device", !.app = a])
  /\ UNCHANGED <<workspaceVars, deviceVars, nameOf, motes, mappings, uplink, faults>>

\* new_dev_eui: drawn from 2^64, never twice
FreshEui(e) ==
  /\ motes[e] = NoMote /\ ~Mapped(e)
  /\ \A d \in DeviceIds : e \notin devices[d].registered
  /\ \A t \in {t \in Threads : jobs[t].pc \in {"mote", "keys", "map"}} : jobs[t].eui # e

\* the bridge is about to post to it
Aimed(d) == uplink.pc = "post" /\ uplink.device = d

\* the engine's device of the name is found or created; the handler ends here
\* when the tenant is gone or the quota used up
EnsureTbDevice(t, e) ==
  LET j == jobs[t]
      found == Named(j.project, nameOf[e])
  IN /\ At(t, "device") /\ FreshEui(e)
     /\ \/ /\ \E d \in found :
                devices' = [devices EXCEPT ![d].registered = @ \cup {e}]
           /\ Become(t, [j EXCEPT !.pc = "mote", !.eui = e])
        \/ /\ \E d \in DeviceIds : EngineCreates(j.project, nameOf[e], d, {e}) /\ ~Aimed(d)
           /\ Become(t, [j EXCEPT !.pc = "mote", !.eui = e])
        \/ /\ found = {}
           /\ ~Session(j.project) \/ Cardinality(InProject(j.project)) >= DeviceLimit
           /\ Become(t, Free) /\ UNCHANGED devices
     /\ UNCHANGED <<workspaceVars, vacated, loraVars, faults>>

\* ChirpStack.create_device: the device, then its keys
CreateMote(t) ==
  /\ At(t, "mote")
  /\ motes' = [motes EXCEPT ![jobs[t].eui] = [app |-> jobs[t].app, keys |-> FALSE]]
  /\ Goto(t, "keys")
  /\ UNCHANGED <<workspaceVars, deviceVars, nameOf, apps, mappings, uplink>>

\* A variant for mutation: the keys are left for later.
CreateNoKeys(t) ==
  /\ At(t, "keys") /\ Goto(t, "map")
  /\ UNCHANGED <<workspaceVars, deviceVars, loraVars>>

CreateKeys(t) ==
  /\ At(t, "keys")
  /\ motes' = [motes EXCEPT ![jobs[t].eui].keys = TRUE]
  /\ Goto(t, "map")
  /\ UNCHANGED <<workspaceVars, deviceVars, nameOf, apps, mappings, uplink>>

\* the commit: the mapping row and, if the handler had read none, the project's
\* application id; that UPDATE fails when the project row is gone
CommitMapping(t) ==
  LET j == jobs[t] IN
  /\ At(t, "map")
  /\ IF j.known \/ Open(j.project)
     THEN mappings' = [mappings EXCEPT ![j.eui] =
                         [project |-> j.project, name |-> nameOf[j.eui]]]
     ELSE UNCHANGED mappings
  /\ Finish(t)
  /\ UNCHANGED <<workspaceVars, deviceVars, nameOf, apps, motes, uplink>>

LoraFails(t) == Killed(t) /\ UNCHANGED <<workspaceVars, deviceVars, loraVars>>

-----------------------------------------------------------------------------
(* The bridge: one message at a time.                                      *)

Bridge(message) ==
  /\ uplink' = message
  /\ UNCHANGED <<workspaceVars, deviceVars, nameOf, apps, motes, mappings, handlerVars>>

\* a message goes on when it is mapped, and the project has an active member
Routed(e) ==
  /\ Mapped(e)
  /\ \E u \in People : Enters(u, mappings[e].project)

\* _forward, its database part; a device sends once it has its keys
ReadMapping(e) ==
  /\ uplink.pc = "idle" /\ motes[e].keys /\ Routed(e)
  /\ Bridge([pc |-> "find", eui |-> e, project |-> mappings[e].project,
             name |-> mappings[e].name])

\* A variant for mutation: the first hit of the text search is taken.
FindTbDeviceAny ==
  /\ uplink.pc = "find"
  /\ LET found == IF Session(uplink.project) THEN InProject(uplink.project) ELSE {} IN
     \/ \E d \in found :
          Bridge([pc |-> "post", eui |-> uplink.eui, device |-> d])
     \/ found = {} /\ Bridge(NoUplink)

\* impersonate, find_device, get_device_credentials
FindTbDevice ==
  /\ uplink.pc = "find"
  /\ LET found == IF Session(uplink.project) THEN Named(uplink.project, uplink.name) ELSE {} IN
     \/ \E d \in found :
          Bridge([pc |-> "post", eui |-> uplink.eui, device |-> d])
     \/ found = {} /\ Bridge(NoUplink)

\* accepted by the device that has the token, if one still has
PostTelemetry == uplink.pc = "post" /\ Bridge(NoUplink)

LoraInit ==
  /\ nameOf \in [Euis -> Names]
  /\ apps = << >>
  /\ motes = [e \in Euis |-> NoMote]
  /\ mappings = [e \in Euis |-> None]
  /\ uplink = NoUplink

LoraNext ==
  \/ \E t \in Threads, p \in WProjects : BeginRegister(t, p)
  \/ \E t \in Threads, e \in Euis : EnsureTbDevice(t, e)
  \/ \E t \in Threads :
       \/ ListApps(t) \/ CreateApp(t) \/ CreateMote(t) \/ CreateKeys(t)
       \/ CommitMapping(t) \/ LoraFails(t)
  \/ \E e \in Euis : ReadMapping(e)
  \/ FindTbDevice \/ PostTelemetry

\* registrations and the bridge beside the life of projects and of their devices
LoraSpec ==
  /\ HandlersInit /\ WorkspacesInit /\ DevicesInit /\ LoraInit /\ ~labEnabled
  /\ [][\/ WorkspacesNext /\ UNCHANGED <<deviceVars, loraVars>>
        \/ DevicesNext /\ UNCHANGED loraVars
        \/ LoraNext]_<<handlerVars, workspaceVars, deviceVars, loraVars>>

-----------------------------------------------------------------------------
(***************************************************************************)
(* A mapping row is the last thing written: the LoRaWAN device behind it   *)
(* is in ChirpStack with its keys, and the engine's device has been there  *)
(* and is there still, unless the tenant was deleted or a member renamed   *)
(* or deleted that device.  A registration that dies half way leaves no    *)
(* row (register).                                                         *)
(***************************************************************************)
MappedIsComplete ==
  \A e \in {e \in Euis : Mapped(e)} :
    LET p == mappings[e].project IN
    /\ motes[e].app \in DOMAIN apps /\ motes[e].keys
    /\ \/ ~Session(p) \/ <<p, mappings[e].name>> \in vacated
       \/ \E d \in Named(p, mappings[e].name) : e \in devices[d].registered

(***************************************************************************)
(* The bridge finds a device by name in a session it opened for a project  *)
(* it read earlier.  What it is about to post to is a device this DevEUI   *)
(* was registered for, unless a device of that name was renamed or deleted *)
(* before, when another may have taken the name over (_forward).           *)
(***************************************************************************)
UplinkReachesItsDevice ==
  uplink.pc = "post" =>
    LET d == devices[uplink.device]
        m == mappings[uplink.eui]
    IN \/ uplink.eui \in d.registered
       \/ <<m.project, m.name>> \in vacated
=============================================================================
