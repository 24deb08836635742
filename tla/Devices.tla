------------------------------ MODULE Devices -------------------------------
(***************************************************************************)
(* Devices of the projects' tenants and what members do with them on the   *)
(* portal (portal/app/routers/devices.py): create, rename, delete; access  *)
(* tokens are left out.  A handler asks the engine for the device, or for  *)
(* the number of devices, and then for the change; the engine decides on   *)
(* the change alone, so each is one action.  It keeps names unique in a    *)
(* tenant and enforces the quota; a tenant's devices go with it.           *)
(***************************************************************************)
EXTENDS Workspaces

CONSTANTS
  DeviceIds,   \* the engine's device ids; one nothing refers to any more stands for
               \* a fresh one
  Names,       \* device names
  DeviceLimit, \* the tenant profile's maxDevices
  MaxVacated   \* bound on the names that devices lose

VARIABLES
  devices,     \* the engine's devices
  vacated      \* projects and names that a device of theirs had and lost (a history)

deviceVars == <<devices, vacated>>

ASSUME DevicesAssumption == DeviceLimit \in Nat /\ MaxVacated \in Nat

\* registered: the LoRaWAN devices that lora.register mapped to the name when
\* this device had it (a history)
NoDevice == [project |-> None, name |-> None, registered |-> {}]

Live(d) == devices[d].project # None /\ Session(devices[d].project)
Named(p, n) == {d \in DeviceIds : devices[d].project = p /\ devices[d].name = n /\ Live(d)}
InProject(p) == {d \in DeviceIds : devices[d].project = p /\ Live(d)}

\* save_device for a new device: what the engine accepts
EngineCreates(p, n, d, euis) ==
  /\ Session(p) /\ devices[d] = NoDevice /\ Named(p, n) = {}
  /\ Cardinality(InProject(p)) < DeviceLimit
  /\ devices' = [devices EXCEPT ![d] =
       [project |-> p, name |-> n, registered |-> euis]]

Vacate(d) ==
  /\ vacated' = vacated \cup {<<devices[d].project, devices[d].name>>}
  /\ Cardinality(vacated') <= MaxVacated

\* create_device
CreateDevice(u, p, n) ==
  /\ Enters(u, p)
  /\ \E d \in DeviceIds : EngineCreates(p, n, d, {})
  /\ UNCHANGED <<workspaceVars, vacated, handlerVars>>

\* rename_device: the new name must be free in the tenant
RenameDevice(u, d, n) ==
  /\ Live(d) /\ Enters(u, devices[d].project)
  /\ Named(devices[d].project, n) = {}
  /\ devices' = [devices EXCEPT ![d].name = n]
  /\ Vacate(d) /\ UNCHANGED <<workspaceVars, handlerVars>>

DeleteDevice(u, d) ==
  /\ Live(d) /\ Enters(u, devices[d].project)
  /\ devices' = [devices EXCEPT ![d] = NoDevice]
  /\ Vacate(d) /\ UNCHANGED <<workspaceVars, handlerVars>>

DevicesInit ==
  /\ devices = [d \in DeviceIds |-> NoDevice]
  /\ vacated = {}

DevicesNext == \E u \in People :
  \/ \E p \in WProjects, n \in Names : CreateDevice(u, p, n)
  \/ \E d \in DeviceIds : DeleteDevice(u, d) \/ \E n \in Names : RenameDevice(u, d, n)
=============================================================================
