# TLA+ verification of the CHERT IoT portal

CHERT IoT is a small IoT teaching platform: a FastAPI portal (`portal/app`) in front of
ThingsBoard ("the engine"), Keycloak, Node-RED, JupyterHub, ChirpStack and Grafana. The portal
owns a Postgres database and changes every other system over HTTP. Nothing spans two systems in a
transaction, handlers run in a thread pool next to each other, and the process may stop at any
time. That is where the interesting correctness questions are, and what these modules are about.

Contents: [1 inventory](#1-inventory), [2 modules](#2-modules), [3 runs](#3-runs),
[4 disagreements](#4-where-code-and-text-disagree), [5 proofs](#5-proofs),
[6 modelling decisions](#6-modelling-decisions), [7 plan](#7-plan).

## 1 Inventory

For each component: state, operations, partners, what is hard, what makes it correct.

**Project lifecycle, membership, provisioning** (`project.py`, `routers/projects.py`, `models.py`).
State: rows of `projects`, `project_members`, `project_invites`, `project_join_requests`; in the
engine, one tenant per project and one tenant-admin user per human and project, whose address
(slug plus user id) is unique over the whole engine. Operations: create, retry provisioning,
delete, invite, accept (link or login), request, approve, deny, enable, disable, remove. Hard: each
of these reads rows, makes up to five engine calls of seconds each, and commits last. Correct when
a membership leads into its own project and human only, every project has one owner, nobody gets
in without the owner's consent, and what failed can be repaired.

**ThingsBoard client** (`tb_client.py`). State: a token pair per client. Repeats a request up to
four times on transport errors and 502/503/504, refreshes on 401. Hard: it repeats POSTs whose
first attempt may have succeeded. Correct when callers survive a repeated creation.

**Engine provisioning helpers** (`provisioning.py`, `onboarding.py`, `provision_student.py`). State:
a student's own tenant with its user, dashboard and device, and the portal's note of it; the engine's
login mapper makes tenant and user as well. Hard: nothing is locked between a find and its create.
Correct when rerunning repairs whatever an earlier run left.

**Node-RED instances and culler** (`flows.py`, `routers/flows.py`, `main.py`). State: one Docker
container and volume per project; rows of `flow_instances`. Operations: start, stop, the proxy's
auth touch, the culler every five minutes. Hard: three actors on one container without a lock, the
culler's batch commit, upgrades of the image. Correct when idle instances stop, starts deliver an
up-to-date instance, and upgrades lose nothing.

**Sign-up and class codes** (`routers/signup.py`, `keycloak_admin.py`, `routers/instructor.py`,
`scripts/class_code.py`). State: Keycloak users, `portal_users`, `class_codes.uses`. Hard: a user
is created in Keycloak, mailed, then recorded; `uses` is a read-modify-write. Correct when a code
is not used more often than allowed and a failed sign-up can be repeated.

**Login, adoption, session** (`routers/auth.py`, `auth.py`, `student.py`). State: `portal_users`
(`kc_user_id`), the signed cookie. Hard: accounts known to only one side. Correct when whoever
signs in has exactly one row, found again at the next request.

**Monitoring pages** (`monitoring.py`, `routers/monitoring.py`, `dashboard.py`). State: a
process-wide dict of snapshots with a TTL and a size bound, and one process-wide entry for the
device quota, both unlocked. Hard: builders in progress while entries are invalidated, dict changes
during iteration, a page composed from calls between which the engine changes, one entry written
by the pages of all projects. Correct when an acknowledgement is visible afterwards, the bound
holds, what is missing is named, and the sections of a page belong together.

**Rate limiter** (`ratelimit.py`). State: a deque of hits per key. Hard: clock read before the
lock. Correct when a window never admits more than its limit.

**Alert rules** (`alerts.py`, `routers/alerts.py`). State: rows of `alert_rules`, a rule chain in
the engine rebuilt from them. Hard: commit, re-read and push race. Correct when the chain ends up
matching the rows.

**LoRaWAN and bridge** (`lora.py`, `chirpstack.py`, `routers/lora.py`, `scripts/lora_bridge.py`).
State: `lora_devices`, ChirpStack applications and devices, engine devices. Hard: three stores
written in turn; the bridge forwards at most once. Correct when every registered device is mapped
to one project and uplinks reach that project only.

**Notebooks** (`lab.py`, `routers/internal.py`, `lab/hub/jupyterhub_config.py`). State: named
servers per human and project. Hard: spawn authorised against rows being deleted. Correct when no
server outlives the membership that authorised it.

**Devices, export** (`routers/devices.py`, `export.py`). Export pages backwards through a series
with a cursor. Correct when every point of the range is emitted once.

**Permissions, CSRF** (`permissions.py`, `csrf.py`). Pure functions over roles, methods, origins.

**Operator scripts** (`scripts/grant_role.py`, `kc_roles.py`, `reconcile_grafana.py`). Change roles
in the portal's rows, Keycloak and Grafana one after the other. Correct when a rerun after a crash
completes the change and a demotion ends the open sessions.

**Deployment and set-up** (`deploy/scripts/deploy.sh`, `scripts/setup_*.py`,
`rotate_tb_sysadmin.py`). State: `.env`, and what the scripts configure in each service. Hard: a dozen
find-or-create steps, cut off anywhere, by two people at once. Correct when nothing is duplicated and
a deployment that ends leaves everything as `.env` says.

**Not state machines**: home pages, i18n, templates, site content, e-mail, audit lines, backup shell,
branding, simulators, firmware examples, documentation.

How they interact: every project route first passes the gate `require_membership`, which reads the
rows the first component keeps; flows, alerts, LoRa, notebooks and devices then act in the tenant
of that project through the member's engine user; login accepts pending invites; deleting a
project reaches into notebooks and the engine. All hazards are listed with their lines in
`PROJECT.json`.

## 2 Modules

| module | content |
|---|---|
| `ProjectAccess` | abstract: who may be in a project, as the owner and the members see it |
| `Projects` | rows, engine, and every handler of `project.py` step by step |
| `MCProjects` | instances of `Projects` for TLC: the casts of its scenes |
| `ProjectsProofs` | theorems `TypeCorrect`, `Isolation`, `OneOwner`, `Usable`, `SlugsApart` |
| `ProjectsTenantProofs` | theorems `Stable`, `OneTenant`, `OrphansInert` |
| `ProjectAccessProofs` | theorem `AccessRefined`: `Projects` implements `ProjectAccess` |
| `Flows` | containers, rows, start/stop handlers, culler |
| `MCFlows` | instances of `Flows` |
| `FlowsProofs` | theorems `StartIsCurrent`, `CurrentIsKept`, `FlowsTyped` |
| `Handlers` | what the modules below share: handler threads, their places and locals, faults |
| `Workspaces` | a project as its tools see it: opened, joined, left, deleted step by step |
| `Devices` | the engine's devices: created, renamed, deleted by members (extends `Workspaces`) |
| `Lora` | registration over three stores and the bridge (extends `Devices`) |
| `Notebooks` | JupyterHub's servers and volumes beside a deletion (extends `Workspaces`) |
| `Alerts` | alert rules and the rule chain rendered from them |
| `Accounts` | sign-up, class codes, verification, login, adoption, cookies, seeding |
| `Students` | a student's own tenant: provisioning runs, the login mapper, deletion |
| `Staff` | `grant_role` and `reconcile_grafana` over portal, Keycloak, Grafana |
| `Setup` | deployments and the scripts they run |
| `Monitoring` | the snapshot cache, acknowledgements and their invalidation |
| `Snapshots` | the composition of one monitoring page from its calls |
| `Panels` | the live panel and the report, and their shared quota entry |
| `RateLimit` | the sliding window |
| `Export` | the paging of an export |
| `TbSession` | one call of a `TbClient`: tokens, refresh, attempts |
| `MCPortal` | the composition and the instances of all modules from `Handlers` on |
| `PeopleProofs` | theorems about `Staff`, `Accounts`, `Students` |
| `EngineProofs` | theorems about `TbSession`, `RateLimit`, `Alerts` |
| `PagesProofs` | theorems about `Monitoring`, `Panels`, `Snapshots`, `Export` |
| `ServiceProofs` | theorems about `Setup`, `Notebooks`, `Lora` |

**Projects.** `projects`, `members`, `tickets` (invites and join requests together) are committed
rows; `tenants`, `tbUsers` are the engine; `jobs[t]` is what handler `t` holds: the values it
loaded (`proj0`, `mem0`), the session's changed copy (`proj`), the engine user it got, and where
it is (`pc`). A route is a `Begin...` action with the route's guards; then one action per engine
call (`SaveTenant`, `FindUser`, `SaveUser`, `StarterDashboard`, `DropTenant`, `DropUser`) and one
per commit (`CommitCreate`, `CommitRetry`, `CommitAdd`, `EndAdmission`, `EraseProject`,
`EraseMember`). `FlushInsert` is the INSERT that meets the unique slug index. `TbFails` is an
engine call that raises; `AnswerLost` is one carried out whose answer was lost and which the client
repeats; `Abort` is a handler killed in progress. Handlers with no engine call are one action.

**ProjectAccess.** `Found`, `Close`, `Agree`, `Withdraw`, `Admit`, `Suspend`, `Resume`, `Expel`.
`Projects` maps to it by `Promise` (INSTANCE ... WITH): phase from the rows and `born`, access from
role and status, consent from invites and approvals. `AccessKept` says `Projects` implements it.

**Flows.** `containers` is Docker's view of the fixed name, `rows` the table, `jobs` the start and
stop handlers, `culler` the thread's loaded batch. A job holds a container *object*; when that
container is removed its handle dies, because Docker resolves the object by id. `last_active` is
one bit per row: older than IDLE_STOP or not.

**Handlers and the modules on it.** `jobs[t]` is the record of locals of the handler in thread `t`, and
`pc` the place between two round trips where it is. An action is one database round trip, commit
or call to another service, with the local Python up to the next one. `faults` counts failed calls,
lost answers and kills. Where a comment says "(a history)", the variable or field records what
happened and is never read by a guard: properties use it to say exactly under which circumstances
the code does *not* deliver, so that everything else is promised.

- `Workspaces`/`Devices`/`Lora`: `workspaces[p]` is a project's rows and its tenant, `devices` the
  engine's devices, `apps` and `motes` ChirpStack, `mappings` table `lora_devices`. `lora.register`
  is `BeginRegister`, `ListApps`, `CreateApp`, `EnsureTbDevice`, `CreateMote`, `CreateKeys`,
  `CommitMapping`; the bridge's `_forward` is `ReadMapping`, `FindTbDevice`, `PostTelemetry`.
- `Notebooks`: `servers` is the hub's record of each named server, from the spawn over the portal's
  token (`MintToken`) to the running container; `DeleteServer` and `RemoveVolumes` are
  `delete_project_notebooks`, which `CloseProject` of `Workspaces` leads into.
- `Alerts`: `create_alert` and `delete_alert`, then `apply_rules` call by call. `BuildMetadata` is the
  rendering itself, node positions and links included, since a wrong position is the bug to fear.
- `Accounts`: `accounts` is Keycloak, `portalUsers` and `classCode` are rows. Sign-up is split at
  its calls; the login callback is one action because it awaits nothing between query and commit.
- `Students`, `Setup`: each find and each create is a step, so a run can be killed, fail or meet
  another one in between. `alone` and `smooth` mark a student's runs that met neither.
- `Setup`: `copies` counts each kind of thing. `.env` says whether mail and LoRaWAN are asked for;
  where they are not, `ConfigureMail` and `ReadToken` skip their script, which counts as success.
  `CreateKey` is the ChirpStack key, made without a look, `StoreToken` the commit that remembers it: a
  deployment can be cut off between the two. `OnFailure` is where a failed call leads (on, for the last two
  scripts; out, for the others), `Lost` a call carried out whose answer was lost, `Misread` a look-up whose
  error answer is taken for "exists" (roles), "nothing to adapt" (profile) or "nothing there" (mail). A
  handler's `unsure` is a history of what a swallowed or misread error left open.
- `Staff`: `SyncRole` is one POST or DELETE of a realm role; `PlanUser`, `ApplyRole`,
  `RevokeSessions` are the reconciliation, beside logins and Keycloak's console. `sessions[u]` are the
  roles with which *u*'s open Grafana sessions began: a login adds one for another device and leaves the
  others open, and only a logout ends them, all at once.
- `Monitoring`: `Lookup`, `Build`, `CheckFull`, `PopOldest`, `Store` are `cached_snapshot`;
  `AckAlarm`, `Invalidate` the route. `Snapshots` opens up `Build`, call by call to the last one, for
  the quota (`ReadLimit`); there `steady` is what was
  there during the whole of a page's composition, and `loaded` the sections that were answered. `Panels` does the same for `dashboard_data`.
- `RateLimit`: `ReadClock` is outside the lock, `Allow` is everything under it. `Export`: `ReadPage`
  is one round of the loop of `iter_rows`, beside a device that goes on reporting.
- `TbSession`: `Header`, `Renew`, `TbLogin`, `Send` follow `_auth_header`, `refresh`, `login`,
  `_request`; the environment ages and revokes tokens and disables the user.

## 3 Runs

| run | instance | shows |
|---|---|---|
| `projects_access` | scenes `access`: 1 project, 2 people, 2 tickets, 2 handlers, 1 fault; `reuse`: 2 projects of one name, 1 person, 2 handlers, 1 fault, 1 crash | types; one owner; provisioned means usable; members share the tenant; orphan rows lead nowhere; engine identity is stable; tenant isolation under reuse of slugs and addresses; distinct slugs; refinement of `ProjectAccess` |
| `projects_retries` | scene `retries`: 1 project, 2 people, 2 handlers, 1 fault, retries submitted twice | members are torn between tenants, and rows outlive a project with a living account, only if two retries both made a tenant |
| `projects_progress` | with fairness, scenes `repair`: 1 project, 1 person, 2 handlers, 2 faults; `names`: 2 projects of one name, 2 handlers, 1 fault, 1 crash; `logins`: 1 project, 2 people, 2 tickets, 1 handler, 1 fault | a failed project is repaired by retrying; requests end: who waits for a slug another creation has inserted gets on when that one commits, fails or dies, and a login works through every pending invite |
| `flows` | 1 project, 2 handlers, culler, 2 faults, 1 restart with a new image, fairness | types, starts deliver the current image, recreations keep current containers, idle rows settle |
| `portal` | one scene per component of section 2, two handlers | the 22 invariants listed below |

Five runs of the first two components and two of the portal are refuted on purpose: section 4. Those of
`Projects` are small instances of that module itself (`Projects_*.cfg`).

What `portal` shows, by scene:

| scene | invariants |
|---|---|
| alerts | `RulesBounded`: the limit is passed by at most one row per other handler. `ChainWellFormed`: no rule hangs from another one's filter. `AlonePushIsCurrent`: an undisturbed push repairs the chain |
| lora | `MappedIsComplete`: a mapping row implies mote, keys and device. `UplinkReachesItsDevice`: the bridge posts to a device this DevEUI was registered for, unless its name was vacated |
| notebooks | `DeletionClearsNotebooks`: after an undisturbed deletion no server and no volume is left |
| accounts | `CodeCount`: `uses` is exact and within the limit unless a write was overwritten. `SessionLoads`: who logged in is found at the next request |
| staff | `AloneRunAgrees`: an undisturbed run leaves both stores in agreement. `DemotedLoggedOut`: no session on any device outlives a demotion, unless the revocation was lost or the user's own login on another device lowered the role first, so that no run plans anything |
| monitoring | `StaleOnlyIfCrossed`: a hit after an acknowledgement shows it, unless the build was crossed |
| snapshots | `NothingMissingUnnamed`, `PageCoherent`: what was there all along is shown or its section named, but for the quota (section 4); the parts belong together |
| panels | `QuotaExplained`: the shown quota held within the last ten minutes |
| rate | `WindowKept`, `RefusedWhenFull`: the window admits the limit and at most one more per other handler, and refuses for expired hits at most one fewer |
| export | `ExportExact`: nothing twice, nothing outside, nothing missing but at the range's very start |
| session | `RepeatedOnlyIfLost`, `SmoothCallsSucceed`: a call is carried out again only after a lost answer; a client that can renew its tokens gets its answer |
| students | `RerunRepairs`: an undisturbed run repairs what earlier ones left |
| setup | `NoDuplicates`, `DeployConverges`: deployments one after the other duplicate nothing, but for one more ChirpStack key for each failure at most, and one that ends well leaves all that `.env` asks for, except what a swallowed or misread error left it unsure of |

Bounds. Two handlers are enough for each race listed: every one is between a handler and one
other. Two people give owner and member; two tickets give a stale invite beside a used one. Three
engine ids of a kind let a creation be repeated after a lost answer and again by a retry. One fault
or crash at every possible point; two for a repair, so that it can itself fail. `MCProjects` puts several
such instances in one run: a behaviour has one scene, and `Casts` says who takes part in it. So
`RequestsEnd` meets both its hard cases: two projects of one name for the wait on the unique index, two
tickets for a login with more than one invite. In a scene fresh ids are taken in order and the first
person founds the projects (`Within`), which removes only behaviours that are the same up to a renaming. In `flows`
one project suffices because rows of different projects meet only in the culler's batch; what an
aborted batch does to a row already handled is reached by the restart. Running out of engine
ids is a refusal the code has to handle (the engine answers with an error), not a stop of the model.

The portal run. Components that share no state are never composed: a behaviour has one scene, the
others keep their initial values. LoRaWAN and notebooks run beside the life of their project, because
that is what they race with. One project suffices there: engine devices, volumes and mappings are
separate for each project, and the one thing a later project takes over from a deleted one with its
slug, the ChirpStack application, decides nothing, because uplinks are placed by DevEUI. (A user's
server limit therefore never binds; no property is about it.) What projects do share, the quota
entry and the cache, has a scene of its own with several. Two handlers meet in every scene whose handlers share
something; where they share nothing (`export`, `session`, `snapshots`) one is in progress at a time
(`Solo`). The numbers are the smallest at which the cases happen: 3 rules and a limit of 1 (overrun
and a deletion), 2 rule chains (a repeated creation), 2 devices and 2 names (a rename into a
vacated one), 2 DevEUIs whose names collide or not, 3 Keycloak ids for 2 addresses (a recreated
account), a code for 1 use, a server limit of 1, a cache of 1 entry for 2 keys, a window of 2 hits in 2 of
5 ticks, 5 instants and pages of 2 with a cap of 5 rows for 2 keys (a full page that ends at the
range's start, a cut in mid-page), 2 attempts (a first and a last), 2 tenants of one title, 2 editions of
the settings (each with and without mail and LoRaWAN), 3 devices and pages of 2 (one past the first page), of which 1 is counted, one change
of the engine during a page, 2 quotas. One fault at each possible point; two in `setup`; up to three in `session`,
where a token's end, a lost answer and a failed refresh have to come together. The run has 2.2 million
states. Restrictions that
only remove copies of behaviours: people are alike, so the owner and the one whose account is deleted
are fixed (`OwnerIsAny`, `OneRecreated`), and so are threads and devices (the symmetry set). One is a
real bound: deployments overlap only in the first edition (`Overlaps`). `Patience <= PanelLife`
is an assumption on the engine: a call times out after 30 seconds and is tried four times at most, a
page makes three of them to find the quota, and the entry lives ten minutes. Deadlock is not checked: the bounds on time, faults and ids
end behaviours that the system would continue.

Fairness. `Projects!FairSpec`: handlers in progress run on (`WF Proceed`), since each engine call
has a timeout and at most four attempts; and the owner keeps pressing "retry" on a failed project
and "delete" on a half-deleted one (`SF`, because another request may hold the handler's slot
now and then). Nothing forces the portal to receive any other request. `ScenesFairSpec` asks the same
of the steps that stay within a scene. `Flows!FairSpec`:
handlers run on, and the culler's loop goes on for ever (it catches every exception); users and
time are free to do nothing. Faults are finite: a repair can be promised only once they stop.
The portal run assumes none: its properties are safety properties, and what must happen in the end is
said there as what holds when a run has ended ("an undisturbed run repairs").

## 4 Where code and text disagree

Each is a run that TLC refutes; the quotation is in `PROJECT.json` under findings.

- `projects_crash` (`Repairable`): killed between the engine's answer and the commit, a
  provisioning leaves an engine user that holds the address for ever in a tenant nobody recorded;
  all later retries are refused. The module docstring promises repair by running again.
- `projects_delete` (`DeleteCompletes`): killed after the tenant is deleted, the project stays and
  every further deletion ends in the engine's 404. The ADR calls deletion idempotent.
- `projects_disable` (`OnlyOwnerEnables`): a second pending invite re-activates a member the owner
  disabled, at the member's next login. The permission table reserves enabling for the owner.
- `projects_double` (`MembersShareTenant`): two retries submitted together create two tenants and
  leave the row and the owner's membership pointing at different ones.
- `flows_leak` (`IdleInstancesStop`): a start between the culler's stop and its commit leaves a
  running container with a row that says stopped; it is never culled.
- `portal_cache` (`CacheBounded`): two page builders that both see a full cache evict the same entry and
  store two; the excess stays and grows with every further meeting. The module calls the cache bounded.
- `portal_key` (`OneKey`): cut off after ChirpStack made the portal's admin key and before its token is
  committed, the set-up makes another key the next time. The script calls itself idempotent.

Three more were seen while modelling. They are single steps that the code takes in every such case, so no
run of theirs is kept; the properties that touch them name them as exceptions.

- `snapshot` passes over a failed look-up of the quota in silence (`monitoring.py:371`), where its
  docstring says that partial failures degrade a section and every other section is then named
  (`NothingMissingUnnamed` excepts it, `ReadLimit` has the step).
- `reconcile_grafana` does not look at the answer of a logout (line 123), and the next run starts from the
  organisation's members: the sessions of someone it removed, or demoted, are then never revoked (the
  exceptions of `DemotedLoggedOut`).
- `delete_project_notebooks` sends no body, so JupyterHub stops the server and keeps its record, which
  counts towards the user's limit; `lab.py:58` says `remove=true` removes it (`DeleteServer`).

`projects_access` and `projects_progress` check what holds while retry is not submitted twice at once
(`ConcurrentRetry = FALSE`); `projects_retries` drops that and shows how far the damage of `projects_double`
goes: a project's members are torn apart, or a row that outlives the project opens something, only if
two retries that found no tenant recorded worked on it at once (`TornOnlyByMakers`, `LiveOnlyByMakers`).
All theorems hold for either value.

## 5 Proofs

All are checked by tlapm for every value of the constants: any number of projects, people,
handlers, devices and engine ids, any bounds.

**Assumptions.** Only the named ones of the modules, and what they say is this. NULL (`None`) is none of
the values it stands beside (`ProjectsAssumption`, `HandlersAssumption`, `WorkspacesAssumption`,
`StaffAssumption`, `AccountsAssumption`, `StudentsAssumption`, `SetupAssumption`, `PanelsAssumption`,
`SnapshotsAssumption`, `ChainsAreNotNull`), bounds are naturals (a client makes at least one attempt, a cache
holds at least one entry, a page of an export one row), and the one about the engine,
`Patience <= PanelLife`, that section 3 explains. The handlers are finitely many and there is one
(`HandlersAssumption`): the portal serves requests from a pool of threads. `SnapshotsAssumption` numbers
devices and keys in the order the portal sorts them, and has finitely many devices; `ExportAssumption` says
that the keys of an export are a list, which may be empty or name a key twice. `AccountsAssumption`
also says that Keycloak's ids are handed out in order, which is how the model picks a fresh one. Nothing is
assumed about `ConcurrentRetry`, which only says whether the environment submits retries twice.

**Scope.** The theorems on modules from `Handlers` on are about each component's own specification
(`StaffSpec`, `LoraSpec`, ...). The behaviours of the portal run are among its behaviours: a scene takes the
same actions, some of them more restricted (section 3).

**Projects.**

- `TypeCorrect`. Strengthened by `TodoScoped`: the tickets in an admission's list name a project and
  a user, so the handler's locals stay well typed when it loads them.
- `Isolation`. `IsoInv` adds to `TenantIsolation` that the same holds of what handlers carry
  (`JobIso`: tenant and user in the session, the loaded membership) and of the rows' tenants
  (`RowsIso`). It is preserved because ownership of an engine entity is written once, when it is
  created (`OwnedStable`), and entities are only ever killed, never handed over; so the steps that
  matter are `FindUser` and `SaveUser`, which pick a user by tenant *and* address.
- `OneOwner`, `Usable`, `SlugsApart`. `LifeInv` says how far a project has come while its creator still
  works on it: only the owner's row is made without an engine user and everyone else is admitted when the
  owner is ready (`RowsLife`); invites and requests are made by or about members (`TicketsLife`); each place
  of a handler implies what it has checked (`PcLife`); the slug is its creator's from the INSERT on, where the
  unique index decides between two of one name (`CreateLife`); an admission works on tickets of its own
  project (`AdmitLife`); and a row a handler loaded differs from the stored one only as another handler may
  have changed it (`HeldRow`, `HeldProject`). `Usable` needs the last part: the commit writes back the values
  of a session that is seconds old.
- `Stable`. `AddressInv`: slug *n* is one project's wherever it is still kept, in rows, sessions and
  addresses of living engine users, so an address leads to the account it led to before. The attempt to
  prove the property in an earlier form, without its exception, failed at `CommitAdd`, and TLC confirmed the
  behaviour: an admission finds the account that a removal is deleting; the removal ends before its commit;
  another admission records a new account, and the first then writes the dead one over it. The property
  now names that case. It loses nobody's data (the next admission finds the living account by its address).
- `OneTenant`, `OrphansInert`. For one project *p*, of which never two handlers are retries that found no
  tenant recorded (`OneMaker(p)`, a part of the property and not an assumption on the constants; other projects, and retries of a
  project with a tenant, may overlap at will): `TenantInv(p)`, the tenant in a handler's session, the
  row's and the owner's are the same one from the moment the row has one, and a row whose project is gone
  names a user of a dead tenant. It is inductive relative to `OneMaker(p)`, and the temporal step
  makes `[]OneMaker(p) => []SharesTenant(p)` of it.
- `AccessRefined`: `Projects` implements `ProjectAccess`. Initial states map to initial states; under `TypeOK`,
  `LifeInv` and `SeenInv` (a membership row has a status; an approval in a handler's hands is about one
  ticket) every step of `Projects` is the step of `ProjectAccess` that the proof names for it, or changes
  neither phase, access nor consent (`PhaseOf`, `AccessOf`, `ConsentOf`). Begin and engine calls are
  stutters; commits are the abstract actions. As the abstract specification has no fairness, this is the
  whole refinement.

**Flows.** `StartIsCurrent`, `CurrentIsKept` follow from `Inv`, which says what a handler's live
container object tells about the container that has the name now. `RemoveOld` removes only through a
live object that was seen outdated; the age of a container never changes while a handler holds it, and
a restart, which ages containers, ends all handlers. `FlowsTyped` adds the shapes of the rest
(`OtherShapes`): a culler about to stop an instance has one.

**People** (`PeopleProofs`).

- `GrantsAgree`, `DemotedOut` (`Staff`). `AloneInv` says, for a run nothing has crossed, what it has reached at
  each of its places (`AloneAt`): what it has passed agrees (`Agrees`, `Settled`), what lies ahead it will set.
  `DemotedLoggedOut` is inductive beside it: a role in the organisation goes down in a reconciliation, which
  then is about to revoke or has its failure on record, or in the user's own login, which `lowered`
  remembers; a logout ends all sessions, so older ones on other devices need no bookkeeping.
- `SessionsLoad`, `CodeCounted` (`Accounts`). `OneBearer`: everything that names a Keycloak id (row, mail,
  cookie, handler) names one and the same address with it; `Known` and `Steady`: a sub that was stored
  stays that row's. `CodeInv`: the uses a sign-up has read are at most the rows that name the code now, and
  equal to them unless another one has committed since; so its commit counts right or is marked as one that
  overwrote.
- `Repaired` (`Students`). `Stage`: what a lone run has made sure of at each place; a place is reached only
  by finding or creating what the one before it was for, and nobody but the deletion takes it away.

**Calls, limits and alert rules** (`EngineProofs`).

- `RepeatsCounted`, `SmoothAnswered` (`TbSession`). `Counted`: executions are lost answers, and one more once
  answered. `OnCourse`: a call whose client can renew never stands at a place that ends in an error.
- `WindowHolds`, `RefusalsDue` (`RateLimit`). The queue holds the last of those let in (`Gone` counts the
  others). Clocks are read before the lock, so the queue is not sorted; but a handler is overtaken by
  no more than all the others (`Overtakings`: those let in after it with an earlier stamp, and those that
  still wait with one). `Kept(n)`: of the window that ends at *n* everything is still in the queue, or a
  later clock has dropped some, and then what is in the window and what may still come stay within the limit and
  the others. The first case is what `allow` counts; the second is the reason for the slack.
- `LimitNearlyKept` (`Alerts`). Rows alone are not inductive; `CountsAhead` bounds the rows *and* the handlers
  past the count: who passes it saw less than the limit, and the others are at most all other handlers.
- `Trees`, `PushIsCurrent` (`Alerts`). `HangKeepsTree`: hanging a node from one of the kind above it, of the same
  rule or of none, keeps a tree. `Renders(m, R)`: a tree with all nodes of each rule in *R* and no other rule's;
  `AddRuleRenders` is the step from *R* to one rule more, and `BuildRenders` follows for the whole list
  by a least counterexample. `PushAlone`: how far a handler that nobody disturbed has come at each place.

**Pages and downloads** (`PagesProofs`).

- `StaleExplained` (`Monitoring`). `AcksSeen`: a snapshot in the cache or in the making shows every
  acknowledgement that had ended when its build began, or is degraded, or is marked as crossed. The
  case that matters is a build in progress while its key is invalidated.
- `QuotaIsRecent` (`Panels`). `Noted`: what the entry holds was the profile's not longer ago than its age and a page's
  patience; `PageKnows`, `Lately`: the same of what pages hold on to.
- `NothingMissing`, `PagesCohere` (`Snapshots`). What a page has is what was there at one of its calls, and what was
  there from first to last was there at each (`Lasting`). `Fits`: what it has at each place for devices
  (`Listed`), keys (`Keyed`), series (`Drawn`) and activity (`Active`). The engine's first page of devices and the first
  devices asked for activity are given by counting smaller ones; lemmas about finite sets in a strict
  order (`FirstsFill`, `PlacesInOrder`) say that whoever is left out of the first *n* stands behind *n* others.
- `ExportsExact` (`Export`). An export goes from key to key and through each from the last point back.
  `ExportOk`: its rows are distinct, within the range, and all where it has `Passed`; and what is owed and
  passed is among them. A point of the range that is not on a page lies before all of a full page
  (`PageIs`), so the next cursor, one below the oldest, passes over none. Points that arrive in
  what has been passed are not owed.

**Services** (`ServiceProofs`).

- `OneOfEach`, `Converges` (`Setup`). `ThingsInv`: two of a kind, or a creation of what is there already,
  only after an overlap; the ChirpStack keys are counted beside the failures (`Counted`). `AloneDeployInv`: a
  deployment alone has left everything asked for of the steps behind it in the
  edition it began with (`Progress`, `Past`), but what it is unsure of, and that is `.env`'s.
- `NotebooksGo` (`Notebooks`). `ClearedInv`: once a deletion has listed a human's servers, those it has passed
  are stopped or counted as missed (`Halted`), and volumes go after the servers (`Cleared`).
- `MappingsWhole`, `UplinksArrive` (`Lora`). `DevicesInv`: a name is one device's in its tenant, and never used for
  another DevEUI unless vacated. `Registered`: how far a registration has come at each place, with the
  three stores; `WholeRow`: what a mapping row, committed last, can rely on since nothing removes a
  mote under a row; `UplinkInv`: the bridge's mapping may be stale at its post, but the name it
  looks up then still says for which DevEUI it was made.

**Only model-checked.** Every safety property of a passing run is stated by a theorem; `MembersShareTenant` and
`OrphanRowsInert` are what `OneTenant` and `OrphansInert` say of projects no two such retries worked on at once.
The liveness properties (`RequestsEnd`, `RepairableAlive`, `IdleRowsSettle`) stay with TLC: fairness and ENABLED are outside the
prover. That the provers cannot instantiate the library's induction theorems was no obstacle: where a proof needs
an induction over numbers (the rendered chain, the first *n* of a page), it takes a least
counterexample, which exists because `<` is well-founded (`LeastNumber`).

## 6 Modelling decisions

- Database: READ COMMITTED; a commit writes the columns whose value the session changed
  (`Column`); an UPDATE of a deleted row rolls back (`gone`), a DELETE of one only warns.
- Slugs: all projects compete for one base; slug *n* is base-*n*. Addresses are (slug, human); two
  humans whose ids share eight hex digits are not modelled.
- The tenant profile, impersonation and the dashboard either work or make the step fail
  (`TbFails`); what they store is not kept. Activation of an engine user is best-effort.
- Enable, disable, invite, request and deny are single transactions without an outside call and
  are one action each. Selecting and deleting a project's rows is one action.
- A removed member's engine user may survive (`DropUser` swallows errors), as in the code.
- Killing one handler (`Abort`) over-approximates a crash, which kills all of them.
- Flows: a row's load and commit are one action; in between there is only local Python. The
  culler's decision who is idle is taken when it loads the rows, as cutoff and values are fixed
  then. Volumes are never removed by the code and are not state here.

- `Handlers`: a call that fails ends its handler unless the code says otherwise; where a caller
  swallows or reports an error, that outcome is a disjunct of the step.
- A retry of a creation whose answer was lost is part of the step that creates (two chains, two
  tenants), or its refusal is (`SaveUser`, `SaveDevice`).
- `Devices`: a handler's look-up and its change are one action, as the engine decides on the change.
- Ids that are never used again by a service are finite here; one that nothing refers to any more
  stands for a fresh one.
- `Monitoring`, `Panels`: time is kept as ages that stop where all older ones are alike.
- `RateLimit`: one key; keys share only the lock. `admitted` is a history: the limiter forgets, the properties do not. `Alerts`: one project; rows and chains of projects are
  separate. `Students`: one address.
- `Setup`: containers, files and migrations are taken as done, the LoRa databases (one `CREATE` if absent in
  `deploy.sh`) and the lab profile's containers among them; what is modelled is what the scripts find
  and write in the services, by kind of thing. The test user of development is not modelled: `deploy.sh`
  passes on none of its variables.
- `Staff`: Grafana's session of someone who is no longer in the organisation stays until a logout; whether
  Grafana lets it see anything is Grafana's, the script revokes it in any case.

Not modelled, and why. Home pages, i18n, templates, site content, e-mail and audit lines hold
no state a property could be about; backup, branding, simulators, smoke tests, firmware examples and
documentation are no concurrent state machines. `suspend_student`, token rotation and the dashboard
reset forward one call and touch no state kept here. The table of capabilities and the origin check are
pure one-step decisions that their unit tests enumerate. The severity an alarm needs for an
acknowledgement is a filter on the engine's answer. Formatting, wording and layout are left out
everywhere.

## 7 Plan

1. Modelling, where it adds a hazard: Node-RED, alert rules and mapping rows left behind by a deletion
   as part of one composed project; the culler's stale look at `last_active`.
2. Proofs: what those models add. The theorems of a component are about its own specification, and the scenes of
   `MCPortal` share no state, so there is nothing more to prove of the composition.
