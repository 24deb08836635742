----------------------------- MODULE Snapshots ------------------------------
(***************************************************************************)
(* The composition of one monitoring or telemetry page                     *)
(* (portal/app/monitoring.py, snapshot).  The page is put together from    *)
(* one call to the engine for each section, and what one call answers      *)
(* decides what the next one asks for, while devices come, go and report   *)
(* first values.  A call that fails leaves its section empty and names it  *)
(* as degraded, but for the last one, which asks for the quota; the page   *)
(* appears all the same.                                                   *)
(***************************************************************************)
EXTENDS Handlers

CONSTANTS
  SnapDevices, \* device ids, 1 .. n in the order of their names
  SnapKeys,    \* telemetry keys, 1 .. n in the order the engine lists them
  Preferred,   \* PREFERRED_KEYS, listed by the engine in the order of preference
  Counted,     \* _TS_KEYS: the keys whose points are counted
  SnapPage,    \* devices in one answer (100)
  ActivityMax, \* ACTIVITY_MAX_DEVICES (60)
  MaxChanges   \* bound on what happens in the engine

VARIABLES
  inventory,   \* the engine: the numeric keys of each device, None if there is none
  changes      \* what happened in the engine so far

ASSUME SnapshotsAssumption ==
  /\ SnapDevices \in SUBSET Nat /\ SnapKeys \in SUBSET Nat /\ IsFiniteSet(SnapDevices)
  /\ None \notin SnapDevices \cup SnapKeys \cup (SnapDevices \X SnapKeys)
  /\ Preferred \subseteq SnapKeys /\ Counted \subseteq SnapKeys
  /\ SnapPage \in Nat \ {0} /\ ActivityMax \in Nat /\ MaxChanges \in Nat

snapshotVars == <<inventory, changes>>

Existing(inv) == {d \in SnapDevices : inv[d] # None}
FirstOnes(n, S) == {x \in S : Cardinality({y \in S : y < x}) < n}
FirstOne(S) == IF S = {} THEN None ELSE CHOOSE x \in S : \A y \in S : x <= y

-----------------------------------------------------------------------------
(* The engine.                                                             *)

\* ids are not used again: a new device has one that no page knows
KnownTo(t, d) ==
  ~At(t, "idle") /\ d \in jobs[t].available \cup {jobs[t].device} \cup Existing(jobs[t].steady)

\* a page under way remembers what was there all along (a history)
Alter(d, keys) ==
  /\ changes < MaxChanges /\ changes' = changes + 1
  /\ inventory' = [inventory EXCEPT ![d] = keys]
  /\ jobs' = [t \in Threads |-> IF At(t, "idle") \/ keys # None THEN jobs[t]
                                ELSE [jobs[t] EXCEPT !.steady[d] = None]]
  /\ UNCHANGED faults

DeviceAppears(d) ==
  inventory[d] = None /\ (\A t \in Threads : ~KnownTo(t, d)) /\ Alter(d, {})
DeviceVanishes(d) == inventory[d] # None /\ Alter(d, None)
FirstValue(d, k) ==
  inventory[d] # None /\ k \notin inventory[d] /\ Alter(d, inventory[d] \cup {k})

-----------------------------------------------------------------------------
(* snapshot: what is asked for, then one call after the other.             *)

BeginSnapshot(t, device, key, activity) ==
  /\ Start(t, [pc |-> "devices", device |-> device, key |-> key, activity |-> activity,
               available |-> {}, selected |-> None, numeric |-> {}, selkey |-> None,
               series |-> None, todo |-> {}, rows |-> {}, rate |-> None, degraded |-> {},
               loaded |-> {}, steady |-> inventory, zeroed |-> {}])
  /\ UNCHANGED snapshotVars

Down(j, section) == [j EXCEPT !.degraded = @ \cup {section}]

\* a call's outcome: the section, or what is left without it
Outcomes(t, answered, found, failed) ==
  /\ \/ answered /\ Become(t, found) /\ UNCHANGED faults
     \/ ~answered /\ Become(t, failed) /\ UNCHANGED faults
     \/ Fault /\ Become(t, failed)
  /\ UNCHANGED snapshotVars

\* A variant for mutation: the device asked for is taken as it is.
SelectedAsAsked(device, available) ==
  IF device # None THEN device ELSE FirstOne(available)

Selected(device, available) ==
  IF device \in available THEN device ELSE FirstOne(available)

SelectedKey(key, numeric) ==
  IF key \in numeric THEN key
  ELSE FirstOne(IF Preferred \cap numeric # {} THEN Preferred \cap numeric ELSE numeric)

\* the activity of the devices on the list comes after the series, if it is asked for
AfterSeries(j) ==
  LET todo == IF j.activity THEN FirstOnes(ActivityMax, j.available) ELSE {} IN
  [j EXCEPT !.todo = todo, !.pc = IF todo = {} THEN "alarms" ELSE "activity"]

\* _devices; without it nothing can be selected
ListDevices(t) ==
  LET j == jobs[t]
      available == FirstOnes(SnapPage, Existing(inventory))
      selected == Selected(j.device, available)
      found == [j EXCEPT !.available = available, !.selected = selected,
                         !.pc = IF selected = None THEN "alarms" ELSE "keys"]
  IN At(t, "devices") /\ Outcomes(t, TRUE, found, Down([j EXCEPT !.pc = "alarms"], "devices"))

\* _numeric_keys_and_latest
ListKeys(t) ==
  LET j == jobs[t]
      numeric == inventory[j.selected]
      selkey == SelectedKey(j.key, numeric)
      found == [j EXCEPT !.numeric = numeric, !.selkey = selkey, !.pc = "series"]
  IN /\ At(t, "keys")
     /\ Outcomes(t, numeric # None,
                 IF selkey # None THEN found ELSE AfterSeries(j), AfterSeries(Down(j, "keys")))

\* A variant for mutation: a series that fails is just left out.
ReadSeriesQuietly(t) ==
  LET j == jobs[t] IN
  /\ At(t, "series")
  /\ Outcomes(t, inventory[j.selected] # None,
              AfterSeries([j EXCEPT !.series = <<j.selected, j.selkey>>]), AfterSeries(j))

\* _series
ReadSeries(t) ==
  LET j == jobs[t] IN
  /\ At(t, "series")
  /\ Outcomes(t, inventory[j.selected] # None,
              AfterSeries([j EXCEPT !.series = <<j.selected, j.selkey>>]),
              AfterSeries(Down(j, "series")))

\* _activity_series, device by device; one that fails counts as nothing
CountActivity(t) ==
  LET j == jobs[t]
      d == FirstOne(j.todo)
      next == [j EXCEPT !.todo = @ \ {d}, !.pc = IF j.todo = {d} THEN "alarms" ELSE "activity"]
      counted == inventory[d] # None /\ inventory[d] \cap Counted # {}
  IN /\ At(t, "activity")
     /\ Outcomes(t, inventory[d] # None,
                 [next EXCEPT !.rows = @ \cup {<<d, counted>>}, !.rate = IF d = j.selected THEN d ELSE @],
                 [next EXCEPT !.rows = @ \cup {<<d, FALSE>>}, !.zeroed = @ \cup {d}])

\* the sections at the end of the page, one call after the other
Section(t, section, next, failed) ==
  LET to(j) == [j EXCEPT !.pc = next] IN
  /\ At(t, section)
  /\ Outcomes(t, TRUE, to([jobs[t] EXCEPT !.loaded = @ \cup {section}]), to(failed))

\* _alarms, twice
ReadAlarms(t) == Section(t, "alarms", "alarm_history", Down(jobs[t], "alarms"))
ReadHistory(t) == Section(t, "alarm_history", "max_devices", Down(jobs[t], "alarm_history"))
\* _max_devices, of a tenant that has a limit; a failure is passed over
ReadLimit(t) == Section(t, "max_devices", "shown", jobs[t])

ShowPage(t) == At(t, "shown") /\ Finish(t) /\ UNCHANGED snapshotVars

SnapshotsInit ==
  /\ inventory \in [SnapDevices -> {None} \cup SUBSET SnapKeys]
  /\ changes = 0

SnapshotsNext ==
  \/ \E d \in SnapDevices :
       DeviceAppears(d) \/ DeviceVanishes(d) \/ \E k \in SnapKeys : FirstValue(d, k)
  \/ \E t \in Threads, d \in SnapDevices \cup {None}, k \in SnapKeys \cup {None}, a \in BOOLEAN :
       BeginSnapshot(t, d, k, a)
  \/ \E t \in Threads :
       \/ ListDevices(t) \/ ListKeys(t) \/ ReadSeries(t) \/ CountActivity(t)
       \/ ReadAlarms(t) \/ ReadHistory(t) \/ ReadLimit(t) \/ ShowPage(t)

SnapshotsSpec ==
  HandlersInit /\ SnapshotsInit /\ [][SnapshotsNext]_<<snapshotVars, handlerVars>>

-----------------------------------------------------------------------------
Shown == {jobs[t] : t \in {t \in Threads : At(t, "shown")}}

(***************************************************************************)
(* "Partial failures degrade a section, never raise" (snapshot): whatever  *)
(* fails or vanishes between the calls, what was there all along is on the *)
(* page or its section is named as degraded.  Left out without a word are  *)
(* only devices past the first page of the engine's answer, the activity   *)
(* of those past the maximum and of keys that are not counted, that of a   *)
(* device whose own call failed, and the quota, whose failed look-up is    *)
(* passed over in silence (ReadLimit).                                     *)
(***************************************************************************)
NothingMissingUnnamed ==
  \A j \in Shown :
    LET there == Existing(j.steady) IN
    /\ "devices" \in j.degraded
       \/ \A d \in there : d \in j.available \/ Cardinality(j.available) = SnapPage
    /\ j.selected \in there =>
         \/ "keys" \in j.degraded
         \/ j.steady[j.selected] \subseteq j.numeric
    /\ j.numeric # {} => j.series # None \/ "series" \in j.degraded
    /\ j.activity => \A d \in (there \cap FirstOnes(ActivityMax, j.available)) \ j.zeroed :
         /\ <<d, j.steady[d] \cap Counted # {}>> \in j.rows \/ <<d, TRUE>> \in j.rows
         /\ d = j.selected => j.rate = d
    /\ {"alarms", "alarm_history"} \subseteq j.loaded \cup j.degraded

(***************************************************************************)
(* The parts of a page belong together: the series is of the selected      *)
(* device and key, which are on the page's own lists; and the device and   *)
(* key a user asked for are the selected ones if they were there all       *)
(* along, their section is not down and the device is on the first page of *)
(* the engine's answer (snapshot).                                         *)
(***************************************************************************)
PageCoherent ==
  \A j \in Shown :
    /\ j.selected \in j.available \cup {None}
    /\ j.selkey \in j.numeric \cup {None}
    /\ j.series \in {None, <<j.selected, j.selkey>>}
    /\ (j.device \in Existing(j.steady) /\ "devices" \notin j.degraded) =>
         j.selected = j.device \/ Cardinality({d \in j.available : d < j.device}) = SnapPage
    /\ (j.selected \in Existing(j.steady) /\ "keys" \notin j.degraded) =>
         j.key \notin j.steady[j.selected] \/ j.selkey = j.key
=============================================================================
