----------------------------- MODULE Monitoring -----------------------------
(***************************************************************************)
(* Monitoring pages of projects (portal/app/monitoring.py and              *)
(* routers/monitoring.py): a snapshot is composed from several calls to    *)
(* the engine, each of which may fail on its own, and kept in a dict that  *)
(* all handler threads use without a lock.  An acknowledged alarm drops    *)
(* the project's snapshots.                                                *)
(*                                                                         *)
(* Times are kept as ages, which stop at the TTL: older is all the same.   *)
(***************************************************************************)
EXTENDS Handlers

CONSTANTS
  CacheKeys,   \* (project, range, device, key): the cache's keys
  ProjectOf,   \* the project of each
  WithActivity,\* the keys of the telemetry page
  CacheMax,    \* _CACHE_MAX (256)
  Ttl,         \* monitoring_cache_ttl
  MaxAcks      \* bound on acknowledgements

VARIABLES
  acked,       \* the engine: how often an alarm of each project was acknowledged
  cache,       \* _CACHE
  settled      \* acknowledgements whose invalidation is over (a history)

ASSUME MonitoringAssumption ==
  /\ CacheMax \in Nat \ {0} /\ Ttl \in Nat /\ MaxAcks \in Nat
  /\ WithActivity \subseteq CacheKeys

monitoringVars == <<acked, cache, settled>>

Watched == {ProjectOf[k] : k \in CacheKeys}
Cached == {k \in CacheKeys : cache[k] # None}
Fresh == {k \in Cached : cache[k].age < Ttl}

(***************************************************************************)
(* snapshot asks for the devices of the project, the keys and the series   *)
(* of one of them, the devices' activity and the alarms.  A section whose  *)
(* call fails is left empty and named as degraded, and the page appears    *)
(* all the same; here a snapshot is what it shows of the alarms, or None   *)
(* when that section is down.                                              *)
(***************************************************************************)
Snapshot(p, down) == IF down THEN None ELSE acked[p]

-----------------------------------------------------------------------------
(* cached_snapshot.                                                        *)

Older(n) == IF n < Ttl THEN n + 1 ELSE n

Tick ==
  /\ cache' = [k \in CacheKeys |->
                 IF k \in Cached THEN [cache[k] EXCEPT !.age = Older(@)] ELSE None]
  /\ jobs' = [t \in Threads |->
                IF jobs[t].pc \in {"build", "check", "pop", "store"}
                THEN [jobs[t] EXCEPT !.age = Older(@)] ELSE jobs[t]]
  /\ UNCHANGED <<acked, settled, faults>>

\* the clock is read, then the dict; a hit is served at once and changes nothing
Lookup(t, k) ==
  /\ k \notin Fresh
  /\ Start(t, [pc |-> "build", key |-> k, age |-> 0, snap |-> None, victim |-> None,
               crossed |-> FALSE])
  /\ UNCHANGED monitoringVars

\* the builder; its calls are near each other and taken as one read
Build(t) ==
  /\ At(t, "build")
  /\ \E down \in BOOLEAN :
       /\ IF down THEN Fault ELSE UNCHANGED faults
       /\ Become(t, [jobs[t] EXCEPT !.pc = "check",
                                    !.snap = Snapshot(ProjectOf[jobs[t].key], down)])
  /\ UNCHANGED monitoringVars

\* len(_CACHE) >= _CACHE_MAX, and min(): the oldest entry
CheckFull(t) ==
  /\ At(t, "check")
  /\ IF Cardinality(Cached) < CacheMax
     THEN Become(t, [jobs[t] EXCEPT !.pc = "store"])
     ELSE \E k \in Cached :
            /\ \A l \in Cached : cache[l].age <= cache[k].age
            /\ Become(t, [jobs[t] EXCEPT !.pc = "pop", !.victim = k])
  /\ UNCHANGED <<monitoringVars, faults>>

\* _CACHE.pop(victim, None)
PopOldest(t) ==
  /\ At(t, "pop")
  /\ cache' = [cache EXCEPT ![jobs[t].victim] = None]
  /\ Goto(t, "store") /\ UNCHANGED <<acked, settled>>

Store(t) ==
  /\ At(t, "store")
  /\ cache' = [cache EXCEPT ![jobs[t].key] =
       [age |-> jobs[t].age, snap |-> jobs[t].snap, crossed |-> jobs[t].crossed]]
  /\ Finish(t) /\ UNCHANGED <<acked, settled>>

-----------------------------------------------------------------------------
(* ack_alarm, from the engine's answer on.                                 *)

AckAlarm(t, p) ==
  /\ acked[p] < MaxAcks
  /\ acked' = [acked EXCEPT ![p] = @ + 1]
  /\ Start(t, [pc |-> "invalidate", project |-> p, acks |-> acked[p] + 1])
  /\ UNCHANGED <<cache, settled>>

\* A variant for mutation: only the monitoring page's entries go.
DropMonitoring(p) == {k \in CacheKeys \ WithActivity : ProjectOf[k] = p}

\* invalidate: keys of the project, whatever the range, device and page
Dropped(p) == {k \in CacheKeys : ProjectOf[k] = p}

\* a build of the project that is under way is crossed by it
Invalidate(t) ==
  LET p == jobs[t].project IN
  /\ At(t, "invalidate")
  /\ cache' = [k \in CacheKeys |-> IF k \in Dropped(p) THEN None ELSE cache[k]]
  /\ settled' = [settled EXCEPT ![p] = IF @ < jobs[t].acks THEN jobs[t].acks ELSE @]
  /\ jobs' = [s \in Threads |->
       IF s = t THEN Free
       ELSE IF jobs[s].pc \in {"build", "check", "pop", "store"} /\ ProjectOf[jobs[s].key] = p
            THEN [jobs[s] EXCEPT !.crossed = TRUE] ELSE jobs[s]]
  /\ UNCHANGED <<acked, faults>>

\* also the RuntimeError when the dict changes under min() or invalidate
MonitoringFails(t) == Killed(t) /\ UNCHANGED monitoringVars

MonitoringInit ==
  /\ acked = [p \in Watched |-> 0] /\ settled = [p \in Watched |-> 0]
  /\ cache = [k \in CacheKeys |-> None]

MonitoringNext ==
  \/ \E t \in Threads, k \in CacheKeys : Lookup(t, k)
  \/ \E t \in Threads :
       \/ Build(t) \/ CheckFull(t) \/ PopOldest(t) \/ Store(t)
       \/ Invalidate(t) \/ MonitoringFails(t) \/ \E p \in Watched : AckAlarm(t, p)
  \/ Tick

MonitoringSpec ==
  HandlersInit /\ MonitoringInit /\ [][MonitoringNext]_<<handlerVars, monitoringVars>>

-----------------------------------------------------------------------------
(***************************************************************************)
(* A hit served after an acknowledgement is over shows its effect, or says *)
(* that the alarms are degraded; unless the snapshot was being built while *)
(* the acknowledgement invalidated, and was stored after it.  Then it is   *)
(* served for the rest of the TTL (cached_snapshot, invalidate).           *)
(***************************************************************************)
StaleOnlyIfCrossed ==
  \A k \in Cached :
    \/ cache[k].crossed
    \/ cache[k].snap = None
    \/ cache[k].snap >= settled[ProjectOf[k]]

(***************************************************************************)
(* "A bounded, short-TTL, process-local cache" (monitoring.py): at most    *)
(* _CACHE_MAX entries, and one more for each other handler that stores at  *)
(* the same time.                                                          *)
(***************************************************************************)
CacheBounded == Cardinality(Cached) <= CacheMax + Cardinality(Threads) - 1
=============================================================================
