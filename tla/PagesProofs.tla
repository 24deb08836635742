---------------------------- MODULE PagesProofs -----------------------------
(***************************************************************************)
(* Proofs about what a page or a download of the portal shows: the cache   *)
(* of snapshots (Monitoring), the quota that live panels share (Panels),   *)
(* the composition of a page while the engine changes (Snapshots) and the  *)
(* paging of an export (Export), a specification each.                     *)
(***************************************************************************)
EXTENDS Monitoring, Panels, Snapshots, Export, FiniteSetTheorems,
        SequenceTheorems, WellFoundedInduction, TLAPS

-----------------------------------------------------------------------------
(* Snapshots in the cache (module Monitoring).                             *)

BuildPlaces == {"build", "check", "pop", "store"}
BuildJobs ==
  [pc : BuildPlaces, key : CacheKeys, age : 0 .. Ttl, snap : Nat \cup {None},
   victim : CacheKeys \cup {None}, crossed : BOOLEAN]
Entries == [age : 0 .. Ttl, snap : Nat \cup {None}, crossed : BOOLEAN]
AckJobs == [pc : {"invalidate"}, project : Watched, acks : Nat]

MonitoringTypes ==
  /\ jobs \in [Threads -> {Free} \cup BuildJobs \cup AckJobs]
  /\ acked \in [Watched -> Nat] /\ settled \in [Watched -> Nat]
  /\ cache \in [CacheKeys -> {None} \cup Entries]

\* a snapshot shows n acknowledgements, unless it was crossed or has no alarms
Shows(x, n) == x.crossed \/ x.snap = None \/ x.snap >= n

\* no acknowledgement is over before it was made, and what is built or cached
\* has seen those that were over, or was crossed
AcksSeen ==
  /\ \A p \in Watched : settled[p] <= acked[p]
  /\ \A t \in Threads :
       /\ jobs[t].pc = "invalidate" => jobs[t].acks <= acked[jobs[t].project]
       /\ jobs[t].pc \in {"check", "pop", "store"} =>
            Shows(jobs[t], settled[ProjectOf[jobs[t].key]])
  /\ \A k \in Cached : Shows(cache[k], settled[ProjectOf[k]])

MonitoringInv == MonitoringTypes /\ AcksSeen

LEMMA WatchedProjects == \A k \in CacheKeys : ProjectOf[k] \in Watched
  BY DEF Watched

LEMMA MonitoringShape ==
  ASSUME MonitoringTypes, NEW t \in Threads
  PROVE  /\ jobs[t].pc \in BuildPlaces => jobs[t] \in BuildJobs
         /\ jobs[t].pc = "invalidate" => jobs[t] \in AckJobs
         /\ jobs[t].pc \in {"idle", "invalidate"} \cup BuildPlaces
<1>1. jobs[t] \in {Free} \cup BuildJobs \cup AckJobs
  BY DEF MonitoringTypes
<1>2. Free.pc = "idle"
  BY DEF Free
<1> QED BY <1>1, <1>2 DEF BuildJobs, AckJobs, BuildPlaces

\* One handler moves on, and acknowledgements are over as before.
LEMMA BuilderMoved ==
  ASSUME MonitoringInv, NEW t \in Threads, NEW k \in {Free} \cup BuildJobs \cup AckJobs,
         jobs' = [jobs EXCEPT ![t] = k], UNCHANGED settled,
         acked' \in [Watched -> Nat], \A p \in Watched : acked[p] <= acked'[p],
         cache' \in [CacheKeys -> {None} \cup Entries],
         k.pc = "invalidate" => k.acks <= acked'[k.project],
         k.pc \in {"check", "pop", "store"} => Shows(k, settled[ProjectOf[k.key]]),
         \A c \in CacheKeys : \/ cache'[c] = cache[c] \/ cache'[c] = None
                              \/ Shows(cache'[c], settled[ProjectOf[c]])
  PROVE  MonitoringInv'
<1>1. /\ jobs' \in [Threads -> {Free} \cup BuildJobs \cup AckJobs]
      /\ jobs'[t] = k /\ \A s \in Threads \ {t} : jobs'[s] = jobs[s]
  BY DEF MonitoringInv, MonitoringTypes
<1>2. MonitoringTypes'
  BY <1>1 DEF MonitoringInv, MonitoringTypes
<1>3. \A p \in Watched : acked[p] \in Nat /\ acked'[p] \in Nat /\ settled[p] \in Nat /\ settled[p] <= acked[p]
  BY DEF MonitoringInv, MonitoringTypes, AcksSeen
<1>5. ASSUME NEW s \in Threads
      PROVE  /\ jobs'[s].pc = "invalidate" => jobs'[s].acks <= acked'[jobs'[s].project]
             /\ jobs'[s].pc \in {"check", "pop", "store"} =>
                  Shows(jobs'[s], settled[ProjectOf[jobs'[s].key]])
  <2>1. CASE s = t
    BY <1>1, <2>1
  <2>2. CASE s # t
    <3>1. ASSUME jobs[s].pc = "invalidate" PROVE jobs[s].acks <= acked'[jobs[s].project]
      <4>1. jobs[s].acks \in Nat /\ jobs[s].project \in Watched /\ jobs[s].acks <= acked[jobs[s].project]
        BY <3>1, MonitoringShape DEF MonitoringInv, AcksSeen, AckJobs
      <4> QED BY <1>3, <4>1
    <3> QED BY <1>1, <2>2, <3>1 DEF MonitoringInv, AcksSeen
  <2> QED BY <2>1, <2>2
<1>6. \A c \in Cached' : Shows(cache'[c], settled[ProjectOf[c]])
  BY DEF MonitoringInv, AcksSeen, Cached
<1>7. AcksSeen'
  <2>1. \A p \in Watched : settled'[p] <= acked'[p]
    BY <1>3
  <2> QED BY <1>5, <1>6, <2>1 DEF AcksSeen
<1> QED BY <1>2, <1>7 DEF MonitoringInv

LEMMA BuilderMovesOn ==
  ASSUME MonitoringInv, NEW t \in Threads, NEW k \in {Free} \cup BuildJobs,
         jobs' = [jobs EXCEPT ![t] = k], UNCHANGED monitoringVars,
         k.pc \in {"check", "pop", "store"} => Shows(k, settled[ProjectOf[k.key]])
  PROVE  MonitoringInv'
<1>1. UNCHANGED settled /\ UNCHANGED acked /\ UNCHANGED cache
  BY DEF monitoringVars
<1>2. acked' \in [Watched -> Nat] /\ cache' \in [CacheKeys -> {None} \cup Entries]
  BY <1>1 DEF MonitoringInv, MonitoringTypes
<1>3. \A p \in Watched : acked[p] <= acked'[p]
  BY <1>1, <1>2
<1>4. \A c \in CacheKeys : cache'[c] = cache[c]
  BY <1>1
<1>5. k.pc # "invalidate"
  BY DEF Free, BuildJobs, BuildPlaces
<1>6. k \in {Free} \cup BuildJobs \cup AckJobs
  OBVIOUS
<1> QED BY <1>1, <1>2, <1>3, <1>4, <1>5, <1>6, BuilderMoved

LEMMA BuildStep ==
  ASSUME MonitoringInv, NEW t \in Threads,
         \/ \E c \in CacheKeys : Lookup(t, c)
         \/ Build(t) \/ CheckFull(t) \/ PopOldest(t) \/ Store(t) \/ MonitoringFails(t)
         \/ \E p \in Watched : AckAlarm(t, p)
  PROVE  MonitoringInv'
<1>0. /\ MonitoringTypes /\ AcksSeen
      /\ \A p \in Watched : acked[p] \in Nat /\ settled[p] \in Nat /\ settled[p] <= acked[p]
  BY DEF MonitoringInv, MonitoringTypes, AcksSeen
<1>1. jobs[t].pc \in BuildPlaces => jobs[t] \in BuildJobs
  BY <1>0, MonitoringShape
<1>2. ASSUME NEW c \in CacheKeys, Lookup(t, c) PROVE MonitoringInv'
  <2> DEFINE k == [pc |-> "build", key |-> c, age |-> 0, snap |-> None, victim |-> None, crossed |-> FALSE]
  <2>1. jobs' = [jobs EXCEPT ![t] = k] /\ UNCHANGED monitoringVars
    BY <1>2 DEF Lookup, Start, Become
  <2>2. k \in BuildJobs /\ k.pc = "build"
    BY MonitoringAssumption DEF BuildJobs, BuildPlaces
  <2> HIDE DEF k
  <2> QED BY <2>1, <2>2, BuilderMovesOn
<1>3. ASSUME Build(t) PROVE MonitoringInv'
  <2>1. PICK snap :
          /\ jobs' = [jobs EXCEPT ![t] = [jobs[t] EXCEPT !.pc = "check", !.snap = snap]]
          /\ snap \in {None, acked[ProjectOf[jobs[t].key]]}
    BY <1>3 DEF Build, Become, Snapshot
  <2>2. jobs[t] \in BuildJobs /\ UNCHANGED monitoringVars
    BY <1>1, <1>3 DEF Build, At, BuildPlaces
  <2>3. jobs[t].key \in CacheKeys /\ ProjectOf[jobs[t].key] \in Watched
    BY <2>2, WatchedProjects DEF BuildJobs
  <2> DEFINE k == [jobs[t] EXCEPT !.pc = "check", !.snap = snap]
  <2>4. k \in BuildJobs /\ k.pc = "check" /\ k.snap = snap /\ k.key = jobs[t].key
    BY <1>0, <2>1, <2>2, <2>3 DEF BuildJobs, BuildPlaces
  <2> HIDE DEF k
  <2>5. Shows(k, settled[ProjectOf[k.key]])
    BY <1>0, <2>1, <2>3, <2>4 DEF Shows
  <2>6. jobs' = [jobs EXCEPT ![t] = k]
    BY <2>1 DEF k
  <2> QED BY <2>2, <2>4, <2>5, <2>6, BuilderMovesOn
<1>4. ASSUME CheckFull(t) PROVE MonitoringInv'
  <2>1. PICK place \in {"pop", "store"}, victim \in CacheKeys \cup {None} :
          jobs' = [jobs EXCEPT ![t] = [jobs[t] EXCEPT !.pc = place, !.victim = victim]]
    <3>1. jobs[t] \in BuildJobs
      BY <1>1, <1>4 DEF CheckFull, At, BuildPlaces
    <3>2. CASE jobs' = [jobs EXCEPT ![t] = [jobs[t] EXCEPT !.pc = "store"]]
      <4>1. [jobs[t] EXCEPT !.pc = "store"] = [jobs[t] EXCEPT !.pc = "store", !.victim = jobs[t].victim]
            /\ jobs[t].victim \in CacheKeys \cup {None}
        BY <3>1 DEF BuildJobs
      <4> QED BY <3>2, <4>1
    <3>3. CASE \E c \in Cached : jobs' = [jobs EXCEPT ![t] = [jobs[t] EXCEPT !.pc = "pop", !.victim = c]]
      BY <3>3 DEF Cached
    <3> QED BY <1>4, <3>2, <3>3 DEF CheckFull, Become
  <2>2. jobs[t] \in BuildJobs /\ UNCHANGED monitoringVars /\ jobs[t].pc = "check"
    BY <1>1, <1>4 DEF CheckFull, At, BuildPlaces
  <2> DEFINE k == [jobs[t] EXCEPT !.pc = place, !.victim = victim]
  <2>3. /\ k \in BuildJobs /\ k.pc \in BuildPlaces /\ k.snap = jobs[t].snap /\ k.key = jobs[t].key
        /\ k.crossed = jobs[t].crossed
    BY <2>1, <2>2 DEF BuildJobs, BuildPlaces
  <2> HIDE DEF k
  <2>4. Shows(k, settled[ProjectOf[k.key]])
    BY <1>0, <2>2, <2>3 DEF AcksSeen, Shows
  <2>5. jobs' = [jobs EXCEPT ![t] = k]
    BY <2>1 DEF k
  <2> QED BY <2>2, <2>3, <2>4, <2>5, BuilderMovesOn
<1>5. ASSUME PopOldest(t) PROVE MonitoringInv'
  <2>1. /\ jobs[t] \in BuildJobs /\ jobs[t].pc = "pop" /\ UNCHANGED <<acked, settled>>
        /\ jobs' = [jobs EXCEPT ![t].pc = "store"]
        /\ cache' = [cache EXCEPT ![jobs[t].victim] = None]
    BY <1>1, <1>5 DEF PopOldest, At, Goto, BuildPlaces
  <2> DEFINE k == [jobs[t] EXCEPT !.pc = "store"]
  <2>2. jobs' = [jobs EXCEPT ![t] = k]
    BY <1>0, <2>1 DEF MonitoringTypes
  <2>3. /\ k \in BuildJobs /\ k.pc = "store" /\ k.snap = jobs[t].snap /\ k.key = jobs[t].key
        /\ k.crossed = jobs[t].crossed
    BY <2>1 DEF BuildJobs, BuildPlaces
  <2> HIDE DEF k
  <2>4. Shows(k, settled[ProjectOf[k.key]])
    BY <1>0, <2>1, <2>3 DEF AcksSeen, Shows
  <2>5. cache' \in [CacheKeys -> {None} \cup Entries] /\ \A c \in CacheKeys : cache'[c] = cache[c] \/ cache'[c] = None
    BY <1>0, <2>1 DEF MonitoringTypes
  <2>6. acked' \in [Watched -> Nat] /\ \A p \in Watched : acked[p] <= acked'[p]
    BY <1>0, <2>1 DEF MonitoringTypes
  <2> QED BY <2>1, <2>2, <2>3, <2>4, <2>5, <2>6, BuilderMoved
<1>6. ASSUME Store(t) PROVE MonitoringInv'
  <2> DEFINE entry == [age |-> jobs[t].age, snap |-> jobs[t].snap, crossed |-> jobs[t].crossed]
  <2>1. /\ jobs[t] \in BuildJobs /\ jobs[t].pc = "store" /\ UNCHANGED <<acked, settled>>
        /\ jobs' = [jobs EXCEPT ![t] = Free]
        /\ cache' = [cache EXCEPT ![jobs[t].key] = entry]
    BY <1>1, <1>6 DEF Store, At, Finish, Become, BuildPlaces
  <2>2. Shows(entry, settled[ProjectOf[jobs[t].key]])
    BY <1>0, <2>1 DEF AcksSeen, Shows
  <2>5. entry \in Entries
    BY <2>1 DEF Entries, BuildJobs
  <2> HIDE DEF entry
  <2>3. /\ cache' \in [CacheKeys -> {None} \cup Entries]
        /\ \A c \in CacheKeys : cache'[c] = cache[c] \/ (c = jobs[t].key /\ cache'[c] = entry)
    BY <1>0, <2>1, <2>5 DEF MonitoringTypes
  <2>4. Free.pc = "idle"
    BY DEF Free
  <2>6. acked' \in [Watched -> Nat] /\ \A p \in Watched : acked[p] <= acked'[p]
    BY <1>0, <2>1 DEF MonitoringTypes
  <2>7. \A c \in CacheKeys : cache'[c] = cache[c] \/ Shows(cache'[c], settled[ProjectOf[c]])
    BY <2>2, <2>3
  <2> QED BY <2>1, <2>3, <2>4, <2>6, <2>7, BuilderMoved
<1>7. ASSUME MonitoringFails(t) PROVE MonitoringInv'
  <2>1. Free.pc = "idle"
    BY DEF Free
  <2>2. jobs' = [jobs EXCEPT ![t] = Free] /\ UNCHANGED monitoringVars
    BY <1>7 DEF MonitoringFails, Killed, Become
  <2> QED BY <2>1, <2>2, BuilderMovesOn
<1>8. ASSUME NEW p \in Watched, AckAlarm(t, p) PROVE MonitoringInv'
  <2> DEFINE k == [pc |-> "invalidate", project |-> p, acks |-> acked[p] + 1]
  <2>1. /\ jobs' = [jobs EXCEPT ![t] = k] /\ acked' = [acked EXCEPT ![p] = @ + 1] /\ UNCHANGED <<cache, settled>>
    BY <1>8 DEF AckAlarm, Start, Become
  <2>2. k \in AckJobs /\ k.pc = "invalidate" /\ k.project = p /\ k.acks = acked[p] + 1
    BY <1>0 DEF AckJobs
  <2> HIDE DEF k
  <2>3. /\ acked' \in [Watched -> Nat] /\ acked'[p] = acked[p] + 1
        /\ \A q \in Watched : acked[q] <= acked'[q]
    BY <1>0, <2>1 DEF MonitoringTypes
  <2>4. cache' \in [CacheKeys -> {None} \cup Entries] /\ \A c \in CacheKeys : cache'[c] = cache[c]
    BY <1>0, <2>1 DEF MonitoringTypes
  <2>5. k.acks <= acked'[k.project]
    BY <1>0, <2>2, <2>3
  <2> QED BY <2>1, <2>2, <2>3, <2>4, <2>5, BuilderMoved
<1> QED BY <1>2, <1>3, <1>4, <1>5, <1>6, <1>7, <1>8

LEMMA TickStep ==
  ASSUME MonitoringInv, Tick
  PROVE  MonitoringInv'
<1>0. MonitoringTypes /\ AcksSeen
  BY DEF MonitoringInv
<1>1. \A n \in 0 .. Ttl : Older(n) \in 0 .. Ttl
  BY MonitoringAssumption DEF Older
<1>2. ASSUME NEW s \in Threads
      PROVE  /\ jobs'[s] \in {Free} \cup BuildJobs \cup AckJobs /\ jobs'[s].pc = jobs[s].pc
             /\ jobs[s].pc \in BuildPlaces =>
                  jobs'[s].key = jobs[s].key /\ jobs'[s].snap = jobs[s].snap /\ jobs'[s].crossed = jobs[s].crossed
             /\ jobs[s].pc \notin BuildPlaces => jobs'[s] = jobs[s]
  <2>1. CASE jobs[s].pc \in BuildPlaces
    <3>1. jobs[s] \in BuildJobs /\ jobs'[s] = [jobs[s] EXCEPT !.age = Older(jobs[s].age)]
      BY <1>0, <2>1, MonitoringShape DEF Tick, BuildPlaces
    <3>2. Older(jobs[s].age) \in 0 .. Ttl
      BY <1>1, <3>1 DEF BuildJobs
    <3> QED BY <2>1, <3>1, <3>2 DEF BuildJobs
  <2>2. CASE jobs[s].pc \notin BuildPlaces
    BY <1>0, <2>2 DEF Tick, BuildPlaces, MonitoringTypes
  <2> QED BY <2>1, <2>2
<1>3. UNCHANGED <<acked, settled>>
  BY DEF Tick
<1>4. ASSUME NEW c \in CacheKeys
      PROVE  /\ cache'[c] \in {None} \cup Entries
             /\ c \in Cached' => Shows(cache'[c], settled[ProjectOf[c]])
  <2>1. CASE c \in Cached
    <3>1. cache[c] \in Entries /\ cache'[c] = [cache[c] EXCEPT !.age = Older(cache[c].age)]
      BY <1>0, <2>1 DEF Tick, Cached, MonitoringTypes
    <3>2. Older(cache[c].age) \in 0 .. Ttl
      BY <1>1, <3>1 DEF Entries
    <3>3. cache'[c] \in Entries /\ cache'[c].snap = cache[c].snap /\ cache'[c].crossed = cache[c].crossed
      BY <3>1, <3>2 DEF Entries
    <3> QED BY <1>0, <2>1, <3>3 DEF AcksSeen, Shows
  <2>2. CASE c \notin Cached
    BY <2>2 DEF Tick, Cached
  <2> QED BY <2>1, <2>2
<1>5. MonitoringTypes'
  <2>1. cache' = [c \in CacheKeys |-> cache'[c]] /\ jobs' = [s \in Threads |-> jobs'[s]]
    BY DEF Tick
  <2>2. cache' \in [CacheKeys -> {None} \cup Entries]
    BY <1>4, <2>1
  <2>3. jobs' \in [Threads -> {Free} \cup BuildJobs \cup AckJobs]
    BY <1>2, <2>1
  <2> QED BY <1>0, <1>3, <2>2, <2>3 DEF MonitoringTypes
<1>6. AcksSeen'
  <2>1. \A c \in Cached' : c \in CacheKeys
    BY DEF Cached
  <2> QED BY <1>0, <1>2, <1>3, <1>4, <2>1 DEF AcksSeen, Shows, BuildPlaces
<1> QED BY <1>5, <1>6 DEF MonitoringInv

LEMMA InvalidateStep ==
  ASSUME MonitoringInv, NEW t \in Threads, Invalidate(t)
  PROVE  MonitoringInv'
<1> DEFINE p == jobs[t].project
           n == jobs[t].acks
           hit(s) == jobs[s].pc \in BuildPlaces /\ ProjectOf[jobs[s].key] = p
<1>0. /\ MonitoringTypes /\ AcksSeen
      /\ \A q \in Watched : acked[q] \in Nat /\ settled[q] \in Nat /\ settled[q] <= acked[q]
  BY DEF MonitoringInv, MonitoringTypes, AcksSeen
<1>1. p \in Watched /\ n \in Nat /\ n <= acked[p]
  BY <1>0, MonitoringShape DEF Invalidate, At, AckJobs, AcksSeen
<1>2. /\ UNCHANGED acked
      /\ cache' = [c \in CacheKeys |-> IF ProjectOf[c] = p THEN None ELSE cache[c]]
      /\ settled' = [settled EXCEPT ![p] = IF @ < n THEN n ELSE @]
      /\ jobs' = [s \in Threads |-> IF s = t THEN Free
                                    ELSE IF hit(s) THEN [jobs[s] EXCEPT !.crossed = TRUE] ELSE jobs[s]]
  <2>1. \A c \in CacheKeys : c \in Dropped(p) <=> ProjectOf[c] = p
    BY DEF Dropped
  <2>2. [c \in CacheKeys |-> IF c \in Dropped(p) THEN None ELSE cache[c]]
          = [c \in CacheKeys |-> IF ProjectOf[c] = p THEN None ELSE cache[c]]
    BY <2>1
  <2> QED BY <2>2 DEF Invalidate, BuildPlaces
<1> HIDE DEF p, n
<1>3. /\ settled' \in [Watched -> Nat]
      /\ \A q \in Watched : settled'[q] <= acked'[q]
      /\ \A q \in Watched \ {p} : settled'[q] = settled[q]
  BY <1>0, <1>1, <1>2 DEF MonitoringTypes
<1>4. ASSUME NEW s \in Threads
      PROVE  /\ jobs'[s] \in {Free} \cup BuildJobs \cup AckJobs
             /\ jobs'[s].pc = "invalidate" => jobs'[s].acks <= acked'[jobs'[s].project]
             /\ jobs'[s].pc \in {"check", "pop", "store"} =>
                  Shows(jobs'[s], settled'[ProjectOf[jobs'[s].key]])
  <2>1. CASE s = t
    BY <1>2, <2>1 DEF Free
  <2>2. CASE s # t /\ hit(s)
    <3>1. jobs[s] \in BuildJobs /\ jobs'[s] = [jobs[s] EXCEPT !.crossed = TRUE]
      BY <1>0, <1>2, <2>2, MonitoringShape
    <3> QED BY <3>1 DEF BuildJobs, BuildPlaces, Shows
  <2>3. CASE s # t /\ ~hit(s)
    <3>1. jobs'[s] = jobs[s]
      BY <1>2, <2>3
    <3>2. ASSUME jobs[s].pc \in {"check", "pop", "store"}
          PROVE  Shows(jobs[s], settled'[ProjectOf[jobs[s].key]])
      <4>1. jobs[s] \in BuildJobs /\ jobs[s].pc \in BuildPlaces
        BY <1>0, <3>2, MonitoringShape DEF BuildPlaces
      <4>2. ProjectOf[jobs[s].key] \in Watched \ {p}
        BY <2>3, <4>1, WatchedProjects DEF BuildJobs
      <4> QED BY <1>0, <1>3, <3>2, <4>2 DEF AcksSeen
    <3> QED BY <1>0, <1>2, <3>1, <3>2 DEF MonitoringTypes, AcksSeen
  <2> QED BY <2>1, <2>2, <2>3
<1>5. ASSUME NEW c \in CacheKeys
      PROVE  /\ cache'[c] \in {None} \cup Entries
             /\ c \in Cached' => Shows(cache'[c], settled'[ProjectOf[c]])
  <2>1. CASE ProjectOf[c] = p
    BY <1>2, <2>1 DEF Cached
  <2>2. CASE ProjectOf[c] # p
    <3>1. cache'[c] = cache[c] /\ settled'[ProjectOf[c]] = settled[ProjectOf[c]]
      BY <1>2, <1>3, <2>2, WatchedProjects
    <3> QED BY <1>0, <3>1 DEF MonitoringTypes, AcksSeen, Cached
  <2> QED BY <2>1, <2>2
<1>6. MonitoringTypes'
  <2>1. cache' \in [CacheKeys -> {None} \cup Entries]
    <3>1. cache' = [c \in CacheKeys |-> cache'[c]]
      BY <1>2
    <3> QED BY <1>5, <3>1
  <2>2. jobs' \in [Threads -> {Free} \cup BuildJobs \cup AckJobs]
    <3>1. jobs' = [s \in Threads |-> jobs'[s]]
      BY <1>2
    <3> QED BY <1>4, <3>1
  <2> QED BY <1>0, <1>2, <1>3, <2>1, <2>2 DEF MonitoringTypes
<1>7. AcksSeen'
  <2>1. \A c \in Cached' : c \in CacheKeys
    BY DEF Cached
  <2> QED BY <1>3, <1>4, <1>5, <2>1 DEF AcksSeen
<1> QED BY <1>6, <1>7 DEF MonitoringInv

LEMMA MonitoringAlways == MonitoringSpec => []MonitoringInv
<1>1. HandlersInit /\ MonitoringInit => MonitoringInv
  <2> SUFFICES ASSUME HandlersInit, MonitoringInit PROVE MonitoringInv
    OBVIOUS
  <2>1. MonitoringTypes
    BY DEF HandlersInit, MonitoringInit, MonitoringTypes
  <2>2. Cached = {} /\ \A p \in Watched : settled[p] = 0 /\ acked[p] = 0
    BY DEF MonitoringInit, Cached
  <2>3. \A t \in Threads : jobs[t].pc = "idle"
    BY DEF HandlersInit, Free
  <2> QED BY <2>1, <2>2, <2>3 DEF MonitoringInv, AcksSeen
<1>2. MonitoringInv /\ [MonitoringNext]_<<handlerVars, monitoringVars>> => MonitoringInv'
  <2> SUFFICES ASSUME MonitoringInv, [MonitoringNext]_<<handlerVars, monitoringVars>> PROVE MonitoringInv'
    OBVIOUS
  <2>1. CASE UNCHANGED <<handlerVars, monitoringVars>>
    BY <2>1 DEF handlerVars, monitoringVars, MonitoringInv, MonitoringTypes, AcksSeen, Cached
  <2>2. CASE MonitoringNext
    BY <2>2, BuildStep, TickStep, InvalidateStep DEF MonitoringNext
  <2> QED BY <2>1, <2>2
<1> QED BY <1>1, <1>2, PTL DEF MonitoringSpec

(***************************************************************************)
(* Whatever the number of handlers, projects and cached pages, a cached    *)
(* page shows the acknowledgements that were over before it was built,     *)
(* says that its alarms are degraded, or was crossed by an acknowledgement *)
(* (cached_snapshot, invalidate): there is no other way to be stale.       *)
(***************************************************************************)
THEOREM StaleExplained == MonitoringSpec => []StaleOnlyIfCrossed
<1>1. MonitoringInv => StaleOnlyIfCrossed
  BY DEF MonitoringInv, AcksSeen, StaleOnlyIfCrossed, Shows
<1> QED BY <1>1, MonitoringAlways, PTL

-----------------------------------------------------------------------------
(* The quota on live panels (module Panels).                               *)

Quotas == 1 .. MaxQuota
LookPlaces == {"list", "fetch", "remember", "value"}
EarlyPages == [pc : {"query", "look"}, project : PanelProjects]
Pages ==
  [pc : LookPlaces \cup {"rest"}, project : PanelProjects, age : 0 .. Patience,
   quota : Quotas \cup {None}, failed : BOOLEAN, recent : SUBSET Quotas, blank : BOOLEAN]

PanelTypes ==
  /\ jobs \in [Threads -> {Free} \cup EarlyPages \cup Pages]
  /\ populated \in SUBSET PanelProjects
  /\ quota \in Quotas
  /\ quotaCache \in [age : 0 .. PanelLife + 1, value : Quotas \cup {None}]
  /\ quotaAge \in [Quotas -> 0 .. PanelLife + 1]
  /\ blankAge \in 0 .. PanelLife + 1

\* v was the quota at some time of the last n instants, or None could be taken for it
Lately(v, n) ==
  IF v = None THEN blankAge <= n ELSE quotaAge[v] <= n

\* the page x has noted v
Noted(x, v) == IF v = None THEN x.blank ELSE v \in x.recent

\* what a page knows of the quota, at each of its places
PageKnows(x) ==
  /\ x.pc = "remember" => Lately(x.quota, x.age)
  /\ x.pc = "list" => x.quota = None
  /\ (x.pc \in LookPlaces /\ ~x.failed) =>
       \A v \in Quotas \cup {None} : Lately(v, PanelLife) => Noted(x, v)
  /\ (x.pc = "value" /\ ~x.failed) => Noted(x, quotaCache.value)
  /\ (x.pc = "rest" /\ ~x.failed) => Noted(x, x.quota)

QuotaInv ==
  /\ quotaAge[quota] = 0 /\ (populated # PanelProjects => blankAge = 0)
  /\ quotaCache.age <= PanelLife => Lately(quotaCache.value, quotaCache.age)
  /\ \A t \in Threads : PageKnows(jobs[t])

PanelsInv == PanelTypes /\ QuotaInv

LEMMA PanelShape ==
  ASSUME PanelTypes, NEW t \in Threads
  PROVE  /\ jobs[t].pc \in LookPlaces \cup {"rest"} => jobs[t] \in Pages
         /\ jobs[t].pc \in {"query", "look"} => jobs[t] \in EarlyPages
         /\ jobs[t].pc \in {"idle", "query", "look", "rest"} \cup LookPlaces
<1>1. jobs[t] \in {Free} \cup EarlyPages \cup Pages
  BY DEF PanelTypes
<1>2. Free.pc = "idle"
  BY DEF Free
<1> QED BY <1>1, <1>2 DEF EarlyPages, Pages, LookPlaces

\* One page moves on.
LEMMA PageMoves ==
  ASSUME PanelsInv, NEW t \in Threads, NEW k \in {Free} \cup EarlyPages \cup Pages,
         jobs' = [jobs EXCEPT ![t] = k], UNCHANGED panelVars, PageKnows(k)
  PROVE  PanelsInv'
<1>1. PanelTypes /\ QuotaInv
  BY DEF PanelsInv
<1>2. /\ jobs' \in [Threads -> {Free} \cup EarlyPages \cup Pages]
      /\ jobs'[t] = k /\ \A s \in Threads \ {t} : jobs'[s] = jobs[s]
  BY <1>1 DEF PanelTypes
<1>3. PanelTypes'
  BY <1>1, <1>2 DEF PanelTypes, panelVars
<1>4. \A s \in Threads : PageKnows(jobs'[s])
  BY <1>1, <1>2 DEF QuotaInv
<1>5. UNCHANGED <<populated, quota, quotaCache, quotaAge, blankAge>>
  BY DEF panelVars
<1>6. ASSUME NEW x PROVE PageKnows(x) <=> PageKnows(x)'
  BY <1>5 DEF PageKnows, Lately
<1> QED BY <1>1, <1>3, <1>4, <1>5 DEF PanelsInv, QuotaInv, PageKnows, Lately

\* Nothing that a page has noted, or is about to remember, is forgotten.
LEMMA PageSteps ==
  ASSUME PanelsInv, NEW t \in Threads,
         \/ \E p \in PanelProjects : OpenPanel(t, p)
         \/ QueryDevices(t) \/ LookForQuota(t) \/ ListOwn(t) \/ FetchQuota(t)
         \/ ReadQuota(t) \/ ShowPanel(t) \/ PanelFails(t)
  PROVE  PanelsInv'
<1>0. PanelTypes /\ QuotaInv /\ PageKnows(jobs[t])
  BY DEF PanelsInv, QuotaInv
<1>1. /\ jobs[t].pc \in LookPlaces \cup {"rest"} => jobs[t] \in Pages
      /\ jobs[t].pc \in {"query", "look"} => jobs[t] \in EarlyPages
  BY <1>0, PanelShape
<1>2. PageKnows(Free)
  BY DEF PageKnows, Free, LookPlaces
<1>3. ASSUME NEW p \in PanelProjects, OpenPanel(t, p) PROVE PanelsInv'
  <2> DEFINE k == [pc |-> "query", project |-> p]
  <2>1. jobs' = [jobs EXCEPT ![t] = k] /\ UNCHANGED panelVars
    BY <1>3 DEF OpenPanel, Start, Become
  <2>2. k \in EarlyPages /\ PageKnows(k)
    BY DEF EarlyPages, PageKnows, LookPlaces
  <2> HIDE DEF k
  <2> QED BY <2>1, <2>2, PageMoves
<1>4. ASSUME QueryDevices(t) PROVE PanelsInv'
  <2> DEFINE k == [jobs[t] EXCEPT !.pc = "look"]
  <2>1. jobs[t] \in EarlyPages
    BY <1>1, <1>4 DEF QueryDevices, At
  <2>2. k \in EarlyPages /\ PageKnows(k)
    BY <2>1 DEF EarlyPages, PageKnows, LookPlaces
  <2>3. \/ jobs' = [jobs EXCEPT ![t] = k]
        \/ jobs' = [jobs EXCEPT ![t] = Free]
    BY <1>0, <1>4 DEF QueryDevices, Goto, Become, PanelTypes
  <2>4. UNCHANGED panelVars
    BY <1>4 DEF QueryDevices
  <2> HIDE DEF k
  <2> QED BY <1>2, <2>2, <2>3, <2>4, PageMoves
<1>5. ASSUME LookForQuota(t) PROVE PanelsInv'
  <2> DEFINE seen == populated # PanelProjects \/ blankAge <= PanelLife
             place == IF Expired600(quotaCache.age) THEN "list" ELSE "value"
             k == [pc |-> place, project |-> jobs[t].project, age |-> 0, quota |-> None,
                   failed |-> FALSE, recent |-> Recent, blank |-> seen]
  <2>1. jobs' = [jobs EXCEPT ![t] = k] /\ UNCHANGED panelVars /\ jobs[t] \in EarlyPages
    BY <1>1, <1>5 DEF LookForQuota, Become, At
  <2>2. k \in Pages
    <3>1. Recent \in SUBSET Quotas /\ seen \in BOOLEAN /\ place \in {"list", "value"}
      BY DEF Recent, Quotas
    <3>2. 0 \in 0 .. Patience
      BY PanelsAssumption
    <3> HIDE DEF seen, place
    <3> QED BY <2>1, <3>1, <3>2 DEF Pages, EarlyPages, LookPlaces
  <2>3. \A v \in Quotas \cup {None} : Lately(v, PanelLife) => Noted(k, v)
    BY PanelsAssumption DEF Lately, Noted, Recent, Quotas
  <2>4. ASSUME k.pc = "value" PROVE Noted(k, quotaCache.value)
    <3>1. quotaCache.age \in 0 .. PanelLife + 1 /\ quotaCache.value \in Quotas \cup {None}
      BY <1>0 DEF PanelTypes
    <3>2. quotaCache.age <= PanelLife
      BY <2>4, <3>1, PanelsAssumption DEF Expired600
    <3>3. Lately(quotaCache.value, quotaCache.age)
      BY <1>0, <3>2 DEF QuotaInv
    <3>4. Lately(quotaCache.value, PanelLife)
      <4>1. blankAge \in Nat /\ \A q \in Quotas : quotaAge[q] \in Nat
        BY <1>0, PanelsAssumption DEF PanelTypes
      <4> QED BY <3>1, <3>2, <3>3, <4>1, PanelsAssumption DEF Lately
    <3> QED BY <2>3, <3>1, <3>4
  <2>5. k.pc \in {"list", "value"} /\ k.quota = None
    OBVIOUS
  <2> HIDE DEF k
  <2>6. PageKnows(k)
    BY <2>3, <2>4, <2>5 DEF PageKnows
  <2> QED BY <2>1, <2>2, <2>6, PageMoves
\* the page gives up on the quota
<1>6. ASSUME GivesUp(t), jobs[t] \in Pages, UNCHANGED panelVars PROVE PanelsInv'
  <2> DEFINE k == [jobs[t] EXCEPT !.pc = "value", !.failed = TRUE, !.recent = {}, !.blank = FALSE]
  <2>1. jobs' = [jobs EXCEPT ![t] = k]
    BY <1>6 DEF GivesUp, Become
  <2>2. k \in Pages /\ PageKnows(k)
    BY <1>6 DEF Pages, LookPlaces, PageKnows
  <2> HIDE DEF k
  <2> QED BY <1>6, <2>1, <2>2, PageMoves
<1>7. ASSUME ListOwn(t) PROVE PanelsInv'
  <2>1. jobs[t] \in Pages /\ jobs[t].pc = "list" /\ UNCHANGED panelVars
    BY <1>1, <1>7 DEF ListOwn, At, LookPlaces
  <2> DEFINE place == IF jobs[t].project \in populated THEN "fetch" ELSE "remember"
             k == [jobs[t] EXCEPT !.pc = place]
  <2>2. CASE Goto(t, place)
    <3>1. jobs' = [jobs EXCEPT ![t] = k]
      BY <1>0, <2>2 DEF Goto, PanelTypes
    <3>2. /\ k \in Pages /\ k.pc = place /\ k.quota = None /\ k.age = jobs[t].age
          /\ k.failed = jobs[t].failed /\ k.recent = jobs[t].recent /\ k.blank = jobs[t].blank
      BY <1>0, <2>1 DEF Pages, LookPlaces, PageKnows
    <3>3. place = "remember" => blankAge = 0
      BY <1>0, <2>1 DEF Pages, PanelTypes, QuotaInv
    <3>4. place \in {"fetch", "remember"}
      OBVIOUS
    <3> HIDE DEF k, place
    <3>5. k.age \in Nat
      BY <2>1, <3>2, PanelsAssumption DEF Pages
    <3>6. PageKnows(k)
      BY <1>0, <2>1, <3>2, <3>3, <3>4, <3>5 DEF PageKnows, Lately, Noted, LookPlaces
    <3> QED BY <2>1, <3>1, <3>2, <3>6, PageMoves
  <2>3. CASE GivesUp(t)
    BY <1>6, <2>1, <2>3
  <2> QED BY <1>7, <2>2, <2>3 DEF ListOwn
<1>8. ASSUME FetchQuota(t) PROVE PanelsInv'
  <2>1. jobs[t] \in Pages /\ jobs[t].pc = "fetch" /\ UNCHANGED panelVars
    BY <1>1, <1>8 DEF FetchQuota, At, LookPlaces
  <2> DEFINE k == [jobs[t] EXCEPT !.pc = "remember", !.quota = quota]
  <2>2. CASE Become(t, k)
    <3>1. jobs' = [jobs EXCEPT ![t] = k]
      BY <2>2 DEF Become
    <3>2. quota \in Quotas /\ quotaAge[quota] = 0 /\ quota # None
      BY <1>0, PanelsAssumption DEF PanelTypes, QuotaInv, Quotas
    <3>3. /\ k \in Pages /\ k.pc = "remember" /\ k.quota = quota /\ k.age \in Nat
          /\ k.failed = jobs[t].failed /\ k.recent = jobs[t].recent /\ k.blank = jobs[t].blank
      <4>1. k \in Pages
        BY <2>1, <3>2 DEF Pages, LookPlaces
      <4>2. /\ k.pc = "remember" /\ k.quota = quota /\ k.age = jobs[t].age
            /\ k.failed = jobs[t].failed /\ k.recent = jobs[t].recent /\ k.blank = jobs[t].blank
        BY <2>1 DEF Pages
      <4>3. jobs[t].age \in Nat
        BY <2>1, PanelsAssumption DEF Pages
      <4> QED BY <4>1, <4>2, <4>3
    <3> HIDE DEF k
    <3>4. Lately(k.quota, k.age)
      BY <3>2, <3>3 DEF Lately
    <3>5. PageKnows(k)
      BY <1>0, <2>1, <3>3, <3>4 DEF PageKnows, Noted, LookPlaces
    <3> QED BY <2>1, <3>1, <3>3, <3>5, PageMoves
  <2>3. CASE GivesUp(t)
    BY <1>6, <2>1, <2>3
  <2> QED BY <1>8, <2>2, <2>3 DEF FetchQuota
<1>9. ASSUME ReadQuota(t) PROVE PanelsInv'
  <2> DEFINE k == [jobs[t] EXCEPT !.pc = "rest", !.quota = quotaCache.value, !.age = 0]
  <2>1. jobs' = [jobs EXCEPT ![t] = k] /\ UNCHANGED panelVars
        /\ jobs[t] \in Pages /\ jobs[t].pc = "value"
    BY <1>1, <1>9 DEF ReadQuota, Become, At, LookPlaces
  <2>2. quotaCache.value \in Quotas \cup {None} /\ 0 \in 0 .. Patience
    BY <1>0, PanelsAssumption DEF PanelTypes
  <2>3. /\ k \in Pages /\ k.pc = "rest" /\ k.quota = quotaCache.value
        /\ k.failed = jobs[t].failed /\ k.recent = jobs[t].recent /\ k.blank = jobs[t].blank
    BY <2>1, <2>2 DEF Pages, LookPlaces
  <2> HIDE DEF k
  <2>4. PageKnows(k)
    BY <1>0, <2>1, <2>3 DEF PageKnows, Noted, LookPlaces
  <2> QED BY <2>1, <2>3, <2>4, PageMoves
<1>10. ASSUME ShowPanel(t) \/ PanelFails(t) PROVE PanelsInv'
  <2>1. jobs' = [jobs EXCEPT ![t] = Free] /\ UNCHANGED panelVars
    BY <1>10 DEF ShowPanel, PanelFails, Finish, Killed, Become
  <2> QED BY <1>2, <2>1, PageMoves
<1> QED BY <1>3, <1>4, <1>5, <1>7, <1>8, <1>9, <1>10

\* The entry explains itself, whichever page wrote it.
LEMMA RememberStep ==
  ASSUME PanelsInv, NEW t \in Threads, Remember(t)
  PROVE  PanelsInv'
<1>0. PanelTypes /\ QuotaInv
  BY DEF PanelsInv
<1>1. jobs[t] \in Pages /\ jobs[t].pc = "remember" /\ UNCHANGED <<populated, quota, quotaAge, blankAge>>
  BY <1>0, PanelShape DEF Remember, At, LookPlaces
<1> DEFINE v == jobs[t].quota
           n == jobs[t].age
           k == [jobs[t] EXCEPT !.pc = "value"]
<1>2. jobs' = [jobs EXCEPT ![t] = k] /\ quotaCache' = [age |-> n, value |-> v]
  BY <1>0 DEF Remember, Goto, PanelTypes
<1>3. v \in Quotas \cup {None} /\ n \in 0 .. Patience
  BY <1>1 DEF Pages
<1>4. Lately(v, n)
  BY <1>0, <1>1 DEF QuotaInv, PageKnows
<1>5. Lately(v, PanelLife)
  <2>1. blankAge \in Nat /\ \A q \in Quotas : quotaAge[q] \in Nat
    BY <1>0, PanelsAssumption DEF PanelTypes
  <2> QED BY <1>3, <1>4, <2>1, PanelsAssumption DEF Lately
<1>6. /\ k \in Pages /\ k.pc = "value" /\ k.failed = jobs[t].failed
      /\ k.recent = jobs[t].recent /\ k.blank = jobs[t].blank
  BY <1>1 DEF Pages, LookPlaces
<1> HIDE DEF k
<1>7. ASSUME NEW s \in Threads
      PROVE  /\ jobs'[s] \in {Free} \cup EarlyPages \cup Pages
             /\ jobs'[s].pc = "remember" => Lately(jobs'[s].quota, jobs'[s].age)
             /\ jobs'[s].pc = "list" => jobs'[s].quota = None
             /\ (jobs'[s].pc \in LookPlaces /\ ~jobs'[s].failed) =>
                  \A w \in Quotas \cup {None} : Lately(w, PanelLife) => Noted(jobs'[s], w)
             /\ (jobs'[s].pc = "rest" /\ ~jobs'[s].failed) => Noted(jobs'[s], jobs'[s].quota)
  <2>1. PageKnows(jobs[s]) /\ PageKnows(jobs[t])
    BY <1>0 DEF QuotaInv
  <2>2. CASE s = t
    <3>1. jobs'[s] = k
      BY <1>0, <1>2, <2>2 DEF PanelTypes
    <3> QED BY <1>1, <1>6, <2>1, <3>1 DEF PageKnows, Noted, LookPlaces
  <2>3. CASE s # t
    <3>1. jobs'[s] = jobs[s] /\ jobs[s] \in {Free} \cup EarlyPages \cup Pages
      BY <1>0, <1>2, <2>3 DEF PanelTypes
    <3> QED BY <2>1, <3>1 DEF PageKnows
  <2> QED BY <2>2, <2>3
<1>8. PanelTypes'
  <2>1. quotaCache' \in [age : 0 .. PanelLife + 1, value : Quotas \cup {None}]
    BY <1>2, <1>3, PanelsAssumption
  <2>2. jobs' = [s \in Threads |-> jobs'[s]]
    BY <1>0, <1>2 DEF PanelTypes
  <2>3. jobs' \in [Threads -> {Free} \cup EarlyPages \cup Pages]
    BY <1>7, <2>2
  <2> QED BY <1>0, <1>1, <2>1, <2>3 DEF PanelTypes
<1>9. quotaCache'.value = v /\ quotaCache'.age = n
  BY <1>2
<1> HIDE DEF v, n
<1>10. \A s \in Threads : PageKnows(jobs[s])'
  BY <1>1, <1>3, <1>5, <1>7, <1>9 DEF PageKnows, Lately, LookPlaces
<1>11. QuotaInv'
  BY <1>0, <1>1, <1>4, <1>9, <1>10 DEF QuotaInv, Lately
<1> QED BY <1>8, <1>11 DEF PanelsInv

\* Time passes, alike for pages, the entry and what it is measured by.
LEMMA PanelTickStep ==
  ASSUME PanelsInv, PanelTick
  PROVE  PanelsInv'
<1>0. PanelTypes /\ QuotaInv /\ PanelLife \in Nat /\ Patience \in 0 .. PanelLife
  BY PanelsAssumption DEF PanelsInv
<1>1. \A n \in 0 .. PanelLife + 1 :
        /\ Aged(n) \in 0 .. PanelLife + 1
        /\ \A m \in 0 .. PanelLife : n <= m => Aged(n) <= m + 1
        /\ Aged(n) <= PanelLife => n < PanelLife /\ Aged(n) = n + 1
  BY <1>0 DEF Aged
<1>2. /\ quotaAge' = [q \in Quotas |-> IF q = quota THEN 0 ELSE Aged(quotaAge[q])]
      /\ blankAge' = IF populated = PanelProjects THEN Aged(blankAge) ELSE 0
      /\ UNCHANGED <<populated, quota>>
  BY DEF PanelTick, Quotas
<1>3. quotaCache'.age = Aged(quotaCache.age) /\ quotaCache'.value = quotaCache.value
      /\ quotaCache' \in [age : 0 .. PanelLife + 1, value : Quotas \cup {None}]
  <2>1. quotaCache' = [quotaCache EXCEPT !.age = Aged(quotaCache.age)]
    BY DEF PanelTick
  <2>2. quotaCache.age \in 0 .. PanelLife + 1
    BY <1>0 DEF PanelTypes
  <2> QED BY <1>0, <1>1, <2>1, <2>2 DEF PanelTypes
<1>4. blankAge \in 0 .. PanelLife + 1 /\ quota \in Quotas
      /\ \A q \in Quotas : quotaAge[q] \in 0 .. PanelLife + 1
  BY <1>0 DEF PanelTypes
<1>5. quotaAge' \in [Quotas -> 0 .. PanelLife + 1] /\ blankAge' \in 0 .. PanelLife + 1
  BY <1>0, <1>1, <1>2, <1>4
\* what was true lately, was so one instant earlier
<1>6. ASSUME NEW v \in Quotas \cup {None}
      PROVE  /\ \A n \in 0 .. PanelLife : Lately(v, n) =>
                  IF v = None THEN blankAge' <= n + 1 ELSE quotaAge'[v] <= n + 1
             /\ (IF v = None THEN blankAge' <= PanelLife ELSE quotaAge'[v] <= PanelLife)
                => Lately(v, PanelLife)
  <2>1. CASE v = None
    BY <1>0, <1>1, <1>2, <1>4, <2>1 DEF Lately, QuotaInv
  <2>2. CASE v # None /\ v = quota
    BY <1>0, <1>2, <1>4, <2>2 DEF Lately, QuotaInv
  <2>3. CASE v # None /\ v # quota
    BY <1>0, <1>1, <1>2, <1>4, <2>3 DEF Lately
  <2> QED BY <2>1, <2>2, <2>3
<1>7. ASSUME NEW s \in Threads
      PROVE  /\ jobs'[s] \in {Free} \cup EarlyPages \cup Pages
             /\ jobs'[s].pc = jobs[s].pc
             /\ jobs[s].pc \notin LookPlaces => jobs'[s] = jobs[s]
             /\ jobs[s].pc \in LookPlaces =>
                  /\ jobs'[s].quota = jobs[s].quota /\ jobs'[s].age = jobs[s].age + 1
                  /\ jobs'[s].failed = jobs[s].failed
                  /\ jobs'[s].recent = jobs[s].recent /\ jobs'[s].blank = jobs[s].blank
  <2>1. CASE jobs[s].pc \in LookPlaces
    <3>1. /\ jobs[s] \in Pages /\ jobs[s].age < Patience
          /\ jobs'[s] = [jobs[s] EXCEPT !.age = jobs[s].age + 1]
      BY <1>0, <2>1, PanelShape DEF PanelTick, Looking, LookPlaces
    <3>2. jobs[s].age + 1 \in 0 .. Patience
      BY <1>0, <3>1 DEF Pages
    <3> QED BY <2>1, <3>1, <3>2 DEF Pages
  <2>2. CASE jobs[s].pc \notin LookPlaces
    BY <1>0, <2>2 DEF PanelTick, Looking, LookPlaces, PanelTypes
  <2> QED BY <2>1, <2>2
<1>8. PanelTypes'
  <2>1. jobs' = [s \in Threads |-> jobs'[s]]
    BY DEF PanelTick
  <2>2. jobs' \in [Threads -> {Free} \cup EarlyPages \cup Pages]
    BY <1>7, <2>1
  <2> QED BY <1>0, <1>2, <1>3, <1>5, <2>2 DEF PanelTypes
<1>9. ASSUME NEW s \in Threads PROVE PageKnows(jobs[s])'
  <2>1. PageKnows(jobs[s])
    BY <1>0 DEF QuotaInv
  <2>2. CASE jobs[s].pc \in LookPlaces
    <3>1. jobs[s] \in Pages /\ jobs[s].age < Patience
      BY <1>0, <2>2, PanelShape DEF PanelTick, Looking, LookPlaces
    <3>2. jobs[s].quota \in Quotas \cup {None} /\ jobs[s].age \in 0 .. PanelLife
      BY <1>0, <3>1 DEF Pages
    <3>3. jobs[s].pc = "remember" => Lately(jobs[s].quota, jobs[s].age)'
      BY <1>2, <1>6, <1>7, <2>1, <2>2, <3>2 DEF PageKnows, Lately
    <3>4. ~jobs[s].failed => \A v \in Quotas \cup {None} :
            (IF v = None THEN blankAge' <= PanelLife ELSE quotaAge'[v] <= PanelLife) => Noted(jobs[s], v)
      BY <1>6, <2>1, <2>2 DEF PageKnows
    <3> QED BY <1>2, <1>3, <1>7, <2>1, <2>2, <3>3, <3>4 DEF PageKnows, Lately, Noted, LookPlaces
  <2>3. CASE jobs[s].pc \notin LookPlaces
    BY <1>7, <2>1, <2>3 DEF PageKnows, Noted, LookPlaces
  <2> QED BY <2>2, <2>3
<1>10. quotaCache'.age <= PanelLife => Lately(quotaCache.value, quotaCache.age)'
  <2> SUFFICES ASSUME quotaCache'.age <= PanelLife PROVE Lately(quotaCache.value, quotaCache.age)'
    OBVIOUS
  <2>1. quotaCache.age \in 0 .. PanelLife + 1 /\ quotaCache.value \in Quotas \cup {None}
    BY <1>0 DEF PanelTypes
  <2>2. quotaCache.age < PanelLife /\ quotaCache'.age = quotaCache.age + 1
    BY <1>1, <1>3, <2>1
  <2>3. quotaCache.age \in 0 .. PanelLife /\ Lately(quotaCache.value, quotaCache.age)
    BY <1>0, <2>1, <2>2 DEF QuotaInv
  <2> QED BY <1>2, <1>3, <1>6, <2>1, <2>2, <2>3 DEF Lately
<1>11. quotaAge'[quota'] = 0 /\ (populated' # PanelProjects => blankAge' = 0)
  BY <1>2, <1>4
<1>12. QuotaInv'
  BY <1>9, <1>10, <1>11 DEF QuotaInv
<1> QED BY <1>8, <1>12 DEF PanelsInv


\* pages that look note the quotas S, and a blank one if b
Note(S, b) ==
  jobs' = [s \in Threads |-> IF Noting(s)
             THEN [jobs[s] EXCEPT !.recent = jobs[s].recent \cup S, !.blank = (jobs[s].blank \/ b)]
             ELSE jobs[s]]

\* The engine changes, and what is no longer true was so lately: the ages of the
\* rest do not move, and pages that look note what is new.
LEMMA EngineMoved ==
  ASSUME PanelsInv, NEW S \in SUBSET Quotas, NEW b \in BOOLEAN,
         quota' \in Quotas, quotaAge' = [q \in Quotas |-> IF q \in S THEN 0 ELSE quotaAge[q]],
         quota' # quota => quota' \in S,
         blankAge' = IF b THEN 0 ELSE blankAge,
         populated' \in SUBSET PanelProjects, populated' # PanelProjects => b \/ populated # PanelProjects,
         UNCHANGED quotaCache,
         Note(S, b)
  PROVE  PanelsInv'
<1>0. PanelTypes /\ QuotaInv /\ PanelLife \in Nat /\ None \notin Quotas
  BY PanelsAssumption DEF PanelsInv, Quotas
<1>1. /\ blankAge \in 0 .. PanelLife + 1 /\ \A q \in Quotas : quotaAge[q] \in 0 .. PanelLife + 1
      /\ quota \in Quotas
  BY <1>0 DEF PanelTypes
<1>2. /\ quotaAge' \in [Quotas -> 0 .. PanelLife + 1] /\ blankAge' \in 0 .. PanelLife + 1
      /\ \A q \in Quotas : quotaAge'[q] = IF q \in S THEN 0 ELSE quotaAge[q]
  <2>1. 0 \in 0 .. PanelLife + 1
    BY <1>0
  <2> QED BY <1>1, <2>1
<1>3. ASSUME NEW v \in Quotas \cup {None}, NEW n \in Nat, Lately(v, n)
      PROVE  IF v = None THEN blankAge' <= n ELSE quotaAge'[v] <= n
  <2>1. CASE v = None
    BY <1>0, <1>1, <1>3, <2>1 DEF Lately
  <2>2. CASE v # None
    BY <1>1, <1>2, <1>3, <2>2 DEF Lately
  <2> QED BY <2>1, <2>2
<1>4. ASSUME NEW s \in Threads
      PROVE  jobs'[s] \in {Free} \cup EarlyPages \cup Pages /\ PageKnows(jobs[s])'
  <2>1. PageKnows(jobs[s])
    BY <1>0 DEF QuotaInv
  <2>2. jobs[s].pc = "remember" =>
          IF jobs[s].quota = None THEN blankAge' <= jobs[s].age ELSE quotaAge'[jobs[s].quota] <= jobs[s].age
    <3> SUFFICES ASSUME jobs[s].pc = "remember"
                 PROVE  IF jobs[s].quota = None THEN blankAge' <= jobs[s].age
                                                ELSE quotaAge'[jobs[s].quota] <= jobs[s].age
      OBVIOUS
    <3>1. jobs[s] \in Pages
      BY <1>0, PanelShape DEF LookPlaces
    <3>2. jobs[s].quota \in Quotas \cup {None}
      BY <3>1 DEF Pages
    <3>3. jobs[s].age \in Nat
      BY <3>1, PanelsAssumption DEF Pages
    <3> QED BY <1>3, <2>1, <3>2, <3>3 DEF PageKnows
  <2>3. CASE Noting(s)
    <3>1. jobs[s] \in Pages /\ jobs[s].pc \in LookPlaces /\ ~jobs[s].failed
      BY <1>0, <2>3, PanelShape DEF Noting, Looking, LookPlaces
    <3>2. jobs'[s] = [jobs[s] EXCEPT !.recent = jobs[s].recent \cup S, !.blank = (jobs[s].blank \/ b)]
      BY <2>3 DEF Note
    <3>3. jobs[s].recent \cup S \in SUBSET Quotas /\ (jobs[s].blank \/ b) \in BOOLEAN
      BY <3>1 DEF Pages
    <3>4. jobs'[s] \in Pages
      BY <3>1, <3>2, <3>3 DEF Pages
    <3>5. /\ jobs'[s].pc = jobs[s].pc /\ jobs'[s].quota = jobs[s].quota
          /\ jobs'[s].age = jobs[s].age /\ jobs'[s].failed = jobs[s].failed
          /\ jobs'[s].recent = jobs[s].recent \cup S /\ jobs'[s].blank = (jobs[s].blank \/ b)
      BY <3>1, <3>2 DEF Pages
    <3>6. \A v \in Quotas \cup {None} : Noted(jobs[s], v) => Noted(jobs'[s], v)
      BY <3>5 DEF Noted
    <3>7. \A v \in Quotas \cup {None} :
            (IF v = None THEN blankAge' <= PanelLife ELSE quotaAge'[v] <= PanelLife) => Noted(jobs'[s], v)
      <4> SUFFICES ASSUME NEW v \in Quotas \cup {None},
                          IF v = None THEN blankAge' <= PanelLife ELSE quotaAge'[v] <= PanelLife
                   PROVE  Noted(jobs'[s], v)
        OBVIOUS
      <4>1. CASE Lately(v, PanelLife)
        BY <2>1, <3>1, <3>6, <4>1 DEF PageKnows
      <4>2. CASE v = None /\ b
        BY <3>5, <4>2 DEF Noted
      <4>3. CASE v # None /\ v \in S
        BY <3>5, <4>3 DEF Noted
      <4> QED BY <1>2, <4>1, <4>2, <4>3 DEF Lately
    <3>8. quotaCache.value \in Quotas \cup {None}
      BY <1>0 DEF PanelTypes
    <3>9. (jobs[s].pc = "value") => Noted(jobs'[s], quotaCache.value)
      BY <2>1, <3>1, <3>6, <3>8 DEF PageKnows
    <3> HIDE DEF Noted
    <3> QED BY <2>1, <2>2, <3>1, <3>4, <3>5, <3>7, <3>9 DEF PageKnows, Lately, LookPlaces, Noted
  <2>4. CASE ~Noting(s)
    <3>1. jobs'[s] = jobs[s] /\ jobs[s] \in {Free} \cup EarlyPages \cup Pages
      BY <1>0, <2>4 DEF PanelTypes, Note
    <3>2. jobs[s].pc \in LookPlaces => jobs[s].failed
      BY <2>4 DEF Noting, Looking, LookPlaces
    <3> QED BY <2>1, <2>2, <3>1, <3>2 DEF PageKnows, Lately, Noted, LookPlaces
  <2> QED BY <2>3, <2>4
<1>5. PanelTypes'
  <2>1. jobs' = [s \in Threads |-> jobs'[s]]
    BY DEF Note
  <2>2. jobs' \in [Threads -> {Free} \cup EarlyPages \cup Pages]
    BY <1>4, <2>1
  <2> QED BY <1>0, <1>2, <2>2 DEF PanelTypes
<1>6. quotaCache.age <= PanelLife => Lately(quotaCache.value, quotaCache.age)'
  <2>1. quotaCache.value \in Quotas \cup {None} /\ quotaCache.age \in 0 .. PanelLife + 1
    BY <1>0 DEF PanelTypes
  <2>2. quotaCache.age <= PanelLife => Lately(quotaCache.value, quotaCache.age)
    BY <1>0 DEF QuotaInv
  <2>3. quotaCache.age \in Nat
    BY <1>0, <2>1
  <2> QED BY <1>3, <2>1, <2>2, <2>3 DEF Lately
<1>7. quotaAge'[quota'] = 0 /\ (populated' # PanelProjects => blankAge' = 0)
  BY <1>0, <1>2 DEF QuotaInv
<1>8. QuotaInv'
  BY <1>4, <1>6, <1>7 DEF QuotaInv
<1> QED BY <1>5, <1>8 DEF PanelsInv

LEMMA EngineSteps ==
  ASSUME PanelsInv,
         ChangeQuota \/ \E p \in PanelProjects : Populate(p) \/ Depopulate(p)
  PROVE  PanelsInv'
<1>0. PanelTypes /\ QuotaInv
  BY DEF PanelsInv
<1>1. /\ quota \in Quotas /\ populated \in SUBSET PanelProjects
      /\ quotaAge = [q \in Quotas |-> quotaAge[q]]
      /\ jobs = [s \in Threads |-> jobs[s]]
  BY <1>0 DEF PanelTypes
<1>2. \A s \in Threads : Noting(s) => jobs[s] \in Pages
  BY <1>0, PanelShape DEF Noting, Looking, LookPlaces
<1>3. ASSUME ChangeQuota PROVE PanelsInv'
  <2> DEFINE new == quota + 1
  <2>1. /\ quota' = new /\ UNCHANGED <<populated, quotaCache, blankAge>>
        /\ quotaAge' = [quotaAge EXCEPT ![new] = 0]
        /\ jobs' = [s \in Threads |-> IF Noting(s) THEN [jobs[s] EXCEPT !.recent = jobs[s].recent \cup {new}]
                                      ELSE jobs[s]]
    BY <1>3 DEF ChangeQuota
  <2>2. new \in Quotas
    BY <1>1, <1>3, PanelsAssumption DEF ChangeQuota, Quotas
  <2> HIDE DEF new
  <2>3. quotaAge' = [q \in Quotas |-> IF q \in {new} THEN 0 ELSE quotaAge[q]]
    BY <1>1, <2>1, <2>2
  <2>4. Note({new}, FALSE)
    <3>1. \A s \in Threads : Noting(s) =>
            [jobs[s] EXCEPT !.recent = jobs[s].recent \cup {new}]
              = [jobs[s] EXCEPT !.recent = jobs[s].recent \cup {new}, !.blank = (jobs[s].blank \/ FALSE)]
      <4> SUFFICES ASSUME NEW s \in Threads, Noting(s)
                   PROVE  [jobs[s] EXCEPT !.recent = jobs[s].recent \cup {new}]
                            = [jobs[s] EXCEPT !.recent = jobs[s].recent \cup {new},
                                              !.blank = (jobs[s].blank \/ FALSE)]
        OBVIOUS
      <4>1. jobs[s] \in Pages
        BY <1>2
      <4>2. jobs[s].blank \in BOOLEAN
        BY <4>1 DEF Pages
      <4>3. (jobs[s].blank \/ FALSE) = jobs[s].blank
        BY <4>2
      <4> QED BY <4>1, <4>3 DEF Pages
    <3> QED BY <2>1, <3>1 DEF Note
  <2>5. {new} \in SUBSET Quotas /\ quota' \in Quotas /\ quota' \in {new}
        /\ populated' \in SUBSET PanelProjects
        /\ (populated' # PanelProjects => FALSE \/ populated # PanelProjects)
        /\ blankAge' = IF FALSE THEN 0 ELSE blankAge
    BY <1>1, <2>1, <2>2
  <2> QED BY <2>1, <2>3, <2>4, <2>5, EngineMoved
<1>4. ASSUME NEW p \in PanelProjects, Populate(p) PROVE PanelsInv'
  <2>1. /\ populated' = populated \cup {p} /\ populated # PanelProjects
        /\ UNCHANGED <<jobs, quota, quotaCache, quotaAge, blankAge>>
    BY <1>4 DEF Populate, handlerVars
  <2>2. PanelTypes'
    BY <1>0, <2>1 DEF PanelTypes
  <2>3. QuotaInv'
    BY <1>0, <2>1 DEF QuotaInv, PageKnows, Lately, Noted
  <2> QED BY <2>2, <2>3 DEF PanelsInv
<1>5. ASSUME NEW p \in PanelProjects, Depopulate(p) PROVE PanelsInv'
  <2>1. /\ populated' = populated \ {p} /\ blankAge' = 0 /\ UNCHANGED <<quota, quotaCache, quotaAge>>
        /\ jobs' = [s \in Threads |-> IF Noting(s) THEN [jobs[s] EXCEPT !.blank = TRUE] ELSE jobs[s]]
    BY <1>5 DEF Depopulate
  <2>2. quotaAge' = [q \in Quotas |-> IF q \in {} THEN 0 ELSE quotaAge[q]]
    BY <1>1, <2>1
  <2>3. Note({}, TRUE)
    <3>1. \A s \in Threads : Noting(s) =>
            [jobs[s] EXCEPT !.blank = TRUE]
              = [jobs[s] EXCEPT !.recent = jobs[s].recent \cup {}, !.blank = (jobs[s].blank \/ TRUE)]
      <4> SUFFICES ASSUME NEW s \in Threads, Noting(s)
                   PROVE  [jobs[s] EXCEPT !.blank = TRUE]
                            = [jobs[s] EXCEPT !.recent = jobs[s].recent \cup {},
                                              !.blank = (jobs[s].blank \/ TRUE)]
        OBVIOUS
      <4>1. jobs[s] \in Pages
        BY <1>2
      <4>2. jobs[s].recent \cup {} = jobs[s].recent
        BY <4>1 DEF Pages
      <4>3. (jobs[s].blank \/ TRUE) = TRUE
        OBVIOUS
      <4> QED BY <4>1, <4>2, <4>3 DEF Pages
    <3> QED BY <2>1, <3>1 DEF Note
  <2>4. {} \in SUBSET Quotas /\ quota' \in Quotas /\ quota' = quota
        /\ populated' \in SUBSET PanelProjects
        /\ (populated' # PanelProjects => TRUE \/ populated # PanelProjects)
        /\ blankAge' = IF TRUE THEN 0 ELSE blankAge
    BY <1>1, <2>1
  <2> QED BY <2>1, <2>2, <2>3, <2>4, EngineMoved
<1> QED BY <1>3, <1>4, <1>5

LEMMA PanelsAlways == PanelsSpec => []PanelsInv
<1>1. HandlersInit /\ PanelsInit => PanelsInv
  <2> SUFFICES ASSUME HandlersInit, PanelsInit PROVE PanelsInv
    OBVIOUS
  <2>1. jobs = [t \in Threads |-> Free] /\ \A t \in Threads : jobs[t].pc = "idle"
    BY DEF HandlersInit, Free
  <2>2. 1 \in Quotas /\ PanelLife \in Nat /\ 0 \in 0 .. PanelLife + 1 /\ PanelLife + 1 \in 0 .. PanelLife + 1
    BY PanelsAssumption DEF Quotas
  <2>3. PanelTypes
    <3>1. quotaAge \in [Quotas -> 0 .. PanelLife + 1]
      BY <2>2 DEF PanelsInit, Quotas
    <3>2. quotaCache \in [age : 0 .. PanelLife + 1, value : Quotas \cup {None}]
      BY <2>2 DEF PanelsInit
    <3> QED BY <2>1, <2>2, <3>1, <3>2 DEF PanelTypes, PanelsInit
  <2>4. quotaAge[quota] = 0 /\ populated = PanelProjects /\ ~(quotaCache.age <= PanelLife)
    BY <2>2 DEF PanelsInit, Quotas
  <2>5. \A t \in Threads : PageKnows(jobs[t])
    BY <2>1 DEF PageKnows, LookPlaces
  <2> QED BY <2>3, <2>4, <2>5 DEF PanelsInv, QuotaInv
<1>2. PanelsInv /\ [PanelsNext]_<<handlerVars, panelVars>> => PanelsInv'
  <2> SUFFICES ASSUME PanelsInv, [PanelsNext]_<<handlerVars, panelVars>> PROVE PanelsInv'
    OBVIOUS
  <2>1. CASE UNCHANGED <<handlerVars, panelVars>>
    BY <2>1 DEF handlerVars, panelVars, PanelsInv, PanelTypes, QuotaInv, PageKnows, Lately
  <2>2. CASE PanelTick \/ ChangeQuota \/ \E p \in PanelProjects : Populate(p) \/ Depopulate(p)
    BY <2>2, PanelTickStep, EngineSteps
  <2>3. CASE \E t \in Threads : Remember(t)
    BY <2>3, RememberStep
  <2>4. CASE \E t \in Threads :
               \/ \E p \in PanelProjects : OpenPanel(t, p)
               \/ QueryDevices(t) \/ LookForQuota(t) \/ ListOwn(t) \/ FetchQuota(t)
               \/ ReadQuota(t) \/ ShowPanel(t) \/ PanelFails(t)
    BY <2>4, PageSteps
  <2> QED BY <2>1, <2>2, <2>3, <2>4 DEF PanelsNext
<1> QED BY <1>1, <1>2, PTL DEF PanelsSpec

(***************************************************************************)
(* However many projects' pages interleave on the one entry, and however   *)
(* long it is kept, a page whose own calls did not fail shows a quota the  *)
(* profile had while the page was made or within the life of the entry     *)
(* before it, or none because some project was without devices in that     *)
(* time (dashboard_data).                                                  *)
(***************************************************************************)
THEOREM QuotaIsRecent == PanelsSpec => []QuotaExplained
<1>1. PanelsInv => QuotaExplained
  BY DEF PanelsInv, QuotaInv, PageKnows, Noted, QuotaExplained, At
<1> QED BY <1>1, PanelsAlways, PTL

-----------------------------------------------------------------------------
(* Numbers.                                                                *)

\* of any numbers there is a least one
LEMMA LeastNumber ==
  ASSUME NEW S \in SUBSET Nat, S # {}
  PROVE  \E n \in S : \A l \in S : n <= l
  <1> DEFINE R == OpToRel(<, Nat)
  <1>1. IsWellFoundedOn(R, Nat) BY NatLessThanWellFounded
  <1>2. \A x, y \in Nat : x < y => <<x, y>> \in R BY DEF OpToRel
  <1> HIDE DEF R
  <1>3. PICK n \in S : \A y \in S : <<y, n>> \notin R
    BY <1>1, WFMin
  <1>4. ASSUME NEW l \in S, ~(n <= l) PROVE FALSE
    <2>1. l < n /\ l \in Nat /\ n \in Nat BY <1>4
    <2>2. <<l, n>> \in R BY <1>2, <2>1
    <2> QED BY <1>3, <2>2
  <1> QED BY <1>4

-----------------------------------------------------------------------------
(* The composition of a page (module Snapshots).                           *)

LEMMA FirstOneIsLeast ==
  ASSUME NEW S \in SUBSET Nat, S # {}
  PROVE  FirstOne(S) \in S /\ \A y \in S : FirstOne(S) <= y
  <1>1. \E x \in S : \A y \in S : x <= y BY LeastNumber
  <1> QED BY <1>1 DEF FirstOne

\* Finite sets in a strict order R, a set of pairs.
Ordered(R, S) ==
  /\ IsFiniteSet(S)
  /\ \A x \in S : <<x, x>> \notin R
  /\ \A x, y \in S : x # y => <<x, y>> \in R \/ <<y, x>> \in R
  /\ \A x, y, z \in S : <<x, y>> \in R /\ <<y, z>> \in R => <<x, z>> \in R

Before(R, S, x) == {y \in S : <<y, x>> \in R}
Firsts(R, S, n) == {x \in S : Cardinality(Before(R, S, x)) < n}

\* The first n of S are n, and before all the others, if S has more.
Fill(R, S, n) ==
  /\ Cardinality(Firsts(R, S, n)) <= n
  /\ \A x \in S \ Firsts(R, S, n) :
       /\ Cardinality(Firsts(R, S, n)) = n
       /\ \A y \in Firsts(R, S, n) : <<y, x>> \in R

LEMMA BeforeFinite ==
  ASSUME NEW R, NEW S, Ordered(R, S)
  PROVE  /\ \A T \in SUBSET S : IsFiniteSet(T) /\ Cardinality(T) \in Nat
         /\ \A x : Before(R, S, x) \in SUBSET S
         /\ \A n : Firsts(R, S, n) \in SUBSET S
         /\ \A x \in S : x \notin Before(R, S, x)
         /\ \A x, y \in S : <<x, y>> \in R =>
              Cardinality(Before(R, S, x)) < Cardinality(Before(R, S, y))
  <1>1. \A T \in SUBSET S : IsFiniteSet(T) /\ Cardinality(T) \in Nat
    BY FS_Subset, FS_CardinalityType DEF Ordered
  <1>2. /\ \A x : Before(R, S, x) \in SUBSET S
        /\ \A n : Firsts(R, S, n) \in SUBSET S
        /\ \A x \in S : x \notin Before(R, S, x)
    BY DEF Before, Firsts, Ordered
  <1>3. ASSUME NEW x \in S, NEW y \in S, <<x, y>> \in R
        PROVE  Cardinality(Before(R, S, x)) < Cardinality(Before(R, S, y))
    <2>1. Before(R, S, x) \cup {x} \in SUBSET Before(R, S, y)
      BY <1>3 DEF Before, Ordered
    <2>2. /\ IsFiniteSet(Before(R, S, x)) /\ Cardinality(Before(R, S, x)) \in Nat
          /\ IsFiniteSet(Before(R, S, y)) /\ Cardinality(Before(R, S, y)) \in Nat
      BY <1>1, <1>2
    <2>3. Cardinality(Before(R, S, x) \cup {x}) = Cardinality(Before(R, S, x)) + 1
      BY <1>2, <2>2, FS_AddElement
    <2>4. Cardinality(Before(R, S, x) \cup {x}) <= Cardinality(Before(R, S, y))
      BY <2>1, <2>2, FS_Subset
    <2> QED BY <2>2, <2>3, <2>4
  <1> QED BY <1>1, <1>2, <1>3

\* of any set there is a first one
LEMMA FirstInOrder ==
  ASSUME NEW R, NEW S, Ordered(R, S), NEW T \in SUBSET S, T # {}
  PROVE  \E m \in T : \A l \in T \ {m} : <<m, l>> \in R
  <1> DEFINE ranks == {Cardinality(Before(R, S, x)) : x \in T}
  <1>1. ranks \in SUBSET Nat /\ ranks # {}
    <2>1. \A x \in T : Cardinality(Before(R, S, x)) \in Nat BY BeforeFinite
    <2> QED BY <2>1
  <1>2. PICK n \in ranks : \A l \in ranks : n <= l
    <2> HIDE DEF ranks
    <2> QED BY <1>1, LeastNumber
  <1>3. PICK m \in T : n = Cardinality(Before(R, S, m)) BY <1>2
  <1>4. ASSUME NEW l \in T \ {m} PROVE <<m, l>> \in R
    <2>1. SUFFICES ASSUME <<l, m>> \in R PROVE FALSE BY DEF Ordered
    <2>2. Cardinality(Before(R, S, l)) < n BY <1>3, <2>1, BeforeFinite
    <2>3. n <= Cardinality(Before(R, S, l)) BY <1>2
    <2>4. Cardinality(Before(R, S, l)) \in Nat /\ n \in Nat BY <1>1, <1>2, BeforeFinite
    <2> QED BY <2>2, <2>3, <2>4
  <1> QED BY <1>4

LEMMA FirstsFill ==
  ASSUME NEW R, NEW S, Ordered(R, S), NEW n \in Nat
  PROVE  Fill(R, S, n)
  <1> DEFINE Bad == {k \in Nat : ~Fill(R, S, k)}
  <1>a. \A T \in SUBSET S : IsFiniteSet(T) /\ Cardinality(T) \in Nat BY BeforeFinite
  <1>b. \A x : Before(R, S, x) \in SUBSET S BY BeforeFinite
  <1>1. ASSUME NEW k \in Bad, \A l \in Bad : k <= l PROVE FALSE
    <2>1. CASE k = 0
      <3>1. ASSUME NEW x \in Firsts(R, S, 0) PROVE FALSE
        <4>1. x \in S /\ Cardinality(Before(R, S, x)) < 0 BY DEF Firsts
        <4>2. Cardinality(Before(R, S, x)) \in Nat BY <1>a, <1>b
        <4> QED BY <4>1, <4>2
      <3>2. Firsts(R, S, 0) = {} BY <3>1
      <3>3. Fill(R, S, 0) BY <3>2, FS_EmptySet DEF Fill
      <3> QED BY <1>1, <2>1, <3>3
    <2>2. CASE k # 0
      <3>1. PICK i \in Nat : k = i + 1
        <4>1. k \in Nat /\ k - 1 \in Nat /\ k = (k - 1) + 1 BY <1>1, <2>2
        <4> QED BY <4>1
      <3>2. Fill(R, S, i)
        <4>1. ~(k <= i) BY <3>1
        <4> QED BY <1>1, <4>1
      <3> DEFINE F == Firsts(R, S, i)
                 G == Firsts(R, S, i + 1)
                 rest == S \ F
      <3>3. F \in SUBSET S /\ G \in SUBSET S /\ IsFiniteSet(F) /\ Cardinality(F) \in Nat
        BY <1>a DEF Firsts
      <3>4. CASE rest = {}
        <4>1. \A x \in S : x \in G
          <5> TAKE x \in S
          <5>1. x \in F BY <3>4
          <5>2. Cardinality(Before(R, S, x)) < i BY <5>1 DEF Firsts
          <5>3. Cardinality(Before(R, S, x)) \in Nat BY <1>a, <1>b
          <5>4. Cardinality(Before(R, S, x)) < i + 1 BY <5>2, <5>3
          <5> QED BY <5>4 DEF Firsts
        <4>2. S \ G = {} /\ G = F BY <3>3, <3>4, <4>1
        <4>3. Cardinality(F) <= i BY <3>2 DEF Fill
        <4>4. Cardinality(G) <= i + 1 BY <3>3, <4>2, <4>3
        <4>5. Fill(R, S, i + 1) BY <4>2, <4>4 DEF Fill
        <4> QED BY <1>1, <3>1, <4>5
      <3>5. CASE rest # {}
        <4>1. PICK m \in rest : \A l \in rest \ {m} : <<m, l>> \in R
          <5>1. rest \in SUBSET S OBVIOUS
          <5> HIDE DEF rest
          <5> QED BY <3>5, <5>1, FirstInOrder
        <4>2. m \in S /\ m \notin F BY <4>1
        <4>3. Cardinality(F) = i /\ \A y \in F : <<y, m>> \in R
          BY <3>2, <4>2 DEF Fill
        <4>4. Before(R, S, m) = F
          <5>1. ASSUME NEW y \in S, <<y, m>> \in R PROVE y \in F
            <6>1. SUFFICES ASSUME y \notin F PROVE FALSE OBVIOUS
            <6>2. y # m BY <4>2, <5>1 DEF Ordered
            <6>3. <<m, y>> \in R BY <4>1, <6>1, <6>2
            <6>4. <<m, m>> \in R BY <4>2, <5>1, <6>3 DEF Ordered
            <6> QED BY <4>2, <6>4 DEF Ordered
          <5> QED BY <3>3, <4>3, <5>1 DEF Before
        <4>5. m \in G
          <5>1. Cardinality(Before(R, S, m)) < i + 1 BY <3>1, <4>3, <4>4
          <5> QED BY <4>2, <5>1 DEF Firsts
        <4>6. ASSUME NEW x \in F PROVE x \in G
          <5>1. Cardinality(Before(R, S, x)) < i /\ Cardinality(Before(R, S, x)) \in Nat
            BY <1>a, <1>b DEF Firsts
          <5>2. Cardinality(Before(R, S, x)) < i + 1 BY <5>1
          <5> QED BY <3>3, <5>2 DEF Firsts
        <4>7. ASSUME NEW x \in rest, x # m PROVE x \notin G
          <5>1. <<m, x>> \in R /\ x \in S BY <4>1, <4>7
          <5>2. i < Cardinality(Before(R, S, x)) BY <4>2, <4>3, <4>4, <5>1, BeforeFinite
          <5>3. Cardinality(Before(R, S, x)) \in Nat BY <1>a, <1>b
          <5>4. ~(Cardinality(Before(R, S, x)) < i + 1) BY <5>2, <5>3
          <5> QED BY <5>4 DEF Firsts
        <4>8. G = F \cup {m} BY <3>3, <4>5, <4>6, <4>7
        <4>9. Cardinality(G) = i + 1
          <5> HIDE DEF F, G
          <5> QED BY <3>3, <4>2, <4>3, <4>8, FS_AddElement
        <4>10. ASSUME NEW x \in S \ G, NEW y \in G PROVE <<y, x>> \in R
          <5>1. x \in rest /\ x # m BY <4>8
          <5>2. <<m, x>> \in R BY <4>1, <5>1
          <5>3. y = m \/ <<y, m>> \in R BY <4>3, <4>8
          <5>4. y \in S /\ m \in S BY <3>3, <4>2
          <5> QED BY <5>2, <5>3, <5>4 DEF Ordered
        <4>11. Fill(R, S, i + 1)
          <5>1. Cardinality(G) <= i + 1 BY <4>9
          <5> QED BY <4>9, <4>10, <5>1 DEF Fill
        <4> QED BY <1>1, <3>1, <4>11
      <3> QED BY <3>4, <3>5
    <2> QED BY <2>1, <2>2
  <1>2. Bad = {}
    <2>1. Bad \in SUBSET Nat OBVIOUS
    <2> HIDE DEF Bad
    <2> QED BY <1>1, <2>1, LeastNumber
  <1> QED BY <1>2

\* everyone has a place, and nobody else's
LEMMA PlacesInOrder ==
  ASSUME NEW R, NEW S, Ordered(R, S)
  PROVE  /\ \A i \in 1 .. Cardinality(S) :
              \E x \in S : Cardinality(Before(R, S, x)) = i - 1
         /\ \A x, y \in S :
              Cardinality(Before(R, S, x)) = Cardinality(Before(R, S, y)) => x = y
         /\ \A x \in S : Cardinality(Before(R, S, x)) + 1 \in 1 .. Cardinality(S)
  <1>0. IsFiniteSet(S) /\ Cardinality(S) \in Nat BY BeforeFinite
  <1>1. ASSUME NEW i \in 1 .. Cardinality(S)
        PROVE  \E x \in S : Cardinality(Before(R, S, x)) = i - 1
    <2>1. PICK n \in Nat : n = i - 1 /\ n < Cardinality(S) BY <1>0
    <2>2. Fill(R, S, n) BY FirstsFill
    <2> DEFINE F == Firsts(R, S, n)
               rest == S \ F
    <2>3. F \in SUBSET S /\ Cardinality(F) <= n /\ IsFiniteSet(F)
      BY <2>2, BeforeFinite DEF Fill
    <2>4. S \ F # {}
      <3>1. SUFFICES ASSUME S = F PROVE FALSE BY <2>3
      <3> QED BY <1>0, <2>1, <2>3, <3>1
    <2>5. PICK m \in rest : \A l \in rest \ {m} : <<m, l>> \in R
      <3>1. rest \in SUBSET S /\ rest # {} BY <2>4
      <3> HIDE DEF rest
      <3> QED BY <3>1, FirstInOrder
    <2>6. Cardinality(F) = n /\ \A y \in F : <<y, m>> \in R BY <2>2, <2>5 DEF Fill
    <2>7. Before(R, S, m) = F
      <3>1. ASSUME NEW y \in S, <<y, m>> \in R PROVE y \in F
        <4>1. SUFFICES ASSUME y \notin F PROVE FALSE OBVIOUS
        <4>2. y # m BY <3>1 DEF Ordered
        <4>3. <<m, y>> \in R BY <2>5, <4>1, <4>2
        <4>4. <<m, m>> \in R BY <2>5, <3>1, <4>3 DEF Ordered
        <4> QED BY <2>5, <4>4 DEF Ordered
      <3> QED BY <2>3, <2>6, <3>1 DEF Before
    <2> QED BY <2>1, <2>5, <2>6, <2>7
  <1>2. ASSUME NEW x \in S, NEW y \in S,
               Cardinality(Before(R, S, x)) = Cardinality(Before(R, S, y))
        PROVE  x = y
    <2>1. SUFFICES ASSUME x # y PROVE FALSE OBVIOUS
    <2>2. <<x, y>> \in R \/ <<y, x>> \in R BY <2>1 DEF Ordered
    <2>3. /\ <<x, y>> \in R => Cardinality(Before(R, S, x)) < Cardinality(Before(R, S, y))
          /\ <<y, x>> \in R => Cardinality(Before(R, S, y)) < Cardinality(Before(R, S, x))
          /\ Cardinality(Before(R, S, x)) \in Nat /\ Cardinality(Before(R, S, y)) \in Nat
      BY BeforeFinite
    <2> QED BY <1>2, <2>2, <2>3
  <1>3. ASSUME NEW x \in S PROVE Cardinality(Before(R, S, x)) + 1 \in 1 .. Cardinality(S)
    <2>1. Before(R, S, x) \in SUBSET (S \ {x}) BY BeforeFinite
    <2>2. IsFiniteSet(S \ {x}) /\ Cardinality(S \ {x}) = Cardinality(S) - 1
      BY <1>0, FS_RemoveElement
    <2>3. Cardinality(Before(R, S, x)) <= Cardinality(S) - 1 /\ Cardinality(Before(R, S, x)) \in Nat
      BY <2>1, <2>2, FS_Subset, FS_CardinalityType
    <2> QED BY <1>0, <2>3
  <1> QED BY <1>1, <1>2, <1>3

Smaller == {p \in Nat \X Nat : p[1] < p[2]}

LEMMA SmallerOrders ==
  ASSUME NEW S \in SUBSET Nat, IsFiniteSet(S)
  PROVE  /\ Ordered(Smaller, S)
         /\ \A x \in S : Before(Smaller, S, x) = {y \in S : y < x}
  <1>1. \A x, y \in Nat : <<x, y>> \in Smaller <=> x < y BY DEF Smaller
  <1>2. \A x \in S : x \in Nat OBVIOUS
  <1> HIDE DEF Smaller
  <1>3. Ordered(Smaller, S)
    <2>1. \A x \in S : <<x, x>> \notin Smaller BY <1>1, <1>2
    <2>2. \A x, y \in S : x # y => <<x, y>> \in Smaller \/ <<y, x>> \in Smaller BY <1>1, <1>2
    <2>3. \A x, y, z \in S : <<x, y>> \in Smaller /\ <<y, z>> \in Smaller => <<x, z>> \in Smaller
      BY <1>1, <1>2
    <2> QED BY <2>1, <2>2, <2>3 DEF Ordered
  <1>4. \A x \in S : Before(Smaller, S, x) = {y \in S : y < x} BY <1>1, <1>2 DEF Before
  <1> QED BY <1>3, <1>4

\* so whoever is not among the first n has n of them before him
LEMMA LeftOut ==
  ASSUME NEW S \in SUBSET Nat, IsFiniteSet(S), NEW n \in Nat, NEW x \in S,
         x \notin FirstOnes(n, S)
  PROVE  /\ Cardinality(FirstOnes(n, S)) = n
         /\ Cardinality({y \in FirstOnes(n, S) : y < x}) = n
  <1>1. Ordered(Smaller, S) /\ \A y \in S : Before(Smaller, S, y) = {z \in S : z < y}
    BY SmallerOrders
  <1>2. FirstOnes(n, S) = Firsts(Smaller, S, n) BY <1>1 DEF FirstOnes, Firsts
  <1>3. Fill(Smaller, S, n) BY <1>1, FirstsFill
  <1>4. /\ Cardinality(FirstOnes(n, S)) = n
        /\ \A y \in FirstOnes(n, S) : <<y, x>> \in Smaller
    BY <1>2, <1>3 DEF Fill
  <1>5. \A y \in FirstOnes(n, S) : y < x BY <1>4 DEF Smaller
  <1>6. {y \in FirstOnes(n, S) : y < x} = FirstOnes(n, S) BY <1>5
  <1> QED BY <1>4, <1>6

SnapPlaces == {"devices", "keys", "series", "activity", "alarms", "alarm_history", "max_devices", "shown"}
PageJobs ==
  [pc : SnapPlaces, device : SnapDevices \cup {None}, key : SnapKeys \cup {None},
   activity : BOOLEAN, available : SUBSET SnapDevices, selected : SnapDevices \cup {None},
   numeric : SUBSET SnapKeys, selkey : SnapKeys \cup {None},
   series : {None} \cup (SnapDevices \X SnapKeys), todo : SUBSET SnapDevices,
   rows : SUBSET (SnapDevices \X BOOLEAN), rate : SnapDevices \cup {None},
   degraded : SUBSET {"devices", "keys", "series", "alarms", "alarm_history"},
   loaded : SUBSET {"alarms", "alarm_history", "max_devices"},
   steady : [SnapDevices -> {None} \cup SUBSET SnapKeys], zeroed : SUBSET SnapDevices]

\* what was there all along is still there
Lasting(j) ==
  \A d \in Existing(j.steady) : inventory[d] # None /\ j.steady[d] \subseteq inventory[d]

\* A page before its keys, and one without a series.
NothingYet(j) == j.numeric = {} /\ j.selkey = None /\ j.series = None

\* the list of devices, and the selected one
Listed(j) ==
  /\ j.selected \in j.available \cup {None}
  /\ "devices" \notin j.degraded =>
       /\ \A d \in Existing(j.steady) \ j.available :
            /\ Cardinality(j.available) = SnapPage
            /\ Cardinality({x \in j.available : x < d}) = SnapPage
       /\ j.device \in j.available => j.selected = j.device

\* the list of keys, and the selected one
Keyed(j) ==
  /\ j.selkey \in j.numeric \cup {None}
  /\ j.numeric # {} => j.selkey # None
  /\ (j.selected \in Existing(j.steady) /\ "keys" \notin j.degraded) =>
       /\ j.steady[j.selected] \subseteq j.numeric
       /\ j.key \in j.steady[j.selected] => j.selkey = j.key

Drawn(j) ==
  /\ j.series \in {None, <<j.selected, j.selkey>>}
  /\ j.numeric # {} => j.series # None \/ "series" \in j.degraded

\* the activity of the devices that have been asked about
Active(j) ==
  j.activity =>
    \A d \in (Existing(j.steady) \cap FirstOnes(ActivityMax, j.available)) \ (j.todo \cup j.zeroed) :
      /\ <<d, TRUE>> \in j.rows \/ (<<d, FALSE>> \in j.rows /\ j.steady[d] \cap Counted = {})
      /\ d = j.selected => j.rate = d

PageOk(j) ==
  /\ j.pc = "devices" => j.available = {} /\ j.selected = None
  /\ j.pc \in {"devices", "keys"} => NothingYet(j)
  /\ j.pc # "devices" => Listed(j)
  /\ j.pc \notin {"devices", "keys"} => Keyed(j)
  /\ j.pc \in {"keys", "series"} => j.selected # None
  /\ j.pc = "series" => j.selkey # None /\ j.series = None
  /\ j.pc \in {"activity", "alarms", "alarm_history", "max_devices", "shown"} => Drawn(j) /\ Active(j)
  /\ j.pc \in {"alarm_history", "max_devices", "shown"} => "alarms" \in j.loaded \cup j.degraded
  /\ j.pc \in {"max_devices", "shown"} => "alarm_history" \in j.loaded \cup j.degraded
  /\ j.todo # {} <=> j.pc = "activity"

Fits(j) == j \in PageJobs /\ PageOk(j) /\ Lasting(j)

SnapshotsInv ==
  /\ inventory \in [SnapDevices -> {None} \cup SUBSET SnapKeys]
  /\ jobs = [t \in Threads |-> jobs[t]]
  /\ \A t \in Threads : jobs[t] = Free \/ Fits(jobs[t])

LEMMA SnapShape ==
  ASSUME SnapshotsInv, NEW t \in Threads, jobs[t].pc # "idle"
  PROVE  Fits(jobs[t]) /\ jobs[t] \in PageJobs
  BY DEF SnapshotsInv, Free, Fits

\* a handler's step leaves the engine and the other pages
LEMMA OutcomesStep ==
  ASSUME SnapshotsInv, NEW t \in Threads, NEW a, NEW f, NEW g, Outcomes(t, a, f, g),
         a => Fits(f), Fits(g)
  PROVE  SnapshotsInv'
  <1>1. PICK j : Become(t, j) /\ Fits(j) BY DEF Outcomes
  <1>2. inventory' = inventory BY DEF Outcomes, snapshotVars
  <1>3. /\ jobs' = [u \in Threads |-> jobs'[u]] /\ jobs'[t] = j
        /\ \A u \in Threads \ {t} : jobs'[u] = jobs[u]
    BY <1>1 DEF Become, SnapshotsInv
  <1>4. \A k : Fits(k)' <=> Fits(k) BY <1>2 DEF Fits, Lasting
  <1>5. ASSUME NEW u \in Threads PROVE jobs'[u] = Free \/ Fits(jobs'[u])
    BY <1>1, <1>3 DEF SnapshotsInv
  <1>6. ASSUME NEW u \in Threads PROVE (jobs[u] = Free \/ Fits(jobs[u]))'
    <2>1. PICK k : k = jobs'[u] OBVIOUS
    <2>2. k = Free \/ Fits(k)' BY <1>4, <1>5, <2>1
    <2> QED BY <2>1, <2>2 DEF Fits, Lasting
  <1> QED BY <1>2, <1>3, <1>6 DEF SnapshotsInv

LEMMA Degrades ==
  ASSUME NEW j \in PageJobs,
         NEW section \in {"devices", "keys", "series", "alarms", "alarm_history"}
  PROVE  /\ Down(j, section) \in PageJobs
         /\ Down(j, section) = [j EXCEPT !.degraded = j.degraded \cup {section}]
         /\ section \in Down(j, section).degraded
  BY DEF Down, PageJobs

\* the next call after the series, whichever way it went
LEMMA AfterSeriesFits ==
  ASSUME NEW j \in PageJobs, Listed(j), Keyed(j), Drawn(j), Lasting(j)
  PROVE  Fits(AfterSeries(j))
  <1> DEFINE first == FirstOnes(ActivityMax, j.available)
  <1>1. PICK todo \in SUBSET SnapDevices : todo = IF j.activity THEN first ELSE {}
    BY DEF FirstOnes, PageJobs
  <1>2. PICK pc \in {"alarms", "activity"} : pc = IF todo = {} THEN "alarms" ELSE "activity"
    OBVIOUS
  <1> DEFINE k == [j EXCEPT !.todo = todo, !.pc = pc]
  <1>3. AfterSeries(j) = k BY <1>1, <1>2 DEF AfterSeries
  <1>4. k \in PageJobs BY DEF PageJobs, SnapPlaces
  <1>5. /\ k.pc = pc /\ k.todo = todo /\ k.device = j.device /\ k.key = j.key
        /\ k.activity = j.activity /\ k.available = j.available /\ k.selected = j.selected
        /\ k.numeric = j.numeric /\ k.selkey = j.selkey /\ k.series = j.series
        /\ k.rows = j.rows /\ k.rate = j.rate /\ k.degraded = j.degraded
        /\ k.steady = j.steady /\ k.zeroed = j.zeroed /\ k.loaded = j.loaded
    BY DEF PageJobs
  <1> HIDE DEF k
  <1>6. Listed(k) BY <1>5 DEF Listed
  <1>7. Keyed(k) BY <1>5 DEF Keyed
  <1>8. Drawn(k) BY <1>5 DEF Drawn
  <1>9. Lasting(k) BY <1>5 DEF Lasting
  <1>10. Active(k) BY <1>1, <1>5 DEF Active
  <1>11. k.todo # {} <=> k.pc = "activity" BY <1>2, <1>5
  <1>12. PageOk(k)
    BY <1>2, <1>5, <1>6, <1>7, <1>8, <1>10, <1>11 DEF PageOk
  <1> QED BY <1>3, <1>4, <1>9, <1>12 DEF Fits

LEMMA ListDevicesStep ==
  ASSUME SnapshotsInv, NEW t \in Threads, ListDevices(t) PROVE SnapshotsInv'
  <1> DEFINE j == jobs[t]
             available == FirstOnes(SnapPage, Existing(inventory))
             selected == Selected(j.device, available)
             found == [j EXCEPT !.available = available, !.selected = selected,
                                !.pc = IF selected = None THEN "alarms" ELSE "keys"]
             failed == Down([j EXCEPT !.pc = "alarms"], "devices")
  <1>1. Outcomes(t, TRUE, found, failed) /\ j.pc = "devices" BY DEF ListDevices, At
  <1>2. j \in PageJobs /\ PageOk(j) /\ Lasting(j) BY <1>1, SnapShape DEF Fits
  <1>3. /\ j.available = {} /\ j.selected = None /\ NothingYet(j) /\ j.todo = {}
    BY <1>1, <1>2 DEF PageOk
  <1>4. /\ available \in SUBSET Existing(inventory) /\ Existing(inventory) \in SUBSET SnapDevices
        /\ Existing(inventory) \in SUBSET Nat /\ IsFiniteSet(Existing(inventory))
        /\ None \notin SnapDevices /\ available \in SUBSET Nat
    BY SnapshotsAssumption, FS_Subset DEF FirstOnes, Existing
  <1>5. /\ selected \in available \cup {None} /\ (j.device \in available => selected = j.device)
        /\ available # {} => selected # None
    <2>1. CASE j.device \in available BY <1>4, <2>1 DEF Selected
    <2>2. CASE j.device \notin available
      <3>1. selected = FirstOne(available) BY <2>2 DEF Selected
      <3>2. CASE available = {} BY <2>2, <3>1, <3>2 DEF FirstOne
      <3>3. CASE available # {}
        <4> HIDE DEF available, selected
        <4> QED BY <1>4, <2>2, <3>1, <3>3, FirstOneIsLeast
      <3> QED BY <3>2, <3>3
    <2> QED BY <2>1, <2>2
  <1>6. \A d \in Existing(inventory) \ available :
          /\ Cardinality(available) = SnapPage
          /\ Cardinality({x \in available : x < d}) = SnapPage
    <2> DEFINE S == Existing(inventory)
    <2>1. S \in SUBSET Nat /\ IsFiniteSet(S) /\ SnapPage \in Nat BY <1>4, SnapshotsAssumption
    <2>2. available = FirstOnes(SnapPage, S) OBVIOUS
    <2> HIDE DEF S, available
    <2> QED BY <2>1, <2>2, LeftOut DEF S
  <1> HIDE DEF available, selected, j
  <1>7. Existing(j.steady) \in SUBSET Existing(inventory)
    BY <1>2 DEF Lasting, Existing
  <1>8. Fits(found)
    <2>1. PICK pc \in {"alarms", "keys"} : pc = IF selected = None THEN "alarms" ELSE "keys"
      OBVIOUS
    <2> DEFINE k == [j EXCEPT !.available = available, !.selected = selected, !.pc = pc]
    <2>2. found = k BY <2>1
    <2> HIDE DEF found
    <2>3. /\ k.pc = pc /\ k.todo = j.todo /\ k.device = j.device /\ k.key = j.key
          /\ k.activity = j.activity /\ k.available = available /\ k.selected = selected
          /\ k.numeric = j.numeric /\ k.selkey = j.selkey /\ k.series = j.series
          /\ k.rows = j.rows /\ k.rate = j.rate /\ k.degraded = j.degraded
          /\ k.steady = j.steady /\ k.zeroed = j.zeroed /\ k.loaded = j.loaded
      BY <1>2 DEF PageJobs
    <2>4. k \in PageJobs
      <3>1. selected \in SnapDevices \cup {None} /\ available \in SUBSET SnapDevices BY <1>4, <1>5
      <3> QED BY <1>2, <3>1 DEF PageJobs, SnapPlaces
    <2> HIDE DEF k
    <2>5. Lasting(k) BY <1>2, <2>3 DEF Lasting
    <2>6. Listed(k) BY <1>5, <1>6, <1>7, <2>3 DEF Listed
    <2>7. CASE selected = None
      <3>1. k.numeric = {} /\ k.selkey = None /\ k.series = None /\ k.available = {} /\ pc = "alarms"
        BY <1>3, <1>5, <2>1, <2>3, <2>7 DEF NothingYet
      <3>2. None \notin Existing(k.steady) BY <1>4 DEF Existing
      <3>3. Keyed(k) BY <2>3, <2>7, <3>1, <3>2 DEF Keyed
      <3>4. Drawn(k) BY <3>1 DEF Drawn
      <3>5. Active(k) BY <3>1 DEF Active, FirstOnes
      <3>6. PageOk(k) BY <1>3, <2>3, <2>6, <3>1, <3>3, <3>4, <3>5 DEF PageOk
      <3> QED BY <2>2, <2>4, <2>5, <3>6 DEF Fits
    <2>8. CASE selected # None
      <3>1. pc = "keys" /\ NothingYet(k) BY <1>3, <2>1, <2>3, <2>8 DEF NothingYet
      <3>2. PageOk(k) BY <1>3, <2>3, <2>6, <2>8, <3>1 DEF PageOk
      <3> QED BY <2>2, <2>4, <2>5, <3>2 DEF Fits
    <2> QED BY <2>7, <2>8
  <1>9. Fits(failed)
    <2> DEFINE i == [j EXCEPT !.pc = "alarms"]
               k == [j EXCEPT !.pc = "alarms", !.degraded = j.degraded \cup {"devices"}]
    <2>1. failed = k /\ k \in PageJobs
      <3>1. i \in PageJobs /\ i.degraded = j.degraded BY <1>2 DEF PageJobs, SnapPlaces
      <3>2. /\ failed = [i EXCEPT !.degraded = i.degraded \cup {"devices"}]
            /\ failed \in PageJobs
        <4>1. failed = Down(i, "devices") OBVIOUS
        <4> HIDE DEF i, failed
        <4> QED BY <3>1, <4>1, Degrades
      <3>3. [i EXCEPT !.degraded = j.degraded \cup {"devices"}] = k BY <1>2 DEF PageJobs
      <3> HIDE DEF i, failed, k
      <3> QED BY <3>1, <3>2, <3>3
    <2> HIDE DEF failed
    <2>2. /\ k.pc = "alarms" /\ k.todo = j.todo /\ k.device = j.device /\ k.key = j.key
          /\ k.activity = j.activity /\ k.available = j.available /\ k.selected = j.selected
          /\ k.numeric = j.numeric /\ k.selkey = j.selkey /\ k.series = j.series
          /\ k.rows = j.rows /\ k.rate = j.rate /\ "devices" \in k.degraded
          /\ k.steady = j.steady /\ k.zeroed = j.zeroed /\ k.loaded = j.loaded
      BY <1>2 DEF PageJobs
    <2> HIDE DEF k
    <2>3. Lasting(k) BY <1>2, <2>2 DEF Lasting
    <2>4. None \notin Existing(k.steady) BY <1>4 DEF Existing
    <2>5. Listed(k) BY <1>3, <2>2 DEF Listed
    <2>6. Keyed(k) BY <1>3, <2>2, <2>4 DEF Keyed, NothingYet
    <2>7. Drawn(k) BY <1>3, <2>2 DEF Drawn, NothingYet
    <2>8. Active(k) BY <1>3, <2>2 DEF Active, FirstOnes
    <2>9. PageOk(k) BY <1>3, <2>2, <2>5, <2>6, <2>7, <2>8 DEF PageOk
    <2> QED BY <2>1, <2>3, <2>9 DEF Fits
  <1> HIDE DEF found, failed
  <1> QED BY <1>1, <1>8, <1>9, OutcomesStep

\* a section that is down takes nothing from the others
LEMMA DownKeeps ==
  ASSUME NEW j \in PageJobs, NEW section \in {"keys", "series", "alarms", "alarm_history"},
         NEW k, k = Down(j, section)
  PROVE  /\ k \in PageJobs /\ k.degraded = j.degraded \cup {section}
         /\ k.pc = j.pc /\ k.todo = j.todo /\ k.device = j.device /\ k.key = j.key
         /\ k.activity = j.activity /\ k.available = j.available /\ k.selected = j.selected
         /\ k.numeric = j.numeric /\ k.selkey = j.selkey /\ k.series = j.series
         /\ k.rows = j.rows /\ k.rate = j.rate /\ k.steady = j.steady /\ k.zeroed = j.zeroed /\ k.loaded = j.loaded
         /\ Listed(j) => Listed(k)
         /\ Keyed(j) => Keyed(k)
         /\ Drawn(j) => Drawn(k)
         /\ Active(j) => Active(k)
         /\ Lasting(j) => Lasting(k)
  <1>1. /\ k \in PageJobs /\ k.degraded = j.degraded \cup {section}
        /\ k.pc = j.pc /\ k.todo = j.todo /\ k.device = j.device /\ k.key = j.key
        /\ k.activity = j.activity /\ k.available = j.available /\ k.selected = j.selected
        /\ k.numeric = j.numeric /\ k.selkey = j.selkey /\ k.series = j.series
        /\ k.rows = j.rows /\ k.rate = j.rate /\ k.steady = j.steady /\ k.zeroed = j.zeroed /\ k.loaded = j.loaded
    BY DEF Down, PageJobs
  <1>2. \A x \in j.degraded : x \in k.degraded BY <1>1
  <1>3. Listed(j) => Listed(k)
    <2>1. "devices" \in k.degraded <=> "devices" \in j.degraded BY <1>1
    <2> QED BY <1>1, <2>1 DEF Listed
  <1>4. Keyed(j) => Keyed(k) BY <1>1, <1>2 DEF Keyed
  <1>5. Drawn(j) => Drawn(k) BY <1>1, <1>2 DEF Drawn
  <1>6. Active(j) => Active(k) BY <1>1 DEF Active
  <1>7. Lasting(j) => Lasting(k) BY <1>1 DEF Lasting
  <1> QED BY <1>1, <1>3, <1>4, <1>5, <1>6, <1>7

LEMMA SelectedKeyIsListed ==
  ASSUME NEW numeric \in SUBSET SnapKeys, NEW key
  PROVE  /\ SelectedKey(key, numeric) \in numeric \cup {None} \/ key \in numeric
         /\ numeric # {} => SelectedKey(key, numeric) \in numeric
         /\ numeric = {} => SelectedKey(key, numeric) = None
         /\ key \in numeric => SelectedKey(key, numeric) = key
  <1>1. numeric \in SUBSET Nat /\ Preferred \cap numeric \in SUBSET Nat BY SnapshotsAssumption
  <1>2. CASE key \in numeric BY <1>2 DEF SelectedKey
  <1>3. CASE key \notin numeric /\ numeric = {} BY <1>3 DEF SelectedKey, FirstOne
  <1>4. CASE key \notin numeric /\ numeric # {}
    <2> DEFINE S == IF Preferred \cap numeric # {} THEN Preferred \cap numeric ELSE numeric
    <2>1. S \in SUBSET Nat /\ S # {} /\ S \subseteq numeric BY <1>1, <1>4
    <2>2. SelectedKey(key, numeric) = FirstOne(S) BY <1>4 DEF SelectedKey
    <2> HIDE DEF S
    <2>3. FirstOne(S) \in S BY <2>1, FirstOneIsLeast
    <2> QED BY <1>4, <2>1, <2>2, <2>3
  <1> QED BY <1>2, <1>3, <1>4

LEMMA ListKeysStep ==
  ASSUME SnapshotsInv, NEW t \in Threads, ListKeys(t) PROVE SnapshotsInv'
  <1> DEFINE j == jobs[t]
             numeric == inventory[j.selected]
             selkey == SelectedKey(j.key, numeric)
             found == [j EXCEPT !.numeric = numeric, !.selkey = selkey, !.pc = "series"]
             answer == IF selkey # None THEN found ELSE AfterSeries(j)
             failed == AfterSeries(Down(j, "keys"))
  <1>1. Outcomes(t, numeric # None, answer, failed) /\ j.pc = "keys" BY DEF ListKeys, At
  <1>2. j \in PageJobs /\ PageOk(j) /\ Lasting(j) BY <1>1, SnapShape DEF Fits
  <1>3. Listed(j) /\ NothingYet(j) /\ j.selected # None /\ j.todo = {}
    BY <1>1, <1>2 DEF PageOk
  <1>4. j.selected \in SnapDevices BY <1>2, <1>3 DEF PageJobs
  <1>5. numeric \in {None} \cup SUBSET SnapKeys BY <1>4 DEF SnapshotsInv
  <1>6. j.selected \in Existing(j.steady) => numeric # None /\ j.steady[j.selected] \subseteq numeric
    BY <1>2 DEF Lasting
  <1>7. None \notin SnapKeys BY SnapshotsAssumption
  <1> HIDE DEF j, numeric
  <1>8. ASSUME numeric # None PROVE Fits(answer)
    <2>0. numeric \in SUBSET SnapKeys BY <1>5, <1>8
    <2>1. CASE numeric # {}
      <3>1. selkey \in numeric /\ (j.key \in numeric => selkey = j.key)
        BY <2>0, <2>1, SelectedKeyIsListed
      <3>2. selkey \in SnapKeys /\ selkey # None BY <1>7, <2>0, <3>1
      <3> HIDE DEF selkey
      <3> DEFINE k == found
      <3>3. answer = k BY <3>2
      <3> HIDE DEF answer
      <3>4. k \in PageJobs BY <1>2, <2>0, <3>2 DEF PageJobs, SnapPlaces
      <3>5. /\ k.pc = "series" /\ k.todo = j.todo /\ k.device = j.device /\ k.key = j.key
            /\ k.activity = j.activity /\ k.available = j.available /\ k.selected = j.selected
            /\ k.numeric = numeric /\ k.selkey = selkey /\ k.series = j.series
            /\ k.rows = j.rows /\ k.rate = j.rate /\ k.degraded = j.degraded
            /\ k.steady = j.steady /\ k.zeroed = j.zeroed /\ k.loaded = j.loaded
        BY <1>2 DEF PageJobs
      <3> HIDE DEF k
      <3>6. Lasting(k) BY <1>2, <3>5 DEF Lasting
      <3>7. Listed(k) BY <1>3, <3>5 DEF Listed
      <3>8. Keyed(k) BY <1>6, <3>1, <3>2, <3>5 DEF Keyed
      <3>9. PageOk(k) BY <1>3, <3>2, <3>5, <3>7, <3>8 DEF PageOk, NothingYet
      <3> QED BY <3>3, <3>4, <3>6, <3>9 DEF Fits
    <2>2. CASE numeric = {}
      <3>1. answer = AfterSeries(j) BY <2>0, <2>2, SelectedKeyIsListed
      <3>2. Keyed(j) BY <1>3, <1>6, <2>2 DEF Keyed, NothingYet
      <3>3. Drawn(j) BY <1>3 DEF Drawn, NothingYet
      <3> QED BY <1>2, <1>3, <3>1, <3>2, <3>3, AfterSeriesFits
    <2> QED BY <2>1, <2>2
  <1>9. Fits(failed)
    <2>1. PICK k : k = Down(j, "keys") OBVIOUS
    <2>2. /\ k \in PageJobs /\ Listed(k) /\ Lasting(k) /\ "keys" \in k.degraded
          /\ k.numeric = {} /\ k.selkey = None /\ k.series = None
      BY <1>2, <1>3, <2>1, DownKeeps DEF NothingYet
    <2>3. Keyed(k) BY <2>2 DEF Keyed
    <2>4. Drawn(k) BY <2>2 DEF Drawn
    <2> QED BY <2>1, <2>2, <2>3, <2>4, AfterSeriesFits
  <1> HIDE DEF answer, failed
  <1> QED BY <1>1, <1>8, <1>9, OutcomesStep

LEMMA ReadSeriesStep ==
  ASSUME SnapshotsInv, NEW t \in Threads, ReadSeries(t) PROVE SnapshotsInv'
  <1> DEFINE j == jobs[t]
             drawn == [j EXCEPT !.series = <<j.selected, j.selkey>>]
             found == AfterSeries(drawn)
             failed == AfterSeries(Down(j, "series"))
  <1>1. Outcomes(t, inventory[j.selected] # None, found, failed) /\ j.pc = "series"
    BY DEF ReadSeries, At
  <1>2. j \in PageJobs /\ PageOk(j) /\ Lasting(j) BY <1>1, SnapShape DEF Fits
  <1>3. /\ Listed(j) /\ Keyed(j) /\ j.selected # None /\ j.selkey # None
        /\ j.series = None /\ j.todo = {}
    BY <1>1, <1>2 DEF PageOk
  <1>4. j.selected \in SnapDevices /\ j.selkey \in SnapKeys BY <1>2, <1>3 DEF PageJobs
  <1> HIDE DEF j
  <1>5. Fits(found)
    <2>1. PICK s \in SnapDevices \X SnapKeys : s = <<j.selected, j.selkey>> BY <1>4
    <2>2. s # None BY SnapshotsAssumption
    <2> DEFINE k == [j EXCEPT !.series = s]
    <2>3. drawn = k BY <2>1
    <2>4. k \in PageJobs BY <1>2 DEF PageJobs
    <2>5. /\ k.pc = j.pc /\ k.todo = j.todo /\ k.device = j.device /\ k.key = j.key
          /\ k.activity = j.activity /\ k.available = j.available /\ k.selected = j.selected
          /\ k.numeric = j.numeric /\ k.selkey = j.selkey /\ k.series = s
          /\ k.rows = j.rows /\ k.rate = j.rate /\ k.degraded = j.degraded
          /\ k.steady = j.steady /\ k.zeroed = j.zeroed /\ k.loaded = j.loaded
      BY <1>2 DEF PageJobs
    <2> HIDE DEF k
    <2>6. Listed(k) BY <1>3, <2>5 DEF Listed
    <2>7. Keyed(k) BY <1>3, <2>5 DEF Keyed
    <2>8. Drawn(k) BY <2>1, <2>2, <2>5 DEF Drawn
    <2>9. Lasting(k) BY <1>2, <2>5 DEF Lasting
    <2> QED BY <2>3, <2>4, <2>6, <2>7, <2>8, <2>9, AfterSeriesFits
  <1>6. Fits(failed)
    <2>1. PICK k : k = Down(j, "series") OBVIOUS
    <2>2. /\ k \in PageJobs /\ Listed(k) /\ Keyed(k) /\ Lasting(k) /\ "series" \in k.degraded
          /\ k.series = None
      BY <1>2, <1>3, <2>1, DownKeeps
    <2>3. Drawn(k) BY <2>2 DEF Drawn
    <2> QED BY <2>1, <2>2, <2>3, AfterSeriesFits
  <1> HIDE DEF found, failed
  <1> QED BY <1>1, <1>5, <1>6, OutcomesStep

LEMMA CountActivityStep ==
  ASSUME SnapshotsInv, NEW t \in Threads, CountActivity(t) PROVE SnapshotsInv'
  <1> DEFINE j == jobs[t]
             d == FirstOne(j.todo)
             next == [j EXCEPT !.todo = @ \ {d}, !.pc = IF j.todo = {d} THEN "alarms" ELSE "activity"]
             counted == inventory[d] # None /\ inventory[d] \cap Counted # {}
             found == [next EXCEPT !.rows = @ \cup {<<d, counted>>},
                                   !.rate = IF d = j.selected THEN d ELSE @]
             failed == [next EXCEPT !.rows = @ \cup {<<d, FALSE>>}, !.zeroed = @ \cup {d}]
  <1>1. Outcomes(t, inventory[d] # None, found, failed) /\ j.pc = "activity"
    BY DEF CountActivity, At
  <1>2. j \in PageJobs /\ PageOk(j) /\ Lasting(j) BY <1>1, SnapShape DEF Fits
  <1>3. Listed(j) /\ Keyed(j) /\ Drawn(j) /\ Active(j) /\ j.todo # {}
    BY <1>1, <1>2 DEF PageOk
  <1>4. j.todo \in SUBSET SnapDevices /\ j.todo \in SUBSET Nat
    BY <1>2, SnapshotsAssumption DEF PageJobs
  <1>5. d \in j.todo /\ d \in SnapDevices
    <2> HIDE DEF j
    <2> QED BY <1>3, <1>4, FirstOneIsLeast
  <1>6. d \in Existing(j.steady) => inventory[d] # None /\ j.steady[d] \subseteq inventory[d]
    BY <1>2 DEF Lasting
  <1>7. PICK pc \in {"alarms", "activity"} : pc = IF j.todo = {d} THEN "alarms" ELSE "activity"
    OBVIOUS
  <1>8. PICK b \in BOOLEAN : b = counted OBVIOUS
  <1>9. PICK r \in SnapDevices \cup {None} : r = IF d = j.selected THEN d ELSE j.rate
    BY <1>2, <1>5 DEF PageJobs
  <1> HIDE DEF j, d
  <1>10. found = [j EXCEPT !.todo = j.todo \ {d}, !.pc = pc, !.rows = j.rows \cup {<<d, b>>},
                           !.rate = r]
    BY <1>2, <1>7, <1>8, <1>9 DEF PageJobs
  <1>11. failed = [j EXCEPT !.todo = j.todo \ {d}, !.pc = pc, !.rows = j.rows \cup {<<d, FALSE>>},
                            !.zeroed = j.zeroed \cup {d}]
    BY <1>2, <1>7 DEF PageJobs
  <1>12. j.todo \ {d} # {} <=> pc = "activity"
    BY <1>5, <1>7
  <1>13. ASSUME NEW k \in PageJobs, k.todo = j.todo \ {d}, k.pc = pc,
                k.device = j.device, k.key = j.key, k.activity = j.activity,
                k.available = j.available, k.selected = j.selected, k.numeric = j.numeric,
                k.selkey = j.selkey, k.series = j.series, k.degraded = j.degraded,
                k.steady = j.steady, Active(k)
         PROVE  Fits(k)
    <2>1. Listed(k) BY <1>3, <1>13 DEF Listed
    <2>2. Keyed(k) BY <1>3, <1>13 DEF Keyed
    <2>3. Drawn(k) BY <1>3, <1>13 DEF Drawn
    <2>4. Lasting(k) BY <1>2, <1>13 DEF Lasting
    <2>5. PageOk(k) BY <1>7, <1>12, <1>13, <2>1, <2>2, <2>3 DEF PageOk
    <2> QED BY <1>13, <2>4, <2>5 DEF Fits
  <1>14. ASSUME inventory[d] # None PROVE Fits(found)
    <2> DEFINE k == [j EXCEPT !.todo = j.todo \ {d}, !.pc = pc,
                              !.rows = j.rows \cup {<<d, b>>}, !.rate = r]
    <2>1. k \in PageJobs
      <3>1. j.rows \cup {<<d, b>>} \in SUBSET (SnapDevices \X BOOLEAN)
        <4>1. <<d, b>> \in SnapDevices \X BOOLEAN /\ j.rows \in SUBSET (SnapDevices \X BOOLEAN)
          BY <1>2, <1>5 DEF PageJobs
        <4> QED BY <4>1
      <3>2. j.todo \ {d} \in SUBSET SnapDevices /\ pc \in SnapPlaces BY <1>4 DEF SnapPlaces
      <3> QED BY <1>2, <3>1, <3>2 DEF PageJobs
    <2>2. /\ k.pc = pc /\ k.todo = j.todo \ {d} /\ k.device = j.device /\ k.key = j.key
          /\ k.activity = j.activity /\ k.available = j.available /\ k.selected = j.selected
          /\ k.numeric = j.numeric /\ k.selkey = j.selkey /\ k.series = j.series
          /\ k.rows = j.rows \cup {<<d, b>>} /\ k.rate = r /\ k.degraded = j.degraded
          /\ k.steady = j.steady /\ k.zeroed = j.zeroed /\ k.loaded = j.loaded
      BY <1>2 DEF PageJobs
    <2>3. found = k BY <1>10
    <2> HIDE DEF k, found
    <2>4. Active(k)
      <3> SUFFICES ASSUME k.activity,
                          NEW e \in (Existing(k.steady) \cap FirstOnes(ActivityMax, k.available))
                                    \ (k.todo \cup k.zeroed)
                   PROVE  /\ \/ <<e, TRUE>> \in k.rows
                             \/ <<e, FALSE>> \in k.rows /\ k.steady[e] \cap Counted = {}
                          /\ e = k.selected => k.rate = e
        BY DEF Active
      <3>0. /\ j.activity
            /\ e \in (Existing(j.steady) \cap FirstOnes(ActivityMax, j.available))
                     \ ((j.todo \ {d}) \cup j.zeroed)
        BY <2>2
      <3>1. CASE e # d
        <4>1. /\ <<e, TRUE>> \in j.rows \/ (<<e, FALSE>> \in j.rows /\ j.steady[e] \cap Counted = {})
              /\ e = j.selected => j.rate = e
          BY <1>3, <3>0, <3>1 DEF Active
        <4> QED BY <1>9, <2>2, <3>1, <4>1
      <3>2. CASE e = d
        <4>1. e \in Existing(j.steady) BY <3>0
        <4>2. j.steady[d] \subseteq inventory[d] BY <1>6, <3>2, <4>1
        <4>3. CASE b = TRUE BY <1>9, <2>2, <3>2, <4>3
        <4>4. CASE b = FALSE
          <5>1. inventory[d] \cap Counted = {} BY <1>8, <1>14, <4>4
          <5>2. j.steady[e] \cap Counted = {} BY <3>2, <4>2, <5>1
          <5> QED BY <1>9, <2>2, <3>2, <4>4, <5>2
        <4> QED BY <4>3, <4>4
      <3> QED BY <3>1, <3>2
    <2> QED BY <1>13, <2>1, <2>2, <2>3, <2>4
  <1>15. Fits(failed)
    <2> DEFINE k == [j EXCEPT !.todo = j.todo \ {d}, !.pc = pc,
                              !.rows = j.rows \cup {<<d, FALSE>>}, !.zeroed = j.zeroed \cup {d}]
    <2>1. k \in PageJobs
      <3>1. j.rows \cup {<<d, FALSE>>} \in SUBSET (SnapDevices \X BOOLEAN)
        <4>1. <<d, FALSE>> \in SnapDevices \X BOOLEAN /\ j.rows \in SUBSET (SnapDevices \X BOOLEAN)
          BY <1>2, <1>5 DEF PageJobs
        <4> QED BY <4>1
      <3>2. /\ j.todo \ {d} \in SUBSET SnapDevices /\ pc \in SnapPlaces
            /\ j.zeroed \cup {d} \in SUBSET SnapDevices
        BY <1>2, <1>4, <1>5 DEF SnapPlaces, PageJobs
      <3> QED BY <1>2, <3>1, <3>2 DEF PageJobs
    <2>2. /\ k.pc = pc /\ k.todo = j.todo \ {d} /\ k.device = j.device /\ k.key = j.key
          /\ k.activity = j.activity /\ k.available = j.available /\ k.selected = j.selected
          /\ k.numeric = j.numeric /\ k.selkey = j.selkey /\ k.series = j.series
          /\ k.rows = j.rows \cup {<<d, FALSE>>} /\ k.rate = j.rate /\ k.degraded = j.degraded
          /\ k.steady = j.steady /\ k.zeroed = j.zeroed \cup {d} /\ k.loaded = j.loaded
      BY <1>2 DEF PageJobs
    <2>3. failed = k BY <1>11
    <2> HIDE DEF k, failed
    <2>4. Active(k)
      <3>1. \A e : e \notin k.todo \cup k.zeroed => e \notin j.todo \cup j.zeroed BY <2>2
      <3> QED BY <1>3, <2>2, <3>1 DEF Active
    <2> QED BY <1>13, <2>1, <2>2, <2>3, <2>4
  <1> HIDE DEF found, failed
  <1> QED BY <1>1, <1>14, <1>15, OutcomesStep

LEMMA SectionsStep ==
  ASSUME SnapshotsInv, NEW t \in Threads, ReadAlarms(t) \/ ReadHistory(t) \/ ReadLimit(t)
  PROVE  SnapshotsInv'
  <1> DEFINE to(j, place) == [j EXCEPT !.pc = place]
             found(section) == [jobs[t] EXCEPT !.loaded = @ \cup {section}]
             without(section) == IF section = "max_devices" THEN jobs[t] ELSE Down(jobs[t], section)
  <1>1. PICK section \in {"alarms", "alarm_history", "max_devices"},
             place \in {"alarm_history", "max_devices", "shown"} :
          /\ jobs[t].pc = section
          /\ Outcomes(t, TRUE, to(found(section), place), to(without(section), place))
          /\ place = "alarm_history" <=> section = "alarms"
          /\ place = "shown" <=> section = "max_devices"
    <2>1. CASE ReadAlarms(t) BY <2>1 DEF ReadAlarms, Section, At
    <2>2. CASE ReadHistory(t) BY <2>2 DEF ReadHistory, Section, At
    <2>3. CASE ReadLimit(t) BY <2>3 DEF ReadLimit, Section, At
    <2> QED BY <2>1, <2>2, <2>3
  <1>2. jobs[t] \in PageJobs /\ PageOk(jobs[t]) /\ Lasting(jobs[t])
    BY <1>1, SnapShape DEF Fits
  <1>3. /\ Listed(jobs[t]) /\ Keyed(jobs[t]) /\ Drawn(jobs[t]) /\ Active(jobs[t])
        /\ jobs[t].todo = {}
        /\ section # "alarms" => "alarms" \in jobs[t].loaded \cup jobs[t].degraded
        /\ section = "max_devices" => "alarm_history" \in jobs[t].loaded \cup jobs[t].degraded
    BY <1>1, <1>2 DEF PageOk
  <1>4. ASSUME NEW j \in PageJobs, Listed(j), Keyed(j), Drawn(j), Active(j), Lasting(j), j.todo = {},
               "alarms" \in j.loaded \cup j.degraded,
               section # "alarms" => "alarm_history" \in j.loaded \cup j.degraded
        PROVE  Fits(to(j, place))
    <2> DEFINE k == to(j, place)
    <2>1. k \in PageJobs BY DEF PageJobs, SnapPlaces
    <2>2. /\ k.pc = place /\ k.todo = {} /\ k.device = j.device /\ k.key = j.key
          /\ k.activity = j.activity /\ k.available = j.available /\ k.selected = j.selected
          /\ k.numeric = j.numeric /\ k.selkey = j.selkey /\ k.series = j.series
          /\ k.rows = j.rows /\ k.rate = j.rate /\ k.degraded = j.degraded
          /\ k.steady = j.steady /\ k.zeroed = j.zeroed /\ k.loaded = j.loaded
      BY <1>4 DEF PageJobs
    <2> HIDE DEF k
    <2>3. Listed(k) BY <1>4, <2>2 DEF Listed
    <2>4. Keyed(k) BY <1>4, <2>2 DEF Keyed
    <2>5. Drawn(k) BY <1>4, <2>2 DEF Drawn
    <2>6. Active(k)
      <3>1. k.todo = j.todo BY <1>4, <2>2
      <3> QED BY <1>4, <2>2, <3>1 DEF Active
    <2>7. Lasting(k) BY <1>4, <2>2 DEF Lasting
    <2>8. /\ "alarms" \in k.loaded \cup k.degraded
          /\ place # "alarm_history" => "alarm_history" \in k.loaded \cup k.degraded
      BY <1>1, <1>4, <2>2
    <2>9. PageOk(k) BY <2>2, <2>3, <2>4, <2>5, <2>6, <2>8 DEF PageOk
    <2> QED BY <2>1, <2>7, <2>9 DEF Fits, k
  <1>5. Fits(to(found(section), place))
    <2>1. PICK k : k = found(section) OBVIOUS
    <2>2. /\ k \in PageJobs /\ k.loaded = jobs[t].loaded \cup {section} /\ k.degraded = jobs[t].degraded
          /\ k.todo = jobs[t].todo /\ k.device = jobs[t].device /\ k.key = jobs[t].key
          /\ k.activity = jobs[t].activity /\ k.available = jobs[t].available
          /\ k.selected = jobs[t].selected /\ k.numeric = jobs[t].numeric
          /\ k.selkey = jobs[t].selkey /\ k.series = jobs[t].series /\ k.rows = jobs[t].rows
          /\ k.rate = jobs[t].rate /\ k.steady = jobs[t].steady /\ k.zeroed = jobs[t].zeroed
      BY <1>2, <2>1 DEF PageJobs
    <2>3. Listed(k) /\ Keyed(k) /\ Drawn(k) BY <1>3, <2>2 DEF Listed, Keyed, Drawn
    <2>4. Active(k) BY <1>3, <2>2 DEF Active
    <2>5. Lasting(k) BY <1>2, <2>2 DEF Lasting
    <2>6. /\ "alarms" \in k.loaded \cup k.degraded
          /\ section # "alarms" => "alarm_history" \in k.loaded \cup k.degraded
      BY <1>1, <1>3, <2>2
    <2> HIDE DEF to, found
    <2> QED BY <1>3, <1>4, <2>1, <2>2, <2>3, <2>4, <2>5, <2>6
  <1> DEFINE failed == without(section)
  <1>6. Fits(to(failed, place))
    <2>1. CASE section = "max_devices"
      <3> HIDE DEF to
      <3> QED BY <1>1, <1>2, <1>3, <1>4, <2>1
    <2>2. CASE section \in {"alarms", "alarm_history"}
      <3>1. failed = Down(jobs[t], section) BY <1>1, <2>2
      <3>2. /\ failed \in PageJobs /\ Listed(failed) /\ Keyed(failed) /\ Drawn(failed)
            /\ Active(failed) /\ Lasting(failed) /\ failed.todo = {}
            /\ failed.degraded = jobs[t].degraded \cup {section} /\ failed.loaded = jobs[t].loaded
        BY <1>2, <1>3, <2>2, <3>1, DownKeeps
      <3>3. /\ "alarms" \in failed.loaded \cup failed.degraded
            /\ section # "alarms" => "alarm_history" \in failed.loaded \cup failed.degraded
        BY <1>3, <2>2, <3>2
      <3> HIDE DEF to
      <3> QED BY <1>4, <3>2, <3>3
    <2> QED BY <1>1, <2>1, <2>2
  <1> HIDE DEF to, found
  <1> QED BY <1>1, <1>5, <1>6, OutcomesStep

LEMMA PageBeginsAndEnds ==
  ASSUME SnapshotsInv, NEW t \in Threads,
         \/ ShowPage(t)
         \/ \E d \in SnapDevices \cup {None}, k \in SnapKeys \cup {None}, a \in BOOLEAN :
              BeginSnapshot(t, d, k, a)
  PROVE  SnapshotsInv'
  <1>1. \E j : Become(t, j) /\ (j = Free \/ Fits(j)) /\ inventory' = inventory
    <2>1. CASE ShowPage(t) BY <2>1 DEF ShowPage, Finish, snapshotVars
    <2>2. ASSUME NEW device \in SnapDevices \cup {None}, NEW key \in SnapKeys \cup {None},
                 NEW activity \in BOOLEAN, BeginSnapshot(t, device, key, activity)
          PROVE  \E j : Become(t, j) /\ (j = Free \/ Fits(j)) /\ inventory' = inventory
      <3> DEFINE k == [pc |-> "devices", device |-> device, key |-> key, activity |-> activity,
                       available |-> {}, selected |-> None, numeric |-> {}, selkey |-> None,
                       series |-> None, todo |-> {}, rows |-> {}, rate |-> None, degraded |-> {},
                       loaded |-> {}, steady |-> inventory, zeroed |-> {}]
      <3>1. Become(t, k) /\ inventory' = inventory
        BY <2>2 DEF BeginSnapshot, Start, snapshotVars
      <3>2. k \in PageJobs BY DEF PageJobs, SnapPlaces, SnapshotsInv
      <3>3. /\ k.pc = "devices" /\ k.available = {} /\ k.selected = None /\ k.numeric = {}
            /\ k.selkey = None /\ k.series = None /\ k.todo = {} /\ k.steady = inventory
        OBVIOUS
      <3> HIDE DEF k
      <3>4. Lasting(k) BY <3>3 DEF Lasting, Existing
      <3>5. PageOk(k) BY <3>3 DEF PageOk, NothingYet
      <3> QED BY <3>1, <3>2, <3>4, <3>5 DEF Fits
    <2> QED BY <2>1, <2>2
  <1>2. PICK j : Become(t, j) /\ (j = Free \/ Fits(j)) /\ inventory' = inventory BY <1>1
  <1>3. /\ jobs' = [u \in Threads |-> jobs'[u]] /\ jobs'[t] = j
        /\ \A u \in Threads \ {t} : jobs'[u] = jobs[u]
    BY <1>2 DEF Become, SnapshotsInv
  <1>4. \A k : Fits(k)' <=> Fits(k) BY <1>2 DEF Fits, Lasting
  <1>5. ASSUME NEW u \in Threads PROVE jobs'[u] = Free \/ Fits(jobs'[u])
    BY <1>2, <1>3 DEF SnapshotsInv
  <1>6. ASSUME NEW u \in Threads PROVE (jobs[u] = Free \/ Fits(jobs[u]))'
    <2>1. PICK k : k = jobs'[u] OBVIOUS
    <2>2. k = Free \/ Fits(k)' BY <1>4, <1>5, <2>1
    <2> QED BY <2>1, <2>2 DEF Fits, Lasting
  <1> QED BY <1>2, <1>3, <1>6 DEF SnapshotsInv

\* What was there all along can only become less, and a page that fits goes on to.
LEMMA AlterStep ==
  ASSUME SnapshotsInv, NEW d \in SnapDevices, NEW keys, Alter(d, keys),
         \/ keys = None
         \/ keys \in SUBSET SnapKeys /\ (inventory[d] = None \/ inventory[d] \subseteq keys)
  PROVE  SnapshotsInv'
  <1>1. /\ inventory' = [inventory EXCEPT ![d] = keys]
        /\ jobs' = [t \in Threads |-> IF At(t, "idle") \/ keys # None THEN jobs[t]
                                      ELSE [jobs[t] EXCEPT !.steady[d] = None]]
    BY DEF Alter
  <1>2. inventory' \in [SnapDevices -> {None} \cup SUBSET SnapKeys]
    BY <1>1 DEF SnapshotsInv
  <1>3. jobs' = [t \in Threads |-> jobs'[t]] BY <1>1
  <1>4. ASSUME NEW t \in Threads PROVE (jobs[t] = Free \/ Fits(jobs[t]))'
    <2>1. PICK k : k = jobs'[t] OBVIOUS
    <2>2. CASE jobs[t] = Free
      <3>1. jobs'[t] = Free BY <1>1, <2>2 DEF At, Free
      <3> QED BY <3>1
    <2>3. CASE jobs[t] # Free
      <3> DEFINE j == jobs[t]
      <3>1. j \in PageJobs /\ PageOk(j) /\ Lasting(j) /\ j.pc # "idle"
        BY <2>3 DEF SnapshotsInv, Fits, PageJobs, SnapPlaces
      <3>2. k = IF keys # None THEN j ELSE [j EXCEPT !.steady = [j.steady EXCEPT ![d] = None]]
        BY <1>1, <2>1, <3>1 DEF At
      <3> HIDE DEF j
      <3>3. /\ k \in PageJobs
            /\ k.steady = IF keys # None THEN j.steady ELSE [j.steady EXCEPT ![d] = None]
            /\ k.pc = j.pc /\ k.todo = j.todo /\ k.device = j.device /\ k.key = j.key
            /\ k.activity = j.activity /\ k.available = j.available /\ k.selected = j.selected
            /\ k.numeric = j.numeric /\ k.selkey = j.selkey /\ k.series = j.series
            /\ k.rows = j.rows /\ k.rate = j.rate /\ k.degraded = j.degraded
            /\ k.zeroed = j.zeroed /\ k.loaded = j.loaded
        BY <3>1, <3>2 DEF PageJobs
      <3>4. /\ \A e \in Existing(k.steady) : e \in Existing(j.steady) /\ k.steady[e] = j.steady[e]
            /\ keys = None => d \notin Existing(k.steady)
            /\ Existing(k.steady) \in SUBSET SnapDevices
        BY <3>1, <3>3 DEF Existing, PageJobs
      <3>5. Lasting(k)'
        <4>1. ASSUME NEW e \in Existing(k.steady)
              PROVE  inventory'[e] # None /\ k.steady[e] \subseteq inventory'[e]
          <5>1. /\ inventory[e] # None /\ k.steady[e] \subseteq inventory[e] /\ e \in SnapDevices
            BY <3>1, <3>4 DEF Lasting
          <5>2. CASE e # d BY <1>1, <5>1, <5>2 DEF SnapshotsInv
          <5>3. CASE e = d
            <6>1. keys # None BY <3>4, <5>3
            <6>2. inventory[d] \subseteq keys BY <5>1, <5>3, <6>1
            <6>3. inventory'[d] = keys BY <1>1 DEF SnapshotsInv
            <6> QED BY <5>1, <5>3, <6>1, <6>2, <6>3
          <5> QED BY <5>2, <5>3
        <4>2. Existing(k.steady) = Existing(k.steady)' BY DEF Existing
        <4> QED BY <4>1, <4>2 DEF Lasting
      <3>6. Listed(j) => Listed(k) BY <3>3, <3>4 DEF Listed
      <3>7. Keyed(j) => Keyed(k) BY <3>3, <3>4 DEF Keyed
      <3>8. Drawn(j) => Drawn(k) BY <3>3 DEF Drawn
      <3>9. Active(j) => Active(k) BY <3>3, <3>4 DEF Active
      <3>10. NothingYet(j) => NothingYet(k) BY <3>3 DEF NothingYet
      <3>11. PageOk(k) BY <3>1, <3>3, <3>6, <3>7, <3>8, <3>9, <3>10 DEF PageOk
      <3>12. Fits(k)' BY <3>3, <3>5, <3>11 DEF Fits
      <3> QED BY <2>1, <3>12 DEF Fits, Lasting
    <2> QED BY <2>2, <2>3
  <1> QED BY <1>2, <1>3, <1>4 DEF SnapshotsInv

LEMMA SnapshotsAlways == SnapshotsSpec => []SnapshotsInv
  <1>1. HandlersInit /\ SnapshotsInit => SnapshotsInv
    BY DEF HandlersInit, SnapshotsInit, SnapshotsInv
  <1>2. SnapshotsInv /\ [SnapshotsNext]_<<snapshotVars, handlerVars>> => SnapshotsInv'
    <2> SUFFICES ASSUME SnapshotsInv, [SnapshotsNext]_<<snapshotVars, handlerVars>>
                 PROVE  SnapshotsInv'
      OBVIOUS
    <2>1. ASSUME NEW d \in SnapDevices,
                 DeviceAppears(d) \/ DeviceVanishes(d) \/ \E k \in SnapKeys : FirstValue(d, k)
          PROVE  SnapshotsInv'
      <3>1. CASE DeviceAppears(d) BY <3>1, AlterStep DEF DeviceAppears
      <3>2. CASE DeviceVanishes(d) BY <3>2, AlterStep DEF DeviceVanishes
      <3>3. ASSUME NEW k \in SnapKeys, FirstValue(d, k) PROVE SnapshotsInv'
        <4>1. inventory[d] \cup {k} \in SUBSET SnapKeys /\ inventory[d] \subseteq inventory[d] \cup {k}
          BY <3>3 DEF FirstValue, SnapshotsInv
        <4> QED BY <3>3, <4>1, AlterStep DEF FirstValue
      <3> QED BY <2>1, <3>1, <3>2, <3>3
    <2>2. ASSUME NEW t \in Threads, NEW d \in SnapDevices \cup {None},
                 NEW k \in SnapKeys \cup {None}, NEW a \in BOOLEAN, BeginSnapshot(t, d, k, a)
          PROVE  SnapshotsInv'
      BY <2>2, PageBeginsAndEnds
    <2>3. ASSUME NEW t \in Threads,
                 \/ ListDevices(t) \/ ListKeys(t) \/ ReadSeries(t) \/ CountActivity(t)
                 \/ ReadAlarms(t) \/ ReadHistory(t) \/ ReadLimit(t) \/ ShowPage(t)
          PROVE  SnapshotsInv'
      BY <2>3, ListDevicesStep, ListKeysStep, ReadSeriesStep, CountActivityStep, SectionsStep,
         PageBeginsAndEnds
    <2>4. CASE UNCHANGED <<snapshotVars, handlerVars>>
      <3>1. inventory' = inventory /\ jobs' = jobs BY <2>4 DEF snapshotVars, handlerVars
      <3> QED BY <3>1 DEF SnapshotsInv, Fits, Lasting
    <2> QED BY <2>1, <2>2, <2>3, <2>4 DEF SnapshotsNext
  <1> QED BY <1>1, <1>2, PTL DEF SnapshotsSpec

LEMMA ShownPages ==
  ASSUME SnapshotsInv, NEW j \in Shown
  PROVE  /\ j \in PageJobs /\ Listed(j) /\ Keyed(j) /\ Drawn(j) /\ Active(j) /\ j.todo = {}
         /\ {"alarms", "alarm_history"} \subseteq j.loaded \cup j.degraded
  <1>1. PICK t \in Threads : j = jobs[t] /\ j.pc = "shown" BY DEF Shown, At
  <1>2. Fits(j) BY <1>1, SnapShape
  <1> QED BY <1>1, <1>2 DEF Fits, PageOk

(***************************************************************************)
(* However devices and keys come and go while a page is put together and   *)
(* whichever of its calls fail: what was there all along is on the page,   *)
(* or its section is named as degraded, or it was beyond a limit of the    *)
(* page (snapshot); the quota, whose failure nothing names, is no part of  *)
(* this.                                                                   *)
(***************************************************************************)
THEOREM NothingMissing == SnapshotsSpec => []NothingMissingUnnamed
  <1>1. SnapshotsInv => NothingMissingUnnamed
    <2> SUFFICES ASSUME SnapshotsInv, NEW j \in Shown
                 PROVE  LET there == Existing(j.steady) IN
                        /\ "devices" \in j.degraded
                           \/ \A d \in there : d \in j.available \/ Cardinality(j.available) = SnapPage
                        /\ j.selected \in there =>
                             \/ "keys" \in j.degraded
                             \/ j.steady[j.selected] \subseteq j.numeric
                        /\ j.numeric # {} => j.series # None \/ "series" \in j.degraded
                        /\ j.activity => \A d \in (there \cap FirstOnes(ActivityMax, j.available)) \ j.zeroed :
                             /\ \/ <<d, j.steady[d] \cap Counted # {}>> \in j.rows
                                \/ <<d, TRUE>> \in j.rows
                             /\ d = j.selected => j.rate = d
                        /\ {"alarms", "alarm_history"} \subseteq j.loaded \cup j.degraded
      BY DEF NothingMissingUnnamed
    <2>1. /\ Listed(j) /\ Keyed(j) /\ Drawn(j) /\ Active(j) /\ j.todo = {}
          /\ {"alarms", "alarm_history"} \subseteq j.loaded \cup j.degraded
      BY ShownPages
    <2>2. "devices" \in j.degraded
          \/ \A d \in Existing(j.steady) : d \in j.available \/ Cardinality(j.available) = SnapPage
      BY <2>1 DEF Listed
    <2>3. j.selected \in Existing(j.steady) =>
            "keys" \in j.degraded \/ j.steady[j.selected] \subseteq j.numeric
      BY <2>1 DEF Keyed
    <2>4. j.numeric # {} => j.series # None \/ "series" \in j.degraded BY <2>1 DEF Drawn
    <2>5. ASSUME j.activity,
                 NEW d \in (Existing(j.steady) \cap FirstOnes(ActivityMax, j.available)) \ j.zeroed
          PROVE  /\ \/ <<d, j.steady[d] \cap Counted # {}>> \in j.rows
                    \/ <<d, TRUE>> \in j.rows
                 /\ d = j.selected => j.rate = d
      <3>1. /\ <<d, TRUE>> \in j.rows \/ (<<d, FALSE>> \in j.rows /\ j.steady[d] \cap Counted = {})
            /\ d = j.selected => j.rate = d
        BY <2>1, <2>5 DEF Active
      <3>2. PICK b \in BOOLEAN : b = (j.steady[d] \cap Counted # {}) OBVIOUS
      <3>3. j.steady[d] \cap Counted = {} => b = FALSE BY <3>2
      <3>4. <<d, b>> \in j.rows \/ <<d, TRUE>> \in j.rows BY <3>1, <3>3
      <3> QED BY <3>1, <3>2, <3>4
    <2> QED BY <2>1, <2>2, <2>3, <2>4, <2>5
  <1> QED BY SnapshotsAlways, <1>1, PTL

(***************************************************************************)
(* Whatever happens in the engine meanwhile, the device, the key and the   *)
(* series of one page belong together, and the device and key asked for    *)
(* are the ones selected if they were there all along (snapshot).          *)
(***************************************************************************)
THEOREM PagesCohere == SnapshotsSpec => []PageCoherent
  <1>1. SnapshotsInv => PageCoherent
    <2> SUFFICES ASSUME SnapshotsInv, NEW j \in Shown
                 PROVE  /\ j.selected \in j.available \cup {None}
                        /\ j.selkey \in j.numeric \cup {None}
                        /\ j.series \in {None, <<j.selected, j.selkey>>}
                        /\ (j.device \in Existing(j.steady) /\ "devices" \notin j.degraded) =>
                             \/ j.selected = j.device
                             \/ Cardinality({d \in j.available : d < j.device}) = SnapPage
                        /\ (j.selected \in Existing(j.steady) /\ "keys" \notin j.degraded) =>
                             j.key \notin j.steady[j.selected] \/ j.selkey = j.key
      BY DEF PageCoherent
    <2>1. Listed(j) /\ Keyed(j) /\ Drawn(j) BY ShownPages
    <2> QED BY <2>1 DEF Listed, Keyed, Drawn
  <1> QED BY SnapshotsAlways, <1>1, PTL

-----------------------------------------------------------------------------
(* The paging of an export (module Export).                                *)

\* the i-th of a set of numbers is where it should be, and everyone is somewhere
LEMMA NthPlaces ==
  ASSUME NEW S \in SUBSET Nat, IsFiniteSet(S)
  PROVE  /\ Cardinality(S) \in Nat
         /\ \A i \in 1 .. Cardinality(S) : Nth(S, i) \in S
         /\ \A i, l \in 1 .. Cardinality(S) : Nth(S, i) = Nth(S, l) => i = l
         /\ \A x \in S : \E i \in 1 .. Cardinality(S) : Nth(S, i) = x
  <1> DEFINE below(x) == Cardinality({m \in S : m < x})
  <1>0. Cardinality(S) \in Nat BY FS_CardinalityType
  <1>1. /\ \A i \in 1 .. Cardinality(S) : \E x \in S : below(x) = i - 1
        /\ \A x, y \in S : below(x) = below(y) => x = y
        /\ \A x \in S : below(x) + 1 \in 1 .. Cardinality(S)
        /\ \A x \in S : below(x) \in Nat
    <2>1. Ordered(Smaller, S) /\ \A x \in S : Before(Smaller, S, x) = {y \in S : y < x}
      BY SmallerOrders
    <2>2. \A x \in S : below(x) = Cardinality(Before(Smaller, S, x)) BY <2>1
    <2> HIDE DEF below
    <2>3. \A x \in S : Cardinality(Before(Smaller, S, x)) \in Nat
      BY <2>1, BeforeFinite
    <2>4. /\ \A i \in 1 .. Cardinality(S) :
               \E x \in S : Cardinality(Before(Smaller, S, x)) = i - 1
          /\ \A x, y \in S :
               Cardinality(Before(Smaller, S, x)) = Cardinality(Before(Smaller, S, y)) => x = y
          /\ \A x \in S : Cardinality(Before(Smaller, S, x)) + 1 \in 1 .. Cardinality(S)
      BY <2>1, PlacesInOrder
    <2>5. \A i \in 1 .. Cardinality(S) : \E x \in S : below(x) = i - 1 BY <2>2, <2>4
    <2>6. \A x, y \in S : below(x) = below(y) => x = y BY <2>2, <2>4
    <2>7. \A x \in S : below(x) + 1 \in 1 .. Cardinality(S) BY <2>2, <2>4
    <2>8. \A x \in S : below(x) \in Nat BY <2>2, <2>3
    <2> QED BY <2>5, <2>6, <2>7, <2>8
  <1>2. \A i : Nth(S, i) = CHOOSE n \in S : below(n) = i - 1 BY DEF Nth
  <1> HIDE DEF below
  <1>3. ASSUME NEW i \in 1 .. Cardinality(S)
        PROVE  Nth(S, i) \in S /\ below(Nth(S, i)) = i - 1
    BY <1>1, <1>2
  <1>4. ASSUME NEW i \in 1 .. Cardinality(S), NEW l \in 1 .. Cardinality(S),
               Nth(S, i) = Nth(S, l)
        PROVE  i = l
    <2>1. i - 1 = l - 1 BY <1>3, <1>4
    <2> QED BY <1>0, <2>1
  <1>5. ASSUME NEW x \in S PROVE \E i \in 1 .. Cardinality(S) : Nth(S, i) = x
    <2>1. PICK i \in 1 .. Cardinality(S) : i = below(x) + 1 BY <1>1
    <2>2. below(Nth(S, i)) = below(x) /\ Nth(S, i) \in S
      <3>1. below(x) \in Nat BY <1>1
      <3> QED BY <1>3, <2>1, <3>1
    <2> QED BY <1>1, <2>2
  <1> QED BY <1>0, <1>3, <1>4, <1>5

\* the rows of a page: one for each of its points
RowsOf(rows, nth, S) ==
  /\ rows \in Seq(Nat \X Nat) /\ Len(rows) = Cardinality(S)
  /\ \A i \in 1 .. Len(rows) : rows[i] = <<nth, rows[i][2]>> /\ rows[i][2] \in S
  /\ \A i, l \in 1 .. Len(rows) : rows[i] = rows[l] => i = l
  /\ \A x \in S : \E i \in 1 .. Len(rows) : rows[i] = <<nth, x>>

LEMMA PageRowsAre ==
  ASSUME NEW S \in SUBSET Nat, IsFiniteSet(S), NEW nth \in Nat,
         NEW rows, rows = PageRows(nth, S)
  PROVE  RowsOf(rows, nth, S)
  <1> DEFINE N == Cardinality(S)
  <1>0. N \in Nat BY NthPlaces
  <1>1. /\ \A i \in 1 .. N : Nth(S, i) \in S
        /\ \A i, l \in 1 .. N : Nth(S, i) = Nth(S, l) => i = l
        /\ \A x \in S : \E i \in 1 .. N : Nth(S, i) = x
    BY NthPlaces
  <1>2. rows = [i \in 1 .. N |-> <<nth, Nth(S, i)>>] BY DEF PageRows
  <1> HIDE DEF N
  <1>3. rows \in [1 .. N -> Nat \X Nat]
    <2>1. \A i \in 1 .. N : <<nth, Nth(S, i)>> \in Nat \X Nat BY <1>1
    <2> QED BY <1>2, <2>1
  <1>4. rows \in Seq(Nat \X Nat) /\ Len(rows) = N
    <2>1. rows \in Seq(Nat \X Nat) BY <1>0, <1>3, SeqDef
    <2>2. DOMAIN rows = 1 .. N BY <1>2
    <2> QED BY <1>0, <2>1, <2>2, LenProperties
  <1>5. \A i \in 1 .. N : rows[i] = <<nth, Nth(S, i)>> /\ rows[i][2] = Nth(S, i) BY <1>2
  <1>6. \A i \in 1 .. N : rows[i] = <<nth, rows[i][2]>> /\ rows[i][2] \in S BY <1>1, <1>5
  <1>7. \A i, l \in 1 .. N : rows[i] = rows[l] => i = l BY <1>1, <1>5
  <1>8. \A x \in S : \E i \in 1 .. N : rows[i] = <<nth, x>> BY <1>1, <1>5
  <1> QED BY <1>4, <1>6, <1>7, <1>8 DEF N, RowsOf

LEMMA PageIs ==
  ASSUME NEW k, NEW from \in Nat, NEW to \in Nat
  PROVE  /\ Page(k, from, to) \in SUBSET (from .. to) /\ IsFiniteSet(Page(k, from, to))
         /\ \A ts \in from .. to : <<k, ts>> \in points /\ ts \notin Page(k, from, to) =>
              /\ Cardinality(Page(k, from, to)) = PageSize
              /\ \A later \in Page(k, from, to) : ts < later
  <1> DEFINE range == {ts \in from .. to : <<k, ts>> \in points}
             R == {p \in Nat \X Nat : p[2] < p[1]}
  <1>1. range \in SUBSET (from .. to) /\ range \in SUBSET Nat /\ IsFiniteSet(range)
    <2>1. range \in SUBSET (from .. to) /\ range \in SUBSET Nat OBVIOUS
    <2>2. IsFiniteSet(from .. to) BY FS_Interval
    <2> QED BY <2>1, <2>2, FS_Subset
  <1>2. \A x, y \in Nat : <<x, y>> \in R <=> y < x OBVIOUS
  <1>3. \A ts : ts \in range <=> ts \in from .. to /\ <<k, ts>> \in points OBVIOUS
  <1>4. Page(k, from, to) = {ts \in range : Cardinality({later \in range : ts < later}) < PageSize}
    BY DEF Page
  <1> HIDE DEF range, R
  <1>5. \A x \in range : x \in Nat BY <1>1
  <1>6. Ordered(R, range)
    <2>1. \A x \in range : <<x, x>> \notin R BY <1>2, <1>5
    <2>2. \A x, y \in range : x # y => <<x, y>> \in R \/ <<y, x>> \in R BY <1>2, <1>5
    <2>3. \A x, y, z \in range : <<x, y>> \in R /\ <<y, z>> \in R => <<x, z>> \in R
      BY <1>2, <1>5
    <2> QED BY <1>1, <2>1, <2>2, <2>3 DEF Ordered
  <1>7. \A x \in range : Before(R, range, x) = {later \in range : x < later}
    BY <1>2, <1>5 DEF Before
  <1>8. Page(k, from, to) = Firsts(R, range, PageSize) BY <1>4, <1>7 DEF Firsts
  <1>9. Fill(R, range, PageSize) BY <1>6, FirstsFill, ExportAssumption
  <1>10. Page(k, from, to) \in SUBSET range BY <1>4
  <1>11. IsFiniteSet(Page(k, from, to)) BY <1>1, <1>10, FS_Subset
  <1>12. ASSUME NEW ts \in from .. to, <<k, ts>> \in points, ts \notin Page(k, from, to)
         PROVE  /\ Cardinality(Page(k, from, to)) = PageSize
                /\ \A later \in Page(k, from, to) : ts < later
    <2>1. ts \in range \ Firsts(R, range, PageSize) BY <1>3, <1>8, <1>12
    <2>2. /\ Cardinality(Page(k, from, to)) = PageSize
          /\ \A later \in Page(k, from, to) : <<later, ts>> \in R
      BY <1>8, <1>9, <2>1 DEF Fill
    <2> QED BY <1>2, <1>5, <1>10, <2>1, <2>2
  <1> QED BY <1>1, <1>10, <1>11, <1>12

LEMMA OldestIs ==
  ASSUME NEW S \in SUBSET Nat, S # {}
  PROVE  Oldest(S) \in S /\ \A m \in S : Oldest(S) <= m
  <1>1. \E n \in S : \A m \in S : n <= m BY LeastNumber
  <1> QED BY <1>1 DEF Oldest

LEMMA Longer ==
  ASSUME NEW T, NEW s \in Seq(T), NEW u \in Seq(T), NEW r, r = s \o u
  PROVE  /\ r \in Seq(T) /\ Len(r) = Len(s) + Len(u)
         /\ \A i \in 1 .. Len(s) : i \in 1 .. Len(r) /\ r[i] = s[i]
         /\ \A i \in 1 .. Len(u) : Len(s) + i \in 1 .. Len(r) /\ r[Len(s) + i] = u[i]
         /\ \A i \in 1 .. Len(r) :
              \/ i \in 1 .. Len(s) /\ r[i] = s[i]
              \/ i - Len(s) \in 1 .. Len(u) /\ r[i] = u[i - Len(s)]
  <1>1. Len(s) \in Nat /\ Len(u) \in Nat OBVIOUS
  <1>2. /\ r \in Seq(T) /\ Len(r) = Len(s) + Len(u)
        /\ \A i \in 1 .. Len(s) + Len(u) :
             r[i] = IF i <= Len(s) THEN s[i] ELSE u[i - Len(s)]
    BY ConcatProperties
  <1>3. ASSUME NEW i \in 1 .. Len(s) PROVE i \in 1 .. Len(r) /\ r[i] = s[i]
    BY <1>1, <1>2
  <1>4. ASSUME NEW i \in 1 .. Len(u) PROVE Len(s) + i \in 1 .. Len(r) /\ r[Len(s) + i] = u[i]
    <2>1. /\ Len(s) + i \in 1 .. Len(s) + Len(u) /\ ~(Len(s) + i <= Len(s))
          /\ (Len(s) + i) - Len(s) = i
      BY <1>1
    <2> QED BY <1>2, <2>1
  <1>5. ASSUME NEW i \in 1 .. Len(r)
        PROVE  \/ i \in 1 .. Len(s) /\ r[i] = s[i]
               \/ i - Len(s) \in 1 .. Len(u) /\ r[i] = u[i - Len(s)]
    BY <1>1, <1>2
  <1> QED BY <1>2, <1>3, <1>4, <1>5

ExportJobs ==
  [pc : {"page", "capped", "whole"}, nth : Nat, cursor : Nat, rows : Seq(Nat \X Nat),
   goal : SUBSET (KeySet \X (0 .. LastInstant))]

\* no row twice, none from outside the range
RowsRight(rows) ==
  /\ \A i, l \in 1 .. Len(rows) : rows[i] = rows[l] => i = l
  /\ \A i \in 1 .. Len(rows) : RangeStart <= rows[i][2] /\ rows[i][2] <= RangeEnd

\* the export goes from key to key, and through a key's points from the last one back
Passed(j, p) == p[1] < j.nth \/ (p[1] = j.nth /\ j.cursor < p[2])

ExportOk(j) ==
  /\ j.goal \subseteq points
  /\ RowsRight(j.rows)
  /\ j.pc = "page" =>
       /\ j.nth \in 1 .. Len(Keys) /\ RangeStart < j.cursor /\ j.cursor <= RangeEnd
       /\ \A i \in 1 .. Len(j.rows) : Passed(j, j.rows[i])
       /\ \A p \in Owed(j.goal) : Passed(j, p) => \E i \in 1 .. Len(j.rows) : j.rows[i] = p
  /\ j.pc = "whole" => \A p \in Owed(j.goal) : \E i \in 1 .. Len(j.rows) : j.rows[i] = p

ExportInv ==
  /\ points \in SUBSET (KeySet \X (0 .. LastInstant))
  /\ jobs = [t \in Threads |-> jobs[t]]
  /\ \A t \in Threads : jobs[t] = Free \/ (jobs[t] \in ExportJobs /\ ExportOk(jobs[t]))

LEMMA ExportNumbers ==
  /\ RangeStart \in Nat /\ RangeEnd \in Nat /\ LastInstant \in Nat /\ PageSize \in Nat \ {0}
  /\ MaxRows \in Nat \ {0} /\ Len(Keys) \in Nat /\ DOMAIN Keys = 1 .. Len(Keys)
  /\ \A goal : \A p \in Owed(goal) :
       /\ p[1] \in 1 .. Len(Keys) /\ p[1] \in Nat
       /\ p[2] \in Nat /\ RangeStart < p[2] /\ p[2] <= RangeEnd
       /\ p = <<p[1], p[2]>> /\ <<Keys[p[1]], p[2]>> \in goal
  <1>1. /\ RangeStart \in Nat /\ RangeEnd \in Nat /\ LastInstant \in Nat /\ PageSize \in Nat \ {0}
        /\ MaxRows \in Nat \ {0} /\ Len(Keys) \in Nat /\ DOMAIN Keys = 1 .. Len(Keys)
    BY ExportAssumption
  <1>2. ASSUME NEW goal, NEW p \in Owed(goal)
        PROVE  /\ p[1] \in 1 .. Len(Keys) /\ p[1] \in Nat
               /\ p[2] \in Nat /\ RangeStart < p[2] /\ p[2] <= RangeEnd
               /\ p = <<p[1], p[2]>> /\ <<Keys[p[1]], p[2]>> \in goal
    <2>1. /\ p \in (1 .. Len(Keys)) \X ((RangeStart + 1) .. RangeEnd)
          /\ <<Keys[p[1]], p[2]>> \in goal
      BY <1>1 DEF Owed
    <2>2. /\ p[1] \in 1 .. Len(Keys) /\ p[2] \in (RangeStart + 1) .. RangeEnd
          /\ p = <<p[1], p[2]>>
      BY <2>1
    <2> QED BY <1>1, <2>1, <2>2
  <1> QED BY <1>1, <1>2

\* points only grow, and a handler goes on to a job that is in order
LEMMA PointsGrow ==
  ASSUME ExportInv, points \subseteq points', points' \subseteq KeySet \X (0 .. LastInstant),
         jobs' = [u \in Threads |-> jobs'[u]],
         \A u \in Threads : \/ jobs'[u] = Free \/ jobs'[u] = jobs[u]
                            \/ jobs'[u] \in ExportJobs /\ ExportOk(jobs'[u])
  PROVE  ExportInv'
  <1>1. ASSUME NEW u \in Threads
        PROVE  (jobs[u] = Free \/ (jobs[u] \in ExportJobs /\ ExportOk(jobs[u])))'
    <2>1. PICK x : x = jobs'[u] OBVIOUS
    <2>2. x = Free \/ (x \in ExportJobs /\ ExportOk(x)) BY <2>1 DEF ExportInv
    <2>3. ExportOk(x) => ExportOk(x)' BY DEF ExportOk
    <2>4. x = Free \/ (x \in ExportJobs /\ ExportOk(x)') BY <2>2, <2>3
    <2> QED BY <2>1, <2>4 DEF ExportOk
  <1> QED BY <1>1 DEF ExportInv

LEMMA ExportGoesOn ==
  ASSUME ExportInv, NEW t \in Threads, NEW i, Become(t, i), points' = points,
         i = Free \/ (i \in ExportJobs /\ ExportOk(i))
  PROVE  ExportInv'
  <1>1. /\ jobs' = [u \in Threads |-> jobs'[u]] /\ jobs'[t] = i
        /\ \A u \in Threads \ {t} : jobs'[u] = jobs[u]
    BY DEF Become, ExportInv
  <1> QED BY <1>1, PointsGrow DEF ExportInv

\* one more page of a key
LEMMA ReadPageStep ==
  ASSUME ExportInv, NEW t \in Threads, ReadPage(t)
  PROVE  ExportInv'
  <1> DEFINE j == jobs[t]
             k == Keys[j.nth]
             page == Page(k, RangeStart, j.cursor)
             new == PageRows(j.nth, page)
             rows == j.rows \o new
             old == Len(j.rows)
             all == Len(rows)
  <1>1. /\ j.pc = "page" /\ points' = points
        /\ \/ /\ all >= MaxRows
              /\ Become(t, [j EXCEPT !.pc = "capped", !.rows = SubSeq(rows, 1, MaxRows)])
           \/ /\ all < MaxRows /\ MorePages(page)
              /\ Become(t, [j EXCEPT !.rows = rows, !.cursor = NextCursor(page)])
           \/ /\ all < MaxRows /\ ~MorePages(page)
              /\ Become(t, [j EXCEPT !.rows = rows, !.cursor = RangeEnd, !.nth = j.nth + 1,
                            !.pc = IF j.nth = Len(Keys) THEN "whole" ELSE "page"])
    BY DEF ReadPage, At, exportVars
  <1>2. j \in ExportJobs /\ ExportOk(j)
    <2>1. j # Free BY <1>1 DEF Free
    <2> QED BY <2>1 DEF ExportInv
  <1>3. /\ j.nth \in Nat /\ j.cursor \in Nat /\ j.rows \in Seq(Nat \X Nat) /\ old \in Nat
        /\ j.goal \subseteq points /\ RowsRight(j.rows)
        /\ j.nth \in 1 .. Len(Keys) /\ RangeStart < j.cursor /\ j.cursor <= RangeEnd
        /\ \A i \in 1 .. old : Passed(j, j.rows[i])
        /\ \A p \in Owed(j.goal) : Passed(j, p) => \E i \in 1 .. old : j.rows[i] = p
    BY <1>1, <1>2 DEF ExportJobs, ExportOk
  <1>4. /\ page \in SUBSET (RangeStart .. j.cursor) /\ IsFiniteSet(page) /\ page \in SUBSET Nat
        /\ \A ts \in RangeStart .. j.cursor : <<k, ts>> \in points /\ ts \notin page =>
             Cardinality(page) = PageSize /\ \A later \in page : ts < later
    <2>1. RangeStart \in Nat /\ j.cursor \in Nat BY <1>3, ExportNumbers
    <2>2. PICK c \in Nat : c = j.cursor BY <2>1
    <2>3. /\ Page(k, RangeStart, c) \in SUBSET (RangeStart .. c)
          /\ IsFiniteSet(Page(k, RangeStart, c))
          /\ \A ts \in RangeStart .. c : <<k, ts>> \in points /\ ts \notin Page(k, RangeStart, c) =>
               /\ Cardinality(Page(k, RangeStart, c)) = PageSize
               /\ \A later \in Page(k, RangeStart, c) : ts < later
      <3> HIDE DEF k
      <3> QED BY <2>1, PageIs
    <2>4. RangeStart .. c \in SUBSET Nat BY <2>1
    <2> HIDE DEF k, j
    <2> QED BY <2>2, <2>3, <2>4
  <1> HIDE DEF page
  <1>5. /\ new \in Seq(Nat \X Nat) /\ Len(new) = Cardinality(page)
        /\ \A i \in 1 .. Len(new) : new[i] = <<j.nth, new[i][2]>> /\ new[i][2] \in page
        /\ \A i, l \in 1 .. Len(new) : new[i] = new[l] => i = l
        /\ \A x \in page : \E i \in 1 .. Len(new) : new[i] = <<j.nth, x>>
    <2>1. PICK n \in Nat : n = j.nth BY <1>3
    <2>2. PICK S \in SUBSET Nat : S = page /\ IsFiniteSet(S) BY <1>4
    <2>3. PICK r : r = new OBVIOUS
    <2>4. r = PageRows(n, S) BY <2>1, <2>2, <2>3
    <2> HIDE DEF new, j
    <2>5. RowsOf(r, n, S) BY <2>2, <2>4, PageRowsAre
    <2> QED BY <2>1, <2>2, <2>3, <2>5 DEF RowsOf
  <1> HIDE DEF new
  <1>6. /\ rows \in Seq(Nat \X Nat) /\ all = old + Len(new) /\ all \in Nat
        /\ \A i \in 1 .. old : i \in 1 .. all /\ rows[i] = j.rows[i]
        /\ \A i \in 1 .. Len(new) : old + i \in 1 .. all /\ rows[old + i] = new[i]
        /\ \A i \in 1 .. all :
             \/ i \in 1 .. old /\ rows[i] = j.rows[i]
             \/ i - old \in 1 .. Len(new) /\ rows[i] = new[i - old]
    <2>1. PICK s \in Seq(Nat \X Nat) : s = j.rows BY <1>3
    <2>2. rows = s \o new BY <2>1
    <2>3. PICK r : r = rows OBVIOUS
    <2>4. /\ r \in Seq(Nat \X Nat) /\ Len(r) = Len(s) + Len(new)
          /\ \A i \in 1 .. Len(s) : i \in 1 .. Len(r) /\ r[i] = s[i]
          /\ \A i \in 1 .. Len(new) : Len(s) + i \in 1 .. Len(r) /\ r[Len(s) + i] = new[i]
          /\ \A i \in 1 .. Len(r) :
               \/ i \in 1 .. Len(s) /\ r[i] = s[i]
               \/ i - Len(s) \in 1 .. Len(new) /\ r[i] = new[i - Len(s)]
      <3>1. PICK u \in Seq(Nat \X Nat) : u = new BY <1>5
      <3>2. r = s \o u BY <2>2, <2>3, <3>1
      <3>3. /\ r \in Seq(Nat \X Nat) /\ Len(r) = Len(s) + Len(u)
            /\ \A i \in 1 .. Len(s) : i \in 1 .. Len(r) /\ r[i] = s[i]
            /\ \A i \in 1 .. Len(u) : Len(s) + i \in 1 .. Len(r) /\ r[Len(s) + i] = u[i]
            /\ \A i \in 1 .. Len(r) :
                 \/ i \in 1 .. Len(s) /\ r[i] = s[i]
                 \/ i - Len(s) \in 1 .. Len(u) /\ r[i] = u[i - Len(s)]
        <4> HIDE DEF rows, j
        <4> DEFINE T == Nat \X Nat
        <4>1. s \in Seq(T) /\ u \in Seq(T) OBVIOUS
        <4> HIDE DEF T
        <4>2. /\ r \in Seq(T) /\ Len(r) = Len(s) + Len(u)
              /\ \A i \in 1 .. Len(s) : i \in 1 .. Len(r) /\ r[i] = s[i]
              /\ \A i \in 1 .. Len(u) : Len(s) + i \in 1 .. Len(r) /\ r[Len(s) + i] = u[i]
              /\ \A i \in 1 .. Len(r) :
                   \/ i \in 1 .. Len(s) /\ r[i] = s[i]
                   \/ i - Len(s) \in 1 .. Len(u) /\ r[i] = u[i - Len(s)]
          BY <3>2, <4>1, Longer
        <4> QED BY <4>2 DEF T
      <3> QED BY <3>1, <3>3
    <2>5. Len(r) \in Nat BY <2>4
    <2> QED BY <2>1, <2>3, <2>4, <2>5
  <1> HIDE DEF rows
  <1>7. RowsRight(rows)
    <2>1. ASSUME NEW i \in 1 .. all, NEW l \in 1 .. all, rows[i] = rows[l] PROVE i = l
      <3>1. CASE i \in 1 .. old /\ rows[i] = j.rows[i] /\ l \in 1 .. old /\ rows[l] = j.rows[l]
        BY <1>3, <2>1, <3>1 DEF RowsRight
      <3>2. CASE /\ i - old \in 1 .. Len(new) /\ rows[i] = new[i - old]
                 /\ l - old \in 1 .. Len(new) /\ rows[l] = new[l - old]
        <4>1. i - old = l - old BY <1>5, <2>1, <3>2
        <4> QED BY <1>3, <1>6, <4>1
      <3>3. ASSUME NEW a \in 1 .. old, NEW b \in 1 .. Len(new), j.rows[a] = new[b] PROVE FALSE
        <4>1. Passed(j, j.rows[a]) BY <1>3
        <4>2. new[b] = <<j.nth, new[b][2]>> /\ new[b][2] \in page BY <1>5
        <4>3. new[b][2] <= j.cursor /\ new[b][2] \in Nat
          <5>1. new[b][2] \in RangeStart .. j.cursor /\ new[b][2] \in Nat BY <1>4, <4>2
          <5> HIDE DEF j
          <5> QED BY <1>3, <5>1, ExportNumbers
        <4>4. new[b][1] = j.nth BY <4>2
        <4>5. new[b][1] < j.nth \/ j.cursor < new[b][2] BY <3>3, <4>1 DEF Passed
        <4> HIDE DEF j
        <4> QED BY <1>3, <4>3, <4>4, <4>5
      <3> QED BY <1>6, <2>1, <3>1, <3>2, <3>3
    <2>2. ASSUME NEW i \in 1 .. all PROVE RangeStart <= rows[i][2] /\ rows[i][2] <= RangeEnd
      <3>1. CASE i \in 1 .. old /\ rows[i] = j.rows[i] BY <1>3, <3>1 DEF RowsRight
      <3>2. CASE i - old \in 1 .. Len(new) /\ rows[i] = new[i - old]
        <4>1. rows[i][2] \in page BY <1>5, <3>2
        <4>2. rows[i][2] \in RangeStart .. j.cursor BY <1>4, <4>1
        <4> HIDE DEF j
        <4> QED BY <1>3, <4>2, ExportNumbers
      <3> QED BY <1>6, <3>1, <3>2
    <2> QED BY <2>1, <2>2 DEF RowsRight
  \* what has been passed before or is on the page is among the rows
  <1>8. ASSUME NEW p \in Owed(j.goal),
               Passed(j, p) \/ (p[1] = j.nth /\ p[2] \in page)
        PROVE  \E i \in 1 .. all : rows[i] = p
    <2>1. CASE Passed(j, p)
      <3>1. PICK i \in 1 .. old : j.rows[i] = p BY <1>3, <2>1
      <3> QED BY <1>6, <3>1
    <2>2. CASE p[1] = j.nth /\ p[2] \in page
      <3>1. p = <<j.nth, p[2]>>
        <4>1. p = <<p[1], p[2]>> BY ExportNumbers
        <4> QED BY <2>2, <4>1
      <3>2. PICK i \in 1 .. Len(new) : new[i] = <<j.nth, p[2]>> BY <1>5, <2>2
      <3>3. old + i \in 1 .. all /\ rows[old + i] = p BY <1>6, <3>1, <3>2
      <3> QED BY <3>3
    <2> QED BY <1>8, <2>1, <2>2
  \* and what is owed of this key and not among them lies before the page, which is full
  <1>9. ASSUME NEW p \in Owed(j.goal), p[1] = j.nth, p[2] <= j.cursor, p[2] \notin page
        PROVE  Cardinality(page) = PageSize /\ \A later \in page : p[2] < later
    <2>1. /\ <<Keys[p[1]], p[2]>> \in j.goal /\ p[2] \in Nat /\ RangeStart < p[2]
      BY ExportNumbers
    <2>2. <<k, p[2]>> \in points BY <1>3, <1>9, <2>1
    <2>3. p[2] \in RangeStart .. j.cursor BY <1>3, <1>9, <2>1, ExportNumbers
    <2> QED BY <1>4, <1>9, <2>2, <2>3
  <1>10. \A i \in 1 .. all :
           rows[i][1] < j.nth \/ (rows[i][1] = j.nth /\ (j.cursor < rows[i][2] \/ rows[i][2] \in page))
    <2> TAKE i \in 1 .. all
    <2>1. CASE i \in 1 .. old /\ rows[i] = j.rows[i] BY <1>3, <2>1 DEF Passed
    <2>2. CASE i - old \in 1 .. Len(new) /\ rows[i] = new[i - old]
      <3>1. rows[i] = <<j.nth, rows[i][2]>> /\ rows[i][2] \in page BY <1>5, <2>2
      <3> QED BY <3>1
    <2> QED BY <1>6, <2>1, <2>2
  <1> HIDE DEF all, old, k
  <1>11. ASSUME NEW i \in ExportJobs, Become(t, i), ExportOk(i) PROVE ExportInv'
    BY <1>1, <1>11, ExportGoesOn
  <1>12. CASE /\ all >= MaxRows
              /\ Become(t, [j EXCEPT !.pc = "capped", !.rows = SubSeq(rows, 1, MaxRows)])
    <2> DEFINE cut == SubSeq(rows, 1, MaxRows)
               i == [j EXCEPT !.pc = "capped", !.rows = cut]
    <2>1. MaxRows \in Nat /\ 1 .. MaxRows \subseteq 1 .. all
      BY <1>6, <1>12, ExportNumbers
    <2>2. /\ cut \in Seq(Nat \X Nat) /\ Len(cut) = MaxRows
          /\ \A n \in 1 .. MaxRows : cut[n] = rows[n]
      <3>1. \A n \in 1 .. MaxRows : rows[n] \in Nat \X Nat
        BY <1>6, <2>1 DEF all
      <3>2. 1 \in Int /\ MaxRows \in Int /\ 1 <= MaxRows BY ExportNumbers
      <3>3. /\ cut \in Seq(Nat \X Nat)
            /\ Len(cut) = IF 1 <= MaxRows THEN MaxRows - 1 + 1 ELSE 0
            /\ \A n \in 1 .. (MaxRows - 1 + 1) : cut[n] = rows[1 + n - 1]
        BY <3>1, <3>2, SubSeqProperties
      <3> HIDE DEF cut
      <3> QED BY <3>2, <3>3
    <2> HIDE DEF cut
    <2>3. i \in ExportJobs /\ i.pc = "capped" /\ i.rows = cut /\ i.goal = j.goal
      BY <1>2, <2>2 DEF ExportJobs
    <2>4. RowsRight(cut)
      <3>1. \A n \in 1 .. MaxRows : n \in 1 .. all BY <2>1
      <3>2. /\ \A n, m \in 1 .. all : rows[n] = rows[m] => n = m
            /\ \A n \in 1 .. all : RangeStart <= rows[n][2] /\ rows[n][2] <= RangeEnd
        BY <1>7 DEF RowsRight, all
      <3> QED BY <2>2, <3>1, <3>2 DEF RowsRight
    <2>5. ExportOk(i) BY <1>3, <2>3, <2>4 DEF ExportOk
    <2> HIDE DEF i
    <2> QED BY <1>11, <1>12, <2>3, <2>5 DEF i, cut
  <1>13. CASE /\ all < MaxRows /\ MorePages(page)
              /\ Become(t, [j EXCEPT !.rows = rows, !.cursor = NextCursor(page)])
    <2> DEFINE c == NextCursor(page)
               i == [j EXCEPT !.rows = rows, !.cursor = c]
    <2>1. Cardinality(page) = PageSize /\ RangeStart < c BY <1>13 DEF MorePages
    <2>2. page # {} BY <2>1, FS_EmptySet, ExportNumbers
    <2>3. /\ Oldest(page) \in page /\ \A m \in page : Oldest(page) <= m
      BY <1>4, <2>2, OldestIs
    <2>4. PICK o \in Nat : o = Oldest(page) /\ o \in page /\ o <= j.cursor /\ c = o - 1
      <3>1. Oldest(page) \in Nat /\ Oldest(page) \in RangeStart .. j.cursor BY <1>4, <2>3
      <3>2. Oldest(page) <= j.cursor
        <4> HIDE DEF j
        <4> QED BY <1>3, <3>1, ExportNumbers
      <3> QED BY <2>3, <3>1, <3>2 DEF NextCursor
    <2> HIDE DEF c
    <2>5. c \in Nat /\ c <= RangeEnd /\ c < j.cursor
      <3> HIDE DEF j
      <3> QED BY <1>3, <2>1, <2>4, ExportNumbers
    <2>6. /\ i \in ExportJobs /\ i.pc = "page" /\ i.rows = rows /\ i.goal = j.goal
          /\ i.nth = j.nth /\ i.cursor = c
      BY <1>1, <1>2, <1>6, <2>5 DEF ExportJobs
    <2> HIDE DEF i
    <2>7. ASSUME NEW n \in 1 .. all PROVE Passed(i, rows[n])
      <3>1. CASE rows[n][1] < j.nth BY <2>6, <3>1 DEF Passed
      <3>2. CASE rows[n][1] = j.nth /\ (j.cursor < rows[n][2] \/ rows[n][2] \in page)
        <4>1. rows[n][2] \in Nat BY <1>6 DEF all
        <4>2. c < rows[n][2]
          <5>1. rows[n][2] \in page => o <= rows[n][2] BY <2>3, <2>4
          <5> HIDE DEF j
          <5> QED BY <1>3, <2>4, <2>5, <3>2, <4>1, <5>1
        <4> QED BY <2>6, <3>2, <4>2 DEF Passed
      <3> QED BY <1>10, <3>1, <3>2
    <2>8. ASSUME NEW p \in Owed(j.goal), Passed(i, p)
          PROVE  \E n \in 1 .. all : rows[n] = p
      <3>1. p[2] \in Nat BY ExportNumbers
      <3>2. CASE p[1] < j.nth BY <1>8, <3>2 DEF Passed
      <3>3. CASE p[1] = j.nth /\ c < p[2]
        <4>1. CASE j.cursor < p[2] BY <1>8, <3>3, <4>1 DEF Passed
        <4>2. CASE p[2] \in page BY <1>8, <3>3, <4>2
        <4>3. CASE p[2] <= j.cursor /\ p[2] \notin page
          <5>1. p[2] < o BY <1>9, <2>4, <3>3, <4>3
          <5> QED BY <2>4, <3>1, <3>3, <5>1
        <4>4. j.cursor < p[2] \/ p[2] <= j.cursor
          <5> HIDE DEF j
          <5> QED BY <1>3, <3>1
        <4> QED BY <4>1, <4>2, <4>3, <4>4
      <3> QED BY <2>6, <2>8, <3>2, <3>3 DEF Passed
    <2>9. ExportOk(i)
      BY <1>3, <1>7, <2>1, <2>5, <2>6, <2>7, <2>8 DEF ExportOk, all
    <2> QED BY <1>11, <1>13, <2>6, <2>9 DEF i, c
  <1>14. CASE /\ all < MaxRows /\ ~MorePages(page)
              /\ Become(t, [j EXCEPT !.rows = rows, !.cursor = RangeEnd, !.nth = j.nth + 1,
                            !.pc = IF j.nth = Len(Keys) THEN "whole" ELSE "page"])
    <2>1. PICK pc \in {"whole", "page"} : pc = IF j.nth = Len(Keys) THEN "whole" ELSE "page"
      OBVIOUS
    <2>2. PICK n \in Nat : n = j.nth + 1 BY <1>3
    <2> DEFINE i == [j EXCEPT !.rows = rows, !.cursor = RangeEnd, !.nth = n, !.pc = pc]
    <2>3. Become(t, i) BY <1>14, <2>1, <2>2
    <2>4. /\ i \in ExportJobs /\ i.pc = pc /\ i.rows = rows /\ i.goal = j.goal
          /\ i.nth = n /\ i.cursor = RangeEnd
      BY <1>2, <1>6, <2>2, ExportNumbers DEF ExportJobs
    <2> HIDE DEF i
    \* all that is owed of this key has been read
    <2>5. ASSUME NEW p \in Owed(j.goal), p[1] <= j.nth
          PROVE  \E m \in 1 .. all : rows[m] = p
      <3>1. p[1] \in Nat /\ p[2] \in Nat /\ RangeStart < p[2] BY ExportNumbers
      <3>2. CASE p[1] < j.nth BY <1>8, <3>2 DEF Passed
      <3>3. CASE p[1] = j.nth
        <4>1. CASE j.cursor < p[2] BY <1>8, <3>3, <4>1 DEF Passed
        <4>2. CASE p[2] \in page BY <1>8, <3>3, <4>2
        <4>3. CASE p[2] <= j.cursor /\ p[2] \notin page
          <5>1. Cardinality(page) = PageSize /\ \A later \in page : p[2] < later
            BY <1>9, <3>3, <4>3
          <5>2. page # {} BY <5>1, FS_EmptySet, ExportNumbers
          <5>3. Oldest(page) \in page /\ Oldest(page) \in Nat BY <1>4, <5>2, OldestIs
          <5>4. p[2] < Oldest(page) BY <5>1, <5>3
          <5>5. ~(RangeStart < Oldest(page) /\ RangeStart < Oldest(page) - 1)
            BY <1>14, <5>1 DEF MorePages, NextCursor
          <5> QED BY <3>1, <5>3, <5>4, <5>5, ExportNumbers
        <4>4. j.cursor < p[2] \/ p[2] <= j.cursor
          <5> HIDE DEF j
          <5> QED BY <1>3, <3>1
        <4> QED BY <4>1, <4>2, <4>3, <4>4
      <3>4. p[1] < j.nth \/ p[1] = j.nth
        <4> HIDE DEF j
        <4> QED BY <1>3, <2>5, <3>1
      <3> QED BY <3>2, <3>3, <3>4
    <2>6. CASE j.nth = Len(Keys)
      <3>1. \A p \in Owed(j.goal) : p[1] <= j.nth
        <4> TAKE p \in Owed(j.goal)
        <4>1. p[1] \in 1 .. Len(Keys) BY ExportNumbers
        <4> HIDE DEF j
        <4> QED BY <1>3, <2>6, <4>1, ExportNumbers
      <3>2. ExportOk(i) BY <1>3, <1>7, <2>1, <2>4, <2>5, <2>6, <3>1 DEF ExportOk, all
      <3> QED BY <1>11, <2>3, <2>4, <3>2
    <2>7. CASE j.nth # Len(Keys)
      <3>1. n \in 1 .. Len(Keys)
        <4> HIDE DEF j
        <4> QED BY <1>3, <2>2, <2>7, ExportNumbers
      <3>2. ASSUME NEW m \in 1 .. all PROVE Passed(i, rows[m])
        <4>1. rows[m][1] < j.nth \/ rows[m][1] = j.nth BY <1>10
        <4>2. rows[m][1] \in Nat BY <1>6 DEF all
        <4>3. rows[m][1] < n
          <5> HIDE DEF j
          <5> QED BY <1>3, <2>2, <4>1, <4>2
        <4> QED BY <2>4, <4>3 DEF Passed
      <3>3. ASSUME NEW p \in Owed(j.goal), Passed(i, p)
            PROVE  \E m \in 1 .. all : rows[m] = p
        <4>1. p[1] \in Nat /\ p[2] \in Nat /\ p[2] <= RangeEnd BY ExportNumbers
        <4>2. p[1] < n \/ RangeEnd < p[2] BY <2>4, <3>3 DEF Passed
        <4>3. p[1] <= j.nth
          <5> HIDE DEF j
          <5> QED BY <1>3, <2>2, <4>1, <4>2, ExportNumbers
        <4> QED BY <2>5, <4>3
      <3>4. RangeStart < RangeEnd
        <4> HIDE DEF j
        <4> QED BY <1>3, ExportNumbers
      <3>5. pc = "page" BY <2>1, <2>7
      <3>6. RangeEnd <= RangeEnd BY ExportNumbers
      <3>7. ExportOk(i)
        BY <1>3, <1>7, <2>4, <3>1, <3>2, <3>3, <3>4, <3>5, <3>6 DEF ExportOk, all
      <3> QED BY <1>11, <2>3, <2>4, <3>7
    <2> QED BY <2>6, <2>7
  <1> QED BY <1>1, <1>12, <1>13, <1>14

\* an export begins with nothing read, and with nothing owed if there is nothing to read
LEMMA BeginExportStep ==
  ASSUME ExportInv, NEW t \in Threads, BeginExport(t)
  PROVE  ExportInv'
  <1>1. PICK goal : goal = {p \in points : RangeStart <= p[2] /\ p[2] <= RangeEnd} OBVIOUS
  <1>2. PICK pc \in {"page", "whole"} :
          pc = IF Keys # << >> /\ RangeStart < RangeEnd THEN "page" ELSE "whole"
    OBVIOUS
  <1> DEFINE i == [pc |-> pc, nth |-> 1, cursor |-> RangeEnd, rows |-> << >>, goal |-> goal]
  <1>3. Become(t, i) /\ points' = points
    BY <1>1, <1>2 DEF BeginExport, Start, exportVars
  <1>4. goal \subseteq points /\ goal \in SUBSET (KeySet \X (0 .. LastInstant))
    BY <1>1 DEF ExportInv
  <1>5. << >> \in Seq(Nat \X Nat) /\ Len(<< >>) = 0 BY EmptySeq
  <1>6. /\ i \in ExportJobs /\ i.pc = pc /\ i.nth = 1 /\ i.cursor = RangeEnd
        /\ i.rows = << >> /\ i.goal = goal
    BY <1>4, <1>5, ExportNumbers DEF ExportJobs
  <1> HIDE DEF i
  <1>7. /\ RowsRight(i.rows) /\ \A n \in 1 .. Len(i.rows) : FALSE
    BY <1>5, <1>6 DEF RowsRight
  <1>8. \A p \in Owed(goal) :
          /\ Keys # << >> /\ RangeStart < RangeEnd
          /\ ~Passed(i, p)
    <2> TAKE p \in Owed(goal)
    <2>1. /\ p[1] \in 1 .. Len(Keys) /\ p[2] \in Nat /\ RangeStart < p[2] /\ p[2] <= RangeEnd
      BY ExportNumbers
    <2>2. Keys # << >> BY <1>5, <2>1
    <2>3. RangeStart < RangeEnd BY <2>1, ExportNumbers
    <2>4. ~(p[1] < 1) /\ ~(RangeEnd < p[2]) BY <2>1, ExportNumbers
    <2> QED BY <1>6, <2>2, <2>3, <2>4 DEF Passed
  <1>9. pc = "page" => 1 \in 1 .. Len(Keys) /\ RangeStart < RangeEnd /\ RangeEnd <= RangeEnd
    <2> HAVE pc = "page"
    <2>1. Keys # << >> /\ RangeStart < RangeEnd BY <1>2
    <2>2. Len(Keys) \in Nat \ {0} BY <2>1, EmptySeq, ExportAssumption
    <2> QED BY <2>1, <2>2, ExportNumbers
  <1>10. ExportOk(i)
    <2>1. i.pc = "whole" => \A p \in Owed(goal) : FALSE BY <1>2, <1>6, <1>8
    <2> QED BY <1>4, <1>6, <1>7, <1>8, <1>9, <2>1 DEF ExportOk
  <1> QED BY <1>3, <1>6, <1>10, ExportGoesOn

LEMMA ExportAlways == ExportSpec => []ExportInv
  <1>1. HandlersInit /\ ExportInit => ExportInv
    BY DEF HandlersInit, ExportInit, ExportInv, Free
  <1>2. ExportInv /\ [ExportNext]_<<exportVars, handlerVars>> => ExportInv'
    <2> SUFFICES ASSUME ExportInv, [ExportNext]_<<exportVars, handlerVars>>
                 PROVE  ExportInv'
      OBVIOUS
    <2>1. ASSUME NEW k \in KeySet, NEW ts \in 0 .. LastInstant, Report(k, ts) PROVE ExportInv'
      <3>1. points' = points \cup {<<k, ts>>} /\ jobs' = jobs
        BY <2>1 DEF Report, handlerVars
      <3>2. <<k, ts>> \in KeySet \X (0 .. LastInstant) BY <2>1
      <3>3. points \subseteq KeySet \X (0 .. LastInstant) /\ jobs' = [u \in Threads |-> jobs'[u]]
        BY <3>1 DEF ExportInv
      <3> QED BY <3>1, <3>2, <3>3, PointsGrow
    <2>2. ASSUME NEW t \in Threads, BeginExport(t) PROVE ExportInv' BY <2>2, BeginExportStep
    <2>3. ASSUME NEW t \in Threads, ReadPage(t) PROVE ExportInv' BY <2>3, ReadPageStep
    <2>4. ASSUME NEW t \in Threads, Deliver(t) \/ ExportFails(t) PROVE ExportInv'
      <3>1. Become(t, Free) /\ points' = points
        BY <2>4 DEF Deliver, ExportFails, Finish, Killed, exportVars
      <3> QED BY <3>1, ExportGoesOn
    <2>5. CASE UNCHANGED <<exportVars, handlerVars>>
      <3>1. points' = points /\ jobs' = jobs BY <2>5 DEF exportVars, handlerVars
      <3>2. points \subseteq KeySet \X (0 .. LastInstant) /\ jobs' = [u \in Threads |-> jobs'[u]]
        BY <3>1 DEF ExportInv
      <3> QED BY <3>1, <3>2, PointsGrow
    <2> QED BY <2>1, <2>2, <2>3, <2>4, <2>5 DEF ExportNext
  <1> QED BY <1>1, <1>2, PTL DEF ExportSpec

(***************************************************************************)
(* Whatever points arrive between two pages of an export, and for any      *)
(* keys, range and size of page: no point is delivered twice for one       *)
(* mention of its key and none from outside the range, and an export that  *)
(* was not cut off at the cap has every point that was there when it       *)
(* began but those at the very start of the range (iter_rows).             *)
(***************************************************************************)
THEOREM ExportsExact == ExportSpec => []ExportExact
  <1>1. ASSUME ExportInv PROVE ExportExact
    <2>1. ASSUME NEW t \in Threads, jobs[t].pc \in {"capped", "whole"},
                 NEW j, j = jobs[t], NEW got, got = {j.rows[i] : i \in DOMAIN j.rows}
          PROVE  /\ Cardinality(got) = Len(j.rows)
                 /\ \A p \in got : RangeStart <= p[2] /\ p[2] <= RangeEnd
                 /\ j.pc = "whole" => Owed(j.goal) \subseteq got
      <3>1. j \in ExportJobs /\ ExportOk(j)
        <4>1. j # Free BY <2>1 DEF Free
        <4> QED BY <1>1, <2>1, <4>1 DEF ExportInv
      <3>2. PICK s \in Seq(Nat \X Nat) : s = j.rows BY <3>1 DEF ExportJobs
      <3>3. Len(s) \in Nat /\ DOMAIN s = 1 .. Len(s) /\ s \in [1 .. Len(s) -> Nat \X Nat]
        BY LenProperties
      <3>4. got = {s[i] : i \in 1 .. Len(s)} BY <2>1, <3>2, <3>3
      <3>5. RowsRight(s) BY <3>1, <3>2 DEF ExportOk
      <3>6. s \in Surjection(1 .. Len(s), got) /\ s \in Injection(1 .. Len(s), got)
        <4>1. s \in [1 .. Len(s) -> got] BY <3>3, <3>4
        <4>2. IsInjective(s) BY <3>3, <3>5 DEF RowsRight, IsInjective
        <4> QED BY <3>4, <4>1, <4>2 DEF Surjection, Injection
      <3>7. Cardinality(got) = Len(s)
        <4>1. IsFiniteSet(1 .. Len(s)) /\ Cardinality(1 .. Len(s)) = Len(s)
          <5>1. 1 \in Int /\ Len(s) \in Int BY <3>3
          <5>2. /\ IsFiniteSet(1 .. Len(s))
                /\ Cardinality(1 .. Len(s)) = IF 1 > Len(s) THEN 0 ELSE Len(s) - 1 + 1
            BY <5>1, FS_Interval
          <5> QED BY <3>3, <5>2
        <4> QED BY <3>6, <4>1, FS_Surjection
      <3>8. \A p \in got : RangeStart <= p[2] /\ p[2] <= RangeEnd
        BY <3>4, <3>5 DEF RowsRight
      <3>9. j.pc = "whole" => Owed(j.goal) \subseteq got
        BY <3>1, <3>2, <3>4 DEF ExportOk
      <3> QED BY <3>2, <3>7, <3>8, <3>9
    <2> QED BY <2>1 DEF ExportExact, At
  <1> QED BY ExportAlways, <1>1, PTL
=============================================================================
