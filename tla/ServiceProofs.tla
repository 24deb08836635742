--------------------------- MODULE ServiceProofs ----------------------------
(***************************************************************************)
(* Proofs about the services beside the engine: their deployment (Setup),  *)
(* notebooks of deleted projects (Notebooks), LoRaWAN devices and the      *)
(* bridge (Lora); the latter two beside the life of projects               *)
(* (Workspaces).                                                           *)
(***************************************************************************)
EXTENDS Setup, Notebooks, Lora, TLAPS

-----------------------------------------------------------------------------
(* Deployments (module Setup).                                             *)

ScriptPlaces == Things \cup {"adapt", "rotate", "lora", "commit", "done", "stopped", "rejected"}
Editions == [settings : Nat, password : Nat, mail : BOOLEAN, lora : BOOLEAN]
Deployments ==
  [pc : ScriptPlaces, seen : BOOLEAN \cup {None}, stored : BOOLEAN, target : Editions,
   unsure : SUBSET Things]

SetupData ==
  /\ envFile \in {"none", "raw", "ready"}
  /\ edition \in Editions /\ sysadmin \in Nat
  /\ copies \in [Things -> Nat] /\ versions \in [Updated -> Nat]
  /\ tokenStored \in BOOLEAN /\ overlapped \in BOOLEAN /\ faults \in Nat

SetupTypes == jobs \in [Threads -> {Free} \cup Deployments] /\ SetupData

\* a deployment at place has gone past the thing x
Past(x, place) ==
  \/ place = "done"
  \/ place = "page" /\ x # "page"
  \/ place = "monitors" /\ x \notin {"page", "monitors"}
  \/ place \in {"lora", "chirpstack", "key", "commit"} /\ x \notin Lora \cup {"page", "monitors"}
  \/ place \in {"key", "commit"} /\ x = "chirpstack"
  \/ place = "commit" /\ x = "key"
  \/ place = "mail" /\ x \in {"realm", "roles", "clients", "profile", "oauth2", "domain"}
  \/ place = "domain" /\ x \in {"realm", "roles", "clients", "profile", "oauth2"}
  \/ place = "oauth2" /\ x \in {"realm", "roles", "clients", "profile"}
  \/ place = "profile" /\ x \in {"realm", "roles", "clients"}
  \/ place = "clients" /\ x \in {"realm", "roles"}
  \/ place = "roles" /\ x = "realm"

\* what was seen to be there, or known to be stored, still is
Sees(j) ==
  /\ j.pc \in Things /\ j.seen = TRUE => copies[j.pc] > 0 \/ j.pc \in j.unsure
  /\ j.pc \in {"chirpstack", "key", "commit"} /\ j.stored => tokenStored
  /\ j.pc = "commit" => copies["key"] > 0

Single == Unique \cup {"profile"}

ThingsInv ==
  /\ \A x \in Single : copies[x] <= 1
  /\ tokenStored => copies["key"] > 0
  /\ \A t \in Threads : Sees(jobs[t])

\* what a deployment has done that no other one met
Progress(j) ==
  /\ (j.pc = "adapt" \/ envFile = "ready") => j.target = edition
  /\ j.pc \notin {"adapt", "rotate", "stopped", "rejected"} => sysadmin = j.target.password
  /\ j.pc = "rejected" => sysadmin \notin {0, j.target.password} \/ "mail" \in j.unsure
  /\ (j.pc \in {"monitors", "page", "done"} /\ j.target.lora) => tokenStored \/ "key" \in j.unsure
  /\ \A x \in Asked(j.target) \ j.unsure : Past(x, j.pc) =>
       copies[x] > 0 /\ (x \in Updated => versions[x] = j.target.settings)

\* ... what it knows of what is not there
Alone(j) ==
  /\ j.pc \in Things /\ j.seen = FALSE => copies[j.pc] = 0 \/ (j.pc = "mail" /\ "mail" \in j.unsure)
  /\ j.pc \in {"chirpstack", "key", "commit"} /\ tokenStored => j.stored
  /\ Progress(j)

\* ... and how many there are of each thing
Counted(j) ==
  /\ \A x \in Things \ {"key"} : copies[x] <= 1
  /\ copies["key"] <= 1 + faults
  /\ ~tokenStored /\ j.pc # "commit" => copies["key"] <= faults

AloneDeployInv ==
  ~overlapped =>
    \E t \in Threads :
      /\ \A s \in Threads \ {t} : jobs[s].pc = "idle"
      /\ Counted(jobs[t]) /\ (jobs[t].pc # "idle" => Alone(jobs[t]))

SetupInv == SetupTypes /\ ThingsInv /\ AloneDeployInv

LEMMA SetupShape ==
  ASSUME SetupTypes, NEW t \in Threads, jobs[t].pc # "idle"
  PROVE  jobs[t] \in Deployments
  BY DEF SetupTypes, Free

LEMMA DeploymentsKinds ==
  /\ Unique \subseteq Things /\ Updated \subseteq Things /\ Single \subseteq Things \ {"key"}
  /\ {"adapt", "rotate", "lora", "commit", "done", "stopped", "rejected", "idle"} \cap Things = {}
  /\ {"chirpstack", "key"} \subseteq Things
  BY DEF Unique, Single, Updated, Things

\* A deployment under way that no other one met.
LEMMA AloneHere ==
  ASSUME SetupInv, ~overlapped, NEW t \in Threads, jobs[t].pc # "idle"
  PROVE  (\A s \in Threads \ {t} : jobs[s].pc = "idle") /\ Counted(jobs[t]) /\ Alone(jobs[t])
  BY DEF SetupInv, AloneDeployInv

\* One deployment moves: what is to be shown of what it writes and where it is then.
LEMMA DeployMoves ==
  ASSUME SetupInv, NEW t \in Threads, NEW k \in {Free} \cup Deployments,
         jobs' = [jobs EXCEPT ![t] = k], SetupData',
         \A x \in Things : copies'[x] >= copies[x], tokenStored => tokenStored',
         \A x \in Single : copies'[x] <= 1, tokenStored' => copies'["key"] > 0, Sees(k)',
         ~overlapped' => /\ ~overlapped /\ \A s \in Threads \ {t} : jobs[s].pc = "idle"
                         /\ Counted(k)' /\ (k.pc # "idle" => Alone(k)')
  PROVE  SetupInv'
<1>0. SetupTypes /\ ThingsInv
  BY DEF SetupInv
<1>1. jobs'[t] = k /\ (\A s \in Threads \ {t} : jobs'[s] = jobs[s])
      /\ jobs' \in [Threads -> {Free} \cup Deployments]
  BY <1>0 DEF SetupTypes
<1>2. SetupTypes'
  BY <1>1 DEF SetupTypes
<1>3. ThingsInv'
  <2>1. ASSUME NEW s \in Threads \ {t} PROVE Sees(jobs[s])'
    <3>1. \A x \in Things : copies[x] \in Nat /\ copies'[x] \in Nat
      BY <1>0 DEF SetupTypes, SetupData
    <3>2. Sees(jobs[s]) /\ jobs'[s] = jobs[s]
      BY <1>0, <1>1 DEF ThingsInv
    <3> QED BY <3>1, <3>2, DeploymentsKinds DEF Sees
  <2>2. Sees(jobs[t])'
    BY <1>1 DEF Sees
  <2> QED BY <2>1, <2>2 DEF ThingsInv
<1>4. AloneDeployInv'
  <2> SUFFICES ASSUME ~overlapped' PROVE AloneDeployInv'
    BY DEF AloneDeployInv
  <2>1. Counted(jobs[t])' /\ (jobs'[t].pc # "idle" => Alone(jobs[t])')
    BY <1>1 DEF Counted, Alone, Progress
  <2> QED BY <1>1, <2>1 DEF AloneDeployInv
<1> QED BY <1>2, <1>3, <1>4 DEF SetupInv

\* A deployment goes on, is refused or fails, and nothing is written by it.
LEMMA DeployGoesOn ==
  ASSUME SetupInv, NEW t \in Threads, jobs[t].pc # "idle", NEW k \in {Free} \cup Deployments,
         jobs' = [jobs EXCEPT ![t] = k], UNCHANGED <<edition, services, overlapped>>,
         faults' \in Nat, faults' >= faults,
         envFile' \in {"none", "raw", "ready"},
         Sees(k)',
         ~overlapped => /\ k.pc = "commit" => jobs[t].pc = "commit"
                        /\ jobs[t].pc = "commit" => k.pc = "commit" \/ faults' > faults
                        /\ k.pc # "idle" => Alone(k)'
  PROVE  SetupInv'
<1>0. SetupTypes /\ ThingsInv
  BY DEF SetupInv
<1>1. SetupData' /\ UNCHANGED <<copies, versions, sysadmin, tokenStored, edition, overlapped>>
  BY <1>0 DEF SetupTypes, SetupData, services
<1>2. \A x \in Things : copies'[x] >= copies[x]
  BY <1>0, <1>1 DEF SetupTypes, SetupData
<1>3. ~overlapped => (\A s \in Threads \ {t} : jobs[s].pc = "idle") /\ Counted(k)'
  <2>1. copies["key"] \in Nat /\ faults \in Nat
    BY <1>0, DeploymentsKinds DEF SetupTypes, SetupData
  <2>2. ~overlapped => (\A s \in Threads \ {t} : jobs[s].pc = "idle") /\ Counted(jobs[t])
    BY AloneHere
  <2> QED BY <1>1, <2>1, <2>2 DEF Counted
<1>4. /\ \A x \in Single : copies'[x] <= 1
      /\ tokenStored => tokenStored' /\ (tokenStored' => copies'["key"] > 0)
  BY <1>0, <1>1 DEF ThingsInv
<1>5. ~overlapped' => /\ ~overlapped /\ \A s \in Threads \ {t} : jobs[s].pc = "idle"
                      /\ Counted(k)' /\ (k.pc # "idle" => Alone(k)')
  BY <1>1, <1>3
<1> QED BY <1>1, <1>2, <1>4, <1>5, DeployMoves

\* One deployment looks, and nothing else happens.
LEMMA FindStep ==
  ASSUME SetupInv, NEW t \in Threads, NEW x \in Things, Find(t, x)
  PROVE  SetupInv'
<1>0. SetupTypes
  BY DEF SetupInv
<1>1. jobs[t] \in Deployments /\ jobs[t].pc = x /\ x # "idle" /\ UNCHANGED <<setupVars, faults>>
  BY <1>0, SetupShape, DeploymentsKinds DEF Find, At
<1> DEFINE see == copies[x] > 0
<1>2. PICK k : k = [jobs[t] EXCEPT !.seen = see] /\ jobs' = [jobs EXCEPT ![t] = k]
  BY <1>0 DEF Find, SetupTypes
<1>3. /\ k \in Deployments /\ k.pc = x /\ k.target = jobs[t].target
      /\ k.stored = jobs[t].stored /\ k.unsure = jobs[t].unsure
      /\ k.seen = TRUE => copies[x] > 0
      /\ k.seen = FALSE => copies[x] = 0
  <2>1. see \in BOOLEAN /\ copies[x] \in Nat
    BY <1>0 DEF SetupTypes, SetupData
  <2>2. see = TRUE => copies[x] > 0
    OBVIOUS
  <2>3. see = FALSE => copies[x] = 0
    BY <2>1
  <2> HIDE DEF see
  <2> QED BY <1>1, <1>2, <2>1, <2>2, <2>3 DEF Deployments
<1> HIDE DEF see
<1>4. /\ UNCHANGED <<envFile, edition, services, overlapped>>
      /\ UNCHANGED <<sysadmin, copies, versions, tokenStored>>
      /\ faults' \in Nat /\ faults' >= faults /\ envFile' \in {"none", "raw", "ready"}
  BY <1>0, <1>1 DEF setupVars, services, SetupTypes, SetupData
<1>5. Sees(jobs[t])
  BY DEF SetupInv, ThingsInv
<1>6. Sees(k)'
  BY <1>1, <1>3, <1>4, <1>5 DEF Sees
<1>7. ASSUME ~overlapped PROVE Alone(k)'
  <2>1. Alone(jobs[t])
    BY <1>1, <1>7, AloneHere
  <2>2. Progress(k)'
    BY <1>1, <1>3, <1>4, <2>1 DEF Alone, Progress
  <2> QED BY <1>1, <1>3, <1>4, <2>1, <2>2 DEF Alone
<1>8. jobs[t].pc # "commit" /\ k.pc # "commit"
  BY <1>1, <1>3, DeploymentsKinds
<1> QED BY <1>1, <1>2, <1>3, <1>4, <1>6, <1>7, <1>8, DeployGoesOn

\* What a write leaves behind.
LEMMA WriteMoves ==
  ASSUME SetupInv, NEW t \in Threads, NEW x \in Things \ {"key"}, jobs[t].pc = x, jobs[t].seen # None,
         Wrote(t, x), ~Clashes(t, x), UNCHANGED <<envFile, edition, sysadmin, tokenStored, overlapped>>,
         faults' \in Nat
  PROVE  /\ SetupData'
         /\ \A y \in Things : copies'[y] >= copies[y] /\ (y # x => copies'[y] = copies[y])
         /\ \A y \in Single : copies'[y] <= 1
         /\ copies'[x] > 0 \/ x \in jobs[t].unsure
         /\ \A y \in Updated : versions'[y] = IF y = x THEN jobs[t].target.settings ELSE versions[y]
         /\ tokenStored' => copies'["key"] > 0
         /\ ~overlapped => copies'[x] <= 1
<1>0. SetupTypes /\ ThingsInv /\ SetupData
  BY DEF SetupInv, SetupTypes
<1>1. jobs[t] \in Deployments
  BY <1>0, SetupShape, DeploymentsKinds
<1>2. jobs[t].seen \in BOOLEAN /\ jobs[t].target.settings \in Nat
  BY <1>1 DEF Deployments, Editions
<1>3. copies \in [Things -> Nat] /\ copies[x] \in Nat /\ versions \in [Updated -> Nat]
  BY <1>0 DEF SetupData
<1> DEFINE n == IF jobs[t].seen THEN copies[x] ELSE IF x = "profile" THEN 1 ELSE copies[x] + 1
<1>4. copies' = [copies EXCEPT ![x] = n]
  BY <1>3 DEF Wrote
<1>5. x \in Single => copies[x] <= 1
  BY <1>0 DEF ThingsInv
<1>6. (~jobs[t].seen /\ x \in Unique) => copies[x] = 0
  BY <1>3 DEF Clashes
<1>7. (~overlapped /\ ~jobs[t].seen) => copies[x] = 0 \/ x = "mail"
  BY <1>2, AloneHere, DeploymentsKinds DEF Alone
<1>8. /\ n \in Nat /\ n >= copies[x] /\ (x \in Single => n <= 1)
      /\ ~jobs[t].seen => n > 0
      /\ jobs[t].seen => n = copies[x]
  BY <1>2, <1>3, <1>5, <1>6 DEF Single
<1>9. ~overlapped => n <= 1
  <2>1. ~overlapped => copies[x] <= 1
    BY AloneHere, DeploymentsKinds DEF Counted
  <2>2. "mail" \in Unique
    BY DEF Unique
  <2> QED BY <1>2, <1>3, <1>6, <1>7, <2>1, <2>2
<1> HIDE DEF n
<1>10. /\ copies' \in [Things -> Nat] /\ copies'[x] = n
       /\ \A y \in Things \ {x} : copies'[y] = copies[y]
  BY <1>3, <1>4, <1>8
<1>11. versions' \in [Updated -> Nat]
       /\ \A y \in Updated : versions'[y] = IF y = x THEN jobs[t].target.settings ELSE versions[y]
  BY <1>2, <1>3 DEF Wrote
<1>12. SetupData'
  BY <1>0, <1>10, <1>11 DEF SetupData
<1>13. \A y \in Things : copies[y] \in Nat
  BY <1>3
<1>14. copies'[x] > 0 \/ x \in jobs[t].unsure
  <2>1. jobs[t].seen => copies[x] > 0 \/ x \in jobs[t].unsure
    BY <1>0, <1>2 DEF ThingsInv, Sees
  <2> QED BY <1>2, <1>8, <1>10, <2>1
<1>15. tokenStored' => copies'["key"] > 0
  BY <1>0, <1>10, DeploymentsKinds DEF ThingsInv
<1>16. \A y \in Single : copies'[y] <= 1
  BY <1>0, <1>8, <1>10, DeploymentsKinds DEF ThingsInv
<1>17. \A y \in Things : copies'[y] >= copies[y] /\ (y # x => copies'[y] = copies[y])
  BY <1>8, <1>10, <1>13
<1> QED BY <1>9, <1>10, <1>11, <1>12, <1>14, <1>15, <1>16, <1>17

\* One deployment goes on to next or is refused, with what it writes.
LEMMA WriteStep ==
  ASSUME SetupInv, NEW t \in Threads, NEW x \in Things \ {"key"}, NEW next \in ScriptPlaces, Write(t, x, next),
         next \notin {"adapt", "rotate", "commit", "stopped", "rejected", "chirpstack"},
         next = "key" => x = "chirpstack",
         next \in {"monitors", "page", "done"} => x \in {"monitors", "page"},
         \A y \in Things : Past(y, next) => y = x \/ Past(y, x)
  PROVE  SetupInv'
<1>0. SetupTypes /\ ThingsInv
  BY DEF SetupInv
<1>1. /\ jobs[t] \in Deployments /\ jobs[t].pc = x /\ jobs[t].seen \in BOOLEAN /\ jobs[t].seen # None
      /\ UNCHANGED <<envFile, edition, sysadmin, tokenStored, overlapped, faults>>
      /\ x \notin {"idle", "adapt", "rotate", "stopped", "rejected", "commit"}
  <2>1. jobs[t] \in Deployments
    BY <1>0, SetupShape, DeploymentsKinds DEF Write, At
  <2> QED BY <2>1, DeploymentsKinds DEF Write, At, Deployments
<1>2. ASSUME NEW place \in ScriptPlaces, GoesTo(t, place), NEW k, k = [jobs[t] EXCEPT !.pc = place, !.seen = None]
      PROVE  /\ jobs' = [jobs EXCEPT ![t] = k] /\ k \in Deployments /\ k.pc = place /\ k.seen = None
             /\ k.target = jobs[t].target /\ k.stored = jobs[t].stored /\ k.unsure = jobs[t].unsure
  <2>1. jobs' = [jobs EXCEPT ![t] = k]
    BY <1>0, <1>1, <1>2 DEF GoesTo, SetupTypes, Deployments
  <2> QED BY <1>1, <1>2, <2>1 DEF Deployments
<1>3. ~overlapped => Alone(jobs[t])
  BY <1>1, AloneHere
<1>4. CASE Clashes(t, x)
  <2>1. GoesTo(t, "rejected") /\ UNCHANGED <<copies, versions>> /\ "rejected" \in ScriptPlaces
    BY <1>4 DEF Write, Rejected, ScriptPlaces
  <2>2. PICK k : k = [jobs[t] EXCEPT !.pc = "rejected", !.seen = None]
    OBVIOUS
  <2>3. /\ jobs' = [jobs EXCEPT ![t] = k] /\ k \in Deployments /\ k.pc = "rejected"
        /\ k.target = jobs[t].target /\ k.unsure = jobs[t].unsure
    BY <1>2, <2>1, <2>2
  <2>4. UNCHANGED <<edition, services, overlapped>> /\ faults' \in Nat /\ faults' >= faults
        /\ envFile' \in {"none", "raw", "ready"}
    BY <1>0, <1>1, <2>1 DEF services, SetupTypes, SetupData
  <2>5. Sees(k)'
    BY <2>3, DeploymentsKinds DEF Sees
  <2>6. ASSUME ~overlapped PROVE Alone(k)'
    <3>1. "mail" \in jobs[t].unsure
      BY <1>0, <1>1, <1>3, <1>4, <2>6 DEF Alone, Clashes, SetupTypes, SetupData
    <3>2. \A y \in Things : ~Past(y, "rejected")
      BY DEF Past
    <3>3. Progress(k)'
      BY <1>1, <1>3, <2>3, <2>6, <3>1, <3>2 DEF Alone, Progress, Asked
    <3> QED BY <2>3, <3>3, DeploymentsKinds DEF Alone
  <2> QED BY <1>1, <2>3, <2>4, <2>5, <2>6, DeployGoesOn
<1>5. CASE ~Clashes(t, x)
  <2>1. GoesTo(t, next) /\ Wrote(t, x)
    BY <1>5 DEF Write
  <2>2. PICK k : k = [jobs[t] EXCEPT !.pc = next, !.seen = None]
    OBVIOUS
  <2>3. /\ jobs' = [jobs EXCEPT ![t] = k] /\ k \in Deployments /\ k.pc = next /\ k.seen = None
        /\ k.target = jobs[t].target /\ k.stored = jobs[t].stored /\ k.unsure = jobs[t].unsure
    BY <1>2, <2>1, <2>2
  <2>4. faults' \in Nat
    BY <1>0, <1>1 DEF SetupTypes, SetupData
  <2>5. /\ SetupData'
        /\ \A y \in Things : copies'[y] >= copies[y] /\ (y # x => copies'[y] = copies[y])
        /\ \A y \in Single : copies'[y] <= 1
        /\ copies'[x] > 0 \/ x \in jobs[t].unsure
        /\ \A y \in Updated : versions'[y] = IF y = x THEN jobs[t].target.settings ELSE versions[y]
        /\ tokenStored' => copies'["key"] > 0
        /\ ~overlapped => copies'[x] <= 1
    BY <1>1, <1>5, <2>1, <2>4, WriteMoves
  <2>6. Sees(k)'
    <3>1. Sees(jobs[t])
      BY <1>0 DEF ThingsInv
    <3> QED BY <1>1, <2>3, <3>1, SetupAssumption DEF Sees
  <2>7. ASSUME ~overlapped
        PROVE  (\A s \in Threads \ {t} : jobs[s].pc = "idle") /\ Counted(k)' /\ Alone(k)'
    <3>1. (\A s \in Threads \ {t} : jobs[s].pc = "idle") /\ Counted(jobs[t])
      BY <1>1, <2>7, AloneHere
    <3>2. Counted(k)'
      BY <1>1, <2>3, <2>5, <2>7, <3>1, DeploymentsKinds DEF Counted
    <3>3. \A y \in Asked(k.target) \ k.unsure : Past(y, next) =>
            copies'[y] > 0 /\ (y \in Updated => versions'[y] = k.target.settings)
      <4>1. ASSUME NEW y \in Asked(k.target) \ k.unsure, Past(y, next)
            PROVE  copies'[y] > 0 /\ (y \in Updated => versions'[y] = k.target.settings)
        <5>1. CASE y = x
          BY <2>3, <2>5, <4>1, <5>1
        <5>2. CASE y # x
          <6>1. y \in Things /\ Past(y, x)
            BY <4>1, <5>2 DEF Asked
          <6>2. copies[y] > 0 /\ (y \in Updated => versions[y] = k.target.settings)
            BY <1>1, <1>3, <2>3, <2>7, <4>1, <6>1 DEF Alone, Progress
          <6> QED BY <2>5, <5>2, <6>1, <6>2
        <5> QED BY <5>1, <5>2
      <4> QED BY <4>1
    <3>4. Progress(k)'
      BY <1>1, <1>3, <2>3, <2>7, <3>3 DEF Alone, Progress
    <3>5. Alone(k)'
      BY <1>1, <1>3, <2>3, <2>7, <3>4, SetupAssumption DEF Alone
    <3> QED BY <3>1, <3>2, <3>5
  <2> QED BY <1>1, <2>3, <2>5, <2>6, <2>7, DeployMoves
<1> QED BY <1>4, <1>5

\* mail settings and LoRaWAN are passed over
LEMMA SkipStep ==
  ASSUME SetupInv, NEW t \in Threads, NEW next \in {"lora", "monitors"}, Skip(t, next),
         \/ jobs[t].pc = "mail" /\ ~jobs[t].target.mail /\ next = "lora"
         \/ jobs[t].pc = "lora" /\ ~jobs[t].target.lora /\ next = "monitors"
  PROVE  SetupInv'
<1>0. SetupTypes
  BY DEF SetupInv
<1>1. jobs[t] \in Deployments /\ jobs[t].pc \notin {"idle", "commit", "adapt", "rotate", "rejected", "stopped"}
  BY <1>0, SetupShape
<1>2. PICK k : k = [jobs[t] EXCEPT !.pc = next, !.seen = None]
  OBVIOUS
<1>3. /\ jobs' = [jobs EXCEPT ![t] = k] /\ k \in Deployments /\ k.pc = next /\ k.seen = None
      /\ k.target = jobs[t].target /\ k.unsure = jobs[t].unsure
  <2>1. jobs' = [jobs EXCEPT ![t] = k]
    BY <1>0, <1>1, <1>2 DEF Skip, GoesTo, SetupTypes, Deployments
  <2>2. next \in ScriptPlaces
    BY DEF ScriptPlaces, Things
  <2> QED BY <1>1, <1>2, <2>1, <2>2 DEF Deployments
<1>4. /\ UNCHANGED <<envFile, edition, services, overlapped>>
      /\ UNCHANGED <<sysadmin, copies, versions, tokenStored>>
      /\ faults' \in Nat /\ faults' >= faults /\ envFile' \in {"none", "raw", "ready"}
  BY <1>0 DEF Skip, setupVars, services, SetupTypes, SetupData
<1>5. Sees(k)'
  BY <1>3, SetupAssumption DEF Sees
<1>6. ASSUME ~overlapped PROVE Alone(k)'
  <2>1. Alone(jobs[t])
    BY <1>1, <1>6, AloneHere
  <2>2. \A y \in Asked(k.target) : Past(y, next) => Past(y, jobs[t].pc)
    <3>1. \A y \in Things : Past(y, "lora") => Past(y, "mail") \/ y = "mail"
      BY DEF Past, Things, Lora
    <3>2. \A y \in Things : Past(y, "monitors") => Past(y, "lora") \/ y \in Lora
      BY DEF Past, Things, Lora
    <3> QED BY <1>3, <3>1, <3>2 DEF Asked
  <2>3. Progress(k)'
    BY <1>1, <1>3, <1>4, <2>1, <2>2 DEF Alone, Progress
  <2> QED BY <1>3, <2>3, SetupAssumption DEF Alone
<1> QED BY <1>1, <1>3, <1>4, <1>5, <1>6, DeployGoesOn

LEMMA EnsureSteps ==
  ASSUME SetupInv, NEW t \in Threads,
         \/ EnsureRealm(t) \/ EnsureRealmRoles(t) \/ EnsureClient(t) \/ EnsureUserProfile(t)
         \/ EnsureOauth2Client(t) \/ EnsureDomain(t) \/ ConfigureMail(t)
         \/ EnsureChirpstack(t) \/ EnsureMonitors(t) \/ PublishPage(t)
  PROVE  SetupInv'
<1>1. CASE EnsureRealm(t)
  BY <1>1, FindStep, WriteStep DEF EnsureRealm, Ensure, Past, Things, ScriptPlaces, Lora
<1>2. CASE EnsureRealmRoles(t)
  BY <1>2, FindStep, WriteStep DEF EnsureRealmRoles, Ensure, Past, Things, ScriptPlaces, Lora
<1>3. CASE EnsureClient(t)
  BY <1>3, FindStep, WriteStep DEF EnsureClient, Ensure, Past, Things, ScriptPlaces, Lora
<1>4. CASE EnsureUserProfile(t)
  BY <1>4, FindStep, WriteStep DEF EnsureUserProfile, Ensure, Past, Things, ScriptPlaces, Lora
<1>5. CASE EnsureOauth2Client(t)
  BY <1>5, FindStep, WriteStep DEF EnsureOauth2Client, Ensure, Past, Things, ScriptPlaces, Lora
<1>6. CASE EnsureDomain(t)
  BY <1>6, FindStep, WriteStep DEF EnsureDomain, Ensure, Past, Things, ScriptPlaces, Lora
<1>7. CASE ConfigureMail(t)
  <2>1. CASE jobs[t].target.mail
    BY <1>7, <2>1, FindStep, WriteStep DEF ConfigureMail, Ensure, Past, Things, ScriptPlaces, Lora
  <2>2. CASE ~jobs[t].target.mail
    BY <1>7, <2>2, SkipStep DEF ConfigureMail, At
  <2> QED BY <2>1, <2>2
<1>8. CASE EnsureChirpstack(t)
  BY <1>8, FindStep, WriteStep DEF EnsureChirpstack, Ensure, Past, Things, ScriptPlaces, Lora
<1>9. CASE EnsureMonitors(t)
  BY <1>9, FindStep, WriteStep DEF EnsureMonitors, Ensure, Past, Things, ScriptPlaces, Lora
<1>10. CASE PublishPage(t)
  BY <1>10, FindStep, WriteStep DEF PublishPage, Ensure, Past, Things, ScriptPlaces, Lora
<1> QED BY <1>1, <1>2, <1>3, <1>4, <1>5, <1>6, <1>7, <1>8, <1>9, <1>10

LEMMA BeginDeployStep ==
  ASSUME SetupInv, NEW t \in Threads, BeginDeploy(t)
  PROVE  SetupInv'
<1>0. SetupTypes /\ ThingsInv /\ AloneDeployInv
  BY DEF SetupInv
<1> DEFINE place == IF envFile = "none" THEN "adapt" ELSE "rotate"
           aim == IF envFile = "raw" THEN Unadapted ELSE edition
<1>1. PICK k : /\ k = [pc |-> place, seen |-> None, stored |-> FALSE, target |-> aim, unsure |-> {}]
               /\ jobs' = [jobs EXCEPT ![t] = k]
  BY DEF BeginDeploy
<1>2. /\ envFile' = IF envFile = "none" THEN "raw" ELSE envFile
      /\ UNCHANGED <<edition, sysadmin, copies, versions, tokenStored, faults>>
  BY DEF BeginDeploy, services
<1>3. aim \in Editions /\ place \in {"adapt", "rotate"}
  BY <1>0 DEF SetupTypes, SetupData, Editions, Unadapted
<1>4. (place = "adapt" \/ envFile' = "ready") => aim = edition
  BY <1>0, <1>2 DEF SetupTypes, SetupData
<1>5. /\ overlapped' \in BOOLEAN
      /\ ~overlapped' => ~overlapped /\ \A s \in Threads \ {t} : jobs[s].pc = "idle"
  <2>1. overlapped' = (overlapped \/ {s \in Threads \ {t} : ~At(s, "idle")} # {})
    BY DEF BeginDeploy
  <2> QED BY <1>0, <2>1 DEF At, SetupTypes, SetupData
<1> HIDE DEF place, aim
<1>6. /\ k \in Deployments /\ k.pc = place /\ k.target = aim /\ k.seen = None /\ k.unsure = {}
  BY <1>1, <1>3 DEF Deployments, ScriptPlaces
<1>7. SetupData' /\ \A x \in Things : copies'[x] >= copies[x]
  BY <1>0, <1>2, <1>5 DEF SetupTypes, SetupData
<1>8. Sees(k)'
  BY <1>3, <1>6, DeploymentsKinds DEF Sees
<1>9. ASSUME ~overlapped' PROVE Counted(k)' /\ Alone(k)'
  <2>1. \A x \in Things : ~Past(x, place)
    BY <1>3 DEF Past
  <2>2. Progress(k)'
    BY <1>2, <1>3, <1>4, <1>6, <2>1 DEF Progress, Asked
  <2>3. \A s \in Threads : jobs[s].pc = "idle"
    BY <1>5, <1>9 DEF BeginDeploy, At
  <2>4. PICK s \in Threads : Counted(jobs[s])
    BY <1>0, <1>5, <1>9 DEF AloneDeployInv
  <2>5. Counted(k)'
    BY <1>2, <1>3, <1>6, <2>3, <2>4 DEF Counted
  <2> QED BY <1>3, <1>6, <2>2, <2>5, DeploymentsKinds DEF Alone
<1>10. (\A x \in Single : copies'[x] <= 1) /\ (tokenStored' => copies'["key"] > 0)
  BY <1>0, <1>2 DEF ThingsInv
<1> QED BY <1>1, <1>2, <1>5, <1>6, <1>7, <1>8, <1>9, <1>10, DeployMoves

\* The other steps of a deployment: where each leads, and what it leaves.
LEMMA OtherSteps ==
  ASSUME SetupInv, NEW t \in Threads,
         AdaptEnv(t) \/ Rotate(t) \/ ReadToken(t) \/ CreateKey(t) \/ StoreToken(t)
  PROVE  SetupInv'
<1>0. SetupTypes /\ ThingsInv /\ SetupData /\ Sees(jobs[t])
  BY DEF SetupInv, SetupTypes, ThingsInv
<1>1. jobs[t] \in Deployments /\ jobs[t].pc \in {"adapt", "rotate", "lora", "key", "commit"}
  BY <1>0, SetupShape DEF AdaptEnv, Rotate, ReadToken, CreateKey, StoreToken, At
<1>2. ~overlapped => (\A s \in Threads \ {t} : jobs[s].pc = "idle") /\ Counted(jobs[t]) /\ Alone(jobs[t])
  BY <1>1, AloneHere
<1>3. ASSUME NEW place \in ScriptPlaces, GoesTo(t, place)
      PROVE  \E k \in Deployments :
               /\ jobs' = [jobs EXCEPT ![t] = k] /\ k.pc = place /\ k.seen = None
               /\ k.target = jobs[t].target /\ k.stored = jobs[t].stored /\ k.unsure = jobs[t].unsure
  <2>1. PICK k : k = [jobs[t] EXCEPT !.pc = place, !.seen = None]
    OBVIOUS
  <2>2. jobs' = [jobs EXCEPT ![t] = k]
    BY <1>0, <1>1, <1>3, <2>1 DEF GoesTo, SetupTypes, Deployments
  <2>3. /\ k \in Deployments /\ k.pc = place /\ k.seen = None
        /\ k.target = jobs[t].target /\ k.stored = jobs[t].stored /\ k.unsure = jobs[t].unsure
    BY <1>1, <2>1 DEF Deployments
  <2> QED BY <2>2, <2>3
<1>4. \A x \in Things : ~Past(x, "adapt") /\ ~Past(x, "rotate") /\ ~Past(x, "realm") /\ ~Past(x, "rejected")
  BY DEF Past
<1>5. jobs[t].target.password \in Nat /\ sysadmin \in Nat /\ faults \in Nat /\ copies \in [Things -> Nat]
  BY <1>0, <1>1 DEF Deployments, Editions, SetupData
<1>6. CASE AdaptEnv(t)
  <2>1. /\ jobs[t].pc = "adapt" /\ envFile' = "ready" /\ GoesTo(t, "rotate") /\ "rotate" \in ScriptPlaces
        /\ UNCHANGED <<edition, sysadmin, copies, versions, tokenStored, overlapped, faults>>
        /\ UNCHANGED <<edition, services, overlapped>>
    BY <1>6 DEF AdaptEnv, At, services, ScriptPlaces
  <2>2. PICK k \in Deployments :
               /\ jobs' = [jobs EXCEPT ![t] = k] /\ k.pc = "rotate" /\ k.seen = None
               /\ k.target = jobs[t].target /\ k.stored = jobs[t].stored /\ k.unsure = jobs[t].unsure
    BY <1>3, <2>1
  <2>3. Sees(k)'
    BY <2>2, DeploymentsKinds DEF Sees
  <2>4. ~overlapped => Alone(k)'
    BY <1>2, <1>4, <2>1, <2>2, DeploymentsKinds DEF Alone, Progress, Asked
  <2>5. faults' \in Nat /\ faults' >= faults
    BY <1>5, <2>1
  <2> QED BY <2>1, <2>2, <2>3, <2>4, <2>5, DeployGoesOn
<1>7. CASE Rotate(t)
  <2>1. /\ jobs[t].pc = "rotate" /\ UNCHANGED <<envFile, edition, copies, versions, tokenStored, overlapped, faults>>
        /\ "realm" \in ScriptPlaces /\ "rejected" \in ScriptPlaces
    BY <1>7 DEF Rotate, At, ScriptPlaces, Things
  <2>2. PICK place \in {"realm", "rejected"} :
          /\ GoesTo(t, place)
          /\ place = "realm" => sysadmin' = jobs[t].target.password
          /\ place = "rejected" => sysadmin' = sysadmin /\ sysadmin \notin {0, jobs[t].target.password}
    BY <1>7, Zenon DEF Rotate, Rejected
  <2>3. PICK k \in Deployments :
               /\ jobs' = [jobs EXCEPT ![t] = k] /\ k.pc = place /\ k.seen = None
               /\ k.target = jobs[t].target /\ k.stored = jobs[t].stored /\ k.unsure = jobs[t].unsure
    BY <1>3, <2>1, <2>2
  <2>4. SetupData' /\ \A x \in Things : copies'[x] >= copies[x]
    BY <1>0, <1>5, <2>1, <2>2 DEF SetupData
  <2>5. Sees(k)'
    BY <2>2, <2>3, DeploymentsKinds, SetupAssumption DEF Sees
  <2>6. ASSUME ~overlapped PROVE (\A s \in Threads \ {t} : jobs[s].pc = "idle") /\ Counted(k)' /\ Alone(k)'
    <3>1. Counted(k)'
      BY <1>2, <2>1, <2>2, <2>3, <2>6 DEF Counted
    <3>2. Progress(k)'
      BY <1>2, <1>4, <2>1, <2>2, <2>3, <2>6 DEF Alone, Progress, Asked
    <3> QED BY <1>2, <2>2, <2>3, <2>6, <3>1, <3>2, SetupAssumption DEF Alone
  <2>7. (\A x \in Single : copies'[x] <= 1) /\ (tokenStored' => copies'["key"] > 0)
    BY <1>0, <2>1 DEF ThingsInv
  <2> QED BY <2>1, <2>3, <2>4, <2>5, <2>6, <2>7, DeployMoves
<1>8. CASE ReadToken(t)
  <2>1. CASE ~jobs[t].target.lora
    BY <1>8, <2>1, SkipStep DEF ReadToken, At
  <2>2. CASE jobs[t].target.lora
    <3>1. /\ jobs[t].pc = "lora" /\ "chirpstack" \in ScriptPlaces /\ tokenStored \in BOOLEAN
          /\ UNCHANGED <<envFile, edition, sysadmin, copies, versions, tokenStored, overlapped, faults>>
          /\ UNCHANGED <<edition, services, overlapped>>
      BY <1>0, <1>8, <2>2 DEF ReadToken, At, setupVars, services, ScriptPlaces, Things, SetupData
    <3>2. PICK k : k = [jobs[t] EXCEPT !.pc = "chirpstack", !.seen = None, !.stored = tokenStored]
      OBVIOUS
    <3>3. /\ jobs' = [jobs EXCEPT ![t] = k] /\ k \in Deployments /\ k.pc = "chirpstack"
          /\ k.target = jobs[t].target /\ k.unsure = jobs[t].unsure /\ k.stored = tokenStored
          /\ k.seen = None
      <4>1. jobs' = [jobs EXCEPT ![t] = k]
        BY <1>0, <1>1, <1>8, <2>2, <3>2 DEF ReadToken, SetupTypes, Deployments
      <4> QED BY <1>1, <3>1, <3>2, <4>1 DEF Deployments
    <3>4. Sees(k)'
      BY <3>1, <3>3, SetupAssumption DEF Sees
    <3>5. ASSUME ~overlapped PROVE Alone(k)'
      <4>1. \A y \in Things : Past(y, "chirpstack") => Past(y, "lora")
        BY DEF Past
      <4>2. Progress(k)'
        BY <1>2, <3>1, <3>3, <3>5, <4>1 DEF Alone, Progress, Asked
      <4> QED BY <3>1, <3>3, <4>2, SetupAssumption DEF Alone
    <3>6. faults' \in Nat /\ faults' >= faults /\ envFile' \in {"none", "raw", "ready"}
      BY <1>0, <3>1 DEF SetupData
    <3> QED BY <3>1, <3>3, <3>4, <3>5, <3>6, DeployGoesOn
  <2> QED BY <2>1, <2>2
<1>9. CASE CreateKey(t)
  <2>1. /\ jobs[t].pc = "key" /\ GoesTo(t, "commit") /\ "commit" \in ScriptPlaces /\ "key" \in Things
        /\ copies' = [copies EXCEPT !["key"] = IF jobs[t].stored THEN @ ELSE @ + 1]
        /\ UNCHANGED <<envFile, edition, sysadmin, versions, tokenStored, overlapped, faults>>
    BY <1>9 DEF CreateKey, At, ScriptPlaces, Things
  <2>2. PICK k \in Deployments :
               /\ jobs' = [jobs EXCEPT ![t] = k] /\ k.pc = "commit" /\ k.seen = None
               /\ k.target = jobs[t].target /\ k.stored = jobs[t].stored /\ k.unsure = jobs[t].unsure
    BY <1>3, <2>1
  <2>3. /\ copies["key"] \in Nat /\ copies' \in [Things -> Nat]
        /\ copies'["key"] = IF jobs[t].stored THEN copies["key"] ELSE copies["key"] + 1
        /\ \A x \in Things \ {"key"} : copies'[x] = copies[x]
    BY <1>5, <2>1
  <2>4. SetupData' /\ (\A x \in Things : copies'[x] >= copies[x])
    BY <1>0, <2>1, <2>3 DEF SetupData
  <2>5. copies'["key"] > 0 /\ (\A x \in Single : copies'[x] <= 1)
    BY <1>0, <2>1, <2>3, DeploymentsKinds DEF ThingsInv, Sees
  <2>6. Sees(k)'
    BY <1>0, <2>1, <2>2, <2>5, SetupAssumption DEF Sees
  <2>7. ASSUME ~overlapped PROVE (\A s \in Threads \ {t} : jobs[s].pc = "idle") /\ Counted(k)' /\ Alone(k)'
    <3>1. tokenStored => jobs[t].stored
      BY <1>2, <2>1, <2>7 DEF Alone
    <3>2. Counted(k)'
      BY <1>0, <1>2, <1>5, <2>1, <2>2, <2>3, <2>7, <3>1 DEF Counted, Sees
    <3>3. \A y \in Things : Past(y, "commit") => Past(y, "key") \/ y = "key"
      BY DEF Past
    <3>4. "key" \notin Updated
      BY DEF Updated
    <3>5. Progress(k)'
      BY <1>2, <2>1, <2>2, <2>3, <2>5, <2>7, <3>3, <3>4 DEF Alone, Progress, Asked
    <3> QED BY <1>2, <2>1, <2>2, <2>7, <3>1, <3>2, <3>5, SetupAssumption DEF Alone
  <2> QED BY <2>1, <2>2, <2>4, <2>5, <2>6, <2>7, DeployMoves
<1>10. CASE StoreToken(t)
  <2>1. /\ jobs[t].pc = "commit" /\ GoesTo(t, "monitors") /\ "monitors" \in ScriptPlaces
        /\ tokenStored' = TRUE
        /\ UNCHANGED <<envFile, edition, sysadmin, copies, versions, overlapped, faults>>
    BY <1>10 DEF StoreToken, At, ScriptPlaces, Things
  <2>2. PICK k \in Deployments :
               /\ jobs' = [jobs EXCEPT ![t] = k] /\ k.pc = "monitors" /\ k.seen = None
               /\ k.target = jobs[t].target /\ k.stored = jobs[t].stored /\ k.unsure = jobs[t].unsure
    BY <1>3, <2>1
  <2>3. SetupData' /\ (\A x \in Things : copies'[x] >= copies[x])
    BY <1>0, <1>5, <2>1 DEF SetupData
  <2>4. copies'["key"] > 0 /\ (\A x \in Single : copies'[x] <= 1)
    BY <1>0, <2>1 DEF ThingsInv, Sees
  <2>5. Sees(k)'
    BY <2>2, SetupAssumption DEF Sees
  <2>6. ASSUME ~overlapped PROVE (\A s \in Threads \ {t} : jobs[s].pc = "idle") /\ Counted(k)' /\ Alone(k)'
    <3>1. Counted(k)'
      BY <1>2, <2>1, <2>2, <2>6 DEF Counted
    <3>2. \A y \in Things : Past(y, "monitors") => Past(y, "commit")
      BY DEF Past, Lora
    <3>3. Progress(k)'
      BY <1>2, <2>1, <2>2, <2>6, <3>2 DEF Alone, Progress, Asked
    <3> QED BY <1>2, <2>2, <2>6, <3>1, <3>3, SetupAssumption DEF Alone
  <2> QED BY <2>1, <2>2, <2>3, <2>4, <2>5, <2>6, DeployMoves
<1> QED BY <1>6, <1>7, <1>8, <1>9, <1>10

\* A deployment that a failure sends on, ends or stops, though the call may have been
\* carried out.
LEMMA OnFailureStep ==
  ASSUME SetupInv, NEW t \in Threads, jobs[t].pc \notin {"idle"} \cup Over, Fault, OnFailure(t),
         UNCHANGED <<envFile, edition, overlapped>>, UNCHANGED services \/ Lost(t)
  PROVE  SetupInv'
<1>0. SetupTypes /\ ThingsInv /\ SetupData /\ Sees(jobs[t])
  BY DEF SetupInv, SetupTypes, ThingsInv
<1>1. jobs[t] \in Deployments
  BY <1>0, SetupShape
<1>2. ~overlapped => (\A s \in Threads \ {t} : jobs[s].pc = "idle") /\ Counted(jobs[t]) /\ Alone(jobs[t])
  BY <1>1, AloneHere
<1>3. faults' = faults + 1 /\ faults \in Nat /\ faults' \in Nat
  BY <1>0 DEF Fault, SetupData
<1>4. PICK place \in {"monitors", "done", "stopped"}, more \in SUBSET Things :
        /\ Become(t, [jobs[t] EXCEPT !.pc = place, !.seen = None, !.unsure = @ \cup more])
        /\ place = "monitors" => jobs[t].pc \in {"lora", "commit"} \cup Lora /\ more = Lora
        /\ place = "done" => jobs[t].pc \in {"monitors", "page"} /\ more = {"monitors", "page"}
        /\ place = "stopped" => jobs[t].pc \in {"rotate"} \cup Things /\ jobs[t].pc # "key"
  <2>1. Lora \subseteq Things /\ {"monitors", "page"} \subseteq Things /\ {} \subseteq Things
    BY DEF Lora, Things
  <2>2. "key" \in Lora
    BY DEF Lora
  <2> DEFINE Goes(place, more) ==
               Become(t, [jobs[t] EXCEPT !.pc = place, !.seen = None, !.unsure = @ \cup more])
  <2>3. \/ jobs[t].pc \in {"lora", "commit"} \cup Lora /\ Goes("monitors", Lora)
        \/ jobs[t].pc \in {"monitors", "page"} /\ Goes("done", {"monitors", "page"})
        \/ jobs[t].pc \in ({"rotate"} \cup Things) \ (Lora \cup {"monitors", "page"}) /\ Goes("stopped", {})
    BY DEF OnFailure
  <2> HIDE DEF Goes
  <2>4. \E place \in {"monitors", "done", "stopped"}, more \in SUBSET Things :
          /\ Goes(place, more)
          /\ place = "monitors" => jobs[t].pc \in {"lora", "commit"} \cup Lora /\ more = Lora
          /\ place = "done" => jobs[t].pc \in {"monitors", "page"} /\ more = {"monitors", "page"}
          /\ place = "stopped" => jobs[t].pc \in {"rotate"} \cup Things /\ jobs[t].pc # "key"
    BY <2>1, <2>2, <2>3
  <2> QED BY <2>4 DEF Goes
<1>5. PICK k : k = [jobs[t] EXCEPT !.pc = place, !.seen = None, !.unsure = @ \cup more]
  OBVIOUS
<1>6. /\ jobs' = [jobs EXCEPT ![t] = k] /\ k \in Deployments /\ k.pc = place /\ k.seen = None
      /\ k.target = jobs[t].target /\ k.stored = jobs[t].stored /\ k.unsure = jobs[t].unsure \cup more
  <2>1. place \in ScriptPlaces
    BY DEF ScriptPlaces, Things
  <2> QED BY <1>1, <1>4, <1>5, <2>1 DEF Become, Deployments
<1>7. Sees(k)'
  BY <1>6, SetupAssumption DEF Sees
\* what it has been past, it is still past
<1>8. \A y \in Things \ more : Past(y, place) => Past(y, jobs[t].pc)
  BY <1>4 DEF Past, Things, Lora
<1>9. CASE UNCHANGED services
  <2>1. UNCHANGED <<sysadmin, copies, versions, tokenStored>>
    BY <1>9 DEF services
  <2>2. ASSUME ~overlapped PROVE Alone(k)'
    <3>1. Progress(k)'
      <4>1. \A y \in Asked(k.target) \ k.unsure : Past(y, place) =>
              copies'[y] > 0 /\ (y \in Updated => versions'[y] = k.target.settings)
        BY <1>2, <1>6, <1>8, <2>1, <2>2 DEF Alone, Progress, Asked
      <4>2. (place \in {"monitors", "done"} /\ k.target.lora) => tokenStored' \/ "key" \in k.unsure
        <5>1. "key" \in Lora
          BY DEF Lora
        <5> QED BY <1>2, <1>4, <1>6, <2>1, <2>2, <5>1 DEF Alone, Progress
      <4>3. place # "stopped" => sysadmin' = k.target.password
        BY <1>2, <1>4, <1>6, <2>1, <2>2 DEF Alone, Progress, Lora
      <4>4. envFile' = "ready" => k.target = edition'
        BY <1>2, <1>6, <2>2 DEF Alone, Progress
      <4> QED BY <1>6, <4>1, <4>2, <4>3, <4>4 DEF Progress
    <3> QED BY <1>6, <3>1, SetupAssumption DEF Alone
  <2>3. envFile' \in {"none", "raw", "ready"} /\ faults' >= faults /\ UNCHANGED <<edition, services, overlapped>>
    BY <1>0, <1>3, <1>9 DEF SetupData
  <2>4. k.pc # "commit" /\ faults' > faults
    BY <1>3, <1>6
  <2> QED BY <1>1, <1>3, <1>6, <1>7, <2>2, <2>3, <2>4, DeployGoesOn
<1>10. CASE Lost(t)
  \* what the lost call did, and that the deployment cannot be sure of it or stops
  <2> DEFINE Sure(y) == copies'[y] = copies[y] /\ (y \in Updated => versions'[y] = versions[y])
             Outcome ==
               /\ SetupData'
               /\ \A y \in Things : copies'[y] >= copies[y]
               /\ \A y \in Single : copies'[y] <= 1
               /\ tokenStored => tokenStored'
               /\ tokenStored' => copies'["key"] > 0
               /\ ~overlapped => \A y \in Things \ {"key"} : copies'[y] <= 1
               /\ ~overlapped => copies'["key"] <= faults'
               /\ place = "stopped" \/ sysadmin' = sysadmin
               /\ place = "stopped" \/ \A y \in Things \ more : Sure(y)
  <2>0. "key" \in Things \ Single /\ "key" \in Lora /\ "key" \notin Updated /\ copies["key"] \in Nat
        /\ copies \in [Things -> Nat]
    BY <1>0 DEF SetupData, Single, Unique, Updated, Things, Lora
  <2>1. ASSUME NEW x \in Things \ {"key"}, jobs[t].pc = x, jobs[t].seen # None, ~Clashes(t, x),
               Wrote(t, x), UNCHANGED <<sysadmin, tokenStored>>
        PROVE  Outcome
    <3>1. /\ SetupData'
          /\ \A y \in Things : copies'[y] >= copies[y] /\ (y # x => copies'[y] = copies[y])
          /\ \A y \in Single : copies'[y] <= 1
          /\ \A y \in Updated : versions'[y] = IF y = x THEN jobs[t].target.settings ELSE versions[y]
          /\ tokenStored' => copies'["key"] > 0
          /\ ~overlapped => copies'[x] <= 1
      BY <1>3, <2>1, WriteMoves
    <3>2. x \in more \/ place = "stopped"
      BY <1>4, <2>1 DEF Lora, Things
    <3>3. ~overlapped => (\A y \in Things \ {"key"} : copies'[y] <= 1) /\ copies'["key"] <= faults'
      BY <1>2, <1>3, <2>0, <3>1 DEF Counted
    <3>4. place = "stopped" \/ \A y \in Things \ more : Sure(y)
      BY <3>1, <3>2, DeploymentsKinds
    <3> HIDE DEF Sure
    <3> QED BY <2>1, <3>1, <3>3, <3>4
  <2>2. ASSUME jobs[t].pc = "rotate", sysadmin' = jobs[t].target.password,
               UNCHANGED <<copies, versions, tokenStored>>
        PROVE  Outcome
    <3>1. place = "stopped"
      BY <1>4, <2>2 DEF Lora
    <3>2. SetupData'
      BY <1>0, <1>1, <1>3, <2>2 DEF SetupData, Deployments, Editions
    <3>3. ~overlapped => (\A y \in Things \ {"key"} : copies'[y] <= 1) /\ copies'["key"] <= faults'
      BY <1>2, <1>3, <2>2 DEF Counted
    <3>4. \A y \in Things : copies'[y] >= copies[y]
      BY <2>0, <2>2
    <3> QED BY <1>0, <2>2, <3>1, <3>2, <3>3, <3>4 DEF ThingsInv
  <2>3. ASSUME jobs[t].pc = "key", ~jobs[t].stored, copies' = [copies EXCEPT !["key"] = @ + 1],
               UNCHANGED <<sysadmin, versions, tokenStored>>
        PROVE  Outcome
    <3>1. place = "monitors" /\ more = Lora
      BY <1>4, <2>3
    <3>2. /\ copies' \in [Things -> Nat] /\ copies'["key"] = copies["key"] + 1
          /\ \A y \in Things \ {"key"} : copies'[y] = copies[y]
      BY <2>0, <2>3
    <3>3. SetupData'
      BY <1>0, <1>3, <2>3, <3>2 DEF SetupData
    <3>4. ~overlapped => (\A y \in Things \ {"key"} : copies'[y] <= 1) /\ copies'["key"] <= faults'
      BY <1>2, <1>3, <2>0, <2>3, <3>2 DEF Counted, Alone
    <3>5. \A y \in Things : copies'[y] >= copies[y]
      BY <2>0, <3>2
    <3>6. /\ \A y \in Single : copies'[y] <= 1
          /\ copies'["key"] > 0
      BY <1>0, <2>0, <3>2, DeploymentsKinds DEF ThingsInv
    <3>7. \A y \in Things \ more : Sure(y)
      BY <2>0, <2>3, <3>1, <3>2
    <3> HIDE DEF Sure
    <3> QED BY <2>3, <3>3, <3>4, <3>5, <3>6, <3>7
  <2>4. ASSUME jobs[t].pc = "commit", tokenStored' = TRUE, UNCHANGED <<sysadmin, copies, versions>>
        PROVE  Outcome
    <3>1. SetupData'
      BY <1>0, <1>3, <2>4 DEF SetupData
    <3>2. ~overlapped => (\A y \in Things \ {"key"} : copies'[y] <= 1) /\ copies'["key"] <= faults'
      BY <1>2, <1>3, <2>4 DEF Counted
    <3>3. \A y \in Things : copies'[y] >= copies[y]
      BY <2>0, <2>4
    <3>4. copies'["key"] > 0
      BY <1>0, <2>4 DEF Sees
    <3> QED BY <1>0, <2>4, <3>1, <3>2, <3>3, <3>4 DEF ThingsInv
  <2>5. Outcome
    <3> HIDE DEF Outcome
    <3> QED BY <1>10, <2>1, <2>2, <2>3, <2>4 DEF Lost, At
  <2>6. ASSUME ~overlapped PROVE Counted(k)' /\ Alone(k)'
    <3>1. Counted(k)'
      BY <1>3, <2>0, <2>5, <2>6 DEF Counted, SetupData
    <3>2. \A y \in Asked(k.target) \ k.unsure : Past(y, place) =>
            copies'[y] > 0 /\ (y \in Updated => versions'[y] = k.target.settings)
      <4>1. ASSUME NEW y \in Asked(k.target) \ k.unsure, Past(y, place)
            PROVE  copies'[y] > 0 /\ (y \in Updated => versions'[y] = k.target.settings)
        <5>1. place # "stopped"
          BY <4>1 DEF Past
        <5>2. y \in Things \ more /\ y \notin jobs[t].unsure /\ y \in Asked(jobs[t].target)
          BY <1>6, <4>1 DEF Asked
        <5>3. Past(y, jobs[t].pc)
          BY <1>8, <4>1, <5>2
        <5>4. copies[y] > 0 /\ (y \in Updated => versions[y] = k.target.settings)
          BY <1>2, <1>6, <2>6, <5>2, <5>3 DEF Alone, Progress
        <5>5. Sure(y)
          BY <2>5, <5>1, <5>2
        <5> QED BY <5>4, <5>5
      <4> QED BY <4>1
    <3>3. (place \in {"monitors", "done"} /\ k.target.lora) => tokenStored' \/ "key" \in k.unsure
      BY <1>2, <1>4, <1>6, <2>0, <2>5, <2>6 DEF Alone, Progress
    <3>4. place # "stopped" => sysadmin' = k.target.password
      BY <1>2, <1>4, <1>6, <2>5, <2>6 DEF Alone, Progress, Lora
    <3>5. envFile' = "ready" => k.target = edition'
      BY <1>2, <1>6, <2>6 DEF Alone, Progress
    <3>6. Progress(k)'
      BY <1>6, <3>2, <3>3, <3>4, <3>5 DEF Progress
    <3> QED BY <1>6, <3>1, <3>6, SetupAssumption DEF Alone
  <2> HIDE DEF Sure
  <2> QED BY <1>2, <1>6, <1>7, <2>5, <2>6, DeployMoves
<1> QED BY <1>9, <1>10

\* A deployment that is cut off, and one that takes an error for an answer.
LEMMA GoesWrong ==
  ASSUME SetupInv, NEW t \in Threads, DeployFails(t)
  PROVE  SetupInv'
<1>0. SetupTypes /\ SetupData /\ Sees(jobs[t])
  BY DEF SetupInv, SetupTypes, ThingsInv
<1>1. /\ jobs[t].pc \notin {"idle"} \cup Over /\ Fault /\ UNCHANGED <<envFile, edition, overlapped>>
      /\ \/ (Become(t, Free) \/ Misread(t) \/ OnFailure(t)) /\ UNCHANGED services
         \/ OnFailure(t) /\ Lost(t)
  BY DEF DeployFails
<1>2. jobs[t] \in Deployments /\ jobs[t].pc # "idle"
  BY <1>0, <1>1, SetupShape
<1>3. faults' \in Nat /\ faults' > faults /\ faults' >= faults /\ envFile' \in {"none", "raw", "ready"}
  BY <1>0, <1>1 DEF Fault, SetupData
<1>4. CASE OnFailure(t)
  BY <1>1, <1>4, OnFailureStep
<1>5. CASE Become(t, Free) /\ UNCHANGED services
  <2>1. Free.pc = "idle" /\ Free \in {Free} \cup Deployments /\ jobs' = [jobs EXCEPT ![t] = Free]
    BY <1>5 DEF Free, Become
  <2>2. Sees(Free)'
    BY <2>1, DeploymentsKinds DEF Sees
  <2>3. UNCHANGED <<edition, services, overlapped>>
    BY <1>1, <1>5
  <2> QED BY <1>2, <1>3, <2>1, <2>2, <2>3, DeployGoesOn
<1>6. CASE Misread(t) /\ UNCHANGED services
  <2>1. PICK x \in {"roles", "profile", "mail"} :
          /\ At(t, x) /\ jobs[t].seen = None
          /\ jobs' = [jobs EXCEPT ![t].seen = x # "mail", ![t].unsure = @ \cup {x}]
    BY <1>6 DEF Misread
  <2>2. PICK k : k = [jobs[t] EXCEPT !.seen = x # "mail", !.unsure = @ \cup {x}]
    OBVIOUS
  <2>3. jobs' = [jobs EXCEPT ![t] = k]
    BY <1>0, <1>2, <2>1, <2>2 DEF SetupTypes, Deployments
  <2>4. /\ k \in Deployments /\ k.pc = x /\ k.seen \in BOOLEAN /\ (k.seen = FALSE => x = "mail")
        /\ k.target = jobs[t].target /\ k.unsure = jobs[t].unsure \cup {x} /\ jobs[t].pc = x
    <3>1. x \in Things
      BY DEF Things
    <3> QED BY <1>2, <2>1, <2>2, <3>1 DEF Deployments, At
  <2>5. UNCHANGED <<sysadmin, copies, versions, tokenStored, edition, envFile, overlapped>>
        /\ UNCHANGED <<edition, services, overlapped>>
    BY <1>1, <1>6 DEF services
  <2>6. Sees(k)'
    BY <2>4 DEF Sees
  <2>7. ASSUME ~overlapped PROVE Alone(k)'
    <3>1. Alone(jobs[t])
      BY <1>2, <2>7, AloneHere
    <3>2. Progress(k)'
      BY <2>4, <2>5, <3>1 DEF Alone, Progress
    <3> QED BY <2>4, <3>2 DEF Alone
  <2>8. jobs[t].pc # "commit" /\ k.pc # "commit"
    BY <2>4
  <2> QED BY <1>2, <1>3, <2>3, <2>4, <2>5, <2>6, <2>7, <2>8, DeployGoesOn
<1> QED BY <1>1, <1>4, <1>5, <1>6

LEMMA DeployEndsStep ==
  ASSUME SetupInv, NEW t \in Threads, DeployEnds(t)
  PROVE  SetupInv'
<1>0. SetupTypes /\ SetupData
  BY DEF SetupInv, SetupTypes
<1>1. jobs[t].pc \in Over /\ jobs' = [jobs EXCEPT ![t] = Free] /\ UNCHANGED <<setupVars, faults>>
  BY DEF DeployEnds, Finish, Become
<1>2. /\ Free.pc = "idle" /\ Free \in {Free} \cup Deployments
      /\ jobs[t].pc # "idle" /\ jobs[t].pc # "commit"
  BY <1>1 DEF Free, Over
<1>3. /\ UNCHANGED <<edition, services, overlapped>> /\ faults' \in Nat /\ faults' >= faults
      /\ envFile' \in {"none", "raw", "ready"}
  BY <1>0, <1>1 DEF setupVars, services, SetupData
<1>4. Sees(Free)'
  BY <1>2, DeploymentsKinds DEF Sees
<1> QED BY <1>1, <1>2, <1>3, <1>4, DeployGoesOn

\* The secrets change between two deployments.
LEMMA EditSecretsStep ==
  ASSUME SetupInv, NEW password \in BOOLEAN, NEW mail \in BOOLEAN, NEW lora \in BOOLEAN,
         EditSecrets(password, mail, lora)
  PROVE  SetupInv'
<1>0. SetupTypes /\ ThingsInv /\ AloneDeployInv
  BY DEF SetupInv
<1>1. /\ \A t \in Threads : jobs[t].pc = "idle"
      /\ UNCHANGED <<envFile, sysadmin, copies, versions, tokenStored, overlapped, jobs, faults>>
  BY DEF EditSecrets, At, services, handlerVars
<1>2. edition' \in Editions
  BY <1>0 DEF EditSecrets, SetupTypes, SetupData, Editions
<1>3. SetupTypes'
  BY <1>0, <1>1, <1>2 DEF SetupTypes, SetupData
<1>4. ThingsInv'
  BY <1>0, <1>1 DEF ThingsInv, Sees
<1>5. AloneDeployInv'
  BY <1>0, <1>1 DEF AloneDeployInv, Counted
<1> QED BY <1>3, <1>4, <1>5 DEF SetupInv

\* The invariant holds of every reachable state.
LEMMA SetupAlways ==
  SetupSpec => []SetupInv
<1>1. HandlersInit /\ SetupInit => SetupInv
  <2> SUFFICES ASSUME HandlersInit, SetupInit PROVE SetupInv
    OBVIOUS
  <2>1. /\ jobs = [t \in Threads |-> Free] /\ faults = 0 /\ ~overlapped /\ Free.pc = "idle"
        /\ copies = [x \in Things |-> 0] /\ tokenStored = FALSE
    BY DEF HandlersInit, SetupInit, Free
  <2>2. SetupTypes
    <3>1. jobs \in [Threads -> {Free} \cup Deployments]
      BY <2>1
    <3>2. copies \in [Things -> Nat] /\ versions \in [Updated -> Nat]
      BY <2>1 DEF SetupInit
    <3>3. edition \in Editions
      BY DEF SetupInit, Editions
    <3> QED BY <2>1, <3>1, <3>2, <3>3 DEF SetupInit, SetupTypes, SetupData
  <2>3. ThingsInv
    BY <2>1, DeploymentsKinds DEF ThingsInv, Sees
  <2>4. PICK t \in Threads : TRUE
    BY HandlersAssumption
  <2>5. Counted(jobs[t])
    BY <2>1, DeploymentsKinds DEF Counted
  <2>6. AloneDeployInv
    BY <2>1, <2>4, <2>5 DEF AloneDeployInv
  <2> QED BY <2>2, <2>3, <2>6 DEF SetupInv
<1>2. SetupInv /\ [SetupNext]_<<handlerVars, setupVars>> => SetupInv'
  <2> SUFFICES ASSUME SetupInv, [SetupNext]_<<handlerVars, setupVars>> PROVE SetupInv'
    OBVIOUS
  <2>1. CASE UNCHANGED <<handlerVars, setupVars>>
    <3>1. UNCHANGED <<jobs, faults, envFile, edition, sysadmin, copies, versions, tokenStored, overlapped>>
      BY <2>1 DEF handlerVars, setupVars
    <3> QED BY <3>1 DEF SetupInv, SetupTypes, SetupData, ThingsInv, Sees, AloneDeployInv, Counted, Alone, Progress
  <2>2. CASE \E password, mail, lora \in BOOLEAN : EditSecrets(password, mail, lora)
    BY <2>2, EditSecretsStep
  <2>3. ASSUME NEW t \in Threads,
               \/ EnsureRealm(t) \/ EnsureRealmRoles(t) \/ EnsureClient(t) \/ EnsureUserProfile(t)
               \/ EnsureOauth2Client(t) \/ EnsureDomain(t) \/ ConfigureMail(t)
               \/ EnsureChirpstack(t) \/ EnsureMonitors(t) \/ PublishPage(t)
        PROVE SetupInv'
    BY <2>3, EnsureSteps
  <2>4. ASSUME NEW t \in Threads,
               AdaptEnv(t) \/ Rotate(t) \/ ReadToken(t) \/ CreateKey(t) \/ StoreToken(t)
        PROVE SetupInv'
    BY <2>4, OtherSteps
  <2>5. ASSUME NEW t \in Threads, BeginDeploy(t) \/ DeployFails(t) \/ DeployEnds(t) PROVE SetupInv'
    BY <2>5, BeginDeployStep, GoesWrong, DeployEndsStep
  <2> QED BY <2>1, <2>2, <2>3, <2>4, <2>5 DEF SetupNext
<1> QED BY <1>1, <1>2, PTL DEF SetupSpec

(***************************************************************************)
(* For any number of deployments, however often they fail or are cut off:  *)
(* of what the services keep unique there is never a second one; as long   *)
(* as no two of them overlapped there is none of anything else either, and *)
(* of the portal's admin key in ChirpStack at most one more than there     *)
(* were failures.                                                          *)
(***************************************************************************)
THEOREM OneOfEach ==
  SetupSpec => []NoDuplicates
<1>1. SetupInv => NoDuplicates
  <2> SUFFICES ASSUME SetupInv, NEW x \in Things
               PROVE  \/ copies[x] <= IF x = "key" THEN 1 + faults ELSE 1
                      \/ overlapped /\ x \notin Unique
    BY DEF NoDuplicates
  <2>1. x \in Unique => copies[x] <= 1 /\ x # "key"
    BY DEF SetupInv, ThingsInv, Single, Unique
  <2>2. ~overlapped => copies[x] <= IF x = "key" THEN 1 + faults ELSE 1
    BY DEF SetupInv, AloneDeployInv, Counted
  <2> QED BY <2>1, <2>2
<1> QED BY <1>1, SetupAlways, PTL

(***************************************************************************)
(* A deployment that ends, with none having overlapped, leaves in every    *)
(* service what .env asks for, in its edition, but for what a failure left *)
(* it unsure of.                                                           *)
(***************************************************************************)
THEOREM Converges ==
  SetupSpec => []DeployConverges
<1>1. SetupInv => DeployConverges
  <2> SUFFICES ASSUME SetupInv, ~overlapped, envFile = "ready", NEW t \in Threads,
                      jobs[t].pc \in {"done", "rejected"}
               PROVE  /\ jobs[t].pc = "done" =>
                           /\ sysadmin = edition.password
                           /\ \A x \in Asked(edition) \ jobs[t].unsure :
                                /\ copies[x] > 0 /\ (x = "key" => tokenStored)
                                /\ x \in Updated => versions[x] = edition.settings
                      /\ jobs[t].pc = "rejected" =>
                           sysadmin \notin {0, edition.password} \/ "mail" \in jobs[t].unsure
    BY DEF DeployConverges, At
  <2>1. Progress(jobs[t]) /\ jobs[t].target = edition
    BY AloneHere DEF Alone, Progress
  <2>2. "key" \in Asked(edition) => edition.lora
    BY DEF Asked, Lora
  <2>3. jobs[t].pc = "done" => \A x : Past(x, jobs[t].pc)
    BY DEF Past
  <2> QED BY <2>1, <2>2, <2>3 DEF Progress
<1> QED BY <1>1, SetupAlways, PTL

-----------------------------------------------------------------------------
(* Notebooks of deleted projects (module Notebooks).                       *)

Deletions ==
  [pc : {"notebooks", "tenant", "rows"}, project : WProjects, emails : SUBSET People]
IsWorkspace(w) ==
  w \in [state : {"none", "open", "gone"}, slug : {w.slug}, tenant : BOOLEAN,
         owner : {w.owner}, members : [People -> {"none", "active", "disabled"}]]

NotebookTypes ==
  /\ jobs \in [Threads -> {Free} \cup Deletions]
  /\ workspaces = [p \in WProjects |-> workspaces[p]]
  /\ \A p \in WProjects : IsWorkspace(workspaces[p])
  /\ labEnabled
  /\ servers \in [People \X WProjects -> States]
  /\ volumes \in SUBSET (People \X WProjects)
  /\ missed \in SUBSET (People \X WProjects)

Cleared(u, p) == <<u, p>> \notin missed => ~Running(u, p) /\ <<u, p>> \notin volumes
Halted(u, p) == <<u, p>> \notin missed => ~Running(u, p)

\* a server runs for a member; a deletion has dealt with those it is past
ClearedInv ==
  /\ \A u \in People, p \in WProjects :
       /\ workspaces[p].members[u] = "none" => Halted(u, p)
       /\ workspaces[p].state # "open" => workspaces[p].members[u] = "none"
       /\ workspaces[p].state = "gone" => Cleared(u, p)
  /\ \A t \in Threads :
       /\ At(t, "notebooks") => \A u \in People \ jobs[t].emails : Halted(u, jobs[t].project)
       /\ jobs[t].pc \in {"tenant", "rows"} => \A u \in People : Cleared(u, jobs[t].project)

NotebooksInv == NotebookTypes /\ ClearedInv

LEMMA NotebookShape ==
  ASSUME NotebookTypes, NEW t \in Threads, jobs[t].pc # "idle"
  PROVE  jobs[t] \in Deletions
  BY DEF NotebookTypes, Free

\* A server of the hub moves; if it comes to run, a member's does, and a deletion
\* under way has missed it.
LEMMA HubMoves ==
  ASSUME NotebooksInv, NEW u \in People, NEW p \in WProjects, NEW s \in States,
         Turns(u, p, s), UNCHANGED <<workspaceVars, handlerVars>>,
         volumes' = volumes \/ (volumes' = volumes \cup {<<u, p>>} /\ s = "ready" /\ Running(u, p)),
         \/ missed' = missed /\ s \notin {"starting", "ready", "stopping"}
         \/ Miss(u, p) /\ (s = "pending" \/ s = "stopped" \/ Admitted(u, p) \/ Running(u, p))
  PROVE  NotebooksInv'
<1>0. NotebookTypes /\ ClearedInv
  BY DEF NotebooksInv
<1>1. /\ servers' = [servers EXCEPT ![<<u, p>>] = s] /\ UNCHANGED <<workspaces, labEnabled, jobs>>
      /\ <<u, p>> \in People \X WProjects
  BY DEF Turns, workspaceVars, handlerVars
<1>2. servers' \in [People \X WProjects -> States] /\ servers'[<<u, p>>] = s
      /\ \A v \in People, q \in WProjects : <<v, q>> # <<u, p>> => servers'[<<v, q>>] = servers[<<v, q>>]
  BY <1>0, <1>1 DEF NotebookTypes
<1>3. /\ missed \subseteq missed' /\ missed' \subseteq missed \cup {<<u, p>>}
      /\ (s \in {"starting", "ready", "stopping"} /\ Deleting(p)) => <<u, p>> \in missed'
  BY DEF Miss
<1>4. NotebookTypes'
  BY <1>0, <1>1, <1>2, <1>3 DEF NotebookTypes
<1>5. ASSUME NEW v \in People, NEW q \in WProjects, <<v, q>> # <<u, p>>
      PROVE  (Halted(v, q) => Halted(v, q)') /\ (Cleared(v, q) => Cleared(v, q)')
  BY <1>2, <1>3, <1>5 DEF Halted, Cleared, Running
<1>6. Deleting(p) => (Halted(u, p) => Halted(u, p)') /\ (Cleared(u, p) => Cleared(u, p)')
  BY <1>2, <1>3 DEF Halted, Cleared, Running
<1>7. workspaces[p].members[u] = "none" => (Halted(u, p) => Halted(u, p)') /\ (Cleared(u, p) => Cleared(u, p)')
  BY <1>0, <1>2, <1>3 DEF Halted, Cleared, Running, Admitted
<1>8. \A t \in Threads : ~At(t, "idle") => Deleting(jobs[t].project)
  BY DEF Deleting
<1>9. ASSUME NEW v \in People, NEW q \in WProjects, Deleting(q) \/ workspaces[q].members[v] = "none"
      PROVE  (Halted(v, q) => Halted(v, q)') /\ (Cleared(v, q) => Cleared(v, q)')
  BY <1>5, <1>6, <1>7, <1>9
<1>10. ClearedInv'
  <2>1. ASSUME NEW v \in People, NEW q \in WProjects
        PROVE  /\ workspaces[q].members[v] = "none" => Halted(v, q)'
               /\ workspaces[q].state # "open" => workspaces[q].members[v] = "none"
               /\ workspaces[q].state = "gone" => Cleared(v, q)'
    BY <1>0, <1>9 DEF ClearedInv
  <2>2. ASSUME NEW t \in Threads, NEW q \in WProjects, q = jobs[t].project
        PROVE  /\ At(t, "notebooks") => \A v \in People \ jobs[t].emails : Halted(v, q)'
               /\ jobs[t].pc \in {"tenant", "rows"} => \A v \in People : Cleared(v, q)'
    <3>1. CASE jobs[t].pc = "idle"
      BY <3>1 DEF At
    <3>2. CASE jobs[t].pc # "idle"
      <4>1. Deleting(q)
        BY <1>8, <2>2, <3>2 DEF At
      <4>2. \A v \in People : (Halted(v, q) => Halted(v, q)') /\ (Cleared(v, q) => Cleared(v, q)')
        BY <1>9, <4>1
      <4> QED BY <1>0, <2>2, <4>2 DEF ClearedInv
    <3> QED BY <3>1, <3>2
  <2>3. ASSUME NEW t \in Threads
        PROVE  /\ jobs[t].pc = "notebooks" =>
                    \A v \in People \ jobs[t].emails : Halted(v, jobs[t].project)'
               /\ jobs[t].pc \in {"tenant", "rows"} => \A v \in People : Cleared(v, jobs[t].project)'
    <3>1. CASE jobs[t].pc = "idle"
      BY <3>1
    <3>2. CASE jobs[t].pc # "idle"
      <4>1. PICK q \in WProjects : q = jobs[t].project
        BY <1>0, <3>2, NotebookShape DEF Deletions
      <4> QED BY <1>1, <2>2, <4>1 DEF At
    <3> QED BY <3>1, <3>2
  <2> QED BY <1>1, <2>1, <2>3 DEF ClearedInv, At
<1> QED BY <1>4, <1>10 DEF NotebooksInv

LEMMA HubSteps ==
  ASSUME NotebooksInv, NEW u \in People, NEW p \in WProjects,
         SpawnNotebook(u, p) \/ MintToken(u, p) \/ StartNotebook(u, p) \/ StopNotebook(u, p)
  PROVE  NotebooksInv'
<1>1. CASE SpawnNotebook(u, p)
  BY <1>1, HubMoves DEF SpawnNotebook, States
<1>2. CASE MintToken(u, p)
  BY <1>2, HubMoves DEF MintToken, States
<1>3. CASE StartNotebook(u, p)
  BY <1>3, HubMoves DEF StartNotebook, States, Running
<1>4. CASE StopNotebook(u, p)
  BY <1>4, HubMoves DEF StopNotebook, States
<1> QED BY <1>1, <1>2, <1>3, <1>4

\* The portal moves, the hub does not.
LEMMA PortalMoves ==
  ASSUME NotebooksInv, UNCHANGED <<servers, volumes, labEnabled>>,
         missed \subseteq missed', missed' \in SUBSET (People \X WProjects),
         jobs' \in [Threads -> {Free} \cup Deletions],
         workspaces' = [p \in WProjects |-> workspaces'[p]],
         \A p \in WProjects : IsWorkspace(workspaces'[p]),
         \A u \in People, p \in WProjects :
           /\ workspaces'[p].members[u] = "none" =>
                workspaces[p].members[u] = "none" \/ <<u, p>> \in missed' \/ ~Running(u, p)
           /\ workspaces'[p].state # "open" => workspaces'[p].members[u] = "none"
           /\ workspaces'[p].state = "gone" => workspaces[p].state = "gone" \/ Cleared(u, p),
         \A t \in Threads :
           \/ jobs'[t].pc = "idle" \/ jobs'[t] = jobs[t]
           \/ jobs'[t].pc = "notebooks" /\ \A u \in People \ jobs'[t].emails :
                workspaces[jobs'[t].project].members[u] = "none"
           \/ /\ jobs'[t].pc = "rows" /\ jobs[t].pc = "tenant"
              /\ jobs'[t].project = jobs[t].project
  PROVE  NotebooksInv'
<1>0. NotebookTypes /\ ClearedInv
  BY DEF NotebooksInv
<1>1. NotebookTypes'
  BY <1>0 DEF NotebookTypes, IsWorkspace
<1>2. ASSUME NEW u \in People, NEW p \in WProjects
      PROVE  (Halted(u, p) => Halted(u, p)') /\ (Cleared(u, p) => Cleared(u, p)')
  BY DEF Halted, Cleared, Running
<1>3. ASSUME NEW u \in People, NEW p \in WProjects
      PROVE  /\ workspaces'[p].members[u] = "none" => Halted(u, p)'
             /\ workspaces'[p].state # "open" => workspaces'[p].members[u] = "none"
             /\ workspaces'[p].state = "gone" => Cleared(u, p)'
  <2>1. workspaces'[p].members[u] = "none" => Halted(u, p)'
    BY <1>0, <1>2 DEF ClearedInv, Halted, Running
  <2>2. workspaces'[p].state = "gone" => Cleared(u, p)'
    BY <1>0, <1>2 DEF ClearedInv
  <2> QED BY <2>1, <2>2
<1>4. ASSUME NEW t \in Threads, NEW p \in WProjects, p = jobs'[t].project, jobs'[t].pc # "idle"
      PROVE  /\ jobs'[t].pc = "notebooks" => \A u \in People \ jobs'[t].emails : Halted(u, p)'
             /\ jobs'[t].pc \in {"tenant", "rows"} => \A u \in People : Cleared(u, p)'
  BY <1>0, <1>2, <1>4 DEF ClearedInv, At
<1>5. ASSUME NEW t \in Threads
      PROVE  /\ jobs'[t].pc = "notebooks" =>
                  \A u \in People \ jobs'[t].emails : Halted(u, jobs[t].project)'
             /\ jobs'[t].pc \in {"tenant", "rows"} => \A u \in People : Cleared(u, jobs[t].project)'
  <2>1. CASE jobs'[t].pc = "idle"
    BY <2>1
  <2>2. CASE jobs'[t].pc # "idle"
    <3>1. PICK p \in WProjects : p = jobs'[t].project
      BY <2>2 DEF Deletions, Free
    <3> QED BY <1>4, <2>2, <3>1
  <2> QED BY <2>1, <2>2
<1>6. ClearedInv'
  BY <1>3, <1>5 DEF ClearedInv, At
<1> QED BY <1>1, <1>6 DEF NotebooksInv

LEMMA PortalSteps ==
  ASSUME NotebooksInv,
         \/ WorkspacesNext /\ UNCHANGED notebookVars
         \/ \E u \in People, p \in WProjects, s \in {"none", "active", "disabled"} : ChangeMember(p, u, s)
         \/ \E t \in Threads : DeletionFails(t)
  PROVE  NotebooksInv'
<1>0. NotebookTypes /\ ClearedInv
  BY DEF NotebooksInv
<1>1. /\ workspaces = [p \in WProjects |-> workspaces[p]] /\ jobs \in [Threads -> {Free} \cup Deletions]
      /\ missed \in SUBSET (People \X WProjects) /\ Free.pc = "idle"
      /\ \A p \in WProjects : IsWorkspace(workspaces[p])
  BY <1>0 DEF NotebookTypes, Free
<1>2. \A u \in People, p \in WProjects :
        workspaces[p].state # "open" => workspaces[p].members[u] = "none"
  BY <1>0 DEF ClearedInv
<1>3. ASSUME NEW t \in Threads, NEW k \in {Free} \cup Deletions, jobs' = [jobs EXCEPT ![t] = k]
      PROVE  /\ jobs' \in [Threads -> {Free} \cup Deletions]
             /\ jobs'[t] = k /\ \A s \in Threads \ {t} : jobs'[s] = jobs[s]
  BY <1>1, <1>3
<1>4. ASSUME NEW p \in WProjects, NEW w, IsWorkspace(w), workspaces' = [workspaces EXCEPT ![p] = w]
      PROVE  /\ workspaces' = [q \in WProjects |-> workspaces'[q]]
             /\ workspaces'[p] = w /\ \A q \in WProjects \ {p} : workspaces'[q] = workspaces[q]
             /\ \A q \in WProjects : IsWorkspace(workspaces'[q])
  BY <1>1, <1>4
<1>5. ASSUME NEW p \in WProjects, NEW u \in People, OpenProject(p, u), UNCHANGED notebookVars
      PROVE  NotebooksInv'
  <2>1. PICK n : workspaces' = [workspaces EXCEPT ![p] =
                   [state |-> "open", slug |-> n, tenant |-> TRUE, owner |-> u,
                    members |-> [v \in People |-> IF v = u THEN "active" ELSE "none"]]]
    BY <1>5 DEF OpenProject
  <2> DEFINE w == [state |-> "open", slug |-> n, tenant |-> TRUE, owner |-> u,
                   members |-> [v \in People |-> IF v = u THEN "active" ELSE "none"]]
  <2>2. IsWorkspace(w)
    BY DEF IsWorkspace
  <2>3. w.state = "open" /\ workspaces[p].state = "none" /\ workspaces' = [workspaces EXCEPT ![p] = w]
    BY <1>5, <2>1 DEF OpenProject
  <2> HIDE DEF w
  <2>4. UNCHANGED <<jobs, labEnabled, servers, volumes, missed>>
    BY <1>5 DEF OpenProject, notebookVars
  <2>5. \A v \in People : workspaces[p].members[v] = "none"
    BY <1>2, <2>3
  <2> QED BY <1>1, <1>2, <1>4, <2>2, <2>3, <2>4, <2>5, PortalMoves
<1>6. ASSUME NEW t \in Threads, NEW p \in WProjects, CloseProject(t, p), UNCHANGED notebookVars
      PROVE  NotebooksInv'
  <2> DEFINE listed == {u \in People : workspaces[p].members[u] # "none"}
             k == [pc |-> "notebooks", project |-> p, emails |-> listed]
  <2>1. jobs' = [jobs EXCEPT ![t] = k] /\ UNCHANGED <<workspaces, labEnabled, servers, volumes, missed>>
    BY <1>0, <1>6 DEF CloseProject, Start, Become, workspaceVars, notebookVars, NotebookTypes
  <2>2. k \in Deletions
    BY DEF Deletions
  <2>3. k.pc = "notebooks" /\ \A u \in People \ k.emails : workspaces[k.project].members[u] = "none"
    OBVIOUS
  <2> HIDE DEF k
  <2> QED BY <1>1, <1>2, <1>3, <2>1, <2>2, <2>3, PortalMoves
<1>7. ASSUME NEW t \in Threads, DropWorkspace(t), UNCHANGED notebookVars PROVE NotebooksInv'
  <2>1. jobs[t] \in Deletions /\ jobs[t].pc = "tenant"
    BY <1>0, <1>7, NotebookShape DEF DropWorkspace, At
  <2>2. PICK p \in WProjects : p = jobs[t].project
    BY <2>1 DEF Deletions
  <2> DEFINE w == [workspaces[p] EXCEPT !.tenant = FALSE]
  <2>3. /\ workspaces' = [workspaces EXCEPT ![p] = w]
        /\ UNCHANGED <<labEnabled, servers, volumes, missed>>
    BY <1>1, <1>7, <2>2 DEF DropWorkspace, notebookVars
  <2>4. IsWorkspace(w) /\ w.state = workspaces[p].state /\ w.members = workspaces[p].members
    BY <1>1 DEF IsWorkspace
  <2> HIDE DEF w
  <2>5. /\ workspaces' = [q \in WProjects |-> workspaces'[q]]
        /\ workspaces'[p] = w /\ \A q \in WProjects \ {p} : workspaces'[q] = workspaces[q]
        /\ \A q \in WProjects : IsWorkspace(workspaces'[q])
    BY <1>4, <2>3, <2>4
  <2> DEFINE k == [jobs[t] EXCEPT !.pc = "rows"]
  <2>6. k \in Deletions /\ k.pc = "rows" /\ k.project = jobs[t].project
    BY <2>1 DEF Deletions
  <2>7. jobs' = [jobs EXCEPT ![t] = k] \/ jobs' = [jobs EXCEPT ![t] = Free]
    BY <1>1, <1>7 DEF DropWorkspace, Goto, Finish, Become
  <2> HIDE DEF k
  <2>8. /\ jobs' \in [Threads -> {Free} \cup Deletions]
        /\ \A s \in Threads :
             \/ jobs'[s].pc = "idle" \/ jobs'[s] = jobs[s]
             \/ jobs'[s].pc = "rows" /\ jobs[s].pc = "tenant" /\ jobs'[s].project = jobs[s].project
    BY <1>1, <1>3, <2>1, <2>6, <2>7
  <2> QED BY <1>1, <1>2, <2>3, <2>4, <2>5, <2>8, PortalMoves
<1>8. ASSUME NEW t \in Threads, EraseWorkspace(t), UNCHANGED notebookVars PROVE NotebooksInv'
  <2>1. jobs[t] \in Deletions /\ jobs[t].pc = "rows"
    BY <1>0, <1>8, NotebookShape DEF EraseWorkspace, At
  <2>2. PICK p \in WProjects : p = jobs[t].project
    BY <2>1 DEF Deletions
  <2>3. \A u \in People : Cleared(u, p)
    BY <1>0, <2>1, <2>2 DEF ClearedInv
  <2> DEFINE w == [NoWorkspace EXCEPT !.state = "gone", !.slug = workspaces[p].slug]
  <2>4. /\ workspaces' = [workspaces EXCEPT ![p] = w] /\ jobs' = [jobs EXCEPT ![t] = Free]
        /\ UNCHANGED <<labEnabled, servers, volumes, missed>>
    BY <1>8, <2>2 DEF EraseWorkspace, Finish, Become, notebookVars
  <2>5. IsWorkspace(w) /\ w.state = "gone" /\ \A u \in People : w.members[u] = "none"
    BY DEF IsWorkspace, NoWorkspace
  <2> HIDE DEF w
  <2>6. /\ workspaces' = [q \in WProjects |-> workspaces'[q]]
        /\ workspaces'[p] = w /\ \A q \in WProjects \ {p} : workspaces'[q] = workspaces[q]
        /\ \A q \in WProjects : IsWorkspace(workspaces'[q])
    BY <1>4, <2>4, <2>5
  <2>7. \A u \in People : Cleared(u, p) => <<u, p>> \in missed \/ ~Running(u, p)
    BY DEF Cleared
  <2> QED BY <1>1, <1>2, <1>3, <2>3, <2>4, <2>5, <2>6, <2>7, PortalMoves
<1>9. ASSUME NEW u \in People, NEW p \in WProjects, NEW s \in {"none", "active", "disabled"},
             ChangeMember(p, u, s)
      PROVE  NotebooksInv'
  <2> DEFINE now == [workspaces[p].members EXCEPT ![u] = s]
             w == [workspaces[p] EXCEPT !.members = now]
  <2>1. now \in [People -> {"none", "active", "disabled"}] /\ now[u] = s
        /\ \A v \in People \ {u} : now[v] = workspaces[p].members[v]
    BY <1>1 DEF IsWorkspace
  <2>2. workspaces' = [workspaces EXCEPT ![p] = w] /\ UNCHANGED <<jobs, labEnabled, servers, volumes>>
        /\ workspaces[p].state = "open"
    BY <1>1, <1>9 DEF ChangeMember, SetMembership, Open
  <2> HIDE DEF now
  <2>3. IsWorkspace(w) /\ w.state = workspaces[p].state /\ w.members = now
    BY <1>1, <2>1 DEF IsWorkspace
  <2> HIDE DEF w
  <2>4. /\ workspaces' = [q \in WProjects |-> workspaces'[q]]
        /\ workspaces'[p] = w /\ \A q \in WProjects \ {p} : workspaces'[q] = workspaces[q]
        /\ \A q \in WProjects : IsWorkspace(workspaces'[q])
    BY <1>4, <2>2, <2>3
  <2>5. /\ missed \subseteq missed' /\ missed' \in SUBSET (People \X WProjects)
        /\ s = "none" => <<u, p>> \in missed' \/ ~Running(u, p)
    BY <1>1, <1>9 DEF ChangeMember
  <2> QED BY <1>1, <1>2, <2>1, <2>2, <2>3, <2>4, <2>5, PortalMoves
<1>10. ASSUME NEW t \in Threads, DeletionFails(t) PROVE NotebooksInv'
  <2>1. jobs' = [jobs EXCEPT ![t] = Free]
        /\ UNCHANGED <<workspaces, labEnabled, servers, volumes, missed>>
    BY <1>10 DEF DeletionFails, Killed, Become, workspaceVars, notebookVars
  <2> QED BY <1>1, <1>2, <1>3, <2>1, PortalMoves
<1> QED BY <1>5, <1>6, <1>7, <1>8, <1>9, <1>10 DEF WorkspacesNext

\* A deletion goes on to the next member, or past the notebooks.
LEMMA DeletionSteps ==
  ASSUME NotebooksInv, NEW t \in Threads, RemoveVolumes(t) \/ \E u \in People : DeleteServer(t, u)
  PROVE  NotebooksInv'
<1>0. NotebookTypes /\ ClearedInv
  BY DEF NotebooksInv
<1>1. jobs[t] \in Deletions /\ jobs[t].pc = "notebooks"
  BY <1>0, NotebookShape DEF RemoveVolumes, DeleteServer, At
<1>2. PICK p \in WProjects : p = jobs[t].project
  BY <1>1 DEF Deletions
<1>3. \A u \in People \ jobs[t].emails : Halted(u, p)
  BY <1>0, <1>1, <1>2 DEF ClearedInv, At
<1>4. UNCHANGED <<workspaces, labEnabled>>
  BY DEF RemoveVolumes, DeleteServer, workspaceVars
\* what is left to show once it is known what happened to the servers
<1>5. ASSUME NEW k \in Deletions, jobs' = [jobs EXCEPT ![t] = k], k.project = p,
             k.pc \in {"notebooks", "tenant"},
             servers' \in [People \X WProjects -> States],
             volumes' \subseteq volumes, missed \subseteq missed', missed' \in SUBSET (People \X WProjects),
             \A v \in People, q \in WProjects : Halted(v, q) => Halted(v, q)',
             k.pc = "notebooks" => \A v \in People \ k.emails : Halted(v, p)',
             k.pc = "tenant" => \A v \in People : Cleared(v, p)'
      PROVE  NotebooksInv'
  <2>1. /\ jobs' \in [Threads -> {Free} \cup Deletions]
        /\ jobs'[t] = k /\ \A s \in Threads \ {t} : jobs'[s] = jobs[s]
    BY <1>0, <1>5 DEF NotebookTypes
  <2>2. NotebookTypes'
    BY <1>0, <1>4, <1>5, <2>1 DEF NotebookTypes, IsWorkspace
  <2>3. \A v \in People, q \in WProjects : Cleared(v, q) => Cleared(v, q)'
    BY <1>5 DEF Cleared, Halted
  <2>4. ASSUME NEW s \in Threads, NEW q \in WProjects, q = jobs'[s].project
        PROVE  /\ jobs'[s].pc = "notebooks" => \A v \in People \ jobs'[s].emails : Halted(v, q)'
               /\ jobs'[s].pc \in {"tenant", "rows"} => \A v \in People : Cleared(v, q)'
    <3>1. CASE s = t
      BY <1>5, <2>1, <2>4, <3>1
    <3>2. CASE s # t
      BY <1>0, <1>5, <2>1, <2>3, <2>4, <3>2 DEF ClearedInv, At
    <3> QED BY <3>1, <3>2
  <2>5. ASSUME NEW s \in Threads
        PROVE  /\ jobs'[s].pc = "notebooks" =>
                    \A v \in People \ jobs'[s].emails : Halted(v, jobs[s].project)'
               /\ jobs'[s].pc \in {"tenant", "rows"} => \A v \in People : Cleared(v, jobs[s].project)'
    <3>1. CASE jobs'[s].pc \notin {"notebooks", "tenant", "rows"}
      BY <3>1
    <3>2. CASE jobs'[s].pc \in {"notebooks", "tenant", "rows"}
      <4>1. PICK q \in WProjects : q = jobs'[s].project
        BY <2>1, <3>2 DEF Deletions, Free
      <4> QED BY <2>4, <4>1
    <3> QED BY <3>1, <3>2
  <2>6. ClearedInv'
    BY <1>0, <1>4, <1>5, <2>3, <2>5 DEF ClearedInv, At
  <2> QED BY <2>2, <2>6 DEF NotebooksInv
<1>6. ASSUME NEW u \in People, DeleteServer(t, u) PROVE NotebooksInv'
  <2> DEFINE k == [jobs[t] EXCEPT !.emails = @ \ {u}]
  <2>1. jobs' = [jobs EXCEPT ![t] = k] /\ UNCHANGED volumes
    BY <1>6 DEF DeleteServer, Become
  <2>2. k \in Deletions /\ k.pc = "notebooks" /\ k.project = p /\ k.emails = jobs[t].emails \ {u}
    BY <1>1, <1>2 DEF Deletions
  <2> HIDE DEF k
  <2>3. <<u, p>> \in People \X WProjects
    OBVIOUS
  <2>4. CASE \E s \in Deleted(servers[<<u, p>>]) :
               /\ Turns(u, p, s)
               /\ missed' = IF s \in {"pending", "starting", "stopping"} THEN missed \cup {<<u, p>>} ELSE missed
    <3>1. PICK s \in Deleted(servers[<<u, p>>]) :
            /\ servers' = [servers EXCEPT ![<<u, p>>] = s]
            /\ missed' = IF s \in {"pending", "starting", "stopping"} THEN missed \cup {<<u, p>>} ELSE missed
      BY <2>4 DEF Turns
    <3>2. servers[<<u, p>>] \in States
      BY <1>0, <2>3 DEF NotebookTypes
    <3>3. s \in States \ {"ready"}
      BY <3>2 DEF Deleted, States
    <3>4. servers' \in [People \X WProjects -> States] /\ servers'[<<u, p>>] = s
          /\ \A v \in People, q \in WProjects : <<v, q>> # <<u, p>> => servers'[<<v, q>>] = servers[<<v, q>>]
      BY <1>0, <2>3, <3>1, <3>3 DEF NotebookTypes
    <3>5. Halted(u, p)'
      BY <3>1, <3>3, <3>4 DEF Halted, Running
    <3>6. missed \subseteq missed' /\ missed' \in SUBSET (People \X WProjects)
      BY <1>0, <2>3, <3>1 DEF NotebookTypes
    <3>7. \A v \in People, q \in WProjects : Halted(v, q) => Halted(v, q)'
      BY <3>4, <3>5, <3>6 DEF Halted, Running
    <3>8. \A v \in People \ k.emails : Halted(v, p)'
      BY <1>3, <2>2, <3>5, <3>7
    <3> QED BY <1>5, <2>1, <2>2, <3>4, <3>6, <3>7, <3>8
  <2>5. CASE missed' = missed \cup {<<u, p>>} /\ UNCHANGED servers
    <3>1. missed \subseteq missed' /\ missed' \in SUBSET (People \X WProjects)
      BY <1>0, <2>3, <2>5 DEF NotebookTypes
    <3>2. \A v \in People, q \in WProjects : Halted(v, q) => Halted(v, q)'
      BY <2>5 DEF Halted, Running
    <3>3. \A v \in People \ k.emails : Halted(v, p)'
      BY <1>3, <2>2, <2>5, <3>2 DEF Halted
    <3>4. servers' \in [People \X WProjects -> States]
      BY <1>0, <2>5 DEF NotebookTypes
    <3> QED BY <1>5, <2>1, <2>2, <3>1, <3>2, <3>3, <3>4
  <2> QED BY <1>2, <1>6, <2>4, <2>5 DEF DeleteServer
<1>7. ASSUME RemoveVolumes(t) PROVE NotebooksInv'
  <2> DEFINE k == [jobs[t] EXCEPT !.pc = "tenant"]
  <2>1. jobs' = [jobs EXCEPT ![t] = k] /\ UNCHANGED servers /\ jobs[t].emails = {}
    BY <1>7 DEF RemoveVolumes, Become
  <2>2. k \in Deletions /\ k.pc = "tenant" /\ k.project = p
    BY <1>1, <1>2 DEF Deletions
  <2> HIDE DEF k
  <2>3. servers' \in [People \X WProjects -> States]
    BY <1>0, <2>1 DEF NotebookTypes
  <2>4. \A v \in People : Halted(v, p)
    BY <1>3, <2>1
  <2>5. CASE /\ volumes' = volumes \ {v \in ProjectVolumes(p) : ~Running(v[1], p)}
             /\ UNCHANGED missed
    <3>1. \A v \in People : <<v, p>> \in volumes' => Running(v, p)
      BY <2>5 DEF ProjectVolumes
    <3>2. \A v \in People : Cleared(v, p)'
      BY <2>1, <2>4, <2>5, <3>1 DEF Cleared, Halted, Running
    <3>3. volumes' \subseteq volumes /\ missed' \in SUBSET (People \X WProjects)
      BY <1>0, <2>5 DEF NotebookTypes
    <3>4. \A v \in People, q \in WProjects : Halted(v, q) => Halted(v, q)'
      BY <2>1, <2>5 DEF Halted, Running
    <3> QED BY <1>5, <2>1, <2>2, <2>3, <2>5, <3>2, <3>3, <3>4
  <2>6. CASE missed' = missed \cup (People \X {p}) /\ UNCHANGED volumes
    <3>1. \A v \in People : <<v, p>> \in missed'
      BY <2>6
    <3>2. \A v \in People : Cleared(v, p)'
      BY <3>1 DEF Cleared
    <3>3. missed \subseteq missed' /\ missed' \in SUBSET (People \X WProjects)
      BY <1>0, <2>6 DEF NotebookTypes
    <3>4. \A v \in People, q \in WProjects : Halted(v, q) => Halted(v, q)'
      BY <2>1, <2>6 DEF Halted, Running
    <3> QED BY <1>5, <2>1, <2>2, <2>3, <2>6, <3>2, <3>3, <3>4
  <2> QED BY <1>2, <1>7, <2>5, <2>6 DEF RemoveVolumes
<1> QED BY <1>6, <1>7

LEMMA NotebooksAlways == NotebooksSpec => []NotebooksInv
<1>1. HandlersInit /\ WorkspacesInit /\ NotebooksInit /\ labEnabled => NotebooksInv
  <2> SUFFICES ASSUME HandlersInit, WorkspacesInit, NotebooksInit, labEnabled PROVE NotebooksInv
    OBVIOUS
  <2>1. jobs = [t \in Threads |-> Free] /\ \A t \in Threads : jobs[t].pc = "idle"
    BY DEF HandlersInit, Free
  <2>2. /\ workspaces = [p \in WProjects |-> NoWorkspace] /\ IsWorkspace(NoWorkspace)
        /\ NoWorkspace.state = "none" /\ \A u \in People : NoWorkspace.members[u] = "none"
    BY DEF WorkspacesInit, NoWorkspace, IsWorkspace
  <2>3. NotebookTypes
    BY <2>1, <2>2 DEF NotebooksInit, NotebookTypes, States
  <2>4. \A u \in People, p \in WProjects : Halted(u, p)
    BY DEF NotebooksInit, Halted, Running
  <2>5. ClearedInv
    BY <2>1, <2>2, <2>4 DEF ClearedInv, At
  <2> QED BY <2>3, <2>5 DEF NotebooksInv
<1>2. NotebooksInv /\ [(WorkspacesNext /\ UNCHANGED notebookVars) \/ NotebooksNext]_<<
                        handlerVars, workspaceVars, notebookVars>> => NotebooksInv'
  <2> SUFFICES ASSUME NotebooksInv,
                      [(WorkspacesNext /\ UNCHANGED notebookVars) \/ NotebooksNext]_<<
                        handlerVars, workspaceVars, notebookVars>>
               PROVE  NotebooksInv'
    OBVIOUS
  <2>1. CASE UNCHANGED <<handlerVars, workspaceVars, notebookVars>>
    BY <2>1 DEF handlerVars, workspaceVars, notebookVars, NotebooksInv, NotebookTypes, IsWorkspace,
                ClearedInv, Cleared, Halted, Running, At
  <2>2. CASE WorkspacesNext /\ UNCHANGED notebookVars
    BY <2>2, PortalSteps
  <2>3. CASE NotebooksNext
    BY <2>3, HubSteps, PortalSteps, DeletionSteps DEF NotebooksNext
  <2> QED BY <2>1, <2>2, <2>3
<1> QED BY <1>1, <1>2, PTL DEF NotebooksSpec

(***************************************************************************)
(* Whatever the number of projects and members and however deletions,      *)
(* spawns and the hub's own stops interleave: a deleted project has no     *)
(* running notebook and no volume but those the deletion could not see or  *)
(* could not stop (delete_project_notebooks).                              *)
(***************************************************************************)
THEOREM NotebooksGo == NotebooksSpec => []DeletionClearsNotebooks
<1>1. NotebooksInv => DeletionClearsNotebooks
  BY DEF NotebooksInv, ClearedInv, Cleared, DeletionClearsNotebooks
<1> QED BY <1>1, NotebooksAlways, PTL

-----------------------------------------------------------------------------
(* LoRaWAN devices and the bridge (module Lora).                           *)
EarlyRegistrations ==
  [pc : {"listapps", "createapp", "device"}, project : WProjects, known : BOOLEAN,
   app : Nat \cup {None}, eui : {None}]
Registrations ==
  [pc : {"mote", "keys", "map"}, project : WProjects, known : BOOLEAN, app : Nat, eui : Euis]
DeviceRows == [project : WProjects \cup {None}, name : Names \cup {None}, registered : SUBSET Euis]
Motes == [app : Nat \cup {None}, keys : BOOLEAN]
MappingRows == [project : WProjects, name : Names]
Uplinks ==
  {NoUplink} \cup [pc : {"find"}, eui : Euis, project : WProjects, name : Names]
             \cup [pc : {"post"}, eui : Euis, device : DeviceIds]

LoraJobs == {Free} \cup Deletions \cup EarlyRegistrations \cup Registrations

LoraTypes ==
  /\ jobs \in [Threads -> LoraJobs]
  /\ workspaces = [p \in WProjects |-> workspaces[p]]
  /\ \A p \in WProjects : IsWorkspace(workspaces[p])
  /\ devices \in [DeviceIds -> DeviceRows]
  /\ nameOf \in [Euis -> Names]
  /\ \E S : apps \in Seq(S)
  /\ motes \in [Euis -> Motes]
  /\ mappings \in [Euis -> {None} \cup MappingRows]
  /\ uplink \in Uplinks

\* the LoRaWAN device e has its device in the project's tenant, or had it once
HasDevice(p, e) ==
  \/ ~Session(p) \/ <<p, nameOf[e]>> \in vacated
  \/ \E d \in DeviceIds : /\ devices[d].project = p /\ devices[d].name = nameOf[e]
                          /\ e \in devices[d].registered

\* devices belong to projects that were opened, and have names of their own
DevicesInv ==
  /\ \A d \in DeviceIds : devices[d].project # None => workspaces[devices[d].project].state # "none"
  /\ \A c, d \in DeviceIds :
       (/\ devices[c].project # None /\ devices[c].project = devices[d].project
        /\ devices[c].name = devices[d].name /\ Session(devices[c].project)) => c = d

\* how far a handler has come
Registered(j) ==
  /\ j.pc # "idle" => workspaces[j.project].state # "none"
  /\ j.pc \in {"device", "mote", "keys", "map"} => j.app \in DOMAIN apps
  /\ j.pc \in {"mote", "keys", "map"} => ~Mapped(j.eui) /\ HasDevice(j.project, j.eui)
  /\ j.pc \in {"keys", "map"} => motes[j.eui].app \in DOMAIN apps
  /\ j.pc = "map" => motes[j.eui].keys

RegistersInv ==
  /\ \A t \in Threads : Registered(jobs[t])
  /\ \A s, t \in Threads :
       (s # t /\ {jobs[s].pc, jobs[t].pc} \subseteq {"mote", "keys", "map"}) => jobs[s].eui # jobs[t].eui

\* a mapping row is whole
WholeRow(e) ==
  /\ mappings[e].name = nameOf[e] /\ workspaces[mappings[e].project].state # "none"
  /\ motes[e].app \in DOMAIN apps /\ motes[e].keys
  /\ HasDevice(mappings[e].project, e)

MappingsInv == \A e \in Euis : Mapped(e) => WholeRow(e)

\* what the bridge works on is what the row says
UplinkInv ==
  /\ uplink.pc = "find" =>
       Mapped(uplink.eui) /\ mappings[uplink.eui] = [project |-> uplink.project, name |-> uplink.name]
  /\ uplink.pc = "post" =>
       LET d == devices[uplink.device]
           m == mappings[uplink.eui]
       IN /\ Mapped(uplink.eui)
          /\ \/ <<m.project, m.name>> \in vacated
             \/ uplink.eui \in d.registered /\ d.project = m.project /\ d.name = m.name

LoraInv == LoraTypes /\ DevicesInv /\ RegistersInv /\ MappingsInv /\ UplinkInv

LEMMA LoraShape ==
  ASSUME LoraTypes, NEW t \in Threads
  PROVE  /\ jobs[t].pc \in {"notebooks", "tenant", "rows"} => jobs[t] \in Deletions
         /\ jobs[t].pc \in {"listapps", "createapp", "device"} => jobs[t] \in EarlyRegistrations
         /\ jobs[t].pc \in {"mote", "keys", "map"} => jobs[t] \in Registrations
         /\ jobs[t].pc \in {"idle", "notebooks", "tenant", "rows", "listapps", "createapp", "device",
                            "mote", "keys", "map"}
<1>1. jobs[t] \in {Free} \cup Deletions \cup EarlyRegistrations \cup Registrations
  BY DEF LoraTypes, LoraJobs
<1>2. Free.pc = "idle"
  BY DEF Free
<1> QED BY <1>1, <1>2 DEF Deletions, EarlyRegistrations, Registrations

\* What a registration has done stays done while projects, devices and
\* applications come and go and no other registration has its LoRaWAN device.
LEMMA StaysRegistered ==
  ASSUME LoraTypes, NEW t \in Threads, Registered(jobs[t]), jobs'[t] = jobs[t], UNCHANGED nameOf,
         \A p \in WProjects, e \in Euis :
           (workspaces[p].state # "none" /\ HasDevice(p, e)) => HasDevice(p, e)',
         \A p \in WProjects : workspaces[p].state # "none" => workspaces'[p].state # "none",
         DOMAIN apps \subseteq DOMAIN apps',
         jobs[t].pc \in {"mote", "keys", "map"} =>
           UNCHANGED motes[jobs[t].eui] /\ UNCHANGED mappings[jobs[t].eui]
  PROVE  Registered(jobs[t])'
<1>1. CASE jobs[t].pc \in {"mote", "keys", "map"}
  <2>1. PICK p \in WProjects, e \in Euis : p = jobs[t].project /\ e = jobs[t].eui
    BY <1>1, LoraShape DEF Registrations
  <2>2. HasDevice(p, e)' /\ workspaces'[p].state # "none"
    BY <1>1, <2>1 DEF Registered
  <2> QED BY <1>1, <2>1, <2>2 DEF Registered, Mapped
<1>2. CASE jobs[t].pc \in {"listapps", "createapp", "device"}
  <2>1. jobs[t].project \in WProjects
    BY <1>2, LoraShape DEF EarlyRegistrations
  <2> QED BY <1>2, <2>1 DEF Registered
<1>3. CASE jobs[t].pc \in {"notebooks", "tenant", "rows"}
  <2>1. jobs[t].project \in WProjects
    BY <1>3, LoraShape DEF Deletions
  <2> QED BY <1>3, <2>1 DEF Registered
<1>4. CASE jobs[t].pc = "idle"
  BY <1>4 DEF Registered
<1> QED BY <1>1, <1>2, <1>3, <1>4, LoraShape

\* A LoRaWAN device that registrations have not to do with keeps what it has.
LEMMA MappingsMove ==
  ASSUME LoraInv, UNCHANGED nameOf,
         \A p \in WProjects, e \in Euis :
           (workspaces[p].state # "none" /\ HasDevice(p, e)) => HasDevice(p, e)',
         \A p \in WProjects : workspaces[p].state # "none" => workspaces'[p].state # "none",
         DOMAIN apps \subseteq DOMAIN apps',
         \A e \in Euis : \/ mappings'[e] = mappings[e] /\ motes'[e] = motes[e]
                         \/ Mapped(e)' => WholeRow(e)'
  PROVE  MappingsInv'
<1>1. SUFFICES ASSUME NEW e \in Euis, Mapped(e)', mappings'[e] = mappings[e], motes'[e] = motes[e]
               PROVE  WholeRow(e)'
  BY DEF MappingsInv
<1>2. Mapped(e) /\ mappings[e] \in MappingRows
  BY <1>1 DEF Mapped, LoraInv, LoraTypes
<1>3. PICK p \in WProjects : p = mappings[e].project
  BY <1>2 DEF MappingRows
<1>4. WholeRow(e)
  BY <1>2 DEF LoraInv, MappingsInv
<1>5. HasDevice(p, e)' /\ workspaces'[p].state # "none"
  BY <1>3, <1>4 DEF WholeRow
<1> QED BY <1>1, <1>3, <1>4, <1>5 DEF WholeRow

LEMMA UplinkStays ==
  ASSUME LoraInv, UNCHANGED uplink, vacated \subseteq vacated',
         \A e \in Euis : Mapped(e) => mappings'[e] = mappings[e],
         \A d \in DeviceIds :
           \/ /\ devices'[d].project = devices[d].project /\ devices'[d].name = devices[d].name
              /\ devices[d].registered \subseteq devices'[d].registered
           \/ <<devices[d].project, devices[d].name>> \in vacated'
           \/ devices[d].registered = {}
  PROVE  UplinkInv'
<1>1. CASE uplink.pc = "find"
  <2>1. uplink.eui \in Euis
    BY <1>1 DEF LoraInv, LoraTypes, Uplinks, NoUplink
  <2> QED BY <1>1, <2>1 DEF LoraInv, UplinkInv, Mapped
<1>2. CASE uplink.pc = "post"
  <2>1. uplink.eui \in Euis /\ uplink.device \in DeviceIds
    BY <1>2 DEF LoraInv, LoraTypes, Uplinks, NoUplink
  <2> QED BY <1>2, <2>1 DEF LoraInv, UplinkInv, Mapped
<1>3. CASE uplink.pc \notin {"find", "post"}
  BY <1>3 DEF UplinkInv
<1> QED BY <1>1, <1>2, <1>3

LEMMA RegistersMove ==
  ASSUME LoraInv, UNCHANGED nameOf, NEW t,
         \A p \in WProjects, e \in Euis :
           (workspaces[p].state # "none" /\ HasDevice(p, e)) => HasDevice(p, e)',
         \A p \in WProjects : workspaces[p].state # "none" => workspaces'[p].state # "none",
         DOMAIN apps \subseteq DOMAIN apps',
         \A s \in Threads \ {t} : jobs'[s] = jobs[s],
         t \in Threads => Registered(jobs[t])',
         \A e \in Euis : \/ mappings'[e] = mappings[e] /\ motes'[e] = motes[e]
                         \/ t \in Threads /\ jobs[t].pc \in {"mote", "keys", "map"} /\ jobs[t].eui = e,
         (t \in Threads /\ jobs'[t].pc \in {"mote", "keys", "map"}) =>
           \/ jobs[t].pc \in {"mote", "keys", "map"} /\ jobs'[t].eui = jobs[t].eui
           \/ \A s \in Threads : jobs[s].pc \in {"mote", "keys", "map"} => jobs[s].eui # jobs'[t].eui
  PROVE  RegistersInv'
<1>0. LoraTypes /\ RegistersInv
  BY DEF LoraInv
<1>1. ASSUME NEW s \in Threads PROVE Registered(jobs[s])'
  <2>1. CASE s = t
    BY <2>1
  <2>2. CASE s # t
    <3>1. Registered(jobs[s]) /\ jobs'[s] = jobs[s]
      BY <1>0, <2>2 DEF RegistersInv
    <3>2. jobs[s].pc \in {"mote", "keys", "map"} =>
            UNCHANGED motes[jobs[s].eui] /\ UNCHANGED mappings[jobs[s].eui]
      <4> SUFFICES ASSUME jobs[s].pc \in {"mote", "keys", "map"}
                   PROVE  UNCHANGED motes[jobs[s].eui] /\ UNCHANGED mappings[jobs[s].eui]
        OBVIOUS
      <4>1. PICK e \in Euis : e = jobs[s].eui
        BY <1>0, LoraShape DEF Registrations
      <4>2. ~(t \in Threads /\ jobs[t].pc \in {"mote", "keys", "map"} /\ jobs[t].eui = e)
        BY <1>0, <2>2, <4>1 DEF RegistersInv
      <4> QED BY <3>1, <4>1, <4>2
    <3> QED BY <1>0, <3>1, <3>2, StaysRegistered
  <2> QED BY <2>1, <2>2
<1>2. ASSUME NEW r \in Threads, NEW s \in Threads, r # s,
             jobs'[r].pc \in {"mote", "keys", "map"}, jobs'[s].pc \in {"mote", "keys", "map"}
      PROVE  jobs'[r].eui # jobs'[s].eui
  BY <1>0, <1>2 DEF RegistersInv
<1> QED BY <1>1, <1>2 DEF RegistersInv

\* A handler goes on; projects and devices stay as they are.
LEMMA HandlerMoves ==
  ASSUME LoraInv, NEW t \in Threads, NEW k \in LoraJobs, jobs' = [jobs EXCEPT ![t] = k],
         UNCHANGED <<workspaceVars, deviceVars, nameOf, uplink>>,
         \E S : apps' \in Seq(S), DOMAIN apps \subseteq DOMAIN apps',
         motes' \in [Euis -> Motes], mappings' \in [Euis -> {None} \cup MappingRows],
         \A e \in Euis : \/ mappings'[e] = mappings[e] /\ motes'[e] = motes[e]
                         \/ /\ jobs[t].pc \in {"mote", "keys", "map"} /\ jobs[t].eui = e
                            /\ Mapped(e)' => WholeRow(e)',
         Registered(k)',
         k.pc \in {"mote", "keys", "map"} => jobs[t].pc \in {"mote", "keys", "map"} /\ k.eui = jobs[t].eui
  PROVE  LoraInv'
<1>0. LoraTypes /\ DevicesInv /\ RegistersInv
  BY DEF LoraInv
<1>1. jobs' \in [Threads -> LoraJobs] /\ jobs'[t] = k /\ \A s \in Threads \ {t} : jobs'[s] = jobs[s]
  BY <1>0 DEF LoraTypes
<1>2. UNCHANGED <<workspaces, devices, vacated, nameOf, uplink>>
  BY DEF workspaceVars, deviceVars
<1>3. LoraTypes'
  BY <1>0, <1>1, <1>2 DEF LoraTypes, IsWorkspace
<1>4. DevicesInv'
  BY <1>0, <1>2 DEF DevicesInv, Session
<1>5. \A p \in WProjects, e \in Euis : HasDevice(p, e) => HasDevice(p, e)'
  BY <1>2 DEF HasDevice, Session
<1>6. RegistersInv'
  <2>1. Registered(jobs[t])'
    BY <1>1
  <2> QED BY <1>1, <1>2, <1>5, <2>1, RegistersMove
<1>7. MappingsInv'
  BY <1>2, <1>5, MappingsMove
<1>8. \A e \in Euis : Mapped(e) => mappings'[e] = mappings[e]
  BY <1>0 DEF RegistersInv, Registered
<1>9. UplinkInv'
  BY <1>2, <1>8, UplinkStays
<1> QED BY <1>3, <1>4, <1>6, <1>7, <1>9 DEF LoraInv

\* Registrations: from the list of applications to the commit.
LEMMA RegistrationSteps ==
  ASSUME LoraInv, NEW t \in Threads,
         \/ \E p \in WProjects : BeginRegister(t, p)
         \/ ListApps(t) \/ CreateApp(t) \/ CreateMote(t) \/ CreateKeys(t)
         \/ CommitMapping(t) \/ LoraFails(t)
  PROVE  LoraInv'
<1>0. LoraTypes /\ RegistersInv /\ MappingsInv /\ Registered(jobs[t])
  BY DEF LoraInv, RegistersInv
<1>1. /\ \E S : apps \in Seq(S)
      /\ motes \in [Euis -> Motes] /\ mappings \in [Euis -> {None} \cup MappingRows]
  BY <1>0 DEF LoraTypes
<1>2. Free \in LoraJobs /\ Registered(Free)' /\ Free.pc = "idle"
  BY DEF LoraJobs, Free, Registered
<1>3. ASSUME NEW p \in WProjects, BeginRegister(t, p) PROVE LoraInv'
  <2>0. PICK known \in BOOLEAN : known = AppKnown(p)
    BY DEF AppKnown
  <2>1. PICK k : k = [pc |-> "listapps", project |-> p, known |-> known, app |-> None, eui |-> None]
    OBVIOUS
  <2>2. k \in LoraJobs /\ k.pc = "listapps" /\ k.project = p
    BY <2>1 DEF LoraJobs, EarlyRegistrations
  <2>3. jobs' = [jobs EXCEPT ![t] = k] /\ UNCHANGED <<workspaceVars, deviceVars, loraVars>>
        /\ workspaces[p].state = "open"
    BY <1>3, <2>0, <2>1 DEF BeginRegister, Start, Become, Enters, Open
  <2>4. Registered(k)'
    BY <2>2, <2>3 DEF Registered, workspaceVars
  <2> QED BY <1>1, <2>2, <2>3, <2>4, HandlerMoves DEF loraVars
<1>4. ASSUME ListApps(t) PROVE LoraInv'
  <2>1. jobs[t].pc = "listapps" /\ jobs[t] \in EarlyRegistrations
        /\ UNCHANGED <<workspaceVars, deviceVars, loraVars>>
    BY <1>0, <1>4, LoraShape DEF ListApps, At
  <2>2. workspaces'[jobs[t].project].state # "none"
    BY <1>0, <2>1 DEF Registered, workspaceVars
  <2>3. ASSUME NEW k \in EarlyRegistrations, jobs' = [jobs EXCEPT ![t] = k], k.project = jobs[t].project,
               k.pc = "createapp" \/ (k.pc = "device" /\ k.app \in DOMAIN apps)
        PROVE  LoraInv'
    <3>1. k \in LoraJobs
      BY DEF LoraJobs
    <3>2. Registered(k)'
      BY <2>1, <2>2, <2>3 DEF Registered, loraVars
    <3> QED BY <1>1, <2>1, <2>3, <3>1, <3>2, HandlerMoves DEF loraVars
  <2>4. CASE \E a \in AppsNamed(workspaces[jobs[t].project].slug) :
               Become(t, [jobs[t] EXCEPT !.pc = "device", !.app = a])
    <3>1. PICK a \in DOMAIN apps : jobs' = [jobs EXCEPT ![t] = [jobs[t] EXCEPT !.pc = "device", !.app = a]]
      BY <2>4 DEF AppsNamed, Become
    <3>2. a \in Nat
      BY <1>1, <3>1
    <3> DEFINE k == [jobs[t] EXCEPT !.pc = "device", !.app = a]
    <3>3. k \in EarlyRegistrations /\ k.pc = "device" /\ k.app = a /\ k.project = jobs[t].project
      BY <2>1, <3>2 DEF EarlyRegistrations
    <3> HIDE DEF k
    <3> QED BY <2>3, <3>1, <3>3 DEF k
  <2>5. CASE Become(t, [jobs[t] EXCEPT !.pc = "createapp"])
    <3> DEFINE k == [jobs[t] EXCEPT !.pc = "createapp"]
    <3>1. k \in EarlyRegistrations /\ k.pc = "createapp" /\ k.project = jobs[t].project
      BY <2>1 DEF EarlyRegistrations
    <3>2. jobs' = [jobs EXCEPT ![t] = k]
      BY <2>5 DEF Become
    <3> HIDE DEF k
    <3> QED BY <2>3, <3>1, <3>2
  <2> QED BY <1>4, <2>4, <2>5 DEF ListApps
<1>5. ASSUME CreateApp(t) PROVE LoraInv'
  <2>1. jobs[t].pc = "createapp" /\ jobs[t] \in EarlyRegistrations
        /\ UNCHANGED <<workspaceVars, deviceVars, nameOf, motes, mappings, uplink>>
    BY <1>0, <1>5, LoraShape DEF CreateApp, At
  <2>2. workspaces'[jobs[t].project].state # "none"
    BY <1>0, <2>1 DEF Registered, workspaceVars
  <2>3. PICK slug, a : slug = workspaces[jobs[t].project].slug /\ a = Len(apps) + 1
    OBVIOUS
  <2>4. PICK k : k = [[jobs[t] EXCEPT !.pc = "device"] EXCEPT !.app = a]
    OBVIOUS
  <2>5. PICK S : apps \in Seq(S)
    BY <1>1
  <2>6. apps \in Seq(S \cup {slug}) /\ slug \in S \cup {slug}
    BY <2>5
  <2>7. apps' = Append(apps, slug) /\ jobs' = [jobs EXCEPT ![t] = k]
    BY <1>5, <2>3, <2>4 DEF CreateApp, Become
  <2>8. apps' \in Seq(S \cup {slug}) /\ DOMAIN apps \subseteq DOMAIN apps' /\ a \in DOMAIN apps' /\ a \in Nat
    BY <2>3, <2>6, <2>7
  <2>9. k \in EarlyRegistrations /\ k.pc = "device" /\ k.app = a /\ k.project = jobs[t].project
    BY <2>1, <2>8, <2>4 DEF EarlyRegistrations
  <2>10. Registered(k)'
    BY <2>2, <2>8, <2>9 DEF Registered
  <2>11. k \in LoraJobs
    BY <2>9 DEF LoraJobs
  <2> QED BY <1>1, <2>1, <2>7, <2>8, <2>9, <2>10, <2>11, HandlerMoves
<1>6. ASSUME jobs[t].pc \in {"mote", "keys", "map"}
      PROVE  jobs[t] \in Registrations /\ jobs[t].eui \in Euis /\ jobs[t].project \in WProjects
             /\ workspaces[jobs[t].project].state # "none" /\ jobs[t].app \in DOMAIN apps
             /\ ~Mapped(jobs[t].eui) /\ HasDevice(jobs[t].project, jobs[t].eui)
  BY <1>0, <1>6, LoraShape DEF Registered, Registrations
\* what is left to show of CreateMote and CreateKeys
<1>7. ASSUME jobs[t].pc \in {"mote", "keys"}, UNCHANGED <<workspaceVars, deviceVars, nameOf, apps, mappings, uplink>>,
             NEW place \in {"keys", "map"}, jobs' = [jobs EXCEPT ![t].pc = place],
             NEW m \in Motes, motes' = [motes EXCEPT ![jobs[t].eui] = m],
             m.app \in DOMAIN apps, place = "map" => m.keys
      PROVE  LoraInv'
  <2>0. PICK k : k = [jobs[t] EXCEPT !.pc = place]
    OBVIOUS
  <2>1. k \in Registrations /\ k.pc = place /\ k.eui = jobs[t].eui /\ k.project = jobs[t].project
        /\ k.app = jobs[t].app
    BY <1>6, <1>7, <2>0 DEF Registrations
  <2>2. jobs' = [jobs EXCEPT ![t] = k]
    BY <1>7, <2>0
  <2>3. k \in LoraJobs
    BY <2>1 DEF LoraJobs
  <2>4. PICK p \in WProjects, e \in Euis : p = jobs[t].project /\ e = jobs[t].eui
    BY <1>6, <1>7
  <2>5. HasDevice(p, e)' /\ ~Mapped(e)' /\ workspaces'[p].state # "none"
    BY <1>6, <1>7, <2>4 DEF HasDevice, Mapped, Session, workspaceVars, deviceVars
  <2>6. motes' \in [Euis -> Motes] /\ motes'[e] = m /\ \A f \in Euis \ {e} : motes'[f] = motes[f]
    BY <1>1, <1>7, <2>4
  <2>7. Registered(k)'
    BY <1>6, <1>7, <2>1, <2>4, <2>5, <2>6 DEF Registered
  <2>8. \A f \in Euis : \/ mappings'[f] = mappings[f] /\ motes'[f] = motes[f]
                        \/ f = e /\ ~Mapped(f)'
    BY <1>7, <2>5, <2>6
  <2> QED BY <1>1, <1>7, <2>1, <2>2, <2>3, <2>4, <2>6, <2>7, <2>8, HandlerMoves
<1>8. ASSUME CreateMote(t) PROVE LoraInv'
  <2>1. jobs[t].pc = "mote" /\ jobs' = [jobs EXCEPT ![t].pc = "keys"]
        /\ motes' = [motes EXCEPT ![jobs[t].eui] = [app |-> jobs[t].app, keys |-> FALSE]]
        /\ UNCHANGED <<workspaceVars, deviceVars, nameOf, apps, mappings, uplink>>
    BY <1>8 DEF CreateMote, At, Goto
  <2> DEFINE m == [app |-> jobs[t].app, keys |-> FALSE]
  <2>2. m \in Motes /\ m.app = jobs[t].app
    BY <1>6, <2>1 DEF Motes, Registrations
  <2> HIDE DEF m
  <2> QED BY <1>6, <1>7, <2>1, <2>2 DEF m
<1>9. ASSUME CreateKeys(t) PROVE LoraInv'
  <2>1. jobs[t].pc = "keys" /\ jobs' = [jobs EXCEPT ![t].pc = "map"]
        /\ motes' = [motes EXCEPT ![jobs[t].eui].keys = TRUE]
        /\ UNCHANGED <<workspaceVars, deviceVars, nameOf, apps, mappings, uplink>>
    BY <1>9 DEF CreateKeys, At, Goto
  <2> DEFINE m == [motes[jobs[t].eui] EXCEPT !.keys = TRUE]
  <2>2. m \in Motes /\ m.app = motes[jobs[t].eui].app /\ m.keys
    BY <1>1, <1>6, <2>1 DEF Motes
  <2>3. motes' = [motes EXCEPT ![jobs[t].eui] = m] /\ m.app \in DOMAIN apps
    BY <1>0, <2>1, <2>2 DEF Registered
  <2> HIDE DEF m
  <2> QED BY <1>7, <2>1, <2>2, <2>3
<1>10. ASSUME CommitMapping(t) PROVE LoraInv'
  <2>1. jobs[t].pc = "map" /\ jobs' = [jobs EXCEPT ![t] = Free]
        /\ UNCHANGED <<workspaceVars, deviceVars, nameOf, apps, motes, uplink>>
    BY <1>10 DEF CommitMapping, At, Finish, Become
  <2>2. PICK p \in WProjects, e \in Euis : p = jobs[t].project /\ e = jobs[t].eui
    BY <1>6, <2>1
  <2>3. \/ mappings' = mappings
        \/ mappings' = [mappings EXCEPT ![e] = [project |-> p, name |-> nameOf[e]]]
    BY <1>10, <2>2 DEF CommitMapping
  <2>4. [project |-> p, name |-> nameOf[e]] \in MappingRows
    BY <1>0 DEF LoraTypes, MappingRows
  <2>5. mappings' \in [Euis -> {None} \cup MappingRows] /\ \A f \in Euis \ {e} : mappings'[f] = mappings[f]
    BY <1>1, <2>3, <2>4
  <2>6. HasDevice(p, e)' /\ workspaces'[p].state # "none"
    BY <1>6, <2>1, <2>2 DEF HasDevice, Session, workspaceVars, deviceVars
  <2>7. motes[e].app \in DOMAIN apps /\ motes[e].keys
    BY <1>0, <2>1, <2>2 DEF Registered
  <2>8. mappings'[e] = mappings[e] \/ mappings'[e] = [project |-> p, name |-> nameOf[e]]
    BY <1>1, <2>3
  <2>9. \/ mappings'[e] = mappings[e] /\ motes'[e] = motes[e]
        \/ WholeRow(e)'
    BY <2>1, <2>6, <2>7, <2>8 DEF WholeRow
  <2>10. \A f \in Euis : \/ mappings'[f] = mappings[f] /\ motes'[f] = motes[f]
                         \/ f = e /\ (Mapped(f)' => WholeRow(f)')
    BY <2>1, <2>5, <2>9
  <2> QED BY <1>1, <1>2, <2>1, <2>2, <2>5, <2>10, HandlerMoves
<1>11. ASSUME LoraFails(t) PROVE LoraInv'
  <2>1. jobs' = [jobs EXCEPT ![t] = Free] /\ UNCHANGED <<workspaceVars, deviceVars, loraVars>>
    BY <1>11 DEF LoraFails, Killed, Become
  <2> QED BY <1>1, <1>2, <2>1, HandlerMoves DEF loraVars
<1> QED BY <1>3, <1>4, <1>5, <1>8, <1>9, <1>10, <1>11

LEMMA BridgeSteps ==
  ASSUME LoraInv, (\E e \in Euis : ReadMapping(e)) \/ FindTbDevice \/ PostTelemetry
  PROVE  LoraInv'
<1>0. LoraTypes /\ DevicesInv /\ RegistersInv /\ MappingsInv /\ UplinkInv
  BY DEF LoraInv
<1>1. UNCHANGED <<workspaces, devices, vacated, nameOf, apps, motes, mappings, jobs>>
  BY DEF ReadMapping, FindTbDevice, PostTelemetry, Bridge, workspaceVars, deviceVars, handlerVars
<1>2. uplink' \in Uplinks /\ UplinkInv'
  <2>1. ASSUME NEW e \in Euis, ReadMapping(e) PROVE uplink' \in Uplinks /\ UplinkInv'
    <3>1. mappings[e] \in MappingRows /\ Mapped(e)
      BY <1>0, <2>1 DEF ReadMapping, Routed, Mapped, LoraTypes
    <3>2. uplink' = [pc |-> "find", eui |-> e, project |-> mappings[e].project, name |-> mappings[e].name]
      BY <2>1 DEF ReadMapping, Bridge
    <3>3. uplink' \in Uplinks
      BY <3>1, <3>2 DEF Uplinks, MappingRows
    <3>4. mappings[e] = [project |-> mappings[e].project, name |-> mappings[e].name]
      BY <3>1 DEF MappingRows
    <3>5. UplinkInv'
      BY <1>1, <3>1, <3>2, <3>4 DEF UplinkInv, Mapped
    <3> QED BY <3>3, <3>5
  <2>2. ASSUME Bridge(NoUplink) PROVE uplink' \in Uplinks /\ UplinkInv'
    BY <2>2 DEF Bridge, NoUplink, Uplinks, UplinkInv
  <2>3. ASSUME FindTbDevice PROVE uplink' \in Uplinks /\ UplinkInv'
    <3>1. uplink.pc = "find"
      BY <2>3 DEF FindTbDevice
    <3>2. PICK e \in Euis, p \in WProjects, n \in Names :
            uplink = [pc |-> "find", eui |-> e, project |-> p, name |-> n]
      BY <1>0, <3>1 DEF LoraTypes, Uplinks, NoUplink
    <3>3. Mapped(e) /\ mappings[e] = [project |-> p, name |-> n]
      BY <1>0, <3>2 DEF UplinkInv
    <3>4. CASE Bridge(NoUplink)
      BY <2>2, <3>4
    <3>5. ASSUME NEW d \in Named(p, n), Session(p),
                 Bridge([pc |-> "post", eui |-> e, device |-> d])
          PROVE  uplink' \in Uplinks /\ UplinkInv'
      <4>1. d \in DeviceIds /\ devices[d].project = p /\ devices[d].name = n
        BY <3>5 DEF Named
      <4>2. uplink' = [pc |-> "post", eui |-> e, device |-> d]
        BY <3>5 DEF Bridge
      <4>3. uplink' \in Uplinks
        BY <4>1, <4>2 DEF Uplinks
      <4>4. HasDevice(p, e) /\ n = nameOf[e]
        BY <1>0, <3>3 DEF MappingsInv, WholeRow
      <4>5. <<p, n>> \in vacated \/ e \in devices[d].registered
        <5>1. SUFFICES ASSUME NEW c \in DeviceIds, devices[c].project = p, devices[c].name = n,
                              e \in devices[c].registered
                       PROVE  e \in devices[d].registered
          BY <3>5, <4>4 DEF HasDevice
        <5>2. p # None
          BY WorkspacesAssumption
        <5> QED BY <1>0, <3>5, <4>1, <5>1, <5>2 DEF DevicesInv
      <4>6. UplinkInv'
        BY <1>1, <3>3, <4>1, <4>2, <4>5 DEF UplinkInv, Mapped
      <4> QED BY <4>3, <4>6
    <3> QED BY <2>3, <3>2, <3>4, <3>5 DEF FindTbDevice
  <2> QED BY <2>1, <2>2, <2>3 DEF PostTelemetry
<1>3. LoraTypes'
  BY <1>0, <1>1, <1>2 DEF LoraTypes, IsWorkspace
<1>4. DevicesInv'
  BY <1>0, <1>1 DEF DevicesInv, Session
<1>5. \A p \in WProjects, e \in Euis : HasDevice(p, e) => HasDevice(p, e)'
  BY <1>1 DEF HasDevice, Session
<1>6. RegistersInv'
  BY <1>0, <1>1 DEF RegistersInv, Registered, HasDevice, Session, Mapped
<1>7. MappingsInv'
  BY <1>1, <1>5, MappingsMove
<1> QED BY <1>2, <1>3, <1>4, <1>6, <1>7 DEF LoraInv

\* Projects come and go; registrations and devices stay.
LEMMA ProjectMoves ==
  ASSUME LoraInv, UNCHANGED <<deviceVars, loraVars>>,
         NEW p \in WProjects, NEW w, IsWorkspace(w), workspaces' = [workspaces EXCEPT ![p] = w],
         w.state # "none", workspaces[p].state # "none" => ~w.tenant,
         jobs' \in [Threads -> LoraJobs],
         \A t \in Threads : \/ jobs'[t] = jobs[t] \/ jobs'[t].pc = "idle"
                            \/ jobs'[t].pc = "rows" /\ jobs'[t].project = p
  PROVE  LoraInv'
<1>0. LoraTypes /\ DevicesInv /\ RegistersInv
  BY DEF LoraInv
<1>1. UNCHANGED <<devices, vacated, nameOf, apps, motes, mappings, uplink>>
  BY DEF deviceVars, loraVars
<1>2. /\ workspaces' = [q \in WProjects |-> workspaces'[q]]
      /\ workspaces'[p] = w /\ \A q \in WProjects \ {p} : workspaces'[q] = workspaces[q]
      /\ \A q \in WProjects : IsWorkspace(workspaces'[q])
  BY <1>0 DEF LoraTypes
<1>3. \A q \in WProjects : workspaces[q].state # "none" =>
        workspaces'[q].state # "none" /\ (Session(q)' => Session(q))
  BY <1>2 DEF Session
<1>4. LoraTypes'
  BY <1>0, <1>1, <1>2 DEF LoraTypes
<1>5. DevicesInv'
  <2>1. \A d \in DeviceIds : devices[d].project # None => devices[d].project \in WProjects
    BY <1>0 DEF LoraTypes, DeviceRows
  <2>2. ASSUME NEW d \in DeviceIds, devices[d].project # None
        PROVE  \E q \in WProjects : q = devices[d].project /\ workspaces'[q].state # "none"
                                    /\ (workspaces'[q].tenant => workspaces[q].tenant)
    BY <1>0, <1>3, <2>1, <2>2 DEF DevicesInv, Session
  <2> QED BY <1>0, <1>1, <2>2 DEF DevicesInv, Session
<1>6. \A q \in WProjects, e \in Euis :
        (workspaces[q].state # "none" /\ HasDevice(q, e)) => HasDevice(q, e)'
  BY <1>1, <1>3 DEF HasDevice
<1>7. RegistersInv'
  <2>1. ASSUME NEW t \in Threads PROVE Registered(jobs[t])'
    <3>1. CASE jobs'[t] = jobs[t]
      BY <1>0, <1>1, <1>3, <1>6, <3>1, StaysRegistered DEF RegistersInv
    <3>2. CASE jobs'[t].pc = "idle" \/ (jobs'[t].pc = "rows" /\ jobs'[t].project = p)
      BY <1>2, <3>2 DEF Registered
    <3> QED BY <3>1, <3>2
  <2>2. ASSUME NEW t \in Threads, jobs'[t].pc \in {"mote", "keys", "map"} PROVE jobs'[t] = jobs[t]
    BY <2>2
  <2> QED BY <1>0, <2>1, <2>2 DEF RegistersInv
<1>8. MappingsInv'
  BY <1>1, <1>3, <1>6, MappingsMove
<1>9. UplinkInv'
  BY <1>1, UplinkStays
<1> QED BY <1>4, <1>5, <1>7, <1>8, <1>9 DEF LoraInv

LEMMA ProjectSteps ==
  ASSUME LoraInv, WorkspacesNext, UNCHANGED <<deviceVars, loraVars>>
  PROVE  LoraInv'
<1>0. LoraTypes
  BY DEF LoraInv
<1>1. /\ workspaces = [p \in WProjects |-> workspaces[p]] /\ jobs \in [Threads -> LoraJobs]
      /\ \A p \in WProjects : IsWorkspace(workspaces[p])
      /\ Free \in LoraJobs /\ Free.pc = "idle" /\ Registered(Free)'
  BY <1>0 DEF LoraTypes, LoraJobs, Free, Registered
<1>2. ASSUME NEW t \in Threads, NEW k \in LoraJobs, jobs' = [jobs EXCEPT ![t] = k]
      PROVE  /\ jobs' \in [Threads -> LoraJobs]
             /\ jobs'[t] = k /\ \A s \in Threads \ {t} : jobs'[s] = jobs[s]
  BY <1>1, <1>2
<1>3. ASSUME NEW p \in WProjects, NEW u \in People, OpenProject(p, u) PROVE LoraInv'
  <2>1. PICK n : workspaces' = [workspaces EXCEPT ![p] =
                   [state |-> "open", slug |-> n, tenant |-> TRUE, owner |-> u,
                    members |-> [v \in People |-> IF v = u THEN "active" ELSE "none"]]]
    BY <1>3 DEF OpenProject
  <2>2. PICK w : w = [state |-> "open", slug |-> n, tenant |-> TRUE, owner |-> u,
                      members |-> [v \in People |-> IF v = u THEN "active" ELSE "none"]]
    OBVIOUS
  <2>3. IsWorkspace(w) /\ w.state = "open"
    BY <2>2 DEF IsWorkspace
  <2>4. workspaces' = [workspaces EXCEPT ![p] = w]
    BY <2>1, <2>2
  <2>5. workspaces[p].state = "none" /\ UNCHANGED jobs
    BY <1>3 DEF OpenProject
  <2> QED BY <1>1, <2>3, <2>4, <2>5, ProjectMoves
<1>4. ASSUME NEW t \in Threads, NEW p \in WProjects, CloseProject(t, p) PROVE LoraInv'
  <2>1. PICK k : k = [pc |-> IF labEnabled THEN "notebooks" ELSE "tenant", project |-> p,
                      emails |-> {u \in People : workspaces[p].members[u] # "none"}]
    OBVIOUS
  <2>2. k \in LoraJobs /\ k.pc \in {"notebooks", "tenant"} /\ k.project = p
    BY <2>1 DEF Deletions, LoraJobs
  <2>3. jobs' = [jobs EXCEPT ![t] = k] /\ UNCHANGED workspaceVars
    BY <1>4, <2>1 DEF CloseProject, Start, Become
  <2>4. UNCHANGED <<nameOf, uplink, apps, motes, mappings>>
    BY DEF loraVars
  <2>5. workspaces[p].state # "none"
    BY <1>4 DEF CloseProject, Enters, Open
  <2>6. Registered(k)'
    BY <2>2, <2>3, <2>5 DEF Registered, workspaceVars
  <2> QED BY <1>0, <2>2, <2>3, <2>4, <2>6, HandlerMoves DEF LoraTypes
<1>5. ASSUME NEW t \in Threads, jobs[t].pc \in {"tenant", "rows"}
      PROVE  jobs[t] \in Deletions /\ jobs[t].project \in WProjects
  BY <1>0, <1>5, LoraShape DEF Deletions
<1>6. ASSUME NEW t \in Threads, DropWorkspace(t) PROVE LoraInv'
  <2>1. jobs[t].pc = "tenant"
    BY <1>6 DEF DropWorkspace, At
  <2>2. PICK p \in WProjects : p = jobs[t].project
    BY <1>5, <2>1
  <2>3. PICK w : w = [workspaces[p] EXCEPT !.tenant = FALSE]
    OBVIOUS
  <2>4. IsWorkspace(w) /\ ~w.tenant /\ w.state = workspaces[p].state
    BY <1>1, <2>2, <2>3 DEF IsWorkspace
  <2>5. workspaces' = [workspaces EXCEPT ![p] = w]
    BY <1>1, <1>6, <2>2, <2>3 DEF DropWorkspace
  <2>6. PICK k : k = [jobs[t] EXCEPT !.pc = "rows"]
    OBVIOUS
  <2>7. k \in LoraJobs /\ k.pc = "rows" /\ k.project = p
    BY <1>5, <2>1, <2>2, <2>6 DEF Deletions, LoraJobs
  <2>8. jobs' = [jobs EXCEPT ![t] = k] \/ jobs' = [jobs EXCEPT ![t] = Free]
    BY <1>1, <1>6, <2>6 DEF DropWorkspace, Goto, Finish, Become
  <2>9. /\ jobs' \in [Threads -> LoraJobs]
        /\ \A s \in Threads : \/ jobs'[s] = jobs[s] \/ jobs'[s].pc = "idle"
                              \/ jobs'[s].pc = "rows" /\ jobs'[s].project = p
    BY <1>1, <1>2, <2>7, <2>8
  <2>10. w.state # "none"
    BY <2>1, <2>2, <2>3, <2>4 DEF LoraInv, RegistersInv, Registered
  <2> QED BY <2>4, <2>5, <2>9, <2>10, ProjectMoves
<1>7. ASSUME NEW t \in Threads, EraseWorkspace(t) PROVE LoraInv'
  <2>1. jobs[t].pc = "rows"
    BY <1>7 DEF EraseWorkspace, At
  <2>2. PICK p \in WProjects : p = jobs[t].project
    BY <1>5, <2>1
  <2>3. PICK w : w = [NoWorkspace EXCEPT !.state = "gone", !.slug = workspaces[p].slug]
    OBVIOUS
  <2>4. IsWorkspace(w) /\ ~w.tenant /\ w.state = "gone"
    BY <2>2, <2>3 DEF IsWorkspace, NoWorkspace
  <2>5. workspaces' = [workspaces EXCEPT ![p] = w] /\ jobs' = [jobs EXCEPT ![t] = Free]
    BY <1>7, <2>2, <2>3 DEF EraseWorkspace, Finish, Become
  <2>6. /\ jobs' \in [Threads -> LoraJobs]
        /\ \A s \in Threads : jobs'[s] = jobs[s] \/ jobs'[s].pc = "idle"
    BY <1>1, <1>2, <2>5
  <2> QED BY <2>4, <2>5, <2>6, ProjectMoves
<1> QED BY <1>3, <1>4, <1>6, <1>7 DEF WorkspacesNext

\* Devices come, go and change their names; LoRaWAN devices and the bridge stay.
LEMMA DeviceMoves ==
  ASSUME LoraInv, UNCHANGED <<workspaceVars, loraVars>>, vacated \subseteq vacated',
         NEW d \in DeviceIds, NEW r \in DeviceRows, devices' = [devices EXCEPT ![d] = r],
         r.project # None => workspaces[r.project].state # "none",
         \A c \in DeviceIds \ {d} :
           (/\ r.project # None /\ devices[c].project = r.project
            /\ devices[c].name = r.name) => ~Session(r.project),
         \/ /\ r.project = devices[d].project /\ r.name = devices[d].name
            /\ devices[d].registered \subseteq r.registered
         \/ <<devices[d].project, devices[d].name>> \in vacated'
         \/ devices[d].registered = {},
         NEW t, \A s \in Threads \ {t} : jobs'[s] = jobs[s], jobs' \in [Threads -> LoraJobs],
         t \in Threads => Registered(jobs[t])',
         (t \in Threads /\ jobs'[t].pc \in {"mote", "keys", "map"}) =>
           \A s \in Threads : jobs[s].pc \in {"mote", "keys", "map"} => jobs[s].eui # jobs'[t].eui
  PROVE  LoraInv'
<1>0. LoraTypes /\ DevicesInv
  BY DEF LoraInv
<1>1. UNCHANGED <<workspaces, nameOf, apps, motes, mappings, uplink>>
  BY DEF workspaceVars, loraVars
<1>2. /\ devices' \in [DeviceIds -> DeviceRows] /\ devices'[d] = r
      /\ \A c \in DeviceIds \ {d} : devices'[c] = devices[c]
  BY <1>0 DEF LoraTypes
<1>3. LoraTypes'
  BY <1>0, <1>1, <1>2 DEF LoraTypes, IsWorkspace
<1>4. DevicesInv'
  <2>1. \A c \in DeviceIds : devices'[c].project # None => workspaces[devices'[c].project].state # "none"
    BY <1>0, <1>2 DEF DevicesInv
  <2>2. ASSUME NEW b \in DeviceIds, NEW c \in DeviceIds,
               devices'[b].project # None, devices'[b].project = devices'[c].project,
               devices'[b].name = devices'[c].name, workspaces[devices'[b].project].tenant
        PROVE  b = c
    BY <1>0, <1>2, <2>2 DEF DevicesInv, Session
  <2> QED BY <1>1, <2>1, <2>2 DEF DevicesInv, Session
<1>5. \A p \in WProjects, e \in Euis : HasDevice(p, e) => HasDevice(p, e)'
  BY <1>1, <1>2 DEF HasDevice, Session
<1>6. RegistersInv'
  BY <1>1, <1>5, RegistersMove
<1>7. MappingsInv'
  BY <1>1, <1>5, MappingsMove
<1>8. UplinkInv'
  BY <1>1, <1>2, UplinkStays
<1> QED BY <1>3, <1>4, <1>6, <1>7, <1>8 DEF LoraInv

LEMMA DeviceSteps ==
  ASSUME LoraInv, DevicesNext, UNCHANGED loraVars
  PROVE  LoraInv'
<1>0. LoraTypes /\ DevicesInv
  BY DEF LoraInv
<1>1. devices \in [DeviceIds -> DeviceRows] /\ jobs \in [Threads -> LoraJobs]
  BY <1>0 DEF LoraTypes
<1>2. ASSUME UNCHANGED handlerVars
      PROVE  /\ jobs' \in [Threads -> LoraJobs]
             /\ \A s \in Threads \ {None} : jobs'[s] = jobs[s]
             /\ None \notin Threads
  BY <1>1, <1>2, HandlersAssumption DEF handlerVars
<1>3. ASSUME NEW u \in People, NEW p \in WProjects, NEW n \in Names, CreateDevice(u, p, n)
      PROVE  LoraInv'
  <2>1. PICK d \in DeviceIds : EngineCreates(p, n, d, {})
    BY <1>3 DEF CreateDevice
  <2>2. PICK r : r = [project |-> p, name |-> n, registered |-> {}]
    OBVIOUS
  <2>3. r \in DeviceRows /\ r.project = p /\ r.name = n
    BY <2>2 DEF DeviceRows
  <2>4. devices' = [devices EXCEPT ![d] = r] /\ Session(p) /\ Named(p, n) = {} /\ devices[d].registered = {}
    BY <2>1, <2>2 DEF EngineCreates, NoDevice
  <2>5. workspaces[p].state # "none"
    BY <1>3 DEF CreateDevice, Enters, Open
  <2>6. \A c \in DeviceIds : devices[c].project = p /\ devices[c].name = n => ~Session(p)
    BY <2>4, WorkspacesAssumption DEF Named, Live
  <2>7. UNCHANGED <<workspaceVars, vacated, handlerVars>>
    BY <1>3 DEF CreateDevice
  <2> QED BY <1>2, <2>3, <2>4, <2>5, <2>6, <2>7, DeviceMoves
<1>4. ASSUME NEW d \in DeviceIds, Vacate(d)
      PROVE  vacated \subseteq vacated' /\ <<devices[d].project, devices[d].name>> \in vacated'
  BY <1>4 DEF Vacate
<1>5. ASSUME NEW u \in People, NEW d \in DeviceIds, DeleteDevice(u, d) PROVE LoraInv'
  <2>1. NoDevice \in DeviceRows /\ NoDevice.project = None
    BY DEF NoDevice, DeviceRows
  <2>2. devices' = [devices EXCEPT ![d] = NoDevice] /\ Vacate(d) /\ UNCHANGED <<workspaceVars, handlerVars>>
    BY <1>5 DEF DeleteDevice
  <2> QED BY <1>2, <1>4, <2>1, <2>2, DeviceMoves
<1>6. ASSUME NEW u \in People, NEW d \in DeviceIds, NEW n \in Names, RenameDevice(u, d, n) PROVE LoraInv'
  <2>1. PICK r : r = [devices[d] EXCEPT !.name = n]
    OBVIOUS
  <2>2. r \in DeviceRows /\ r.project = devices[d].project /\ r.name = n
    BY <1>1, <2>1 DEF DeviceRows
  <2>3. /\ devices' = [devices EXCEPT ![d] = r] /\ Vacate(d) /\ UNCHANGED <<workspaceVars, handlerVars>>
        /\ Named(r.project, n) = {}
    BY <1>1, <1>6, <2>1, <2>2 DEF RenameDevice
  <2>4. r.project # None => workspaces[r.project].state # "none"
    BY <1>0, <2>2 DEF DevicesInv
  <2>5. \A c \in DeviceIds \ {d} :
          (r.project # None /\ devices[c].project = r.project /\ devices[c].name = n) => ~Session(r.project)
    BY <2>3 DEF Named, Live
  <2> QED BY <1>2, <1>4, <2>2, <2>3, <2>4, <2>5, DeviceMoves
<1> QED BY <1>3, <1>5, <1>6 DEF DevicesNext

\* ensure_device, with the DevEUI the registration has drawn
LEMMA EnsureDeviceStep ==
  ASSUME LoraInv, NEW t \in Threads, NEW e \in Euis, EnsureTbDevice(t, e)
  PROVE  LoraInv'
<1>0. LoraTypes /\ DevicesInv /\ RegistersInv /\ Registered(jobs[t])
  BY DEF LoraInv, RegistersInv
<1>1. devices \in [DeviceIds -> DeviceRows] /\ jobs \in [Threads -> LoraJobs] /\ nameOf \in [Euis -> Names]
      /\ \E S : apps \in Seq(S)
  BY <1>0 DEF LoraTypes
<1>2. jobs[t].pc = "device" /\ jobs[t] \in EarlyRegistrations /\ FreshEui(e)
      /\ UNCHANGED <<workspaceVars, vacated, loraVars>>
  BY <1>0, LoraShape DEF EnsureTbDevice, At
<1>3. /\ workspaces[jobs[t].project].state # "none" /\ jobs[t].app \in DOMAIN apps
      /\ ~Mapped(e) /\ \A s \in Threads : jobs[s].pc \in {"mote", "keys", "map"} => jobs[s].eui # e
  BY <1>0, <1>2 DEF Registered, FreshEui
<1>4. PICK p \in WProjects, n \in Names : p = jobs[t].project /\ n = nameOf[e]
  BY <1>1, <1>2 DEF EarlyRegistrations
<1>5. PICK k : k = [[jobs[t] EXCEPT !.pc = "mote"] EXCEPT !.eui = e]
  OBVIOUS
<1>6. k \in Registrations /\ k.pc = "mote" /\ k.eui = e /\ k.project = p /\ k.app = jobs[t].app
  <2>1. jobs[t].app \in Nat
    BY <1>1, <1>3
  <2> QED BY <1>2, <1>4, <1>5, <2>1 DEF EarlyRegistrations, Registrations
\* the device of the name, found or new, is the one the DevEUI is registered for
<1>7. ASSUME NEW d \in DeviceIds, NEW r \in DeviceRows, devices' = [devices EXCEPT ![d] = r],
             r.project = p, r.name = n, e \in r.registered,
             \A c \in DeviceIds \ {d} : devices[c].project = p /\ devices[c].name = n => ~Session(p),
             \/ /\ r.project = devices[d].project /\ r.name = devices[d].name
                /\ devices[d].registered \subseteq r.registered
             \/ devices[d].registered = {},
             jobs' = [jobs EXCEPT ![t] = k]
      PROVE  LoraInv'
  <2>1. /\ jobs' \in [Threads -> LoraJobs] /\ jobs'[t] = k
        /\ \A s \in Threads \ {t} : jobs'[s] = jobs[s]
    BY <1>1, <1>6, <1>7 DEF LoraJobs
  <2>2. devices'[d] = r
    BY <1>1, <1>7
  <2>3. HasDevice(p, e)'
    BY <1>2, <1>4, <1>7, <2>2 DEF HasDevice, loraVars
  <2>4. Registered(k)'
    BY <1>2, <1>3, <1>4, <1>6, <2>3 DEF Registered, Mapped, loraVars, workspaceVars
  <2>5. Registered(jobs[t])'
    BY <2>1, <2>4
  <2>6. UNCHANGED <<workspaceVars, loraVars>> /\ vacated \subseteq vacated'
    BY <1>2
  <2>7. workspaces[r.project].state # "none"
    BY <1>3, <1>4, <1>7
  <2>8. \A c \in DeviceIds \ {d} :
          (/\ r.project # None /\ devices[c].project = r.project
           /\ devices[c].name = r.name) => ~Session(r.project)
    BY <1>7
  <2>9. jobs'[t].pc \in {"mote", "keys", "map"} =>
          \A s \in Threads : jobs[s].pc \in {"mote", "keys", "map"} => jobs[s].eui # jobs'[t].eui
    BY <1>3, <1>6, <2>1
  <2> QED BY <1>7, <2>1, <2>5, <2>6, <2>7, <2>8, <2>9, DeviceMoves
<1>8. CASE /\ \E d \in Named(p, n) : devices' = [devices EXCEPT ![d].registered = @ \cup {e}]
           /\ jobs' = [jobs EXCEPT ![t] = k]
  <2>1. PICK d \in Named(p, n) : devices' = [devices EXCEPT ![d].registered = @ \cup {e}]
    BY <1>8
  <2>2. d \in DeviceIds /\ devices[d].project = p /\ devices[d].name = n /\ p # None
    BY WorkspacesAssumption DEF Named
  <2>3. PICK r : r = [devices[d] EXCEPT !.registered = @ \cup {e}]
    OBVIOUS
  <2>4. r \in DeviceRows /\ r.project = p /\ r.name = n /\ r.registered = devices[d].registered \cup {e}
    BY <1>1, <2>2, <2>3 DEF DeviceRows
  <2>5. devices' = [devices EXCEPT ![d] = r]
    BY <1>1, <2>1, <2>2, <2>3
  <2>6. \A c \in DeviceIds \ {d} : devices[c].project = p /\ devices[c].name = n => ~Session(p)
    BY <1>0, <2>2 DEF DevicesInv
  <2> QED BY <1>7, <1>8, <2>2, <2>4, <2>5, <2>6
<1>9. CASE /\ \E d \in DeviceIds : EngineCreates(p, n, d, {e}) /\ ~Aimed(d)
           /\ jobs' = [jobs EXCEPT ![t] = k]
  <2>1. PICK d \in DeviceIds : EngineCreates(p, n, d, {e})
    BY <1>9
  <2>2. PICK r : r = [project |-> p, name |-> n, registered |-> {e}]
    OBVIOUS
  <2>3. r \in DeviceRows /\ r.project = p /\ r.name = n /\ e \in r.registered
    BY <2>2 DEF DeviceRows
  <2>4. devices' = [devices EXCEPT ![d] = r] /\ Named(p, n) = {} /\ devices[d].registered = {}
    BY <2>1, <2>2 DEF EngineCreates, NoDevice
  <2>5. \A c \in DeviceIds \ {d} : devices[c].project = p /\ devices[c].name = n => ~Session(p)
    BY <2>4, WorkspacesAssumption DEF Named, Live
  <2> QED BY <1>7, <1>9, <2>3, <2>4, <2>5
<1>10. CASE jobs' = [jobs EXCEPT ![t] = Free] /\ UNCHANGED devices
  <2>1. Free \in LoraJobs /\ Free.pc = "idle" /\ Registered(Free)'
    BY DEF LoraJobs, Free, Registered
  <2>2. UNCHANGED <<workspaceVars, deviceVars, nameOf, uplink, apps, motes, mappings>>
    BY <1>2, <1>10 DEF loraVars, deviceVars
  <2> QED BY <1>0, <1>10, <2>1, <2>2, HandlerMoves DEF LoraTypes
<1> QED BY <1>4, <1>5, <1>8, <1>9, <1>10 DEF EnsureTbDevice, Become

LEMMA LoraAlways == LoraSpec => []LoraInv
<1>1. HandlersInit /\ WorkspacesInit /\ DevicesInit /\ LoraInit => LoraInv
  <2> SUFFICES ASSUME HandlersInit, WorkspacesInit, DevicesInit, LoraInit PROVE LoraInv
    OBVIOUS
  <2>1. jobs = [t \in Threads |-> Free] /\ Free \in LoraJobs /\ \A t \in Threads : jobs[t].pc = "idle"
    BY DEF HandlersInit, Free, LoraJobs
  <2>2. workspaces = [p \in WProjects |-> NoWorkspace] /\ IsWorkspace(NoWorkspace)
    BY DEF WorkspacesInit, NoWorkspace, IsWorkspace
  <2>3. devices = [d \in DeviceIds |-> NoDevice] /\ NoDevice \in DeviceRows /\ NoDevice.project = None
    BY DEF DevicesInit, NoDevice, DeviceRows
  <2>4. apps \in Seq({})
    BY DEF LoraInit
  <2>5. NoMote \in Motes /\ NoUplink \in Uplinks
    BY DEF NoMote, Motes, Uplinks
  <2>6. LoraTypes
    BY <2>1, <2>2, <2>3, <2>4, <2>5 DEF LoraInit, LoraTypes
  <2>7. DevicesInv
    BY <2>3 DEF DevicesInv
  <2>8. RegistersInv
    BY <2>1 DEF RegistersInv, Registered
  <2>9. MappingsInv /\ UplinkInv
    BY DEF LoraInit, MappingsInv, Mapped, UplinkInv, NoUplink
  <2> QED BY <2>6, <2>7, <2>8, <2>9 DEF LoraInv
<1>2. LoraInv /\ [\/ WorkspacesNext /\ UNCHANGED <<deviceVars, loraVars>>
                  \/ DevicesNext /\ UNCHANGED loraVars
                  \/ LoraNext]_<<handlerVars, workspaceVars, deviceVars, loraVars>> => LoraInv'
  <2> SUFFICES ASSUME LoraInv,
                      [\/ WorkspacesNext /\ UNCHANGED <<deviceVars, loraVars>>
                       \/ DevicesNext /\ UNCHANGED loraVars
                       \/ LoraNext]_<<handlerVars, workspaceVars, deviceVars, loraVars>>
               PROVE  LoraInv'
    OBVIOUS
  <2>1. CASE UNCHANGED <<handlerVars, workspaceVars, deviceVars, loraVars>>
    <3>1. LoraTypes'
      BY <2>1 DEF handlerVars, workspaceVars, deviceVars, loraVars, LoraInv, LoraTypes, IsWorkspace
    <3>2. DevicesInv' /\ UplinkInv'
      BY <2>1 DEF handlerVars, workspaceVars, deviceVars, loraVars, LoraInv, DevicesInv, UplinkInv,
                  Session, Mapped
    <3>3. RegistersInv'
      BY <2>1 DEF handlerVars, workspaceVars, deviceVars, loraVars, LoraInv, RegistersInv, Registered,
                  HasDevice, Session, Mapped
    <3>4. MappingsInv'
      BY <2>1 DEF handlerVars, workspaceVars, deviceVars, loraVars, LoraInv, MappingsInv, WholeRow,
                  HasDevice, Session, Mapped
    <3> QED BY <3>1, <3>2, <3>3, <3>4 DEF LoraInv
  <2>2. CASE WorkspacesNext /\ UNCHANGED <<deviceVars, loraVars>>
    BY <2>2, ProjectSteps
  <2>3. CASE DevicesNext /\ UNCHANGED loraVars
    BY <2>3, DeviceSteps
  <2>4. CASE LoraNext
    BY <2>4, RegistrationSteps, EnsureDeviceStep, BridgeSteps DEF LoraNext
  <2> QED BY <2>1, <2>2, <2>3, <2>4
<1> QED BY <1>1, <1>2, PTL DEF LoraSpec

(***************************************************************************)
(* Whatever the number of projects, devices and registrations at once, and *)
(* wherever each of them dies: behind a mapping row there is the ChirpStack *)
(* device with its application and keys, and the engine's device, unless   *)
(* the tenant went or a member took the name away (register).              *)
(***************************************************************************)
THEOREM MappingsWhole == LoraSpec => []MappedIsComplete
<1>1. LoraInv => MappedIsComplete
  <2> SUFFICES ASSUME LoraInv, NEW e \in Euis, Mapped(e), NEW p, p = mappings[e].project
               PROVE  /\ motes[e].app \in DOMAIN apps /\ motes[e].keys
                      /\ \/ ~Session(p) \/ <<p, mappings[e].name>> \in vacated
                         \/ \E d \in Named(p, mappings[e].name) : e \in devices[d].registered
    BY DEF MappedIsComplete
  <2>1. WholeRow(e)
    BY DEF LoraInv, MappingsInv
  <2>2. p # None
    BY WorkspacesAssumption DEF LoraInv, LoraTypes, Mapped, MappingRows
  <2> QED BY <2>1, <2>2 DEF WholeRow, HasDevice, Named, Live
<1> QED BY <1>1, LoraAlways, PTL

(***************************************************************************)
(* Between the bridge's reading of the row and its post projects close and *)
(* devices come, go and change their names: what it posts to is a device   *)
(* the DevEUI was registered for, or the name had been taken away from one *)
(* (_forward).                                                             *)
(***************************************************************************)
THEOREM UplinksArrive == LoraSpec => []UplinkReachesItsDevice
<1>1. LoraInv => UplinkReachesItsDevice
  BY DEF LoraInv, UplinkInv, UplinkReachesItsDevice
<1> QED BY <1>1, LoraAlways, PTL
=============================================================================
