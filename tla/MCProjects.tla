----------------------------- MODULE MCProjects -----------------------------
(***************************************************************************)
(* Instances of Projects for TLC, several in one run: a behaviour has one  *)
(* scene, which says who takes part and how much may go wrong.  Ids other  *)
(* than those of handlers are numbers.  Of fresh ones the first is taken,  *)
(* and the first person founds the projects: whatever else could happen is *)
(* the same up to a renaming.                                              *)
(***************************************************************************)
EXTENDS Projects, FiniteSets, TLC

CONSTANT Scenes

VARIABLE scene

Casts ==
  [access  |-> [projects |-> 1, people |-> 2, tickets |-> 2, handlers |-> 2,
                faults |-> 1, aborts |-> 0],
   reuse   |-> [projects |-> 2, people |-> 1, tickets |-> 1, handlers |-> 2,
                faults |-> 1, aborts |-> 1],
   retries |-> [projects |-> 1, people |-> 2, tickets |-> 1, handlers |-> 2,
                faults |-> 1, aborts |-> 0],
   repair  |-> [projects |-> 1, people |-> 1, tickets |-> 1, handlers |-> 2,
                faults |-> 2, aborts |-> 0],
   names   |-> [projects |-> 2, people |-> 1, tickets |-> 0, handlers |-> 2,
                faults |-> 1, aborts |-> 1],
   logins  |-> [projects |-> 1, people |-> 2, tickets |-> 2, handlers |-> 1,
                faults |-> 1, aborts |-> 0]]

Cast == Casts[scene]

Firsts(S, n) == S = 1 .. Cardinality(S) /\ Cardinality(S) <= n

\* A step that stays within the scene.
Within ==
  LET used == {k \in Tickets : tickets'[k] # NoTicket}
      busy == {t \in Threads : jobs'[t] # Idle}
  IN /\ UNCHANGED scene
     /\ faults' <= Cast.faults /\ aborts' <= Cast.aborts
     /\ Firsts(born', Cast.projects) /\ Firsts(used, Cast.tickets)
     /\ Firsts({T \in Tenants : tenants'[T] # NoTenant}, Cardinality(Tenants))
     /\ Firsts({b \in TbUsers : tbUsers'[b] # NoTbUser}, Cardinality(TbUsers))
     /\ Cardinality(busy) <= Cast.handlers
     /\ \A k \in used : tickets'[k].user <= Cast.people
     /\ \A t \in busy : jobs'[t].op = "create" => jobs'[t].user = 1

sceneVars == <<scene, vars>>

ScenesInit == Init /\ scene \in Scenes

ScenesSpec == ScenesInit /\ [][Next /\ Within]_sceneVars

\* FairSpec of the instances.
ScenesFairSpec ==
  /\ ScenesSpec
  /\ \A t \in Threads : WF_sceneVars(Proceed(t) /\ Within)
  /\ \A p \in Projects :
       SF_sceneVars(RetryAgain(p) /\ Within) /\ SF_sceneVars(DeleteAgain(p) /\ Within)

Symmetry == Permutations(Threads)

\* Where no handler is killed, an owner who keeps retrying gets a failed project
\* provisioned (Repairable), through failed calls and lost answers: "a partial
\* failure is repaired by simply running again" (provisioning.py).  What a killed
\* handler leaves is beyond repair.
RepairableAlive == Cast.aborts = 0 => Repairable
=============================================================================
