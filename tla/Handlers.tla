------------------------------ MODULE Handlers ------------------------------
(***************************************************************************)
(* What the portal's request handlers and scripts have in common.  A       *)
(* handler runs in a thread of its own: it is at a place (pc) between two  *)
(* database round trips or calls to other services, and keeps its locals   *)
(* in a record.  Any call may fail and any handler may be killed; both are *)
(* counted, so that a run can bound them.                                  *)
(***************************************************************************)
EXTENDS Integers, FiniteSets

CONSTANTS
  Threads,     \* handlers that may be in progress at once
  None,        \* no value, SQL NULL
  MaxFaults    \* bound on failed calls, lost answers and killed handlers

ASSUME HandlersAssumption ==
  /\ MaxFaults \in Nat /\ None \notin Threads
  /\ IsFiniteSet(Threads) /\ Threads # {}

VARIABLES
  jobs,        \* the locals of each handler
  faults       \* faults so far

handlerVars == <<jobs, faults>>

Free == [pc |-> "idle"]

At(t, place) == jobs[t].pc = place

Become(t, job) == jobs' = [jobs EXCEPT ![t] = job]
Start(t, job) == At(t, "idle") /\ Become(t, job) /\ UNCHANGED faults
Goto(t, place) == jobs' = [jobs EXCEPT ![t].pc = place] /\ UNCHANGED faults
Finish(t) == Become(t, Free) /\ UNCHANGED faults

Fault == faults < MaxFaults /\ faults' = faults + 1

\* a call that fails, or a crash, ends the handler where it is
Killed(t) == ~At(t, "idle") /\ Become(t, Free) /\ Fault

HandlersInit ==
  /\ jobs = [t \in Threads |-> Free]
  /\ faults = 0
=============================================================================
