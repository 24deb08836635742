------------------------------- MODULE Alerts -------------------------------
(***************************************************************************)
(* Threshold alerts of one project (portal/app/alerts.py and               *)
(* routers/alerts.py).                                                     *)
(*                                                                         *)
(* The rules are rows of the portal's database.  A handler that adds or    *)
(* deletes one commits it, reads all the rows back, renders them into a    *)
(* rule chain of the project's ThingsBoard tenant and makes that chain the *)
(* default one.  The commit comes first and nothing is undone when a later *)
(* call fails, so rows and chain are kept together only by handlers that   *)
(* get to their end.  Rule-chain names are not unique in the engine: a     *)
(* creation that is repeated leaves two chains of the same name.           *)
(***************************************************************************)
EXTENDS Handlers, SequencesExt

CONSTANTS
  RuleIds,     \* ids of rows; one nothing refers to any more stands for a fresh one
  ActionOf,    \* the action a rule of each id asks for
  ChainIds,    \* ids of rule chains in the engine, a segment 1 .. n
  RuleLimit    \* rules a project may have (10 in the code)

VARIABLES
  alertRules,  \* ids of the rows of table alert_rules
  chains,      \* the engine's chains called chertiot-alerts: their metadata
  defaultChain \* the rule chain of the tenant's default device profile

ASSUME AlertsAssumption ==
  /\ None \notin RuleIds
  /\ ActionOf \in [RuleIds -> {"alarm", "email", "webhook"}]
  /\ RuleLimit \in Nat

alertVars == <<alertRules, chains, defaultChain>>

Chains == {c \in ChainIds : chains[c] # None}

-----------------------------------------------------------------------------
(* build_metadata: a list of nodes, and links between their positions.  A  *)
(* node is its kind and the rule it belongs to.                            *)

Spine ==
  [nodes |-> << <<"switch", None>>, <<"timeseries", None>>, <<"attributes", None>> >>,
   links |-> {<<1, 2, "Post telemetry">>, <<1, 3, "Post attributes">>}]

\* the next node, linked from an earlier one
Hang(m, parent, label, kind, r) ==
  [nodes |-> Append(m.nodes, <<kind, r>>),
   links |-> m.links \cup {<<parent, Len(m.nodes) + 1, label>>}]

\* A variant for mutation: the actions of a rule hang from the first filter.
AddRuleAtFirst(m, r) ==
  LET filter == Hang(m, 2, "Success", "filter", r)
      alarm == Hang(filter, 4, "True", "alarm", r)
  IN IF ActionOf[r] = "alarm" THEN alarm
     ELSE Hang(alarm, Len(alarm.nodes), "Created", "call", r)

AddRule(m, r) ==
  LET filter == Hang(m, 2, "Success", "filter", r)
      alarm == Hang(filter, Len(filter.nodes), "True", "alarm", r)
      a == Len(alarm.nodes)
      rendered == [alarm |-> alarm, webhook |-> Hang(alarm, a, "Created", "call", r),
                   email |-> Hang(Hang(alarm, a, "Created", "compose", r),
                                  a + 1, "Success", "send", r)]
  IN rendered[ActionOf[r]]

\* after each of the rules in turn
Rendered(order) ==
  LET built[n \in 0 .. Len(order)] ==
        IF n = 0 THEN Spine ELSE AddRule(built[n - 1], order[n])
  IN built

\* the rows come in an order the query does not fix; any will do
BuildMetadata(rows) == Rendered(SetToSeq(rows))[Cardinality(rows)]

ASSUME ChainsAreNotNull ==
  \A rows \in SUBSET RuleIds : IsFiniteSet(rows) => BuildMetadata(rows) # None

-----------------------------------------------------------------------------
(* Handlers: create_alert and delete_alert, then _apply and apply_rules.   *)

Applying(t) == jobs[t].pc \in {"find", "save", "push", "default"}

\* t goes on, and the handlers it runs beside no longer work on the rows as
\* they are
Disturb(t, job) ==
  jobs' = [s \in Threads |->
             IF s = t THEN job
             ELSE IF At(s, "idle") THEN jobs[s] ELSE [jobs[s] EXCEPT !.alone = FALSE]]

\* A variant for mutation: the limit is taken as one more.
FullLate(n) == n > RuleLimit

Full(n) == n >= RuleLimit

AlertJob(place, r) ==
  [pc |-> place, rule |-> r, rows |-> {}, chain |-> None, alone |-> FALSE]

\* create_alert up to the count of the project's rules
CountRules(t) ==
  /\ ~Full(Cardinality(alertRules))
  /\ Start(t, AlertJob("insert", None))
  /\ UNCHANGED alertVars

\* no row, handler or chain knows the id
Unheard(r) ==
  /\ r \notin alertRules
  /\ \A t \in {t \in Threads : ~At(t, "idle")} : r \notin jobs[t].rows \cup {jobs[t].rule}
  /\ \A c \in Chains : \A n \in DOMAIN chains[c].nodes : chains[c].nodes[n][2] # r

InsertRule(t, r) ==
  /\ At(t, "insert") /\ Unheard(r)
  /\ alertRules' = alertRules \cup {r}
  /\ Disturb(t, [jobs[t] EXCEPT !.pc = "read"])
  /\ UNCHANGED <<chains, defaultChain, faults>>

\* delete_alert: the row is loaded, then deleted (a DELETE of a row that is
\* gone by then only warns)
LoadRule(t, r) ==
  /\ r \in alertRules
  /\ Start(t, AlertJob("erase", r))
  /\ UNCHANGED alertVars

EraseRule(t) ==
  /\ At(t, "erase")
  /\ alertRules' = alertRules \ {jobs[t].rule}
  /\ Disturb(t, [jobs[t] EXCEPT !.pc = "read", !.rule = None])
  /\ UNCHANGED <<chains, defaultChain, faults>>

ReadRules(t) ==
  /\ At(t, "read")
  /\ Disturb(t, [jobs[t] EXCEPT !.pc = "find", !.rows = alertRules,
                                !.alone = \A s \in Threads \ {t} : ~Applying(s)])
  /\ UNCHANGED <<alertVars, faults>>

\* find_rule_chain: the first one of that name, in an order of the engine's
FindChain(t) ==
  /\ At(t, "find")
  /\ \/ \E c \in Chains : Become(t, [jobs[t] EXCEPT !.pc = "push", !.chain = c])
     \/ Chains = {} /\ Become(t, [jobs[t] EXCEPT !.pc = "save"])
  /\ UNCHANGED <<alertVars, faults>>

\* save_rule_chain; with its first answer lost it runs twice
SaveChain(t) ==
  LET c == Cardinality(Chains) + 1
  IN /\ At(t, "save")
     /\ \/ /\ c \in ChainIds /\ chains' = [chains EXCEPT ![c] = Spine]
           /\ Become(t, [jobs[t] EXCEPT !.pc = "push", !.chain = c])
           /\ UNCHANGED faults
        \/ /\ Fault /\ c + 1 \in ChainIds
           /\ chains' = [chains EXCEPT ![c] = Spine, ![c + 1] = Spine]
           /\ Become(t, [jobs[t] EXCEPT !.pc = "push", !.chain = c + 1])
     /\ UNCHANGED <<alertRules, defaultChain>>

PushChain(t) ==
  /\ At(t, "push")
  /\ chains' = [chains EXCEPT ![jobs[t].chain] = BuildMetadata(jobs[t].rows)]
  /\ Become(t, [jobs[t] EXCEPT !.pc = "default", !.rows = {}])
  /\ UNCHANGED <<alertRules, defaultChain, faults>>

\* A variant for mutation: a profile that has a chain of its own is left alone.
SetDefaultOnce(t) ==
  /\ At(t, "default")
  /\ defaultChain' = IF defaultChain = None THEN jobs[t].chain ELSE defaultChain
  /\ Become(t, [jobs[t] EXCEPT !.pc = "audit", !.chain = None])
  /\ UNCHANGED <<alertRules, chains, faults>>

\* the default device profile is read and, if it names another chain, saved
SetDefault(t) ==
  /\ At(t, "default")
  /\ defaultChain' = jobs[t].chain
  /\ Become(t, [jobs[t] EXCEPT !.pc = "audit", !.chain = None])
  /\ UNCHANGED <<alertRules, chains, faults>>

AuditAlert(t) == At(t, "audit") /\ Finish(t) /\ UNCHANGED alertVars

AlertFails(t) == Killed(t) /\ UNCHANGED alertVars

AlertsInit ==
  /\ alertRules = {}
  /\ chains = [c \in ChainIds |-> None]
  /\ defaultChain = None

AlertsNext == \E t \in Threads :
  \/ \E r \in RuleIds : InsertRule(t, r) \/ LoadRule(t, r)
  \/ CountRules(t) \/ EraseRule(t) \/ ReadRules(t) \/ FindChain(t)
  \/ SaveChain(t) \/ PushChain(t) \/ SetDefault(t) \/ AuditAlert(t)
  \/ AlertFails(t)

AlertsSpec ==
  HandlersInit /\ AlertsInit /\ [][AlertsNext]_<<alertVars, handlerVars>>

-----------------------------------------------------------------------------
(***************************************************************************)
(* The limit is counted before the row is committed and without a lock, so *)
(* handlers that overlap may exceed it, but only by one row for each other *)
(* handler in progress (create_alert).                                     *)
(***************************************************************************)
RulesBounded == Cardinality(alertRules) <= RuleLimit + Cardinality(Threads) - 1

\* the nodes that a rule's action calls for, and the kind each hangs from
Wanted(action) ==
  [alarm |-> {"filter", "alarm"}, webhook |-> {"filter", "alarm", "call"},
   email |-> {"filter", "alarm", "compose", "send"}][action]

Above ==
  [timeseries |-> "switch", attributes |-> "switch", filter |-> "timeseries",
   alarm |-> "filter", compose |-> "alarm", send |-> "compose", call |-> "alarm"]

IsTree(m) ==
  /\ \A l \in m.links : {l[1], l[2]} \subseteq DOMAIN m.nodes
  /\ \A n \in DOMAIN m.nodes \ {1} :
       LET up == {l[1] : l \in {l \in m.links : l[2] = n}} IN
       \E p \in up : /\ up = {p} /\ p < n
                     /\ m.nodes[p][1] = Above[m.nodes[n][1]]
                     /\ m.nodes[p][2] \in {m.nodes[n][2], None}

(***************************************************************************)
(* Every chain in the engine is a tree from the type switch, and each node *)
(* of a rule hangs, possibly through nodes of the same rule, from that     *)
(* rule's own filter: no rule acts on another one's condition.  The node   *)
(* positions are computed while the list grows (build_metadata).           *)
(***************************************************************************)
ChainWellFormed == \A c \in Chains : IsTree(chains[c])

\* the rules a chain carries out, each with all its nodes
KindsOf(m, r) == {m.nodes[n][1] : n \in {i \in DOMAIN m.nodes : m.nodes[i][2] = r}}
Carries(m, r) == KindsOf(m, r) = Wanted(ActionOf[r])

(***************************************************************************)
(* When a handler has applied the rules and nothing was committed or       *)
(* applied by another one meanwhile, the default chain carries out exactly *)
(* the rows: whatever was left by failed or overlapping handlers before,   *)
(* duplicate chains included, has been repaired (apply_rules).             *)
(***************************************************************************)
AlonePushIsCurrent ==
  \A t \in Threads :
    (At(t, "audit") /\ jobs[t].alone) =>
      /\ defaultChain \in Chains
      /\ LET m == chains[defaultChain] IN
         /\ \A r \in alertRules : Carries(m, r)
         /\ \A n \in DOMAIN m.nodes : m.nodes[n][2] \in alertRules \cup {None}
=============================================================================
