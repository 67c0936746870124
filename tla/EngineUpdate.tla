---------------------------- MODULE EngineUpdate ----------------------------
(***************************************************************************)
(* One policy engine between the rules it is given and the triggers that   *)
(* act on its tables: Runtime._update_obj_datalog, TriggerRegistry and     *)
(* DseRuntime of congress/policy_engines/agnostic.py, over the reference-  *)
(* counted dependency graph of congress/datalog/compile.py and             *)
(* congress/datalog/utility.py.                                            *)
(*                                                                         *)
(* An update checks that the rules stay free of recursion, registers a     *)
(* trigger for every action table, finds the triggers whose table may      *)
(* change, evaluates their tables before and after, and calls those that   *)
(* did change.  Up to there it does not give up control.  A callback does  *)
(* (it publishes, or requests the execution of an action), and so does     *)
(* the subscription to the tables of datasources that the rules mention:   *)
(* each is a step of its own, between which other green threads update the *)
(* same engine.                                                            *)
(*                                                                         *)
(* Rules are propositional up to the row: a rule's head has the rows that  *)
(* all of its positive and none of its negated body tables have.           *)
(***************************************************************************)
EXTENDS Naturals, FiniteSets, FiniteSetsExt, SequencesExt

CONSTANTS
  Thread,     \* green threads that update the engine
  Nobody,     \* no thread
  Policy,     \* names of policies
  View,       \* names of tables that policies define
  DataTable,  \* tables of datasources
  Observed,   \* <<policy, view>> that other services may subscribe to
  Row,        \* rows
  Rule,       \* [head, modal, body]: head a View, modal TRUE for execute[..],
              \* body a set of [table, neg]
  Batch,      \* sequences of events that synchronize_rules may apply
  MaxData,     \* bound on the messages with data
  MaxDropped,  \* bound on theories dropped with rules in them
  MaxOvertakes \* bound on updates of the rules during another's callbacks

ASSUME RuleShape ==
  \A r \in Rule :
    /\ r.head \in View /\ r.modal \in BOOLEAN /\ IsFiniteSet(r.body)
    /\ \A l \in r.body : l.table \in View \cup DataTable /\ l.neg \in BOOLEAN
ASSUME FiniteNames ==
  IsFiniteSet(Policy) /\ IsFiniteSet(View) /\ IsFiniteSet(DataTable) /\ IsFiniteSet(Rule)
ASSUME UpdateBounds ==
  /\ Nobody \notin Thread /\ Observed \subseteq Policy \X View
  /\ MaxData \in Nat /\ MaxDropped \in Nat /\ MaxOvertakes \in Nat

VARIABLES
  rules,          \* the rules of each policy's theory
  facts,          \* the rows of the datasource theories
  graph,          \* global_dependency_graph
  triggers,       \* trigger_registry.triggers
  index,          \* trigger_registry.index
  execution,      \* execution_triggers
  policySubData,  \* tables with a trigger that publishes them
  wanted,         \* tables of policies that some service subscribes to
  published,      \* what the subscriber of each table was last given
  subscribed,     \* tables of datasources the engine subscribes to
  job,            \* what each thread still has to do
  ruleLock,       \* holder of congress_synchronize_rules
  dataMsgs,       \* messages with data so far
  dropped,        \* number of theories dropped with rules in them
  overtakes,      \* number of times rules changed between the two looks of a
                  \* thread at the tables they mention
  refused,        \* history: the rule events of the update the last step refused
  owed,           \* history: contents a table's last trigger call was made for
  aborted         \* history: whether a callback has raised

triggerVars == <<triggers, index, execution>>
subVars == <<policySubData, wanted>>
vars == <<rules, facts, graph, triggerVars, subVars, published, subscribed, job,
          ruleLock, dataMsgs, dropped, overtakes, refused, owed, aborted>>

PolicyTable == Policy \X View
Table == PolicyTable \cup DataTable
Global(p, t) == IF t \in DataTable THEN t ELSE <<p, t>>

Event == [insert : BOOLEAN, target : Policy, rule : Rule]
ASSUME BatchShape == Batch \subseteq Seq(Event)

Trigger == [table : PolicyTable, modal : BOOLEAN, action : PolicyTable]
SubTrigger(t) == [table |-> t, modal |-> FALSE, action |-> t]
Call == [trigger : Trigger, old : SUBSET Row, new : SUBSET Row]

Idle == [step |-> "idle", old |-> {}, calls |-> {}, add |-> {}, rem |-> {}, drop |-> {}]
-----------------------------------------------------------------------------
(***************************************************************************)
(* The dependency graph: nodes and edges with reference counts, the modal  *)
(* index, and the cache _cycles of what the last search for cycles found.  *)
(***************************************************************************)
HeadTable(p, r) == <<p, r.head>>
FormulaEdges(p, r) == {<<HeadTable(p, r), Global(p, l.table), l.neg>> : l \in r.body}
FormulaNodes(p, r) == {HeadTable(p, r)} \cup {e[2] : e \in FormulaEdges(p, r)}

Edge == UNION {FormulaEdges(p, r) : p \in Policy, r \in Rule}

EmptyGraph == [nodes |-> [t \in Table |-> 0], edges |-> [e \in Edge |-> 0],
               modals |-> [t \in PolicyTable |-> 0], cycles |-> "unknown"]

AddNode(g, n) == [g EXCEPT !.nodes[n] = @ + 1]

\* Mutant: the cached answer about cycles stays.
AddEdgeKeepsCycles(g, e) == [AddNode(AddNode(g, e[1]), e[2]) EXCEPT !.edges[e] = @ + 1]

AddEdge(g, e) ==
  [AddNode(AddNode(g, e[1]), e[2]) EXCEPT !.edges[e] = @ + 1, !.cycles = "unknown"]

\* Mutant: nodes without reference counts.
DeleteNodeAtOnce(g, n) == [g EXCEPT !.nodes[n] = 0]

DeleteNode(g, n) == IF g.nodes[n] = 0 THEN g ELSE [g EXCEPT !.nodes[n] = @ - 1]

\* With the last reference to its source node an edge disappears before
\* Graph.delete_edge, which then finds nothing to remove and leaves _cycles.
DeleteEdge(g, e) ==
  LET h == DeleteNode(DeleteNode(g, e[1]), e[2])
  IN  IF g.edges[e] = 0 THEN g
      ELSE [h EXCEPT !.edges[e] = @ - 1,
                     !.cycles = IF g.edges[e] = 1 /\ h.nodes[e[1]] > 0 THEN "unknown" ELSE @]

AddNodes(g, N) == FoldSet(LAMBDA n, acc : AddNode(acc, n), g, N)
AddEdges(g, E) == FoldSet(LAMBDA e, acc : AddEdge(acc, e), g, E)
DeleteNodes(g, N) == FoldSet(LAMBDA n, acc : DeleteNode(acc, n), g, N)
DeleteEdges(g, E) == FoldSet(LAMBDA e, acc : DeleteEdge(acc, e), g, E)

FormulaInsert(g, p, r) ==
  LET e == AddEdges(AddNodes(g, FormulaNodes(p, r)), FormulaEdges(p, r))
  IN  IF r.modal THEN [e EXCEPT !.modals[HeadTable(p, r)] = @ + 1] ELSE e

FormulaDelete(g, p, r) ==
  LET e == DeleteEdges(DeleteNodes(g, FormulaNodes(p, r)), FormulaEdges(p, r))
  IN  IF r.modal /\ e.modals[HeadTable(p, r)] > 0
      THEN [e EXCEPT !.modals[HeadTable(p, r)] = @ - 1] ELSE e

FormulaUpdate(g, ev) ==
  IF ev.insert THEN FormulaInsert(g, ev.target, ev.rule)
               ELSE FormulaDelete(g, ev.target, ev.rule)

GraphUpdate(g, evs) == FoldLeft(FormulaUpdate, g, evs)

\* The changes are undone in the order in which they were made.
FormulaUndo(g, ev) ==
  IF ev.insert THEN FormulaDelete(g, ev.target, ev.rule)
               ELSE FormulaInsert(g, ev.target, ev.rule)

UndoChanges(g, evs) == FoldLeft(FormulaUndo, g, evs)

Reachable(E, roots) ==
  LET reach[n \in 0 .. Cardinality(Table)] ==
        IF n = 0 THEN roots
        ELSE LET before == reach[n - 1]
             IN  before \cup {e[2] : e \in {f \in E : f[1] \in before}}
  IN  reach[Cardinality(Table)]

Cyclic(E) == \E e \in E : e[1] \in Reachable(E, {e[2]})
LiveEdges(g) == {e \in Edge : g.edges[e] > 0}

\* has_cycle() searches only if nothing is known.
Searched(g) ==
  IF g.cycles # "unknown" THEN g
  ELSE [g EXCEPT !.cycles = IF Cyclic(LiveEdges(g)) THEN "some" ELSE "none"]
HasCycle(g) == Searched(g).cycles = "some"

Dependencies(g, t) == IF g.nodes[t] = 0 THEN {t} ELSE Reachable(LiveEdges(g), {t})

\* dependencies() resets _cycles to the empty set, if its node exists.
AfterDependencies(g, ts) ==
  IF \E t \in ts : g.nodes[t] > 0 THEN [g EXCEPT !.cycles = "none"] ELSE g
-----------------------------------------------------------------------------
(***************************************************************************)
(* The trigger registry.                                                   *)
(***************************************************************************)
\* Mutant: a trigger is indexed under its own table only.
AddIndexesOwnTable(idx, g, x) ==
  [t \in DOMAIN idx \cup {x.table} |->
     (IF t \in DOMAIN idx THEN idx[t] ELSE {}) \cup (IF t = x.table THEN {x} ELSE {})]

AddIndexes(idx, g, x) ==
  LET deps == Dependencies(g, x.table)
  IN  [t \in DOMAIN idx \cup deps |->
         (IF t \in DOMAIN idx THEN idx[t] ELSE {}) \cup (IF t \in deps THEN {x} ELSE {})]

\* KeyError, after the trigger has left the registry, if a table is not in the
\* index: the graph may have grown since the index was built.  reached has the
\* <<trigger, table>> pairs that the loop over a set came to before it broke off.
DeleteIndexes(idx, g, x, reached) ==
  LET deps == Dependencies(g, x.table)
      done == IF deps \subseteq DOMAIN idx THEN deps ELSE {t \in deps : <<x, t>> \in reached}
  IN  [t \in DOMAIN idx |-> IF t \in done THEN idx[t] \ {x} ELSE idx[t]]
UnregisterFails(idx, trigs, g, x) ==
  x \notin trigs \/ ~ Dependencies(g, x.table) \subseteq DOMAIN idx

Register(idx, g, new) == FoldSet(LAMBDA x, i : AddIndexes(i, g, x), idx, new)
Unregister(idx, g, gone, reached) ==
  FoldSet(LAMBDA x, i : DeleteIndexes(i, g, x, reached), idx, gone)

UpdateDependencies(g, trigs) == Register([t \in {} |-> {}], g, trigs)

RelevantTriggers(idx, tables) == UNION {idx[t] : t \in tables \cap DOMAIN idx}

\* Mutant: a trigger is unregistered and its action table not forgotten.
MaintainTriggersNeverForgets(reg, g, last, reached) ==
  LET curr == {t \in PolicyTable : g.modals[t] > 0}
      new  == {[table |-> t, modal |-> TRUE, action |-> last] :
                 t \in curr \ DOMAIN reg.execution}
      gone == {reg.execution[t] : t \in DOMAIN reg.execution \ curr}
  IN  [triggers  |-> (reg.triggers \cup new) \ gone,
       index     |-> Register(reg.index, g, new),
       execution |-> [t \in DOMAIN reg.execution \cup {x.table : x \in new} |->
                        IF t \in DOMAIN reg.execution THEN reg.execution[t]
                        ELSE CHOOSE x \in new : x.table = t]]

\* _maintain_triggers: registry [triggers, index, execution] after adding the
\* triggers of new action tables and removing those of old ones.  The callback
\* reads the loop's variables when it is called: all triggers made in one call
\* execute the action of the last one.  A trigger that is not registered is not
\* looked for in the index.
MaintainTriggers(reg, g, last, reached) ==
  LET curr == {t \in PolicyTable : g.modals[t] > 0}
      new  == {[table |-> t, modal |-> TRUE, action |-> last] :
                 t \in curr \ DOMAIN reg.execution}
      idx1 == Register(reg.index, g, new)
      trg1 == reg.triggers \cup new
      gone == {reg.execution[t] : t \in DOMAIN reg.execution \ curr}
      kept == {x \in gone : UnregisterFails(idx1, trg1, g, x)}
      exe1 == [t \in DOMAIN reg.execution \cup {x.table : x \in new} |->
                 IF t \in DOMAIN reg.execution THEN reg.execution[t]
                 ELSE CHOOSE x \in new : x.table = t]
  IN  [triggers  |-> trg1 \ gone,
       index     |-> Unregister(idx1, g, gone \cap trg1, reached),
       execution |-> [t \in DOMAIN exe1 \ {x.table : x \in gone \ kept} |-> exe1[t]]]

NewActionTables(g) == {t \in PolicyTable : g.modals[t] > 0} \ DOMAIN execution

\* The triggers of former action tables whose dependencies are not all indexed.
Stranded(g) ==
  {execution[t] : t \in {u \in DOMAIN execution :
                           g.modals[u] = 0 /\ ~ Dependencies(g, u) \subseteq DOMAIN index}}
-----------------------------------------------------------------------------
(***************************************************************************)
(* The theories: queries and what an update does to them.                  *)
(***************************************************************************)
Derived(R, value, t, modal) ==
  UNION {{x \in Row : \A l \in r.body : (x \in value[Global(t[1], l.table)]) # l.neg} :
           r \in {s \in R[t[1]] : s.head = t[2] /\ s.modal = modal}}

\* The contents of all tables: with n levels of views evaluated, those whose rules
\* are nested at most n deep are right, and rules that are not recursive are nested
\* less deep than there are views.
Value(R, F) ==
  LET level[n \in 0 .. Cardinality(PolicyTable)] ==
        IF n = 0 THEN [t \in Table |-> IF t \in DataTable THEN F[t] ELSE {}]
        ELSE LET below == level[n - 1]
             IN  [t \in Table |-> IF t \in DataTable THEN F[t] ELSE Derived(R, below, t, FALSE)]
  IN  level[Cardinality(PolicyTable)]

Contents(R, F, t, modal) == Derived(R, Value(R, F), t, modal)

\* _actual_events: every event is compared with the theory as it is.  Those that
\* change something keep their places.
ActualEvents(evs) ==
  Restrict(evs, {i \in DOMAIN evs : evs[i].insert = (evs[i].rule \notin rules[evs[i].target])})

ContentUpdate(content, ev) ==
  IF ev.insert THEN content \cup {ev.rule} ELSE content \ {ev.rule}
ContentUpdates(content, evs) == FoldLeft(ContentUpdate, content, evs)

\* Every theory that is the target of an event is given all of them.
TheoryUpdate(R, evs) ==
  [p \in Policy |-> IF \E i \in DOMAIN evs : evs[i].target = p
                       THEN ContentUpdates(R[p], evs) ELSE R[p]]

BodyTables(R) ==
  {t \in DataTable : \E p \in Policy : \E r \in R[p] : \E l \in r.body : l.table = t}

\* The calls of the triggers trigs whose tables differ between two states.
ChangedCalls(trigs, R, F) ==
  {c \in {[trigger |-> x,
           old |-> Contents(rules, facts, x.table, x.modal),
           new |-> Contents(R, F, x.table, x.modal)] : x \in trigs} : c.old # c.new}

Owes(calls) ==
  owed' = [t \in Observed |->
             IF \E c \in calls : c.trigger = SubTrigger(t)
             THEN (CHOOSE c \in calls : c.trigger = SubTrigger(t)).new ELSE owed[t]]
-----------------------------------------------------------------------------
Init ==
  /\ rules = [p \in Policy |-> {}]
  /\ facts = [t \in DataTable |-> {}]
  /\ graph = EmptyGraph
  /\ triggers = {} /\ index = [t \in {} |-> {}] /\ execution = [t \in {} |-> {}]
  /\ policySubData = {} /\ wanted = {}
  /\ published = [t \in Observed |-> {}]
  /\ subscribed = {}
  /\ job = [t \in Thread |-> Idle]
  /\ ruleLock = Nobody
  /\ dataMsgs = 0 /\ dropped = 0 /\ overtakes = 0
  /\ refused = {}
  /\ owed = [t \in Observed |-> {}]
  /\ aborted = FALSE

\* One turn of the loop of update_table_subscriptions: subscribe() notes the
\* subscription and waits for the answer; what is to be removed comes last.
SubscribeNext(t, j, add, rem) ==
  \/ \E d \in add :
       /\ subscribed' = subscribed \cup {d}
       /\ job' = [job EXCEPT ![t] = [Idle EXCEPT !.step = "subscribing", !.add = add \ {d}, !.rem = rem]]
       /\ ruleLock' = IF j.step = "locked" THEN t ELSE ruleLock
  \/ /\ add = {}
     /\ subscribed' = subscribed \ rem
     /\ job' = [job EXCEPT ![t] = Idle]
     /\ ruleLock' = IF ruleLock = t THEN Nobody ELSE ruleLock

\* What a callback does before it gives up control: pub_policy_result publishes;
\* _execute_table requests the trigger's action for the rows that are new (see
\* ActionExecution for what becomes of the request).
Callback(c) ==
  published' = IF c.trigger.modal THEN published
               ELSE [published EXCEPT ![c.trigger.table] = c.new]

\* A thread's update is done but for job j.  It starts the first of its calls, and
\* without any it goes on at once.
Continue(t, j, R) ==
  \/ \E c \in j.calls :
       /\ Callback(c)
       /\ job' = [job EXCEPT ![t] = [j EXCEPT !.calls = @ \ {c}]]
       /\ ruleLock' = IF j.step = "locked" THEN t ELSE ruleLock
       /\ UNCHANGED subscribed
  \/ /\ j.calls = {} /\ j.step \in {"locked", "unlocked"}
     /\ SubscribeNext(t, j, BodyTables(R) \ j.old, j.old \ BodyTables(R))
     /\ UNCHANGED published
  \/ /\ j.calls = {} /\ j.step \in {"policy", "data"}
     /\ UNCHANGED <<job, ruleLock, subscribed, published>>

\* Another thread is between applying its rules and comparing tables with before.
Overtakes(t) == \E o \in Thread \ {t} : job[o].step \in {"locked", "unlocked"}

\* The rest of _update_obj_datalog once the graph g has no cycle: changed are the
\* tables of the events, R and F the theories afterwards, j the thread's job but
\* for its calls.
ApplyUpdate(t, g, changed, R, F, j) ==
  \E last \in (IF NewActionTables(g) = {} THEN {Nobody} ELSE NewActionTables(g)),
     reached \in SUBSET (Stranded(g) \X Table) :
    LET reg   == MaintainTriggers([triggers |-> triggers, index |-> index, execution |-> execution],
                                  g, last, reached)
        calls == ChangedCalls(RelevantTriggers(reg.index, changed), R, F)
    IN  /\ triggers' = reg.triggers
        /\ execution' = reg.execution
        /\ index' = UpdateDependencies(g, reg.triggers)
        /\ graph' = AfterDependencies(g, {x.table : x \in triggers \cup reg.triggers})
        /\ rules' = R /\ facts' = F
        /\ Continue(t, [j EXCEPT !.calls = calls], R)
        /\ Owes(calls)
        /\ refused' = {}
        /\ overtakes' = overtakes + (IF R # rules /\ Overtakes(t) THEN 1 ELSE 0)
        /\ overtakes' <= MaxOvertakes
        /\ UNCHANGED <<subVars, dropped, aborted>>

RefuseUpdate(g, evs) ==
  /\ graph' = g
  /\ refused' = {evs}
  /\ UNCHANGED <<rules, facts, triggerVars, subVars, published, subscribed, job, ruleLock,
                 dropped, overtakes, owed, aborted>>

\* Events that are all no-ops change nothing and are left out.
Update(t, evs, j) ==
  LET act == ActualEvents(evs)
      g   == Searched(GraphUpdate(graph, act))
  IN  /\ DOMAIN act # {}
      /\ UNCHANGED dataMsgs
      /\ \/ /\ HasCycle(g)
            /\ RefuseUpdate(UndoChanges(g, act), act)
         \/ /\ ~ HasCycle(g)
            /\ ApplyUpdate(t, g, {HeadTable(act[i].target, act[i].rule) : i \in DOMAIN act},
                           TheoryUpdate(rules, act), facts, j)

\* Mutant: without the lock.
LockedUpdateUnlocked(t, evs) ==
  /\ job[t].step = "idle"
  /\ Update(t, evs, [Idle EXCEPT !.step = "unlocked", !.old = BodyTables(rules)])

\* persistent_insert_rule and synchronize_rules hold the lock until the
\* subscriptions are made.
LockedUpdate(t, evs) ==
  /\ job[t].step = "idle"
  /\ ruleLock = Nobody
  /\ Update(t, evs, [Idle EXCEPT !.step = "locked", !.old = BodyTables(rules)])

InsertRule(t, p, r) == LockedUpdate(t, <<[insert |-> TRUE, target |-> p, rule |-> r]>>)

SynchronizeRules(t, evs) == LockedUpdate(t, evs)

\* persistent_delete_rule takes no lock.
DeleteRule(t, p, r) ==
  /\ job[t].step = "idle"
  /\ Update(t, <<[insert |-> FALSE, target |-> p, rule |-> r]>>,
            [Idle EXCEPT !.step = "unlocked", !.old = BodyTables(rules)])

\* delete_policy goes to Runtime.update: subscriptions are left as they are.
DeletePolicy(t, p) ==
  /\ job[t].step = "idle"
  /\ rules[p] # {}
  /\ Update(t, [i \in 1 .. Cardinality(rules[p]) |->
                  [insert |-> FALSE, target |-> p, rule |-> SetToSeq(rules[p])[i]]],
            [Idle EXCEPT !.step = "policy", !.drop = {p}])

\* receive_data_update: the events are facts, which leave the graph alone, but
\* has_cycle() is asked.
ReceiveDataUpdate(t, d, rows) ==
  /\ job[t].step = "idle"
  /\ rows # facts[d]
  /\ dataMsgs < MaxData
  /\ dataMsgs' = dataMsgs + 1
  /\ LET g == Searched(graph)
     IN  \/ /\ HasCycle(g)
            /\ RefuseUpdate(g, <<>>)
         \/ /\ ~ HasCycle(g)
            /\ ApplyUpdate(t, g, {d}, rules, [facts EXCEPT ![d] = rows],
                           [Idle EXCEPT !.step = "data"])

\* receive_data_full: initialize_tables asks neither for cycles nor for triggers
\* to maintain.
ReceiveDataFull(t, d, rows) ==
  LET F     == [facts EXCEPT ![d] = rows]
      calls == ChangedCalls(RelevantTriggers(index, {d}), rules, F)
  IN  /\ job[t].step = "idle"
      /\ dataMsgs < MaxData
      /\ dataMsgs' = dataMsgs + 1
      /\ facts' = F
      /\ Continue(t, [Idle EXCEPT !.step = "data", !.calls = calls], rules)
      /\ Owes(calls)
      /\ refused' = {}
      /\ UNCHANGED <<rules, graph, triggerVars, subVars, dropped, overtakes, aborted>>
-----------------------------------------------------------------------------
\* The callback before has returned.
NextCallback(t, c) ==
  /\ c \in job[t].calls
  /\ c.trigger.modal \/ c.trigger.table \in policySubData
  /\ Callback(c)
  /\ job' = [job EXCEPT ![t].calls = @ \ {c}]
  /\ refused' = {}
  /\ UNCHANGED <<rules, facts, graph, triggerVars, subVars, subscribed, ruleLock, dataMsgs,
                 dropped, overtakes, owed, aborted>>

\* Mutant: the lock is not released when the callback raises.
CallbackFailsLocked(t, c) ==
  /\ c \in job[t].calls
  /\ ~ c.trigger.modal
  /\ c.trigger.table \notin policySubData
  /\ aborted' = TRUE
  /\ job' = [job EXCEPT ![t] = Idle]
  /\ refused' = {}
  /\ UNCHANGED <<rules, facts, graph, triggerVars, subVars, published, subscribed,
                 ruleLock, dataMsgs, dropped, overtakes, owed>>

\* The subscription went while the call was waiting: the KeyError ends the whole
\* update, with the calls and subscriptions it has left.
CallbackFails(t, c) ==
  /\ c \in job[t].calls
  /\ ~ c.trigger.modal
  /\ c.trigger.table \notin policySubData
  /\ aborted' = TRUE
  /\ job' = [job EXCEPT ![t] = Idle]
  /\ ruleLock' = IF ruleLock = t THEN Nobody ELSE ruleLock
  /\ refused' = {}
  /\ UNCHANGED <<rules, facts, graph, triggerVars, subVars, published, subscribed, dataMsgs,
                 dropped, overtakes, owed>>

UpdateTableSubscriptions(t) ==
  /\ job[t].step \in {"locked", "unlocked"}
  /\ job[t].calls = {}
  /\ SubscribeNext(t, job[t], BodyTables(rules) \ job[t].old, job[t].old \ BodyTables(rules))
  /\ refused' = {}
  /\ UNCHANGED <<rules, facts, graph, triggerVars, subVars, published, dataMsgs, dropped,
                 overtakes, owed, aborted>>

\* The answer's data come with a message (ReceiveDataFull).
SubscribeReturns(t) ==
  /\ job[t].step = "subscribing"
  /\ SubscribeNext(t, job[t], job[t].add, job[t].rem)
  /\ refused' = {}
  /\ UNCHANGED <<rules, facts, graph, triggerVars, subVars, published, dataMsgs, dropped,
                 overtakes, owed, aborted>>

\* The end of delete_policy, which deletes the theory with what is in it, and of
\* the handlers of data.
Finish(t) ==
  /\ job[t].step \in {"policy", "data"}
  /\ job[t].calls = {}
  /\ rules' = [p \in Policy |-> IF p \in job[t].drop THEN {} ELSE rules[p]]
  /\ dropped' = dropped + (IF rules' = rules THEN 0 ELSE 1)
  /\ dropped' <= MaxDropped
  /\ job' = [job EXCEPT ![t] = Idle]
  /\ refused' = {}
  /\ UNCHANGED <<facts, graph, triggerVars, subVars, published, subscribed, ruleLock, dataMsgs,
                 overtakes, owed, aborted>>
-----------------------------------------------------------------------------
\* A service subscribes to a table of a policy and is answered with get_snapshot.
PeerSubscribes(v) ==
  /\ v \notin wanted
  /\ wanted' = wanted \cup {v}
  /\ published' = [published EXCEPT ![v] = Contents(rules, facts, v, FALSE)]
  /\ refused' = {}
  /\ UNCHANGED <<rules, facts, graph, triggerVars, policySubData, subscribed, job, ruleLock,
                 dataMsgs, dropped, overtakes, owed, aborted>>

PeerUnsubscribes(v) ==
  /\ v \in wanted
  /\ wanted' = wanted \ {v}
  /\ refused' = {}
  /\ UNCHANGED <<rules, facts, graph, triggerVars, policySubData, published, subscribed, job,
                 ruleLock, dataMsgs, dropped, overtakes, owed, aborted>>

\* The heartbeat notices: on_first_subs registers triggers, on_no_subs removes them;
\* every update left the index with all that the graph has, so no loop breaks off.
UpdateTablesWithSubscriber ==
  LET added   == {SubTrigger(v) : v \in wanted \ policySubData}
      removed == {SubTrigger(v) : v \in policySubData \ wanted}
      idx     == Register(index, graph, added)
  IN  /\ wanted # policySubData
      /\ policySubData' = wanted
      /\ triggers' = (triggers \cup added) \ removed
      /\ index' = Unregister(idx, graph, removed, removed \X Table)
      /\ graph' = AfterDependencies(graph, {x.table : x \in added \cup removed})
      /\ owed' = [v \in Observed |-> IF v \in wanted \ policySubData
                                         THEN Contents(rules, facts, v, FALSE) ELSE owed[v]]
      /\ refused' = {}
      /\ UNCHANGED <<rules, facts, execution, wanted, published, subscribed, job, ruleLock,
                     dataMsgs, dropped, overtakes, aborted>>

Next ==
  \/ \E t \in Thread :
       \/ \E p \in Policy, r \in Rule : InsertRule(t, p, r)
       \/ \E p \in Policy, r \in Rule : DeleteRule(t, p, r)
       \/ \E evs \in Batch : SynchronizeRules(t, evs)
       \/ \E p \in Policy : DeletePolicy(t, p)
       \/ \E d \in DataTable, rows \in SUBSET Row : ReceiveDataUpdate(t, d, rows)
       \/ \E d \in DataTable, rows \in SUBSET Row : ReceiveDataFull(t, d, rows)
       \/ \E c \in job[t].calls : NextCallback(t, c)
       \/ \E c \in job[t].calls : CallbackFails(t, c)
       \/ UpdateTableSubscriptions(t)
       \/ SubscribeReturns(t)
       \/ Finish(t)
  \/ \E v \in Observed : PeerSubscribes(v)
  \/ \E v \in Observed : PeerUnsubscribes(v)
  \/ UpdateTablesWithSubscriber

Spec == Init /\ [][Next]_vars
-----------------------------------------------------------------------------
\* The edges of the rules, as they would be computed afresh.
RuleEdges(R) == UNION {UNION {FormulaEdges(p, r) : r \in R[p]} : p \in Policy}
RulesWith(cond(_, _)) ==
  Cardinality({pr \in Policy \X Rule : pr[2] \in rules[pr[1]] /\ cond(pr[1], pr[2])})

Job == [step : {"idle", "locked", "unlocked", "policy", "data", "subscribing"},
        old : SUBSET DataTable, calls : SUBSET Call, add : SUBSET DataTable,
        rem : SUBSET DataTable, drop : SUBSET Policy]

\* Type invariant; the rule lock is held only by a thread that is working.
TypeOK ==
  /\ rules \in [Policy -> SUBSET Rule]
  /\ facts \in [DataTable -> SUBSET Row]
  /\ graph.nodes \in [Table -> Nat] /\ graph.edges \in [Edge -> Nat]
  /\ graph.modals \in [PolicyTable -> Nat] /\ graph.cycles \in {"unknown", "none", "some"}
  /\ triggers \subseteq Trigger
  /\ DOMAIN index \subseteq Table /\ \A t \in DOMAIN index : index[t] \subseteq Trigger
  /\ DOMAIN execution \subseteq PolicyTable /\ \A v \in DOMAIN execution : execution[v].table = v
  /\ policySubData \subseteq Observed /\ wanted \subseteq Observed
  /\ published \in [Observed -> SUBSET Row] /\ owed \in [Observed -> SUBSET Row]
  /\ subscribed \subseteq DataTable
  /\ \A t \in Thread : job[t] \in Job
  /\ dropped \in 0 .. MaxDropped /\ overtakes \in 0 .. MaxOvertakes /\ aborted \in BOOLEAN
  /\ ruleLock \in Thread \cup {Nobody}
  /\ ruleLock # Nobody => job[ruleLock].step \in {"locked", "subscribing"}

\* The incrementally maintained graph counts exactly the rules the theories hold,
\* through insertions, batches, refused updates that are undone and deletions of
\* policies (utility.BagGraph, RuleDependencyGraph.undo_changes).
GraphExact ==
  /\ \A e \in Edge : graph.edges[e] = RulesWith(LAMBDA p, r : e \in FormulaEdges(p, r))
  /\ \A v \in PolicyTable :
       graph.modals[v] = RulesWith(LAMBDA p, r : r.modal /\ HeadTable(p, r) = v)
  /\ \A t \in Table :
       (graph.nodes[t] > 0) <=> (RulesWith(LAMBDA p, r : t \in FormulaNodes(p, r)) > 0)

\* The engine never holds recursive rules, though it mostly trusts a cached
\* answer (Graph.has_cycle) that queries about dependencies overwrite.
RulesAcyclic == ~ Cyclic(RuleEdges(rules))

\* Whatever changes a published table of a policy, its trigger is called with the
\* contents after the change: relevant triggers are found in the index of before
\* the update although the rules of the update change what depends on what.
NoChangeMissed ==
  \A v \in policySubData : owed[v] = Contents(rules, facts, v, FALSE)

\* Every action table has a registered trigger that executes this table's action
\* and is indexed under all tables it depends on (_maintain_triggers).
ActionsTriggered ==
  \A p \in Policy : \A r \in rules[p] :
    LET head == HeadTable(p, r)
    IN  r.modal =>
          /\ head \in DOMAIN execution /\ execution[head] \in triggers
          /\ execution[head].action = head
          /\ \A t \in Reachable(RuleEdges(rules), {head}) :
               t \in DOMAIN index /\ execution[head] \in index[t]

\* When no thread is in the middle of an update, the engine is subscribed to every
\* table of a datasource that its rules mention.
MentionedSubscribed ==
  (\A t \in Thread : job[t].step = "idle") => BodyTables(rules) \subseteq subscribed

\* MentionedSubscribed holds whatever updates are applied while a thread waits in
\* its loop of subscriptions (update_table_subscriptions), unless a callback broke
\* an update off or rules changed during the callbacks of another update.
NeededSubscribed == ~aborted /\ overtakes = 0 => MentionedSubscribed

\* An update is refused as recursive only if the rules would be recursive with it
\* (Graph.has_cycle).
RefusedOnlyIfRecursive == \A evs \in refused : Cyclic(RuleEdges(TheoryUpdate(rules, evs)))

\* A subscriber that stays has the contents of the policy's table when no update
\* is under way.
SubscriberCurrent ==
  (\A t \in Thread : job[t].step = "idle") /\ wanted = policySubData
    => \A v \in policySubData : published[v] = Contents(rules, facts, v, FALSE)

\* The engine gives up its subscription to tables that no rule mentions.
SubscribedOnlyNeeded ==
  (\A t \in Thread : job[t].step = "idle") => subscribed \subseteq BodyTables(rules)
=============================================================================
