# Congress: a TLA+ verification project

Congress is OpenStack's policy service. Datasource drivers poll or receive the
state of cloud services and publish it as tables; a policy engine subscribes to
the tables its Datalog rules mention, keeps rules and data in theories, and
executes actions when derived tables change. The parts run as services on the
nodes of a message bus (DSE2), on green threads that switch only at blocking
calls, and share one SQL database.

This directory holds TLA+ modules that model those parts, TLC configurations
that check them on small instances, and TLAPS proofs. `PROJECT.json` lists
components, runs, mutants, the source lines each definition stands for,
findings, hazards and theorems.

Contents: [inventory](#inventory), [plan](#plan),
[modules and code](#modules-and-code), [runs](#runs), [fairness](#fairness),
[proofs](#proofs), [findings](#findings), [limits](#what-is-not-modelled).

To check one configuration: `tlc -config MCDataService_warm.cfg MCDataService`.
To check proofs: `tlapm DataService_proofs.tla`, likewise `FoldFacts` and the other
`*_proofs` modules.

## Inventory

Paths are relative to `src/congress/`.

| component | state | operations | what makes it correct |
|---|---|---|---|
| sequenced publish/subscribe (`dse2/data_service.py`, `dse2/dse_node.py`) | sender and receiver sequence numbers, last published data, per-table priority queues and the oldest receipt time of each, subscriptions of the node | `publish`, `subscribe`, `unsubscribe`, `receive_data_sequenced`, `check_resub_all`, `get_last_published_data_with_seqnum` | a subscriber's table is the publisher's at the subscriber's number; nothing applicable stays queued; it catches up |
| publishers (`datasources/datasource_driver.py`) | driver state, registered translators of lazy tables | `poll`, `update_entire_data`, `get_snapshot` | what is published is the difference to what was published before |
| policies and rules (`policy_engines/agnostic.py`, `synchronizer/policy_rule_synchronizer.py`, `db/db_policy_rules.py`) | tables `policies` and `policy_rules`; each engine's theories; two locks per node and a table lock | `persistent_*`, `sync_one_policy`, `synchronize_all_policies`, `synchronize_rules` | an accepted rule stays; stored rules are never recursive; all engines end up with what is stored |
| materialized views (`datalog/materialized.py`, `datalog/database.py`) | delta rules, stored tuples with their proofs, an event queue | `update`, `process_queue`, `propagate`, `Database.modify` | after an update the stored tables are what the rules derive; every update ends |
| action execution (`agnostic.py`, `datasource_driver.py` class `ExecutionDriver`, `dse2/control_bus.py`) | rows a trigger has seen, the driver's leader, the node's directory of peers | `_execute_table`, `execute_action`, `request_execute`, `_check_leader_heartbeat`, `accept_heartbeat` | one engine is obeyed at a time; a dead one is given up; every action runs |
| engine updates, triggers, dependency graph (`agnostic.py`, `datalog/compile.py`, `datalog/utility.py`) | registered triggers, an index by table, counted graph edges, a cached answer about cycles | `_update_obj_datalog`, `initialize_tables`, `_maintain_triggers`, `relevant_triggers`, `formula_update`, `undo_changes` | the graph counts the rules; recursion is never accepted; no change of a table goes without its trigger; an action table's trigger executes that action |
| control bus (`dse2/control_bus.py`) | peers, their services and subscribed tables | heartbeat loop, `accept_heartbeat` | the directory follows the nodes that run |
| datasource manager and synchronizer (`dse2/datasource_manager.py`, `synchronizer/datasource_synchronizer.py`) | table `datasources`, running services | `add_datasource`, `delete_datasource`, `synchronize_all_datasources` | running services follow the table |
| poll loop (`datasource_driver.py`) | refresh queue of length one, blocked handlers | `poll_loop`, `request_refresh` | a refresh request leads to a poll |
| engine subscriptions (`agnostic.py`) | subscriptions of the engine | `initialize_table_subscriptions`, `update_table_subscriptions` | subscribed tables are those the rules mention |
| object translation (`datasource_driver.py`) | translators, the driver's tables | `register_translator`, `get_schema`, `convert_objs`, `_update_state` | tables are the translation of the last objects; rows have the schema's width; joins through generated ids find the right parts |
| facts and indexes (`datalog/factset.py`, `datalog/ruleset.py`, `datalog/nonrecursive.py`) | facts, rules, indexes by columns | `add_rule`, `discard_rule`, `clear_table`, `get_rules`, `find` | an index agrees with the facts |
| reordering, unification, top-down evaluation (`datalog/compile.py`, `datalog/unify.py`, `datalog/topdown.py`) | bindings during a search | `reorder_for_safety`, `bi_unify_lists`, `select`, `abduce` | answers are what the rules mean; no assertion fails; bindings are undone |

Not a part of the core: the API server (routing and formatting around the
engine's calls), concrete drivers (translation of results into rows), the VM
placement engine, the dashboard, generated and vendored parsers.

**How they interact.** A driver casts publications to all nodes; each node
hands them to its subscribed services. `subscribe` is an RPC to the publisher,
answered with a sequence number and contents. An engine's rule update decides
which tables it subscribes to and which triggers fire; an execution trigger
sends an RPC to a driver. API calls change the engine and the database; the
periodic workers of every node compare the two. Heartbeats carry each node's
services and subscriptions and are what a driver knows of its leader.

**What is hard.** Casts overtake each other, the answers of RPCs, and may be
lost. Every RPC and database call is a point where other green threads run, so
what was read before may be stale after. Several engines write the same
database. Processes restart with empty memory while others keep theirs.
`PROJECT.json` lists each hazard at its line with the properties that watch it.

## Plan

Done, in this order:

1. `VersionedTable`, `DataService`: the protocol every other part relies on.
2. `DataService_proofs`: types, the queue, consistency.
3. `MaterializedView`: incremental view maintenance.
4. `PolicySync`: database, engines, replicas.
5. `ActionExecution`: leader and failover of enforcement.
6. `EngineUpdate`: dependency graph, triggers, callbacks and subscriptions of one
   engine under concurrent updates.
7. `DatasourceSync`: datasource manager and synchronizer, services, poll loop.
8. `Translation`, `TopDown` and their composition `DataPath`: from polled objects
   to the answers of queries.

9. Proofs about `ActionExecution`, `PolicySync`, `DatasourceSync`, `EngineUpdate`
   and `MaterializedView`, and the refinement of `VersionedTable`
   ([proofs](#proofs)). Every safety property of a run about these modules is a
   theorem, with the hypotheses it needs.

Next: the facts and indexes of `TopDown` (`IndexExact`) as a specification of their
own, apart from the recursive search, which could then be proved about.

Further modelling that remains possible: a variant of `DataService` in which
`receive_data` yields, persistence of pushed tables, column references and
schemas of policy tables.

## Modules and code

Every definition that models code has the lines it stands for in
`PROJECT.json`, "map". Operators marked `Mutant` or "As if" are plausible mistakes: put in
place of the definition that follows them they break the property named in
"mutants"; no specification uses them.

### VersionedTable, DataService

`DataService` models one table of one publisher and its subscribers. Queues and
numbers are kept per (publisher, table), so tables do not interact.

| state | in the code |
|---|---|
| `sendSeq`, `lastPub` | `sender_seqnums[table]`, `_last_published_data[table]` of the publisher |
| `fetching` | an RPC handler blocked in `get_snapshot` of a lazy table |
| `net`, `call` | casts on their way; the `subscribe` RPC a green thread is blocked in |
| `subscribed` | `node.subscriptions[publisher][table]` has the service |
| `recvSeq`, `queue`, `oldest` | `receiver_seqnums`, `msg_queues`, `oldest_queue_times` |
| `handling` | argument of the `receive_data_sequenced` call in progress |
| `view` | what `receive_data` has built up |
| `wanted`, `version`, `applied` | history: the service's wish, what the publisher had at each number, the number of the last data applied |

`Poll`, `Push` are the two ways of publishing; `ServeFirst`, `ServeLazy`,
`Fetched`, `Serve`, `ServeFails` are the outcomes of
`get_last_published_data_with_seqnum`; `Subscribe`, `Return`, `Timeout` are
`subscribe` before and after its RPC; `Unsubscribe` and `CheckResub` are
`unsubscribe` and one hit of `check_resub_all`; `Deliver` is
`handle_publish_sequenced`; `ReceiveFirst`, `ReceiveReset`, `ReceiveOld`,
`ReceiveNext`, `ReceiveFuture` are the branches of `receive_data_sequenced`, in
its order. That method calls itself for each message it pops from the queue;
each call is a step, and `handling` keeps the subscriber's other steps away in
between, because the method has no blocking call.

`DataService.__init__` takes `always_snapshot=True` by default, but a `DseNode`
sets it to its own `False` (`dse_node.py:91,145`) on every service it
registers, so differences are what deployments send, and what is modelled.

`Kind` says what kind of publisher the table has. `Warm` starts after the first
publication, `Steady` leaves out `Unsubscribe`, `Lossy` allows losses and RPC
timeouts. They select runs, not behaviour of the code.

`VersionedTable` is the promise: numbered versions, of which each reader holds
one, whole, and never an earlier one than before.

### MaterializedView

Events, delta rules and proofs of `MaterializedViewTheory`. Rules are given by
their ground instances (`Instances`), so unification and top-down evaluation
become set inclusion (`Holds`); a proof is a rule and an instance, as in the code
it is a rule and a binding. `Update` is `update` with one or two changes, the
failing assertion on a fact of a view included (it leaves the events queued
before it in the queue). `ProcessQueue` handles one event: `ProcessRule` is
`DeltaRuleTheory.modify` with the tuples the rule yields, `ProcessFact` is
`propagate` (`Caused`) on the old database followed by `Database.modify`
(`Store`). Self-join elimination is the constant `Expansion`: which helper rules
a rule is stored with. The order of events generated together is the order of
a dictionary in the code and any order in the model. Recursive rules generate
each other's events forever, so `UpdateTerminates` is about programs without
them; it is the engine's check (`EngineUpdate`) that refuses recursive rules.

### PolicySync

The database tables, and per node the theories, the locks and what each thread
is doing. A database read is a step that leaves its result in the thread's task
(`seenRules`, `seenPolicy`), so it may be stale when a later step uses it.
`CreatePolicy`, `DeletePolicy`, `InsertRule`, `DeleteRule` start the
`persistent_*` calls; the steps after them follow the calls from one blocking
point to the next. `StartSyncRules`/`SyncRules` and
`StartSyncPolicies`/`SyncPolicies` are the two callables of the periodic worker.
`WriteFails` is the recovery when the database refuses the rule. `InsertRaises` is
an exception after the engine has taken the rule and before the database has
(`agnostic.py:396`): a callback of the update or a subscription raises, nothing is
undone, and the engine is ahead until the next synchronization. The constant
`CallbackErrors` allows it. `Actual`,
`Permitted`, `Update` are `Runtime.update`: no-op elimination, the checks, and
the batch applied to the theories of all its policies. Which rules are
recursive together is the constant `Recursive`; runs that use it have one
policy. The table lock of MySQL and PostgreSQL is `tableLock`.

### ActionExecution

Engines that see a row ask the driver to execute its action; the driver obeys
its leader. `ExecuteTable` is the trigger callback up to the RPC,
`RequestExecute` is `ExecutionDriver.request_execute` with all three of its
cases, `CheckLeaderHeartbeat` the check in each turn of the heartbeat loop,
`AcceptHeartbeat`, `HearDriver` and `Silence` what nodes know of each other.
`TimeOut` runs the exception through `invoke_service_rpc` (`Raised`) and the
retry loop (`Retries`). An action is one row that appears once and stays.

### EngineUpdate

One engine and the green threads that update it. An update runs without giving
up control until it calls back: `Update` is `_update_obj_datalog` from the checks
to the list of callbacks (`ChangedCalls`). `RefuseUpdate` and `ApplyUpdate` are
its two outcomes. A stale trigger is taken out of the index one table after the
other, and the loop ends at the first table that is not there; `reached` is the
tables it came to before (`DeleteIndexes`, `Stranded`). What then blocks is a step each: `NextCallback` or
`CallbackFails` (a publication or an action), `UpdateTableSubscriptions` and
`SubscribeReturns` (the loop of `update_table_subscriptions`, waiting in
`subscribe()`), `Finish`.

| state | in the code |
|---|---|
| `rules`, `facts` | the theories of policies and of datasources |
| `graph` | `global_dependency_graph`: reference counts of nodes and edges, the modal index, `_cycles` |
| `triggers`, `index`, `execution` | `trigger_registry.triggers`, `.index`, `execution_triggers` |
| `policySubData`, `wanted` | tables with a publishing trigger; tables other services subscribe to, as heartbeats report them |
| `published`, `subscribed` | what a subscriber was last given; the engine's subscriptions |
| `job`, `ruleLock` | where a thread is; `congress_synchronize_rules` |
| `refused`, `owed`, `aborted`, `overtakes`, `dropped` | history and bounds |

`InsertRule`, `DeleteRule`, `SynchronizeRules` hold the rule lock as the code
does; `DeletePolicy` and data (`ReceiveDataUpdate`, `ReceiveDataFull`) do not.
`DeleteEdge` keeps the order of the code: nodes before the edge, so that with
the last reference to a node the edge is gone before `Graph.delete_edge` looks
for it and `_cycles` stays. `Dependencies` searches the graph and thereby resets
the cache (`AfterDependencies`). Rules are propositional up to the row; joins are
`TopDown`'s.

### DatasourceSync

The table of datasources, and per node the services, the lock, the threads that
serve API calls and the periodic worker. `AddDatasource`, `SyncRead`, `SyncApply`
(`RegisterService`, `CreateFails`, `RegisterNone`, `UnregisterService`),
`EngineSynced`, `EngineSyncFails`, `UndoAdd` follow `add_datasource` from one
database access to the next; `DeleteDatasource` shares the steps of
`sync_datasource`. `ScanRead` to `ScanEnds` are a pass of
`synchronize_all_datasources`, ended early by `ScanFails`. Stopping a service is
two steps, because `service.wait()` waits for its handlers (`StopReturns`).
Each service has its poll loop (`GetRequest`, `PollTimesOut`, `PollEnds`) and its
refresh queue (`RequestRefresh`, a put that blocks when the queue is full).
`Crash` and `Start` are the process; `Start` makes the services of
`create_datasources`. A datasource in `Broken` has a driver that cannot be made.
A datasource that is not enabled cannot be added: `create_datasource_service`
returns `None`, registering it raises, and the row is removed (`RegisterNone`).
A driver that does not exist (`DriverNotFound`, `dse_node.py:669`) is not in
`Broken`: `add_datasource` refuses it before it writes.

### Translation, TopDown, DataPath

`Translation` is the conversion of objects by translators. A translator and an
object are records; each `Populate*` operator is the method of that name and says
where it raises. A hash is the bag of what is hashed, because the code sorts
first. `Arity` is what `get_schema` computes, from the translators alone.

`TopDown` has facts, indexes and rules of the theories as state, and the search
as operators that thread what the code changes in place: bindings, scopes, saved
literals, results. The chain of `TopDownContext`s is flattened to the sequence of
goals still to prove: `Search` takes its head, looks for the `Ways` to prove it in
the theories of `LookIn`, and enters (`Taken`) and undoes (`Left`) each. Scope *i* is one `BiUnifier`; `UnifyLists` binds in the order
of the code, `UndoAll` takes back what a step bound, and whatever is left in the
bindings at the end is seen in `answer`. `ApplyRenaming` is `apply_full` with a
caller, whose recursive call drops the caller. Lookups with bound arguments
leave indexes (`Indexed`). `Reorder` is `reorder_for_safety`. `IsTrue` is the
reference: the meaning of the rules, by trying all objects for all variables.

`DataPath` composes the two: `Poll` converts the objects of all roots into the
driver's tables and then publishes how they differ from what was published last,
`PollRaises` is a poll whose conversion raises, so that some tables are filled and
none is published, `Resubscribe` sends the tables as last published, `Insert` and
`Delete` change rules, `Ask` runs a query. The engine subscribes before the first
poll. In between the network would be `DataService`. Its `TypeOK` says more than
types: a stored rule has exactly the literals of an inserted one, in an order in
which they can be evaluated, so that the reference `IsTrue`, which reads stored
rules, reads what was inserted. Builtins are given by their
graphs (`Builtins`). These modules use RECURSIVE operators, as the algorithms
recurse over trees, so no theorem is stated about them.

## Runs

| run | shows | bounds |
|---|---|---|
| `ds_warm` | two subscribers of a polled table under reordering, loss, timeouts and resubscription: each holds the publisher's table at its number (`Consistent`), and the protocol implements `VersionedTable` | 2 rows, numbers up to 3, so that two differences can overtake each other and a snapshot |
| `ds_push` | full tables, restarts, losses, two threads of the subscriber that subscribe and unsubscribe: types, and nothing applicable is left queued (`QueueBeyondGap`) | numbers up to 2, one restart |
| `ds_lazy` | fetch and polls of a lazy table: `Consistent` and, without losses, `Converges` | numbers up to 3; one subscriber, the second is `MCDataService_fork.cfg` |
| `mv_layered` | after any four updates of one or two changes: nothing unsupported is stored (`NothingStale`), views over facts are complete (`NothingMissing`), updates end | the program `p :- q, not r`, `p :- s`, `t :- p`: two proofs, negation, two layers, facts of a defined table |
| `ps_threads` | one engine, all calls from two threads and the periodic task: outside calls that change policies the engine has exactly the stored ones (`PoliciesMatch`) | ids up to 4: a policy deleted and made again while others run; callbacks may raise |
| `ps_replicas` | two engines insert the halves of a recursive pair: never both stored (`NeverRecursive`); accepted rules stay (`AcceptedStays`) | ids up to 4 |
| `ps_converge` | two engines, policy and rules made and deleted, a restart: `EventuallyInSync` | ids up to 3; callbacks may raise |
| `ae_failover` | three engines and a driver with crashes, restarts, silences, a lost request: executions are bounded by what went wrong (`OneLeaderObeyed`; a restart of the driver loses contact with every peer it had heard of), a dead leader is given up, and while nothing goes wrong every action runs | 2 restarts, 2 silences, 1 loss |
| `eu_layered` | two threads insert, delete and synchronize rules over rules, some refused as recursive, while data arrives, a callback fails and a service subscribes: `GraphExact`, `RulesAcyclic`, `NoChangeMissed`, `ActionsTriggered`, `NeededSubscribed` | four rules (an action, two layers, negation, one that closes a cycle), four batches, one row, one message with data, one update of rules during another's callbacks |
| `dsy_calls` | adding and deleting by two threads, the synchronizer, a driver that cannot be made, a failing engine, a crash, refreshes: `DeletedStaysGone`, `AcceptedRuns`, `Synchronized`, `RefreshServed` | two names, two ids, two refresh requests (one fills the queue, one blocks), one failure, one crash |
| `dp_queries` | polls of two roots with nested objects, nulls, missing fields, and conversions that raise half way; deltas and snapshots; seven rules with negation, builtins, joins on ids, an included policy, one never safe and one recursive; five queries and an abduction | two polls (one that fails and the next, or one that empties tables), three rules at a time: an index made by a query meets a delta, a snapshot, and the loss of the last fact |
| `dsy_refresh` | a disagreement, see [findings](#findings) | two refresh requests and a deletion |

Deadlock is checked in the `PolicySync` runs, whose periodic worker never
stops, and in `eu_layered`, where rules can always change. The others bound the
number of publications, updates, polls or actions and end there, so it is not
checked.

Symmetry is used for subscribers, threads and rows of `DataService`, threads of
`EngineUpdate` and nodes of `PolicySync` in runs without liveness properties; no definition names one of
them.

What the properties of the new runs say beyond their names:

- `NoChangeMissed` compares the contents a table has now with those its trigger
  was last called for; `owed` is history and only callbacks write it.
- `NeededSubscribed` excepts two cases the code does not handle: a callback that
  raised, and rules changed between the two looks of a thread at the tables they
  mention (`MCEngineUpdate_dropped.cfg` has both).
- `Synchronized` excepts a service that cannot be stopped (`dsy_refresh`) and a
  datasource that cannot be made and stays in the database.
- `AnswersCorrect` compares every select with `IsTrue`; `AbductionSound` supposes
  the saved literals of an explanation and asks for the instance it explains;
  `AnswersFollowObjects` skips both modules' intermediate forms and compares
  answers with the polled objects.

`SubscribedOnlyIfWanted`, `HelpersDefined`, `RulesHavePolicies` and the other
properties of the table [below](#findings) appear only in configurations that
violate them.

## Fairness

- `DataService`: handlers run to their end, RPCs are served and answered, casts
  that are not lost are delivered, and `check_resub_all` is called again and
  again: the `PeriodicWorker` of `DataSourceSynchronizer` does
  (`synchronizer/datasource_synchronizer.py:54`). Nothing makes data change.
- `MaterializedView`: `process_queue` is a loop without blocking calls.
- `PolicySync`: threads waiting for a lock get it, calls that started go on, and
  the periodic worker runs both synchronizers again and again. Strong fairness
  stands for a lock that is free repeatedly and a worker that alternates.
- `ActionExecution`: data reaches running engines, requests not lost are
  served, heartbeats are sent and checked every second, and the silence of a
  dead node is noticed. Nothing brings a crashed node back.
- `DatasourceSync`: calls that started go on and get the lock if it is free again
  and again (strong fairness, `lockutils.synchronized`), the periodic worker makes
  one pass after the other, a service's poll loop polls, times out and takes
  requests, and a node that crashed is started again. Nothing adds or deletes
  datasources, and `service.wait()` returns only if no handler is blocked.
- `EngineUpdate` and `DataPath` state safety only.

## Proofs

Every theorem holds for all values of the constants that satisfy the named
assumptions of the module: sets are finite where the code loops over them
(`EngineAssumption`, `FiniteNames`, `RuleAssumption`), bounds are natural numbers,
`Nobody`, `NoLeader`, `NoData` and `Worker` are not members of what they are told
apart from, and rules and batches have the shape the code gives them (`RuleShape`,
`BatchShape`). Where a theorem has a hypothesis of its own, it is listed, with the
run that satisfies it and the configuration that shows it is needed.

| theorem | states | hypotheses | needed because | run |
|---|---|---|---|---|
| `DataService_proofs!TypeCorrect`, `QueueCorrect` | `TypeOK`, `QueueBeyondGap` | | | `ds_push` |
| `Consistency` | `Consistent` | polled table, first publication before the subscribers, no restarts | `MCDataService_stale`, `_fork`, `_cold`, `_restart` | `ds_warm` |
| `Refinement` | `ImplementsVersionedTable` | those of `Consistency`, no unsubscription (`Steady`), one thread per subscriber | after unsubscribing a reader starts over, and of two answers the later may be the older | `ds_warm` |
| `ActionExecution_proofs!TypeCorrect` | `TypeOK` | | | `ae_failover` |
| `OneLeader` | `OneLeaderObeyed` | nodes know each other at the start (`Acquainted`) | `ActionExecution_early` | `ae_failover` |
| `PolicySync_proofs!TypeCorrect` | `TypeOK` | | | `ps_threads` |
| `OneEngineMatches` | `PoliciesMatch` | one node, no restarts | another engine, or a started one, has the policies only after its next synchronization | `ps_threads` |
| `InsertionsNeverRecursive`, `InsertionsStay` | `NeverRecursive`, `AcceptedStays` | only insertions, into one policy that exists, and no callback raises (`InsertionsOnly`) | `MCPolicySync_conflict`, and below the table of [findings](#findings) | `ps_replicas` |
| `DatasourceSync_proofs!TypeCorrect` | `TypeOK` | | | `dsy_calls` |
| `DeletionsLast`, `AdditionsRun` | `DeletedStaysGone`, `AcceptedRuns` | a name is used once (`~Reuse`) | `DatasourceSync_reuse` | `dsy_calls` |
| `EngineUpdate_proofs!GraphCountsRules`, `NeverRecursive` | `GraphExact`, `RulesAcyclic` | no rule comes into a theory while it is deleted (`MaxDropped = 0`); a batch has no event twice and events of one policy (`DistinctBatches`) | `MCEngineUpdate_dropped`, `MCPolicySync_batch` | `eu_layered` |
| `SubscriptionsComplete` | `NeededSubscribed` | | | `eu_layered` |
| `EngineTriggers_proofs!TypeCorrect` | `TypeOK` | | | `eu_layered` |
| `ChangesReachTriggers` | `NoChangeMissed` | those of `GraphCountsRules` | with the constants of `MCEngineUpdate_dropped` a theory goes without its triggers being asked; a batch that deletes one rule three times takes the node of another rule's head out of the graph, and its dependencies with it | `eu_layered` |
| `ActionsHaveTriggers` | `ActionsTriggered` | those of `GraphCountsRules`; no batch inserts rules of two action tables (`OneActionBatches`); no table is the head of rules with and without `execute` (`ActionsApart`) | `MCEngineUpdate_actions`, `_handover`; TLC finds no violation with `MaxDropped = 1` on the constants of `MCEngineUpdate_dropped`, but the argument goes through the exact graph | `eu_layered` |
| `MaterializedView_proofs!TypeCorrect`, `ViewsComplete` | `TypeOK`, `NothingMissing` | | | `mv_layered` |
| `NoTupleLeftBehind` | `NothingStale` | `NegatesFacts`: negated tables have facts only, no literal is both negated and not, a rule yields a tuple in two ways only from facts | `MCMaterializedView_multi`, `_projected` | `mv_layered` |

The invariants, and why the properties are not inductive by themselves:

- **Publish/subscribe.** In the middle of `process_queued_msg` the queue may hold
  applicable messages; `QueueInv` adds that the message being handled then
  precedes everything queued. `ConsistencyInv` says that the publisher's
  contents are its newest version (`Published`), that every message on its way,
  queued or in a handler is a version or the difference of two consecutive ones
  (`RightMessages`), every answer on its way a version (`RightReplies`), and every
  view one (`RightViews`). `Refinement` adds that numbers only grow, and shows each
  step to be one of the abstract table or a stutter.
- **Leader.** A bound on executions is not inductive without those still to
  come. `ObeyedInv` counts, for an action, the executions so far, the engines that
  will ask twice, those the driver has no contact with, and one more if some
  engine in contact may still be obeyed; the sum never exceeds one plus what went
  wrong.
- **Policies.** `MatchInv`: between the read and the write of a synchronization
  its lock is held, and whoever read a stale state of the policies is followed by
  a call that is still to synchronize them. `InsertInv`: whoever holds the table
  lock has read what is stored, its engine has exactly these rules, and an
  insertion past its check adds one rule that is recursive with none of them.
- **Datasources.** `SyncInv`: a node's lock is held by exactly the call or pass
  that is between its reading of the database and its last change of the
  services, so what it read can only lack what no call on this node has finished
  adding, and only have what none has finished deleting.
- **Dependency graph.** `GraphInv`: node, edge and modal counts are the numbers
  of rules that cause them, and the live edges have no cycle. The code loops over
  nodes, edges and events and, for a refused update, undoes the steps in reverse;
  `FoldFacts` has what the proofs need of such loops. A loop is a fold of the
  community modules, a function defined by recursion on subsets or intervals: that
  it exists (`SetRecursion`, `IntervalRecursion`) and what it computes is shown by
  a smallest counterexample, once for each loop, because the general induction
  theorems take an operator as parameter.
- **Subscriptions.** `SubInv`: what rules mention and is not subscribed is in the
  list of a thread that is still to subscribe it, what a thread is to give up no
  rule mentions, and threads that insert rules hold the rule lock. Deletions take
  no lock, and need none, because they have nothing to subscribe to.
- **Triggers.** That a trigger was called for what its table has now is kept by an
  update only if the trigger is found. `PublishInv` adds that the trigger of every
  published table is registered and in the index under all that its table reaches
  along the edges of the rules. The index is that of the rules of before, and this
  is enough: what is reachable is left by no edge (`ReachableClosed`, because the
  search takes as many steps as there are tables), so if no reachable table is the
  head of a changed rule or has changed data, the same tables are reachable
  afterwards and each level of their evaluation has the same rows
  (`SameContents`). `GraphInv` says that the graph's dependencies are what the rules
  reach, whatever was undone before. `ActionInv` says the same of execution
  triggers, which exist exactly for the action tables; a trigger can be unregistered
  because a table that stops being one has no rules left and depends on nothing.
- **Views.** Which proofs are stored says little while events are queued.
  `Standing` says whether a proof is kept once the queue has been processed: the
  last event that mentions it decides. `Kept` says that an instance over facts
  that holds has a standing proof, `Sound` that every standing proof is of an
  instance that holds, and `Uniform` that a queued deletion will find all of its
  proofs or none, which is what `is_noop` depends on. `Sound` and `Uniform` need
  `NegatesFacts`. The attempt to prove `NothingStale` without it led to the two
  configurations named in the table.

TLC checked each of these invariants on the runs' constants before it was proved.

Only model-checked: liveness under fairness (out of the prover's reach), and
everything about `Translation`, `TopDown` and `DataPath`, whose algorithms recurse over
trees and are RECURSIVE operators, with which the prover has no SMT backend.

## Findings

`dsy_refresh` contradicts a comment of the code, quoted in `PROJECT.json`.
`request_refresh` means to ignore a request when the queue is full, but its
`put()` blocks instead of raising `Full`. The handler of a second request during
a poll waits for the poll loop. If the datasource is deleted now,
`unregister_service` kills the poll loop and then waits for the handlers, so
`delete_datasource` never returns and keeps the lock that every other change of
datasources on the node needs.

Further configurations that TLC refutes, kept for whoever changes this code (where a
configuration has two properties, `tlc -continue` reports both):

| configuration | property | what happens |
|---|---|---|
| `MCDataService_stuck.cfg` | `NothingWaitsForever` | `add_to_msg_queue` notes a receipt time only for the first message of a queue object; after the queue has once run empty the time stays `None`, `check_resub_all` skips it, and a later lost update is never repaired |
| `MCDataService_restart.cfg` | `ResetReplaces` | a restarted driver's first publication is a difference with number 0; subscribers take it for a reset but apply it as a difference, and rows that are gone stay |
| `MCDataService_cold.cfg` | `Converges` | a subscription's snapshot overtakes the first difference; that one, numbered 0, then moves the subscriber back for good |
| `MCDataService_stale.cfg` | `Consistent` | a pushed table does not update what later subscriptions are answered with |
| `MCDataService_fork.cfg` | `Consistent` | two subscribers of a lazy table have different contents at one number |
| `MCDataService_revive.cfg` | `SubscribedOnlyIfWanted` | an answer that comes after `unsubscribe` leaves a queue behind, and `check_resub_all` subscribes again |
| `MCMaterializedView_multi.cfg` | `ViewsCorrect`, `NothingStale` | a deletion is propagated before the database knows whether the tuple has another proof, so dependent views lose tuples that still hold, and views that negate it get tuples that do not |
| `MCMaterializedView_projected.cfg` | `NothingStale` | one of two proofs that a rule has of a tuple is lost in that way; when both are to be deleted, `is_noop` finds one missing and ignores the deletion (`database.py:234`), and the tuple stays |
| `MCMaterializedView_helpers.cfg` | `HelpersDefined` | deleting a rule with a self-join deletes the helper rule another one uses |
| `MCPolicySync_batch.cfg` | `EventuallyInSync` | `_update_obj_datalog` gives each theory the events of the whole batch instead of its own (`agnostic.py:1136`), so synchronizing rules of two policies mixes them |
| `MCPolicySync_conflict.cfg` | `NeverRecursive` | rules are synchronized before their policy is loaded, so the recursion check misses them |
| `MCPolicySync_orphan.cfg` | `RulesHavePolicies` | a policy is deleted between the check and the write of an insertion |
| `MCPolicySync_names.cfg` | `EventuallyInSync` | a policy with a datasource's name ends every pass of the synchronizer |
| `ActionExecution_early.cfg` | `OneLeaderObeyed` | a leader whose first heartbeat has not arrived is given up at once |
| `ActionExecution_retry.cfg` | `EveryActionRuns` | retries wait for exceptions that `invoke_service_rpc` has already replaced |
| `MCEngineUpdate_refused.cfg` | `RefusedOnlyIfRecursive` | undoing the refused rule `u :- u` leaves the cached cycle (`utility.py:387`), and the next data are refused as recursive, too |
| `MCEngineUpdate_actions.cfg` | `ActionsTriggered` | two action tables that are new in one batch share the loop's variable (`agnostic.py:1959`); both triggers execute the same action |
| `MCEngineUpdate_handover.cfg` | `ActionsTriggered` | a trigger is unregistered with the dependencies of now, raises, and its table keeps an entry that is not registered (`agnostic.py:1971`) |
| `MCEngineUpdate_subscribers.cfg` | `SubscriberCurrent`, `SubscribedOnlyNeeded` | a change between a subscription and the heartbeat that registers its trigger never reaches the subscriber; `delete_policy` never drops subscriptions |
| `MCEngineUpdate_dropped.cfg` | `GraphExact`, `MentionedSubscribed` | a rule inserted while `delete_policy` is in its callbacks is dropped with the theory, and the graph keeps its edges; a callback that raises, or rules changed meanwhile, leave a table without subscription |
| `DatasourceSync_reuse.cfg` | `AllSynchronized` | a name deleted and added again before another node synchronized: its registration fails in every pass because the old service has the name |
| `MCDataPath_clash.cfg` | `IdIsKey`, `RowsFitSchema` | disks of size 1 and speed 2, and of size 2 and speed 1, have the same id; for a nested translator with neither id column nor parent key the schema has a column in the parent's table (`datasource_driver.py:507,538`), the rows have none (`:943,871`) |
| `MCDataPath_capture.cfg` | `AbductionComplete` | `abduce` of `hastag(y)` reaches another rule's variable `y` through a binding, does not rename it, and asks for too much |

`NeverRecursive` also fails once rules may be deleted: a rule deleted and
inserted again has a new id, another engine's synchronization inserts it (a
no-op) and deletes it by its text, and the engine then accepts its counterpart.
It fails with `CallbackErrors = TRUE` in `MCPolicySync_replicas.cfg` for a like
reason: a callback raises and leaves a rule in the engine that the database lacks,
another engine stores the rule under its own id, the synchronization inserts that (a
no-op) and deletes the unstored one by its text. This is why `ps_replicas` has
insertions only, and none that raise.

`AllSynchronized` also fails with a datasource in `Broken` whose row is in the
database: making it raises and ends every pass before stale services are stopped,
which is what `Synchronized` excepts.

## What is not modelled

Left out of modelled components:

- Unsequenced publication (`always_snapshot`), see above.
- In `DataService`, handlers do not yield; the engine's `receive_data` does when
  it executes an action (`agnostic.py:2050`), in the middle of
  `receive_data_sequenced`, which is written to have no blocking call. Nor does
  `receive_data` raise: when the engine refuses the data (`agnostic.py:2112`), the
  number is set already, the data is lost and the queue is not processed.
- In `PolicySync`, datasources are static, rules with column references
  (disabled events) and failures of the commit itself are left out.
- In `ActionExecution`, errors that end the heartbeat loop for good
  (`control_bus.py:137`), and the lookup of client methods by drivers. How triggers
  find new rows is in `EngineUpdate`, without replicas.
- Peers are never removed from a node's directory (`control_bus.py:80`); the tables
  that a dead node subscribed to stay subscribed. Not modelled.
- In `EngineUpdate`, one row stands for a table's contents, and the theories of
  several policies are not mixed by a batch: that is in `PolicySync`.
- A pushed table is published before it is persisted (`datasource_driver.py:1234`);
  persistence and row-level pushes are not modelled.
- `update_from_datasource` iterates over `_table_deps` while `get_snapshot` of a lazy
  table may add to it; `get_services(True)` is iterated across blocking calls. Both
  would raise inside an iteration; the models iterate over what they read.
- In `Translation`, extraction and id functions of drivers; in `TopDown`, `explain`
  (an assertion that fails), `consequences`, `instances`, and modals.

Components left out:

- Parsing (generated by ANTLR for two Python versions), the vendored ANTLR runtimes
  and the tests make up most of the repository's lines. They are generated or
  third-party code with no state of this system.
- Concrete drivers are declarative translators and calls of client libraries;
  `Translation` has their meaning.
- The API server routes and formats; its calls into the engine are actions of
  `PolicySync` and `DatasourceSync`. Harness, migrations, configuration and
  dashboard are wiring and presentation.
- The VM placement engine builds linear programs for an external solver.
- Column references, schemas of policy tables, and the code of builtins.
