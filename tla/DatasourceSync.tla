--------------------------- MODULE DatasourceSync ---------------------------
(***************************************************************************)
(* The datasources of a Congress deployment: the table of datasources in   *)
(* the database, and on every datasource node the services that run them,  *)
(* the calls that add and delete datasources (DSManagerService), the       *)
(* periodic DatasourceSynchronizer, and the poll loop and refresh queue of *)
(* each service (PollingDataSourceDriver).                                 *)
(*                                                                         *)
(* Each database access and each wait for a service to stop is a step of   *)
(* its own.  The lock congress_synchronize_datasources is per node.        *)
(***************************************************************************)
EXTENDS Naturals, FiniteSets

CONSTANTS
  Node,         \* datasource nodes
  Thread,       \* threads of a node that serve calls of the API
  Worker,       \* the thread of a node's periodic synchronizer
  Nobody,       \* no thread
  Name,         \* names of datasources
  Broken,       \* names of datasources whose driver cannot be made
  PollTime,     \* whether drivers poll by themselves (poll_time # 0)
  Reuse,        \* whether a name is used again after its datasource was deleted
  MaxId,        \* bound on the datasources added
  MaxRefresh,   \* bound on refresh requests
  MaxFailures,  \* bound on failures of the policy engine's synchronization
  MaxCrashes    \* bound on crashes of nodes

ASSUME SyncThreads == Worker \notin Thread /\ Nobody \notin Thread \cup {Worker}
ASSUME SyncBounds ==
  /\ Broken \subseteq Name /\ PollTime \in BOOLEAN /\ Reuse \in BOOLEAN
  /\ MaxId \in Nat /\ MaxRefresh \in Nat /\ MaxFailures \in Nat /\ MaxCrashes \in Nat

VARIABLES
  db,         \* rows of the table datasources
  nextId,     \* the next id
  used,       \* names that have been used
  services,   \* the datasource services of each node (_services)
  lock,       \* holder of each node's congress_synchronize_datasources
  job,        \* what each thread of each node is doing
  up,         \* nodes that run
  accepted,   \* history: ids whose add_datasource succeeded on a node
  deleted,    \* history: ids whose delete_datasource succeeded on a node
  refreshes, failures, crashes

table == <<db, nextId, used>>
counters == <<refreshes, failures, crashes>>
vars == <<table, services, lock, job, up, accepted, deleted, counters>>

Id == 1 .. MaxId
DatasourceRow == [id : Id, name : Name, enabled : BOOLEAN]
Service == [id : Id, name : Name,
            worker : {"polling", "waiting", "refreshing"},  \* where poll_loop is
            queue : {0, 1},                                 \* refresh_request_queue
            blocked : 0 .. MaxRefresh,                      \* handlers blocked in put()
            asked : BOOLEAN,  \* history: a request no poll has answered yet
            fresh : BOOLEAN]  \* history: the poll in progress began after it
NewService(r) ==
  [id |-> r.id, name |-> r.name, worker |-> IF PollTime THEN "polling" ELSE "waiting",
   queue |-> 0, blocked |-> 0, asked |-> FALSE, fresh |-> FALSE]

Job == [op : {"none", "add", "delete", "all"},
        step : {"idle", "sync", "apply", "stopping", "engine", "undo", "scan"},
        row : SUBSET DatasourceRow,       \* the datasource of the call
        seen : SUBSET DatasourceRow,      \* what was read from the database
        stopping : SUBSET Service]        \* the service that is being stopped
Idle == [op |-> "none", step |-> "idle", row |-> {}, seen |-> {}, stopping |-> {}]

ByName(n, name) == {s \in services[n] : s.name = name}
ById(n, id) == {s \in services[n] : s.id = id}
-----------------------------------------------------------------------------
Init ==
  /\ db = {} /\ nextId = 1 /\ used = {}
  /\ services = [n \in Node |-> {}]
  /\ lock = [n \in Node |-> Nobody]
  /\ job = [n \in Node |-> [t \in Thread \cup {Worker} |-> Idle]]
  /\ up = Node
  /\ accepted = [n \in Node |-> {}] /\ deleted = [n \in Node |-> {}]
  /\ refreshes = 0 /\ failures = 0 /\ crashes = 0
-----------------------------------------------------------------------------
\* Where thread t of node n goes next; `Ends' is the end of a call or a pass.
Goes(n, t, j) == job' = [job EXCEPT ![n][t] = j]
Ends(n, t) == Goes(n, t, Idle)
Unlock(n) == lock' = [lock EXCEPT ![n] = Nobody]

\* add_datasource up to the write of the row.  A name in use is refused.
AddDatasource(n, t, name, enabled) ==
  LET row == [id |-> nextId, name |-> name, enabled |-> enabled]
  IN  /\ n \in up /\ job[n][t] = Idle
      /\ nextId <= MaxId
      /\ Reuse \/ name \notin used
      /\ \A r \in db : r.name # name
      /\ db' = db \cup {row} /\ nextId' = nextId + 1 /\ used' = used \cup {name}
      /\ Goes(n, t, [Idle EXCEPT !.op = "add", !.step = "sync", !.row = {row}])
      /\ UNCHANGED <<services, lock, up, accepted, deleted, counters>>

\* delete_datasource up to the deletion of the row.
DeleteDatasource(n, t, row) ==
  /\ n \in up /\ job[n][t] = Idle
  /\ row \in db
  /\ db' = db \ {row}
  /\ Goes(n, t, [Idle EXCEPT !.op = "delete", !.step = "sync", !.row = {row}])
  /\ UNCHANGED <<nextId, used, services, lock, up, accepted, deleted, counters>>

\* Mutant: the row is read without the lock.
SyncReadUnlocked(n, t) ==
  /\ job[n][t].step = "sync"
  /\ UNCHANGED lock
  /\ \E row \in job[n][t].row :
       Goes(n, t, [job[n][t] EXCEPT !.step = "apply", !.seen = {r \in db : r.name = row.name}])
  /\ UNCHANGED <<table, services, up, accepted, deleted, counters>>

\* sync_datasource: under the lock, the row is read by name ...
SyncRead(n, t) ==
  /\ job[n][t].step = "sync"
  /\ lock[n] = Nobody
  /\ lock' = [lock EXCEPT ![n] = t]
  /\ \E row \in job[n][t].row :
       Goes(n, t, [job[n][t] EXCEPT !.step = "apply", !.seen = {r \in db : r.name = row.name}])
  /\ UNCHANGED <<table, services, up, accepted, deleted, counters>>

\* ... and compared with the service of that name.
RegisterService(n, t, row) ==
  /\ services' = [services EXCEPT ![n] = @ \cup {NewService(row)}]
  /\ Goes(n, t, [job[n][t] EXCEPT !.step = "engine", !.seen = {}])
  /\ Unlock(n)
  /\ UNCHANGED accepted

\* create_datasource_service raises DataServiceError: add_datasource takes it for
\* a service that exists already and succeeds, delete_datasource fails.  The other
\* error, DriverNotFound, would make add_datasource undo the addition, but it has
\* validated the driver on this node before; delete_datasource and a pass of the
\* synchronizer end with any error in the same way.
CreateFails(n, t) ==
  /\ accepted' = [accepted EXCEPT ![n] = IF job[n][t].op = "add"
                                         THEN @ \cup {r.id : r \in job[n][t].row} ELSE @]
  /\ Ends(n, t)
  /\ Unlock(n)
  /\ UNCHANGED services

\* Mutant: the lock is kept when the service cannot be registered.
RegisterNoneLocked(n, t) ==
  /\ IF job[n][t].op = "add" THEN Goes(n, t, [job[n][t] EXCEPT !.step = "undo", !.seen = {}])
                             ELSE Ends(n, t)
  /\ UNCHANGED <<lock, services, accepted>>

\* A disabled datasource has no service to register: AttributeError.
RegisterNone(n, t) ==
  /\ IF job[n][t].op = "add" THEN Goes(n, t, [job[n][t] EXCEPT !.step = "undo", !.seen = {}])
                             ELSE Ends(n, t)
  /\ Unlock(n)
  /\ UNCHANGED <<services, accepted>>

\* unregister_service: out of the list, the worker killed; wait() follows.
UnregisterService(n, t, s, j) ==
  /\ services' = [services EXCEPT ![n] = @ \ {s}]
  /\ Goes(n, t, [j EXCEPT !.step = "stopping", !.stopping = {s}])
  /\ UNCHANGED <<lock, accepted>>

SyncApply(n, t) ==
  LET row  == job[n][t].seen
      here == {s \in services[n] : \E r \in job[n][t].row : r.name = s.name}
  IN  /\ job[n][t].step = "apply"
      /\ \/ \E r \in row :
              /\ here = {}
              /\ \/ r.enabled /\ r.name \notin Broken /\ RegisterService(n, t, r)
                 \/ r.enabled /\ r.name \in Broken /\ CreateFails(n, t)
                 \/ ~r.enabled /\ RegisterNone(n, t)
         \/ \E s \in here : row = {} /\ UnregisterService(n, t, s, job[n][t])
         \/ /\ (row = {}) = (here = {})
            /\ Goes(n, t, [job[n][t] EXCEPT !.step = "engine", !.seen = {}])
            /\ Unlock(n)
            /\ UNCHANGED <<services, accepted>>
      /\ UNCHANGED <<table, up, deleted, counters>>

\* service.wait() returns when no handler of the service is left.
StopReturns(n, t) ==
  /\ job[n][t].step = "stopping"
  /\ \A s \in job[n][t].stopping : s.blocked = 0
  /\ IF t = Worker
     THEN /\ Goes(n, t, [job[n][t] EXCEPT !.step = "scan", !.stopping = {}])
          /\ UNCHANGED lock
     ELSE /\ Goes(n, t, [job[n][t] EXCEPT !.step = "engine", !.seen = {}, !.stopping = {}])
          /\ Unlock(n)
  /\ UNCHANGED <<table, services, up, accepted, deleted, counters>>

\* The policy engine of the node is synchronized (see PolicySync), and the call
\* returns.
EngineSynced(n, t) ==
  LET ids == {r.id : r \in job[n][t].row}
  IN  /\ job[n][t].step = "engine"
      /\ accepted' = [accepted EXCEPT ![n] = IF job[n][t].op = "add" THEN @ \cup ids ELSE @]
      /\ deleted' = [deleted EXCEPT ![n] = IF job[n][t].op = "delete" THEN @ \cup ids ELSE @]
      /\ Ends(n, t)
      /\ UNCHANGED <<table, services, lock, up, counters>>

EngineSyncFails(n, t) ==
  /\ job[n][t].step = "engine"
  /\ failures < MaxFailures
  /\ failures' = failures + 1
  /\ IF job[n][t].op = "add" THEN Goes(n, t, [job[n][t] EXCEPT !.step = "undo"]) ELSE Ends(n, t)
  /\ UNCHANGED <<table, services, lock, up, accepted, deleted, refreshes, crashes>>

\* add_datasource takes its row back after an unexpected exception.
UndoAdd(n, t) ==
  /\ job[n][t].step = "undo"
  /\ db' = db \ job[n][t].row
  /\ Ends(n, t)
  /\ UNCHANGED <<nextId, used, services, lock, up, accepted, deleted, counters>>
-----------------------------------------------------------------------------
(***************************************************************************)
(* synchronize_all_datasources.                                            *)
(***************************************************************************)
\* Mutant: a pass does not wait for the lock.
ScanReadUnlocked(n) ==
  /\ n \in up /\ job[n][Worker] = Idle
  /\ UNCHANGED lock
  /\ Goes(n, Worker, [Idle EXCEPT !.op = "all", !.step = "scan", !.seen = db])
  /\ UNCHANGED <<table, services, up, accepted, deleted, counters>>

ScanRead(n) ==
  /\ n \in up /\ job[n][Worker] = Idle
  /\ lock[n] = Nobody
  /\ lock' = [lock EXCEPT ![n] = Worker]
  /\ Goes(n, Worker, [Idle EXCEPT !.op = "all", !.step = "scan", !.seen = db])
  /\ UNCHANGED <<table, services, up, accepted, deleted, counters>>

\* What a pass has left to do; only its thread changes the services until it gives
\* the lock back.
Missing(n) == {r \in job[n][Worker].seen : r.enabled /\ ById(n, r.id) = {}}
Disabled(n) == {s \in services[n] : \E r \in job[n][Worker].seen : r.id = s.id /\ ~r.enabled}
\* Mutant: services missing from the database are left running.
StaleNone(n) == {}

Stale(n) == {s \in services[n] : \A r \in job[n][Worker].seen : r.id # s.id}

CannotRegister(n, r) == r.name \in Broken \/ ByName(n, r.name) # {}

ScanRegister(n, r) ==
  /\ job[n][Worker].step = "scan" /\ r \in Missing(n)
  /\ ~ CannotRegister(n, r)
  /\ services' = [services EXCEPT ![n] = @ \cup {NewService(r)}]
  /\ UNCHANGED <<table, lock, job, up, accepted, deleted, counters>>

\* The DataServiceError of a datasource that cannot be made, or whose name is
\* still in use on the node, ends the pass.
ScanFails(n, r) ==
  /\ job[n][Worker].step = "scan" /\ r \in Missing(n)
  /\ CannotRegister(n, r)
  /\ Ends(n, Worker)
  /\ Unlock(n)
  /\ UNCHANGED <<table, services, up, accepted, deleted, counters>>

\* Services of disabled rows are stopped on the way, those that are not in the
\* database at the end.
ScanUnregister(n, s) ==
  /\ job[n][Worker].step = "scan"
  /\ s \in Disabled(n) \cup (IF Missing(n) = {} THEN Stale(n) ELSE {})
  /\ UnregisterService(n, Worker, s, job[n][Worker])
  /\ UNCHANGED <<table, up, deleted, counters>>

ScanEnds(n) ==
  /\ job[n][Worker].step = "scan"
  /\ Missing(n) = {} /\ Disabled(n) = {} /\ Stale(n) = {}
  /\ Ends(n, Worker)
  /\ Unlock(n)
  /\ UNCHANGED <<table, services, up, accepted, deleted, counters>>
-----------------------------------------------------------------------------
(***************************************************************************)
(* A service: refresh requests and the poll loop.                          *)
(***************************************************************************)
Becomes(n, s, new) ==
  /\ services' = [services EXCEPT ![n] = (@ \ {s}) \cup {new}]
  /\ UNCHANGED <<table, lock, job, up, accepted, deleted, failures, crashes>>

\* put() blocks the handler while the queue is full.
RequestRefresh(n, s) ==
  /\ s \in services[n]
  /\ refreshes < MaxRefresh
  /\ refreshes' = refreshes + 1
  /\ Becomes(n, s, [s EXCEPT !.queue = 1, !.blocked = @ + s.queue, !.asked = TRUE, !.fresh = FALSE])

\* block_unless_refresh_requested: get() lets the next handler in, and poll() starts.
GetRequest(n, s) ==
  /\ s \in services[n]
  /\ s.worker = "waiting" /\ s.queue = 1
  /\ Becomes(n, s, [s EXCEPT !.worker = "refreshing", !.fresh = s.asked,
                             !.queue = IF s.blocked > 0 THEN 1 ELSE 0,
                             !.blocked = IF s.blocked > 0 THEN @ - 1 ELSE 0])
  /\ UNCHANGED refreshes

\* Mutant: the timeout does not poll.
PollTimesOutOnly(n, s) ==
  /\ s \in services[n]
  /\ PollTime /\ s.worker \in {"waiting", "refreshing"}
  /\ Becomes(n, s, [s EXCEPT !.worker = "waiting"])
  /\ UNCHANGED refreshes

\* The timeout of the interval ends the wait for a request, or the poll that a
\* request started; either way poll() is called.
PollTimesOut(n, s) ==
  /\ s \in services[n]
  /\ PollTime /\ s.worker \in {"waiting", "refreshing"}
  /\ Becomes(n, s, [s EXCEPT !.worker = "polling", !.fresh = s.asked])
  /\ UNCHANGED refreshes

PollEnds(n, s) ==
  /\ s \in services[n]
  /\ s.worker \in {"polling", "refreshing"}
  /\ Becomes(n, s, [s EXCEPT !.worker = "waiting", !.asked = @ /\ ~s.fresh, !.fresh = FALSE])
  /\ UNCHANGED refreshes
-----------------------------------------------------------------------------
Crash(n) ==
  /\ n \in up
  /\ crashes < MaxCrashes
  /\ crashes' = crashes + 1
  /\ up' = up \ {n}
  /\ services' = [services EXCEPT ![n] = {}]
  /\ job' = [job EXCEPT ![n] = [t \in Thread \cup {Worker} |-> Idle]]
  /\ Unlock(n)
  /\ UNCHANGED <<table, accepted, deleted, refreshes, failures>>

\* create_datasources at start-up; an enabled datasource that cannot be made ends
\* the process.
Start(n) ==
  /\ n \notin up
  /\ \A r \in db : r.enabled => r.name \notin Broken
  /\ up' = up \cup {n}
  /\ services' = [services EXCEPT ![n] = {NewService(r) : r \in {q \in db : q.enabled}}]
  /\ UNCHANGED <<table, lock, job, accepted, deleted, counters>>
-----------------------------------------------------------------------------
CallStep(n, t) ==
  SyncRead(n, t) \/ SyncApply(n, t) \/ StopReturns(n, t) \/ EngineSynced(n, t) \/ UndoAdd(n, t)
ScanStep(n) ==
  \/ \E r \in job[n][Worker].seen : ScanRegister(n, r) \/ ScanFails(n, r)
  \/ \E s \in services[n] : ScanUnregister(n, s)
  \/ ScanEnds(n) \/ StopReturns(n, Worker)

Next ==
  \E n \in Node :
    \/ \E t \in Thread :
         \/ \E name \in Name, enabled \in BOOLEAN : AddDatasource(n, t, name, enabled)
         \/ \E row \in db : DeleteDatasource(n, t, row)
         \/ CallStep(n, t)
         \/ EngineSyncFails(n, t)
    \/ ScanRead(n)
    \/ ScanStep(n)
    \/ \E s \in services[n] :
         RequestRefresh(n, s) \/ GetRequest(n, s) \/ PollTimesOut(n, s) \/ PollEnds(n, s)
    \/ Crash(n)
    \/ Start(n)

OfService(n, id, A(_, _)) == \E s \in ById(n, id) : A(n, s)

\* Calls that started go on, a waiting thread gets the lock, the periodic worker
\* makes one pass after the other, poll loops run, and nodes are started again.
Fairness ==
  \A n \in Node :
    /\ \A t \in Thread : SF_vars(CallStep(n, t))
    /\ SF_vars(ScanRead(n)) /\ WF_vars(ScanStep(n))
    /\ \A id \in Id :
         /\ WF_vars(OfService(n, id, PollEnds))
         /\ WF_vars(OfService(n, id, PollTimesOut))
         /\ WF_vars(OfService(n, id, GetRequest))
    /\ WF_vars(Start(n))

Spec == Init /\ [][Next]_vars /\ Fairness
-----------------------------------------------------------------------------
Ids(rows) == {r.id : r \in rows}
Running(n) == {s.id : s \in services[n]}
Enabled == {r \in db : r.enabled}
Unmakeable == {r \in db : r.name \in Broken}

\* A service is being stopped whose handlers nothing will release.
Stuck == \E n \in Node, t \in Thread \cup {Worker} :
           \E s \in job[n][t].stopping : s.blocked > 0

\* Type invariant; whoever holds the lock is working under it.
TypeOK ==
  /\ db \subseteq DatasourceRow /\ nextId \in 1 .. MaxId + 1 /\ used \subseteq Name
  /\ services \in [Node -> SUBSET Service]
  /\ job \in [Node -> [Thread \cup {Worker} -> Job]]
  /\ up \subseteq Node
  /\ accepted \in [Node -> SUBSET Id] /\ deleted \in [Node -> SUBSET Id]
  /\ \A n \in Node, t \in Thread \cup {Worker} :
       (lock[n] = t) <=> (job[n][t].step \in {"apply", "stopping", "scan"})

\* Once delete_datasource has returned, its node does not run that datasource and
\* never will, although a pass of the synchronizer may have read the database
\* before (sync_datasource, synchronize_all_datasources).
DeletedStaysGone == \A n \in Node : Running(n) \cap deleted[n] = {}

\* Once add_datasource has returned, its node runs the datasource as long as it is
\* in the database, whatever passes were under way, if its driver can be made.
AcceptedRuns == \A n \in up : accepted[n] \cap Ids(Enabled \ Unmakeable) \subseteq Running(n)

\* All nodes end up with exactly the enabled datasources of the database, as far as
\* these can be made, whatever calls failed or nodes crashed
\* (synchronize_all_datasources, create_datasources).
AllSynchronized ==
  <>[](\A n \in Node : n \in up /\ Running(n) = Ids(Enabled \ Unmakeable))

\* AllSynchronized holds unless a service cannot be stopped or a datasource that
\* cannot be made stays in the database.
Synchronized == AllSynchronized \/ <>Stuck \/ <>[](Unmakeable # {})

\* A refresh request is answered by a poll that began after it, unless the service
\* is stopped (poll_loop, request_refresh).
RefreshServed ==
  \A n \in Node, id \in Id :
    LET asked == \E s \in ById(n, id) : s.asked IN asked ~> ~asked

\* Every call of the API ends.
EveryCallEnds ==
  \A n \in Node, t \in Thread : job[n][t].step # "idle" ~> job[n][t].step = "idle"
=============================================================================
