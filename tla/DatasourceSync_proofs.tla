------------------------ MODULE DatasourceSync_proofs ------------------------
(***************************************************************************)
(* Proofs about DatasourceSync: type correctness and the locking of calls  *)
(* and passes; and, where no name is used twice, that a deleted datasource *)
(* stays gone and an accepted one runs.                                    *)
(***************************************************************************)
EXTENDS DatasourceSync, TLAPS

AnyThread == Thread \cup {Worker}

(***************************************************************************)
(* What type correctness needs besides TypeOK: the handlers blocked in     *)
(* put() are at most the requests made so far.                             *)
(***************************************************************************)
CountsOK ==
  /\ lock \in [Node -> AnyThread \cup {Nobody}]
  /\ refreshes \in 0 .. MaxRefresh
  /\ \A n \in Node : \A s \in services[n] : s.blocked + s.queue <= refreshes

----------------------------------------------------------------------------
(***************************************************************************)
(* Type correctness.                                                       *)
(***************************************************************************)
Locked == {"apply", "stopping", "scan"}

LockOK ==
  /\ lock \in [Node -> AnyThread \cup {Nobody}]
  /\ job \in [Node -> [AnyThread -> Job]]
  /\ \A n \in Node, t \in AnyThread : lock[n] = t <=> job[n][t].step \in Locked

OtherJobs(n, t) ==
  \A m \in Node, u \in AnyThread : m # n \/ u # t => job'[m][u] = job[m][u]

\* A thread that goes on to another task.
LEMMA JobGoes ==
  ASSUME job \in [Node -> [AnyThread -> Job]], NEW n \in Node, NEW t \in AnyThread,
         NEW j \in Job, Goes(n, t, j)
  PROVE  job'[n][t] = j /\ OtherJobs(n, t) /\ job' \in [Node -> [AnyThread -> Job]]
BY DEF Goes, OtherJobs

\* The lock is held by the thread whose task needs it, if a thread keeps it,
\* gives it back or takes it as its tasks say.
LEMMA LockGoes ==
  ASSUME LockOK, NEW n \in Node, NEW t \in AnyThread, NEW j \in Job, Goes(n, t, j),
         \/ lock' = lock /\ (job[n][t].step \in Locked <=> j.step \in Locked)
         \/ Unlock(n) /\ job[n][t].step \in Locked /\ j.step \notin Locked
         \/ lock' = [lock EXCEPT ![n] = t] /\ lock[n] = Nobody /\ j.step \in Locked
  PROVE  LockOK'
<1>1. job'[n][t] = j /\ OtherJobs(n, t) /\ job' \in [Node -> [AnyThread -> Job]]
  BY JobGoes DEF LockOK
<1>2. Nobody \notin AnyThread
  BY SyncThreads DEF AnyThread
<1>3. CASE lock' = lock /\ (job[n][t].step \in Locked <=> j.step \in Locked)
  <2>1. ASSUME NEW m \in Node, NEW u \in AnyThread
        PROVE  lock[m] = u <=> job'[m][u].step \in Locked
    <3>1. CASE m = n /\ u = t
      BY <1>1, <1>3, <3>1 DEF LockOK
    <3>2. CASE m # n \/ u # t
      BY <1>1, <3>2 DEF LockOK, OtherJobs
    <3> QED
      BY <3>1, <3>2
  <2> QED
    BY <1>1, <1>3, <2>1 DEF LockOK
<1>4. CASE Unlock(n) /\ job[n][t].step \in Locked /\ j.step \notin Locked
  <2>1. lock'[n] = Nobody /\ \A m \in Node : m # n => lock'[m] = lock[m]
    BY <1>4 DEF LockOK, Unlock
  <2>2. lock[n] = t
    BY <1>4 DEF LockOK
  <2>3. lock' \in [Node -> AnyThread \cup {Nobody}]
    BY <1>4 DEF LockOK, Unlock
  <2> QED
    BY <1>1, <1>2, <1>4, <2>1, <2>2, <2>3 DEF LockOK, OtherJobs
<1>5. CASE lock' = [lock EXCEPT ![n] = t] /\ lock[n] = Nobody /\ j.step \in Locked
  <2>1. lock'[n] = t /\ \A m \in Node : m # n => lock'[m] = lock[m]
    BY <1>5 DEF LockOK
  <2>2. lock' \in [Node -> AnyThread \cup {Nobody}]
    BY <1>5 DEF LockOK
  <2> QED
    BY <1>1, <1>2, <1>5, <2>1, <2>2 DEF LockOK, OtherJobs
<1> QED
  BY <1>3, <1>4, <1>5

\* The tasks that actions make.
LEMMA JobEdits ==
  /\ Idle \in Job /\ Idle.step = "idle"
  /\ \A k \in Job : /\ [k EXCEPT !.step = "undo"] \in Job
                    /\ [k EXCEPT !.step = "undo"].step = "undo"
                    /\ [k EXCEPT !.step = "engine", !.seen = {}] \in Job
                    /\ [k EXCEPT !.step = "engine", !.seen = {}].step = "engine"
                    /\ [k EXCEPT !.step = "undo", !.seen = {}] \in Job
                    /\ [k EXCEPT !.step = "undo", !.seen = {}].step = "undo"
                    /\ [k EXCEPT !.step = "scan", !.stopping = {}] \in Job
                    /\ [k EXCEPT !.step = "scan", !.stopping = {}].step = "scan"
                    /\ [k EXCEPT !.step = "engine", !.seen = {}, !.stopping = {}] \in Job
                    /\ [k EXCEPT !.step = "engine", !.seen = {}, !.stopping = {}].step = "engine"
  /\ \A k \in Job, X \in SUBSET DatasourceRow :
       /\ [k EXCEPT !.step = "apply", !.seen = X] \in Job
       /\ [k EXCEPT !.step = "apply", !.seen = X].step = "apply"
  /\ \A X \in SUBSET DatasourceRow :
       /\ [Idle EXCEPT !.op = "all", !.step = "scan", !.seen = X] \in Job
       /\ [Idle EXCEPT !.op = "all", !.step = "scan", !.seen = X].step = "scan"
  /\ \A k \in Job, s \in Service :
       /\ [k EXCEPT !.step = "stopping", !.stopping = {s}] \in Job
       /\ [k EXCEPT !.step = "stopping", !.stopping = {s}].step = "stopping"
  /\ \A r \in DatasourceRow :
       /\ [Idle EXCEPT !.op = "add", !.step = "sync", !.row = {r}] \in Job
       /\ [Idle EXCEPT !.op = "add", !.step = "sync", !.row = {r}].step = "sync"
       /\ [Idle EXCEPT !.op = "delete", !.step = "sync", !.row = {r}] \in Job
       /\ [Idle EXCEPT !.op = "delete", !.step = "sync", !.row = {r}].step = "sync"
<1>1. Idle \in Job /\ Idle.step = "idle"
  BY DEF Idle, Job
<1> QED
  BY <1>1 DEF Job, Idle

\* A service as it is made, and the sets of services of a node.
ServicesOK ==
  /\ services \in [Node -> SUBSET Service]
  /\ refreshes \in 0 .. MaxRefresh
  /\ \A n \in Node : \A s \in services[n] : s.blocked + s.queue <= refreshes

\* A new service is a service that nobody has asked anything.
LEMMA NewServices ==
  \A r \in DatasourceRow :
    /\ NewService(r) \in Service
    /\ NewService(r).blocked + NewService(r).queue = 0
    /\ NewService(r).id = r.id /\ NewService(r).name = r.name
BY SyncBounds DEF NewService, Service, DatasourceRow

\* Registering and unregistering services leaves services.
LEMMA ServicesGo ==
  ASSUME ServicesOK, NEW n \in Node, UNCHANGED refreshes,
         \/ UNCHANGED services
         \/ \E r \in DatasourceRow : services' = [services EXCEPT ![n] = @ \cup {NewService(r)}]
         \/ \E s \in services[n] : services' = [services EXCEPT ![n] = @ \ {s}]
         \/ \E X \in SUBSET DatasourceRow :
              services' = [services EXCEPT ![n] = {NewService(r) : r \in X}]
  PROVE  ServicesOK'
<1>1. refreshes >= 0
  BY SyncBounds DEF ServicesOK
<1>2. CASE UNCHANGED services
  BY <1>2 DEF ServicesOK
<1>3. CASE \E r \in DatasourceRow : services' = [services EXCEPT ![n] = @ \cup {NewService(r)}]
  BY <1>1, <1>3, NewServices DEF ServicesOK
<1>4. CASE \E s \in services[n] : services' = [services EXCEPT ![n] = @ \ {s}]
  BY <1>4 DEF ServicesOK
<1>5. CASE \E X \in SUBSET DatasourceRow :
             services' = [services EXCEPT ![n] = {NewService(r) : r \in X}]
  <2>1. PICK X \in SUBSET DatasourceRow :
          services' = [services EXCEPT ![n] = {NewService(r) : r \in X}]
    BY <1>5
  <2>2. \A s \in {NewService(r) : r \in X} : s \in Service /\ s.blocked + s.queue = 0
    BY NewServices
  <2>3. services'[n] = {NewService(r) : r \in X} /\ \A m \in Node : m # n => services'[m] = services[m]
    BY <2>1 DEF ServicesOK
  <2>4. services' \in [Node -> SUBSET Service]
    BY <2>1, <2>2 DEF ServicesOK
  <2> QED
    BY <1>1, <2>2, <2>3, <2>4 DEF ServicesOK
<1> QED
  BY <1>2, <1>3, <1>4, <1>5

TableOK ==
  /\ db \subseteq DatasourceRow /\ nextId \in 1 .. MaxId + 1 /\ used \subseteq Name
  /\ up \subseteq Node
  /\ accepted \in [Node -> SUBSET Id] /\ deleted \in [Node -> SUBSET Id]

\* The parts of the type invariant, each with what it needs.
TypeParts == TableOK /\ LockOK /\ ServicesOK

\* They are TypeOK and CountsOK.
LEMMA TypePartsAre == TypeParts <=> TypeOK /\ CountsOK
BY DEF TypeParts, TableOK, LockOK, ServicesOK, TypeOK, CountsOK, AnyThread, Locked

\* The steps of a call.
LEMMA CallTypes ==
  ASSUME TypeParts, NEW n \in Node, NEW t \in Thread,
         \/ \E name \in Name, enabled \in BOOLEAN : AddDatasource(n, t, name, enabled)
         \/ \E row \in db : DeleteDatasource(n, t, row)
         \/ CallStep(n, t)
         \/ EngineSyncFails(n, t)
  PROVE  TypeParts'
<1> DEFINE k == job[n][t]
<1>0. t \in AnyThread /\ t # Worker /\ k \in Job /\ k.row \subseteq DatasourceRow
      /\ k.seen \subseteq DatasourceRow
  BY SyncThreads DEF AnyThread, TypeParts, LockOK, Job
<1>1. ASSUME NEW name \in Name, NEW enabled \in BOOLEAN, AddDatasource(n, t, name, enabled)
      PROVE  TypeParts'
  <2> DEFINE row == [id |-> nextId, name |-> name, enabled |-> enabled]
             j == [Idle EXCEPT !.op = "add", !.step = "sync", !.row = {row}]
  <2>1. /\ k = Idle /\ nextId <= MaxId /\ db' = db \cup {row} /\ nextId' = nextId + 1
        /\ used' = used \cup {name} /\ Goes(n, t, j)
        /\ UNCHANGED <<services, lock, up, accepted, deleted, refreshes>>
    BY <1>1 DEF AddDatasource, counters
  <2>2. row \in DatasourceRow
    BY <2>1, SyncBounds DEF DatasourceRow, Id, TypeParts, TableOK
  <2>3. j \in Job /\ j.step = "sync"
    BY <2>2, JobEdits
  <2> HIDE DEF j, row
  <2>4. LockOK'
    BY <1>0, <2>1, <2>3, LockGoes, JobEdits DEF TypeParts, Locked
  <2>5. TableOK'
    BY <2>1, <2>2, SyncBounds DEF TypeParts, TableOK
  <2> QED
    BY <2>1, <2>4, <2>5, ServicesGo DEF TypeParts
<1>2. ASSUME NEW row \in db, DeleteDatasource(n, t, row)
      PROVE  TypeParts'
  <2> DEFINE j == [Idle EXCEPT !.op = "delete", !.step = "sync", !.row = {row}]
  <2>1. /\ k = Idle /\ db' = db \ {row} /\ Goes(n, t, j)
        /\ UNCHANGED <<nextId, used, services, lock, up, accepted, deleted, refreshes>>
    BY <1>2 DEF DeleteDatasource, counters
  <2>2. j \in Job /\ j.step = "sync"
    BY JobEdits DEF TypeParts, TableOK
  <2> HIDE DEF j
  <2>3. LockOK'
    BY <1>0, <2>1, <2>2, LockGoes, JobEdits DEF TypeParts, Locked
  <2> QED
    BY <2>1, <2>3, ServicesGo DEF TypeParts, TableOK
<1>3. CASE SyncRead(n, t)
  <2>1. PICK row \in k.row :
          Goes(n, t, [k EXCEPT !.step = "apply", !.seen = {r \in db : r.name = row.name}])
    BY <1>3 DEF SyncRead
  <2> DEFINE seen == {r \in db : r.name = row.name}
             j == [k EXCEPT !.step = "apply", !.seen = seen]
  <2>2. j \in Job /\ j.step = "apply"
    <3>1. seen \in SUBSET DatasourceRow
      BY DEF TypeParts, TableOK
    <3> HIDE DEF seen, k
    <3> QED
      BY <1>0, <3>1, JobEdits
  <2>3. /\ lock[n] = Nobody /\ lock' = [lock EXCEPT ![n] = t]
        /\ UNCHANGED <<table, services, up, accepted, deleted, refreshes>>
    BY <1>3 DEF SyncRead, counters
  <2> HIDE DEF j
  <2>4. LockOK'
    BY <1>0, <2>1, <2>2, <2>3, LockGoes DEF TypeParts, Locked, j
  <2> QED
    BY <2>3, <2>4, ServicesGo DEF TypeParts, TableOK, table
<1>4. CASE SyncApply(n, t)
  <2> DEFINE here == {s \in services[n] : \E r \in k.row : r.name = s.name}
  <2>0. k.step = "apply" /\ UNCHANGED <<db, nextId, used, up, deleted, refreshes>>
    BY <1>4 DEF SyncApply, table, counters
  <2>1. ASSUME NEW r \in k.seen, RegisterService(n, t, r) PROVE TypeParts'
    <3> DEFINE j == [k EXCEPT !.step = "engine", !.seen = {}]
    <3>1. j \in Job /\ j.step = "engine"
      BY <1>0, JobEdits
    <3>2. /\ services' = [services EXCEPT ![n] = @ \cup {NewService(r)}]
          /\ Goes(n, t, j) /\ Unlock(n) /\ UNCHANGED accepted
      BY <2>1 DEF RegisterService
    <3> HIDE DEF j
    <3>3. LockOK'
      BY <1>0, <2>0, <3>1, <3>2, LockGoes DEF TypeParts, Locked
    <3>4. ServicesOK'
      BY <1>0, <2>0, <3>2, ServicesGo DEF TypeParts
    <3> QED
      BY <2>0, <3>2, <3>3, <3>4 DEF TypeParts, TableOK
  <2>2. CASE CreateFails(n, t)
    <3>1. accepted' \in [Node -> SUBSET Id]
      <4>1. {r.id : r \in k.row} \subseteq Id
        BY <1>0 DEF DatasourceRow
      <4> QED
        BY <2>2, <4>1 DEF CreateFails, TypeParts, TableOK
    <3>2. Goes(n, t, Idle) /\ Unlock(n) /\ UNCHANGED services
      BY <2>2 DEF CreateFails, Ends
    <3>3. LockOK'
      BY <1>0, <2>0, <3>2, LockGoes, JobEdits DEF TypeParts, Locked
    <3> QED
      BY <2>0, <3>1, <3>2, <3>3, ServicesGo DEF TypeParts, TableOK
  <2>3. CASE RegisterNone(n, t)
    <3>1. /\ \/ Goes(n, t, [k EXCEPT !.step = "undo", !.seen = {}])
             \/ Goes(n, t, Idle)
          /\ Unlock(n) /\ UNCHANGED <<services, accepted>>
      BY <2>3 DEF RegisterNone, Ends
    <3>2. CASE Goes(n, t, Idle)
      BY <1>0, <2>0, <3>1, <3>2, LockGoes, JobEdits, ServicesGo DEF TypeParts, Locked, TableOK
    <3>3. CASE Goes(n, t, [k EXCEPT !.step = "undo", !.seen = {}])
      <4> DEFINE j == [k EXCEPT !.step = "undo", !.seen = {}]
      <4>1. j \in Job /\ j.step = "undo"
        BY <1>0, JobEdits
      <4> HIDE DEF j
      <4>2. LockOK'
        BY <1>0, <2>0, <3>1, <3>3, <4>1, LockGoes DEF TypeParts, Locked, j
      <4> QED
        BY <2>0, <3>1, <4>2, ServicesGo DEF TypeParts, TableOK
    <3> QED
      BY <3>1, <3>2, <3>3
  <2>4. ASSUME NEW s \in here, UnregisterService(n, t, s, k) PROVE TypeParts'
    <3> DEFINE j == [k EXCEPT !.step = "stopping", !.stopping = {s}]
    <3>1. j \in Job /\ j.step = "stopping"
      BY <1>0, <2>4, JobEdits DEF TypeParts, ServicesOK
    <3>2. /\ services' = [services EXCEPT ![n] = @ \ {s}]
          /\ Goes(n, t, j) /\ UNCHANGED <<lock, accepted>>
      BY <2>4 DEF UnregisterService
    <3> HIDE DEF j
    <3>3. LockOK'
      BY <1>0, <2>0, <3>1, <3>2, LockGoes DEF TypeParts, Locked
    <3>4. ServicesOK'
      BY <2>0, <2>4, <3>2, ServicesGo DEF TypeParts
    <3> QED
      BY <2>0, <3>2, <3>3, <3>4 DEF TypeParts, TableOK
  <2>5. CASE /\ Goes(n, t, [k EXCEPT !.step = "engine", !.seen = {}])
             /\ Unlock(n) /\ UNCHANGED <<services, accepted>>
    <3> DEFINE j == [k EXCEPT !.step = "engine", !.seen = {}]
    <3>1. j \in Job /\ j.step = "engine"
      BY <1>0, JobEdits
    <3> HIDE DEF j
    <3>2. LockOK'
      BY <1>0, <2>0, <2>5, <3>1, LockGoes DEF TypeParts, Locked, j
    <3> QED
      BY <2>0, <2>5, <3>2, ServicesGo DEF TypeParts, TableOK
  <2> QED
    BY <1>4, <2>1, <2>2, <2>3, <2>4, <2>5 DEF SyncApply
<1>5. CASE StopReturns(n, t)
  <2> DEFINE j == [k EXCEPT !.step = "engine", !.seen = {}, !.stopping = {}]
  <2>1. j \in Job /\ j.step = "engine"
    BY <1>0, JobEdits
  <2>2. /\ k.step = "stopping" /\ Goes(n, t, j) /\ Unlock(n)
        /\ UNCHANGED <<table, services, up, accepted, deleted, refreshes>>
    BY <1>0, <1>5 DEF StopReturns, counters
  <2> HIDE DEF j
  <2>3. LockOK'
    BY <1>0, <2>1, <2>2, LockGoes DEF TypeParts, Locked
  <2> QED
    BY <2>2, <2>3, ServicesGo DEF TypeParts, TableOK, table
<1>6. CASE EngineSynced(n, t)
  <2>1. {r.id : r \in k.row} \subseteq Id
    BY <1>0 DEF DatasourceRow
  <2>2. accepted' \in [Node -> SUBSET Id] /\ deleted' \in [Node -> SUBSET Id]
    BY <1>6, <2>1 DEF EngineSynced, TypeParts, TableOK
  <2>3. k.step = "engine" /\ Goes(n, t, Idle) /\ UNCHANGED <<table, services, lock, up, refreshes>>
    BY <1>6 DEF EngineSynced, Ends, counters
  <2>4. LockOK'
    BY <1>0, <2>3, LockGoes, JobEdits DEF TypeParts, Locked
  <2> QED
    BY <2>2, <2>3, <2>4, ServicesGo DEF TypeParts, TableOK, table
<1>7. CASE UndoAdd(n, t)
  <2>1. /\ k.step = "undo" /\ Goes(n, t, Idle) /\ db' = db \ k.row
        /\ UNCHANGED <<nextId, used, services, lock, up, accepted, deleted, refreshes>>
    BY <1>7 DEF UndoAdd, Ends, counters
  <2>2. LockOK'
    BY <1>0, <2>1, LockGoes, JobEdits DEF TypeParts, Locked
  <2> QED
    BY <2>1, <2>2, ServicesGo DEF TypeParts, TableOK
<1>8. CASE EngineSyncFails(n, t)
  <2>1. /\ k.step = "engine"
        /\ Goes(n, t, Idle) \/ Goes(n, t, [k EXCEPT !.step = "undo"])
        /\ UNCHANGED <<table, services, lock, up, accepted, deleted, refreshes>>
    BY <1>8 DEF EngineSyncFails, Ends
  <2> DEFINE j == [k EXCEPT !.step = "undo"]
  <2>2. j \in Job /\ j.step = "undo"
    BY <1>0, JobEdits
  <2> HIDE DEF j
  <2>3. LockOK'
    <3>1. CASE Goes(n, t, Idle)
      BY <1>0, <2>1, <3>1, LockGoes, JobEdits DEF TypeParts, Locked
    <3>2. CASE Goes(n, t, j)
      BY <1>0, <2>1, <2>2, <3>2, LockGoes DEF TypeParts, Locked
    <3> QED
      BY <2>1, <3>1, <3>2 DEF j
  <2> QED
    BY <2>1, <2>3, ServicesGo DEF TypeParts, TableOK, table
<1> QED
  BY <1>1, <1>2, <1>3, <1>4, <1>5, <1>6, <1>7, <1>8 DEF CallStep

\* The steps of a pass of the synchronizer.
LEMMA PassTypes ==
  ASSUME TypeParts, NEW n \in Node, ScanRead(n) \/ ScanStep(n)
  PROVE  TypeParts'
<1> DEFINE k == job[n][Worker]
<1>0. Worker \in AnyThread /\ k \in Job /\ k.seen \subseteq DatasourceRow
  BY DEF AnyThread, TypeParts, LockOK, Job
<1>1. CASE ScanRead(n)
  <2> DEFINE j == [Idle EXCEPT !.op = "all", !.step = "scan", !.seen = db]
  <2>1. j \in Job /\ j.step = "scan"
    BY JobEdits DEF TypeParts, TableOK
  <2>2. /\ lock[n] = Nobody /\ lock' = [lock EXCEPT ![n] = Worker] /\ Goes(n, Worker, j)
        /\ UNCHANGED <<table, services, up, accepted, deleted, refreshes>>
    BY <1>1 DEF ScanRead, counters
  <2> HIDE DEF j
  <2>3. LockOK'
    BY <1>0, <2>1, <2>2, LockGoes DEF TypeParts, Locked
  <2> QED
    BY <2>2, <2>3, ServicesGo DEF TypeParts, TableOK, table
<1>2. ASSUME NEW r \in k.seen, ScanRegister(n, r) PROVE TypeParts'
  <2>1. /\ services' = [services EXCEPT ![n] = @ \cup {NewService(r)}]
        /\ UNCHANGED <<table, lock, job, up, accepted, deleted, refreshes>>
    BY <1>2 DEF ScanRegister, counters
  <2>2. ServicesOK'
    BY <1>0, <2>1, ServicesGo DEF TypeParts
  <2> QED
    BY <2>1, <2>2 DEF TypeParts, TableOK, LockOK, table
<1>3. ASSUME (\E r \in k.seen : ScanFails(n, r)) \/ ScanEnds(n) PROVE TypeParts'
  <2>1. /\ k.step = "scan" /\ Goes(n, Worker, Idle) /\ Unlock(n)
        /\ UNCHANGED <<table, services, up, accepted, deleted, refreshes>>
    BY <1>3 DEF ScanFails, ScanEnds, Ends, counters
  <2>2. LockOK'
    BY <1>0, <2>1, LockGoes, JobEdits DEF TypeParts, Locked
  <2> QED
    BY <2>1, <2>2, ServicesGo DEF TypeParts, TableOK, table
<1>4. ASSUME NEW s \in services[n], ScanUnregister(n, s) PROVE TypeParts'
  <2> DEFINE j == [k EXCEPT !.step = "stopping", !.stopping = {s}]
  <2>1. j \in Job /\ j.step = "stopping"
    BY <1>0, JobEdits DEF TypeParts, ServicesOK
  <2>2. /\ k.step = "scan" /\ services' = [services EXCEPT ![n] = @ \ {s}]
        /\ Goes(n, Worker, j) /\ UNCHANGED <<lock, table, up, accepted, deleted, refreshes>>
    BY <1>4 DEF ScanUnregister, UnregisterService, counters
  <2> HIDE DEF j
  <2>3. LockOK'
    BY <1>0, <2>1, <2>2, LockGoes DEF TypeParts, Locked
  <2>4. ServicesOK'
    BY <2>2, ServicesGo DEF TypeParts
  <2> QED
    BY <2>2, <2>3, <2>4 DEF TypeParts, TableOK, table
<1>5. CASE StopReturns(n, Worker)
  <2> DEFINE j == [k EXCEPT !.step = "scan", !.stopping = {}]
  <2>1. j \in Job /\ j.step = "scan"
    BY <1>0, JobEdits
  <2>2. /\ k.step = "stopping" /\ Goes(n, Worker, j)
        /\ UNCHANGED <<lock, table, services, up, accepted, deleted, refreshes>>
    BY <1>5 DEF StopReturns, counters
  <2> HIDE DEF j
  <2>3. LockOK'
    BY <1>0, <2>1, <2>2, LockGoes DEF TypeParts, Locked
  <2> QED
    BY <2>2, <2>3, ServicesGo DEF TypeParts, TableOK, table
<1> QED
  BY <1>1, <1>2, <1>3, <1>4, <1>5 DEF ScanStep

\* What a request or a poll loop does to its service.
ServiceGoes(n, s, new) ==
  /\ services' = [services EXCEPT ![n] = (@ \ {s}) \cup {new}]
  /\ new.id = s.id /\ new.name = s.name
  /\ UNCHANGED <<table, lock, job, up, accepted, deleted>>

\* Refresh requests and poll loops keep services as they were but for their
\* own progress, and count requests.
LEMMA ServiceTypes ==
  ASSUME TypeParts, NEW n \in Node, NEW s \in services[n],
         RequestRefresh(n, s) \/ GetRequest(n, s) \/ PollTimesOut(n, s) \/ PollEnds(n, s)
  PROVE  TypeParts' /\ \E new : ServiceGoes(n, s, new)
<1>1. /\ s \in Service /\ services \in [Node -> SUBSET Service] /\ MaxRefresh \in Nat
      /\ refreshes \in 0 .. MaxRefresh /\ s.blocked + s.queue <= refreshes
      /\ s.blocked \in 0 .. MaxRefresh /\ s.queue \in {0, 1}
  BY SyncBounds DEF TypeParts, ServicesOK, Service
<1>2. ASSUME NEW new \in Service, new.blocked + new.queue <= refreshes',
             new.id = s.id, new.name = s.name,
             refreshes' \in 0 .. MaxRefresh, refreshes <= refreshes', Becomes(n, s, new)
      PROVE  TypeParts' /\ \E x : ServiceGoes(n, s, x)
  <2>1. ServiceGoes(n, s, new)
    BY <1>2 DEF Becomes, ServiceGoes
  <2>2. ServicesOK'
    <3>1. services'[n] = (services[n] \ {s}) \cup {new}
          /\ \A m \in Node : m # n => services'[m] = services[m]
      BY <1>1, <1>2 DEF Becomes
    <3>2. services' \in [Node -> SUBSET Service]
      BY <1>1, <1>2 DEF Becomes
    <3>3. ASSUME NEW m \in Node, NEW u \in services[m]
          PROVE  u.blocked + u.queue <= refreshes'
      <4>1. u \in Service /\ u.blocked + u.queue <= refreshes
        BY <1>1 DEF TypeParts, ServicesOK
      <4>2. u.blocked + u.queue \in Nat
        BY <4>1 DEF Service
      <4> QED
        BY <1>1, <1>2, <4>1, <4>2
    <3> QED
      BY <1>2, <3>1, <3>2, <3>3 DEF ServicesOK
  <2> QED
    BY <1>2, <2>1, <2>2 DEF Becomes, TypeParts, TableOK, LockOK, table
<1>3. CASE RequestRefresh(n, s)
  <2> DEFINE new == [s EXCEPT !.queue = 1, !.blocked = @ + s.queue, !.asked = TRUE, !.fresh = FALSE]
  <2>1. refreshes' = refreshes + 1 /\ refreshes < MaxRefresh /\ Becomes(n, s, new)
    BY <1>3 DEF RequestRefresh
  <2>2. s.blocked + s.queue \in 0 .. MaxRefresh
    BY <1>1, <2>1
  <2>3. /\ new \in Service /\ new.blocked = s.blocked + s.queue /\ new.queue = 1
        /\ new.id = s.id /\ new.name = s.name
    BY <1>1, <2>2 DEF Service
  <2> HIDE DEF new
  <2> QED
    BY <1>1, <1>2, <2>1, <2>2, <2>3
<1>4. CASE GetRequest(n, s)
  <2> DEFINE new == [s EXCEPT !.worker = "refreshing", !.fresh = s.asked,
                              !.queue = IF s.blocked > 0 THEN 1 ELSE 0,
                              !.blocked = IF s.blocked > 0 THEN @ - 1 ELSE 0]
  <2>1. refreshes' = refreshes /\ s.queue = 1 /\ Becomes(n, s, new)
    BY <1>4 DEF GetRequest
  <2> DEFINE q == IF s.blocked > 0 THEN 1 ELSE 0
             b == IF s.blocked > 0 THEN s.blocked - 1 ELSE 0
  <2>2. q \in {0, 1} /\ b \in 0 .. MaxRefresh /\ b + q <= s.blocked + s.queue
    BY <1>1
  <2>3. new = [s EXCEPT !.worker = "refreshing", !.fresh = s.asked, !.queue = q, !.blocked = b]
    BY <1>1 DEF Service
  <2> HIDE DEF q, b, new
  <2>4. /\ new \in Service /\ new.queue = q /\ new.blocked = b
        /\ new.id = s.id /\ new.name = s.name
    BY <1>1, <2>2, <2>3 DEF Service
  <2> QED
    BY <1>1, <1>2, <2>1, <2>2, <2>4
<1>5. CASE PollTimesOut(n, s)
  <2> DEFINE new == [s EXCEPT !.worker = "polling", !.fresh = s.asked]
  <2>1. refreshes' = refreshes /\ Becomes(n, s, new)
    BY <1>5 DEF PollTimesOut
  <2>2. /\ new \in Service /\ new.queue = s.queue /\ new.blocked = s.blocked
        /\ new.id = s.id /\ new.name = s.name
    BY <1>1 DEF Service
  <2> HIDE DEF new
  <2> QED
    BY <1>1, <1>2, <2>1, <2>2
<1>6. CASE PollEnds(n, s)
  <2> DEFINE new == [s EXCEPT !.worker = "waiting", !.asked = @ /\ ~s.fresh, !.fresh = FALSE]
  <2>1. refreshes' = refreshes /\ Becomes(n, s, new)
    BY <1>6 DEF PollEnds
  <2>2. /\ new \in Service /\ new.queue = s.queue /\ new.blocked = s.blocked
        /\ new.id = s.id /\ new.name = s.name
    BY <1>1 DEF Service
  <2> HIDE DEF new
  <2> QED
    BY <1>1, <1>2, <2>1, <2>2
<1> QED
  BY <1>3, <1>4, <1>5, <1>6

\* Crashes and starts of nodes.
LEMMA NodeTypes ==
  ASSUME TypeParts, NEW n \in Node, Crash(n) \/ Start(n)
  PROVE  TypeParts'
<1>1. CASE Crash(n)
  <2>1. /\ up' = up \ {n} /\ services' = [services EXCEPT ![n] = {}]
        /\ job' = [job EXCEPT ![n] = [t \in AnyThread |-> Idle]] /\ Unlock(n)
        /\ UNCHANGED <<table, accepted, deleted, refreshes>>
    BY <1>1 DEF Crash, AnyThread
  <2>2. ServicesOK'
    BY <2>1 DEF TypeParts, ServicesOK
  <2>3. LockOK'
    <3>1. job' \in [Node -> [AnyThread -> Job]]
      BY <2>1, JobEdits DEF TypeParts, LockOK
    <3>2. /\ \A t \in AnyThread : job'[n][t] = Idle
          /\ \A m \in Node : m # n => job'[m] = job[m]
      BY <2>1 DEF TypeParts, LockOK
    <3>3. /\ lock' \in [Node -> AnyThread \cup {Nobody}] /\ lock'[n] = Nobody
          /\ \A m \in Node : m # n => lock'[m] = lock[m]
      BY <2>1 DEF TypeParts, LockOK, Unlock
    <3>4. Nobody \notin AnyThread /\ Idle.step \notin Locked
      BY SyncThreads, JobEdits DEF AnyThread, Locked
    <3>5. ASSUME NEW m \in Node, NEW u \in AnyThread
          PROVE  lock'[m] = u <=> job'[m][u].step \in Locked
      <4>1. CASE m = n
        BY <3>2, <3>3, <3>4, <4>1
      <4>2. CASE m # n
        BY <3>2, <3>3, <4>2 DEF TypeParts, LockOK
      <4> QED
        BY <4>1, <4>2
    <3> QED
      BY <3>1, <3>3, <3>5 DEF LockOK
  <2> QED
    BY <2>1, <2>2, <2>3 DEF TypeParts, TableOK, table
<1>2. CASE Start(n)
  <2> DEFINE X == {q \in db : q.enabled}
  <2>1. /\ up' = up \cup {n} /\ services' = [services EXCEPT ![n] = {NewService(r) : r \in X}]
        /\ UNCHANGED <<table, lock, job, accepted, deleted, refreshes>>
    BY <1>2 DEF Start, counters
  <2>2. X \in SUBSET DatasourceRow
    BY DEF TypeParts, TableOK
  <2> HIDE DEF X
  <2>3. ServicesOK'
    BY <2>1, <2>2, ServicesGo DEF TypeParts
  <2> QED
    BY <2>1, <2>3 DEF TypeParts, TableOK, LockOK, table
<1> QED
  BY <1>1, <1>2

\* The type invariant with its counts and locks.
LEMMA TypeInvariant == Spec => []TypeParts
<1>1. Init => TypeParts
  <2> SUFFICES ASSUME Init PROVE TypeParts
    OBVIOUS
  <2>1. TableOK /\ ServicesOK
    BY SyncBounds DEF Init, TableOK, ServicesOK
  <2>2. LockOK
    BY SyncThreads, JobEdits DEF Init, LockOK, AnyThread, Locked
  <2> QED
    BY <2>1, <2>2 DEF TypeParts
<1>2. TypeParts /\ [Next]_vars => TypeParts'
  <2> SUFFICES ASSUME TypeParts, [Next]_vars PROVE TypeParts'
    OBVIOUS
  <2>1. CASE UNCHANGED vars
    BY <2>1 DEF vars, table, counters, TypeParts, TableOK, LockOK, ServicesOK
  <2>2. ASSUME NEW n \in Node, NEW t \in Thread,
               \/ \E name \in Name, enabled \in BOOLEAN : AddDatasource(n, t, name, enabled)
               \/ \E row \in db : DeleteDatasource(n, t, row)
               \/ CallStep(n, t)
               \/ EngineSyncFails(n, t)
        PROVE  TypeParts'
    BY <2>2, CallTypes
  <2>3. ASSUME NEW n \in Node, ScanRead(n) \/ ScanStep(n) PROVE TypeParts'
    BY <2>3, PassTypes
  <2>4. ASSUME NEW n \in Node, NEW s \in services[n],
               RequestRefresh(n, s) \/ GetRequest(n, s) \/ PollTimesOut(n, s) \/ PollEnds(n, s)
        PROVE  TypeParts'
    BY <2>4, ServiceTypes
  <2>5. ASSUME NEW n \in Node, Crash(n) \/ Start(n) PROVE TypeParts'
    BY <2>5, NodeTypes
  <2> QED
    BY <2>1, <2>2, <2>3, <2>4, <2>5 DEF Next
<1> QED
  BY <1>1, <1>2, PTL DEF Spec

\* Every state is well typed, and a node's lock congress_synchronize_datasources
\* is held by exactly the call or pass that is between its reading of the
\* database and its last change of the services.
THEOREM TypeCorrect == Spec => []TypeOK
<1>1. TypeParts => TypeOK
  BY TypePartsAre
<1> QED
  BY <1>1, TypeInvariant, PTL

----------------------------------------------------------------------------
(***************************************************************************)
(* Deletions and additions, where no name is used twice.                   *)
(***************************************************************************)
\* The rows anybody knows of, in the database or read from it, and those that
\* a node may still make services of.
AllRows ==
  {x \in DatasourceRow : \/ x \in db
                         \/ \E n \in Node, t \in AnyThread : x \in job[n][t].row \cup job[n][t].seen}
Known(n) == db \cup UNION {job[n][t].seen : t \in AnyThread}

\* Ids and names are given once, and a service has those of its row.
RowsOnce ==
  /\ \A x \in AllRows : x.id < nextId /\ x.name \in used
  /\ \A x, y \in AllRows : x.id = y.id \/ x.name = y.name => x = y
  /\ \A n \in Node : \A s \in services[n] :
       /\ s.id < nextId /\ s.name \in used
       /\ \A x \in AllRows : x.id = s.id <=> x.name = s.name
       /\ \A u \in services[n] : s.id = u.id => s = u
  /\ \A n \in Node : \A i \in accepted[n] \cup deleted[n] : i < nextId

\* What the task of a thread can look like.
CallShape(k) ==
  \/ k = Idle
  \/ /\ k.op \in {"add", "delete"} /\ k.step \in {"sync", "apply", "stopping", "engine", "undo"}
     /\ \E r \in DatasourceRow : k.row = {r}
     /\ k.seen \subseteq k.row
     /\ k.step # "apply" => k.seen = {}
     /\ k.step = "undo" => k.op = "add"

PassShape(k) ==
  \/ k = Idle
  \/ k.op = "all" /\ k.step \in {"scan", "stopping"} /\ k.row = {}

Shapes ==
  /\ \A n \in Node, t \in Thread : CallShape(job[n][t])
  /\ \A n \in Node : PassShape(job[n][Worker])
  /\ \A n \in Node \ up : services[n] = {} /\ \A t \in AnyThread : job[n][t] = Idle

\* A datasource that its node does not run and will not run again.
Gone(n, i) == i \notin Ids(Known(n)) \cup Running(n)

DeleteRight(n, t) ==
  job[n][t].op = "delete" =>
    /\ job[n][t].row \cap db = {}
    /\ job[n][t].step = "apply" => job[n][t].seen = {}
    /\ job[n][t].step \in {"stopping", "engine"} => \A r \in job[n][t].row : Gone(n, r.id)

DeletionsDone ==
  /\ \A n \in Node : \A i \in deleted[n] : Gone(n, i)
  /\ \A n \in Node, t \in Thread : DeleteRight(n, t)

Makeable == Enabled \ Unmakeable

AddRight(n, t) ==
  /\ job[n][t].step = "apply" => job[n][t].row \cap db \subseteq job[n][t].seen
  /\ job[n][t].op = "add" /\ job[n][t].step \in {"stopping", "engine"} =>
       Ids(job[n][t].row \cap Makeable) \subseteq Running(n)

PassRight(n) ==
  job[n][Worker].step \in {"scan", "stopping"} =>
    Ids(db \ job[n][Worker].seen) \cap Running(n) = {}

AdditionsDone ==
  /\ AcceptedRuns
  /\ \A n \in Node, t \in Thread : AddRight(n, t)
  /\ \A n \in Node : PassRight(n)

SyncInv == RowsOnce /\ Shapes /\ DeletionsDone /\ AdditionsDone

\* The services of a node are those it had, or made of rows in X.
ServicesFrom(n, X) ==
  /\ \A s \in services'[n] :
       \/ \E u \in services[n] : s.id = u.id /\ s.name = u.name
       \/ \E x \in X : s.id = x.id /\ s.name = x.name
  /\ \A s, u \in services'[n] : s.id = u.id => s = u

\* What a step of one thread that writes no new row has to respect.
LEMMA StepKeeps ==
  ASSUME TypeParts, SyncInv, NEW n \in Node, n \in up, NEW t \in AnyThread,
         UNCHANGED <<nextId, used, up>>, db' \subseteq db, OtherJobs(n, t),
         \A m \in Node : m # n => /\ services'[m] = services[m]
                                  /\ accepted'[m] = accepted[m] /\ deleted'[m] = deleted[m],
         job'[n][t].row \subseteq job[n][t].row \cup db,
         job'[n][t].seen \subseteq job[n][t].seen \cup db,
         t \in Thread => CallShape(job'[n][t]),
         t = Worker => PassShape(job'[n][t]),
         ServicesFrom(n, job[n][t].seen),
         \A i \in deleted'[n] : i \in deleted[n] \/ (i \in Ids(job[n][t].row) /\ Gone(n, i)),
         \A i \in accepted'[n] : i \in accepted[n] \/ i \in Ids(job[n][t].row),
         (accepted'[n] \cup Running(n)) \cap Ids(Makeable') \subseteq accepted[n] \cup Running(n)',
         Running(n) \cap Ids(Makeable') \subseteq Running(n)',
         t \in Thread => DeleteRight(n, t)' /\ AddRight(n, t)',
         PassRight(n)'
  PROVE  SyncInv'
<1> DEFINE k == job[n][t]
           j == job'[n][t]
<1>1. k.row \subseteq AllRows /\ k.seen \subseteq AllRows /\ db \subseteq AllRows
  BY DEF AllRows, TypeParts, TableOK, LockOK, Job
<1>2. AllRows' \subseteq AllRows
  <2>1. ASSUME NEW m \in Node, NEW u \in AnyThread,
               NEW x \in DatasourceRow, x \in job'[m][u].row \cup job'[m][u].seen
        PROVE  x \in AllRows
    <3>1. CASE m = n /\ u = t
      BY <1>1, <2>1, <3>1
    <3>2. CASE m # n \/ u # t
      BY <2>1, <3>2 DEF OtherJobs, AllRows
    <3> QED
      BY <3>1, <3>2
  <2> QED
    BY <1>1, <2>1 DEF AllRows
<1>3. RowsOnce'
  <2>1. \A x \in AllRows' : x.id < nextId' /\ x.name \in used'
    BY <1>2 DEF SyncInv, RowsOnce
  <2>2. \A x, y \in AllRows' : x.id = y.id \/ x.name = y.name => x = y
    BY <1>2 DEF SyncInv, RowsOnce
  <2>3. ASSUME NEW m \in Node, NEW s \in services'[m]
        PROVE  /\ s.id < nextId' /\ s.name \in used'
               /\ \A x \in AllRows' : x.id = s.id <=> x.name = s.name
               /\ \A u \in services'[m] : s.id = u.id => s = u
    <3>1. CASE m # n
      BY <1>2, <3>1 DEF SyncInv, RowsOnce
    <3>2. CASE m = n
      <4>1. \A u \in services'[m] : s.id = u.id => s = u
        BY <3>2 DEF ServicesFrom
      <4>2. CASE \E u \in services[n] : s.id = u.id /\ s.name = u.name
        BY <1>2, <4>1, <4>2 DEF SyncInv, RowsOnce
      <4>3. CASE \E x \in k.seen : s.id = x.id /\ s.name = x.name
        BY <1>1, <1>2, <4>1, <4>3 DEF SyncInv, RowsOnce
      <4> QED
        BY <3>2, <4>2, <4>3 DEF ServicesFrom
    <3> QED
      BY <3>1, <3>2
  <2>4. ASSUME NEW m \in Node, NEW i \in accepted'[m] \cup deleted'[m]
        PROVE  i < nextId'
    <3>1. \A x \in k.row : x.id < nextId
      BY <1>1 DEF SyncInv, RowsOnce
    <3>2. i \in accepted[m] \cup deleted[m] \/ \E x \in k.row : i = x.id
      BY <2>4 DEF Ids
    <3> QED
      BY <3>1, <3>2 DEF SyncInv, RowsOnce
  <2> QED
    BY <2>1, <2>2, <2>3, <2>4 DEF RowsOnce
<1>4. Shapes'
  <2>1. \A m \in Node, u \in Thread : u \in AnyThread
    BY DEF AnyThread
  <2>2. \A m \in Node, u \in Thread : CallShape(job'[m][u])
    BY <2>1 DEF SyncInv, Shapes, OtherJobs
  <2>3. \A m \in Node : PassShape(job'[m][Worker])
    BY DEF SyncInv, Shapes, OtherJobs, AnyThread
  <2>4. \A m \in Node \ up : services'[m] = {} /\ \A u \in AnyThread : job'[m][u] = Idle
    BY DEF SyncInv, Shapes, OtherJobs
  <2> QED
    BY <2>2, <2>3, <2>4 DEF Shapes, CallShape, PassShape
<1>5. \A m \in Node : \A i : Gone(m, i) => Gone(m, i)'
  <2> SUFFICES ASSUME NEW m \in Node PROVE (Ids(Known(m)) \cup Running(m))' \subseteq Ids(Known(m)) \cup Running(m)
    BY DEF Gone
  <2>1. Known(m)' \subseteq Known(m)
    <3>1. ASSUME NEW u \in AnyThread PROVE job'[m][u].seen \subseteq Known(m)
      <4>1. CASE m = n /\ u = t
        BY <4>1 DEF Known
      <4>2. CASE m # n \/ u # t
        BY <4>2 DEF OtherJobs, Known
      <4> QED
        BY <4>1, <4>2
    <3>2. db \subseteq Known(m)
      BY DEF Known
    <3> QED
      BY <3>1, <3>2 DEF Known
  <2>2. Running(m)' \subseteq Ids(Known(m)) \cup Running(m)
    <3>1. CASE m # n
      BY <3>1 DEF Running
    <3>2. CASE m = n
      <4>1. k.seen \subseteq Known(n)
        BY DEF Known
      <4> QED
        BY <3>2, <4>1 DEF Running, ServicesFrom, Ids
    <3> QED
      BY <3>1, <3>2
  <2> QED
    BY <2>1, <2>2 DEF Ids
<1>6. DeletionsDone'
  <2>1. \A m \in Node : \A i \in deleted'[m] : Gone(m, i)'
    BY <1>5 DEF SyncInv, DeletionsDone
  <2>2. ASSUME NEW m \in Node, NEW u \in Thread PROVE DeleteRight(m, u)'
    <3>1. u \in AnyThread
      BY DEF AnyThread
    <3>2. CASE m = n /\ u = t
      BY <3>2
    <3>3. CASE m # n \/ u # t
      <4>1. job'[m][u] = job[m][u]
        BY <3>1, <3>3 DEF OtherJobs
      <4>2. DeleteRight(m, u)
        BY DEF SyncInv, DeletionsDone
      <4> QED
        BY <1>5, <4>1, <4>2 DEF DeleteRight
    <3> QED
      BY <3>2, <3>3
  <2> QED
    BY <2>1, <2>2 DEF DeletionsDone
<1>7. AdditionsDone'
  <2>1. Makeable' \subseteq Makeable /\ Ids(Makeable') \subseteq Ids(Makeable)
    BY DEF Makeable, Enabled, Unmakeable, Ids
  <2>2. AcceptedRuns'
    <3>1. \A m \in up : m # n => accepted[m] \cap Ids(Makeable) \subseteq Running(m)
      BY DEF SyncInv, AdditionsDone, AcceptedRuns, Makeable
    <3>2. \A m \in up : m # n => m \in Node /\ Running(m)' = Running(m)
      BY DEF TypeParts, TableOK, Running
    <3>3. accepted[n] \cap Ids(Makeable) \subseteq Running(n)
      BY DEF SyncInv, AdditionsDone, AcceptedRuns, Makeable
    <3>4. accepted'[n] \cap Ids(Makeable') \subseteq Running(n)'
      BY <2>1, <3>3
    <3>5. \A m \in up : m # n => accepted'[m] \cap Ids(Makeable') \subseteq Running(m)'
      BY <2>1, <3>1, <3>2
    <3> QED
      BY <3>4, <3>5 DEF AcceptedRuns, Makeable, Enabled, Unmakeable, Ids
  <2>3. ASSUME NEW m \in Node, NEW u \in Thread PROVE AddRight(m, u)'
    <3>1. u \in AnyThread
      BY DEF AnyThread
    <3>2. CASE m = n /\ u = t
      BY <3>2
    <3>3. CASE m # n \/ u # t
      <4>1. job'[m][u] = job[m][u] /\ AddRight(m, u)
        BY <3>1, <3>3 DEF OtherJobs, SyncInv, AdditionsDone
      <4>2. Running(m) \cap Ids(Makeable') \subseteq Running(m)'
        BY DEF Running
      <4>3. Ids(job[m][u].row \cap Makeable') \subseteq Ids(job[m][u].row \cap Makeable) \cap Ids(Makeable')
        BY <2>1 DEF Ids
      <4> QED
        BY <4>1, <4>2, <4>3 DEF AddRight
    <3> QED
      BY <3>2, <3>3
  <2>4. ASSUME NEW m \in Node PROVE PassRight(m)'
    <3>1. CASE m = n
      BY <3>1
    <3>2. CASE m # n
      <4>1. job'[m][Worker] = job[m][Worker] /\ services'[m] = services[m] /\ PassRight(m)
        BY <3>2 DEF OtherJobs, SyncInv, AdditionsDone, AnyThread
      <4> QED
        BY <4>1 DEF PassRight, Ids, Running
    <3> QED
      BY <3>1, <3>2
  <2> QED
    BY <2>2, <2>3, <2>4 DEF AdditionsDone
<1> QED
  BY <1>3, <1>4, <1>6, <1>7 DEF SyncInv

\* Whoever has the lock of a node is the only one there that knows rows.
LEMMA LockAlone ==
  ASSUME TypeParts, SyncInv, NEW n \in Node, NEW t \in AnyThread, job[n][t].step \in Locked
  PROVE  \A u \in AnyThread : u # t => job[n][u].step \notin Locked /\ job[n][u].seen = {}
<1>1. \A u \in AnyThread : u # t => job[n][u].step \notin Locked
  BY DEF TypeParts, LockOK
<1>2. \A u \in Thread : job[n][u].step \notin Locked => job[n][u].seen = {}
  BY DEF SyncInv, Shapes, CallShape, Idle, Locked
<1>3. job[n][Worker].step \notin Locked => job[n][Worker].seen = {}
  BY DEF SyncInv, Shapes, PassShape, Idle, Locked
<1> QED
  BY <1>1, <1>2, <1>3 DEF AnyThread

\* Rows that share an id or a name are the same row.
LEMMA SameRow ==
  ASSUME TypeParts, SyncInv, NEW n \in Node, NEW t \in AnyThread
  PROVE  \A x, y \in db \cup job[n][t].row \cup job[n][t].seen :
           x.id = y.id \/ x.name = y.name => x = y
<1>1. db \cup job[n][t].row \cup job[n][t].seen \subseteq AllRows
  BY DEF AllRows, TypeParts, TableOK, LockOK, Job
<1> QED
  BY <1>1 DEF SyncInv, RowsOnce

\* A service shares its id with the rows with which it shares its name.
LEMMA SameService ==
  ASSUME TypeParts, SyncInv, NEW n \in Node, NEW t \in AnyThread
  PROVE  /\ \A x \in db \cup job[n][t].row \cup job[n][t].seen, s \in services[n] :
              x.id = s.id <=> x.name = s.name
         /\ \A s, u \in services[n] : s.id = u.id => s = u
<1>1. db \cup job[n][t].row \cup job[n][t].seen \subseteq AllRows
  BY DEF AllRows, TypeParts, TableOK, LockOK, Job
<1> QED
  BY <1>1 DEF SyncInv, RowsOnce

\* A step of a call that leaves the services alone.
LEMMA QuietCall ==
  ASSUME TypeParts, SyncInv, NEW n \in Node, n \in up, NEW t \in Thread,
         UNCHANGED <<nextId, used, up, services>>, db' \subseteq db, OtherJobs(n, t),
         \A m \in Node : m # n => accepted'[m] = accepted[m] /\ deleted'[m] = deleted[m],
         job'[n][t].row \subseteq job[n][t].row \cup db,
         job'[n][t].seen \subseteq job[n][t].seen \cup db,
         CallShape(job'[n][t]),
         \A i \in deleted'[n] : i \in deleted[n] \/ (i \in Ids(job[n][t].row) /\ Gone(n, i)),
         \A i \in accepted'[n] : i \in accepted[n] \/ i \in Ids(job[n][t].row),
         accepted'[n] \cap Ids(Makeable') \subseteq accepted[n] \cup Running(n),
         DeleteRight(n, t)', AddRight(n, t)'
  PROVE  SyncInv'
<1>1. t \in AnyThread /\ t # Worker /\ Worker \in AnyThread
  BY SyncThreads DEF AnyThread
<1>2. Running(n)' = Running(n)
  BY DEF Running
<1>3. ServicesFrom(n, job[n][t].seen)
  BY DEF ServicesFrom, SyncInv, RowsOnce
<1>4. PassRight(n)'
  <2>1. job'[n][Worker] = job[n][Worker] /\ PassRight(n)
    BY <1>1 DEF OtherJobs, SyncInv, AdditionsDone
  <2> QED
    BY <1>2, <2>1 DEF PassRight, Ids
<1> QED
  BY <1>1, <1>2, <1>3, <1>4, StepKeeps

\* A thread with a task is on a node that runs.
LEMMA BusyUp ==
  ASSUME SyncInv, NEW n \in Node, NEW t \in AnyThread, job[n][t].step # "idle"
  PROVE  n \in up
BY DEF SyncInv, Shapes, Idle

\* The steps of a call before and after its change of the services.
LEMMA CallKeeps ==
  ASSUME TypeParts, SyncInv, NEW n \in Node, NEW t \in Thread,
         \/ \E row \in db : DeleteDatasource(n, t, row)
         \/ SyncRead(n, t) \/ StopReturns(n, t) \/ EngineSynced(n, t) \/ UndoAdd(n, t)
         \/ EngineSyncFails(n, t)
  PROVE  SyncInv'
<1> DEFINE k == job[n][t]
           j == job'[n][t]
<1>0. /\ t \in AnyThread /\ t # Worker /\ k \in Job /\ CallShape(k)
      /\ job \in [Node -> [AnyThread -> Job]] /\ db \subseteq DatasourceRow
  <2>1. t \in AnyThread /\ t # Worker /\ CallShape(k)
    BY SyncThreads DEF AnyThread, SyncInv, Shapes
  <2> QED
    BY <2>1 DEF TypeParts, LockOK, TableOK
<1>1. DeleteRight(n, t) /\ AddRight(n, t)
  BY DEF SyncInv, DeletionsDone, AdditionsDone
<1>2. ASSUME Goes(n, t, Idle)
      PROVE  /\ OtherJobs(n, t) /\ j.row = {} /\ j.seen = {} /\ CallShape(j)
             /\ DeleteRight(n, t)' /\ AddRight(n, t)'
  <2>0. Idle \in Job
    BY JobEdits
  <2>1. j = Idle /\ OtherJobs(n, t)
    BY <1>0, <1>2, <2>0, JobGoes
  <2> QED
    BY <2>1 DEF CallShape, DeleteRight, AddRight, Idle
<1>3. ASSUME NEW row \in db, DeleteDatasource(n, t, row)
      PROVE  SyncInv'
  <2> DEFINE new == [Idle EXCEPT !.op = "delete", !.step = "sync", !.row = {row}]
  <2>1. /\ n \in up /\ Goes(n, t, new) /\ db' = db \ {row}
        /\ UNCHANGED <<nextId, used, services, up, accepted, deleted>>
    BY <1>3 DEF DeleteDatasource
  <2>2. /\ new \in Job /\ new.op = "delete" /\ new.step = "sync" /\ new.row = {row} /\ new.seen = {}
    BY <1>0, JobEdits DEF Idle
  <2> HIDE DEF new
  <2>3. j = new /\ OtherJobs(n, t)
    BY <1>0, <2>1, <2>2, JobGoes
  <2>4. CallShape(j) /\ DeleteRight(n, t)' /\ AddRight(n, t)'
    BY <1>0, <2>1, <2>2, <2>3 DEF CallShape, DeleteRight, AddRight
  <2> QED
    BY <2>1, <2>2, <2>3, <2>4, QuietCall
<1>4. CASE SyncRead(n, t)
  <2>1. PICK row \in k.row :
          Goes(n, t, [k EXCEPT !.step = "apply", !.seen = {r \in db : r.name = row.name}])
    BY <1>4 DEF SyncRead
  <2> DEFINE seen == {r \in db : r.name = row.name}
             new == [k EXCEPT !.step = "apply", !.seen = seen]
  <2>2. /\ k.step = "sync"
        /\ UNCHANGED <<db, nextId, used, services, up, accepted, deleted>>
    BY <1>4 DEF SyncRead, table
  <2>3. k.row = {row} /\ k.op \in {"add", "delete"}
    BY <1>0, <2>1, <2>2 DEF CallShape, Idle
  <2>4. seen \subseteq k.row /\ seen \subseteq db /\ seen \in SUBSET DatasourceRow
    BY <1>0, <2>3, SameRow
  <2>5. k.row \cap db \subseteq seen
    BY <2>3
  <2>6. row \in DatasourceRow
    BY <1>0, <2>1 DEF Job
  <2> HIDE DEF k, seen
  <2>7. new \in Job /\ new.step = "apply" /\ new.op = k.op /\ new.row = k.row /\ new.seen = seen
    <3>1. new \in Job
      BY <1>0, <2>4, JobEdits
    <3> QED
      BY <1>0, <3>1 DEF Job
  <2>8. j = new /\ OtherJobs(n, t)
    <3> HIDE DEF new
    <3> QED
      BY <1>0, <2>1, <2>7, JobGoes DEF new, seen
  <2> HIDE DEF new
  <2>9. CallShape(j)
    BY <2>3, <2>4, <2>6, <2>7, <2>8 DEF CallShape
  <2>10. DeleteRight(n, t)' /\ AddRight(n, t)'
    <3>1. k.op = "delete" => k.row \cap db = {}
      BY <1>1 DEF DeleteRight, k
    <3> QED
      BY <2>2, <2>4, <2>5, <2>7, <2>8, <3>1 DEF DeleteRight, AddRight, j
  <2> QED
    BY <1>0, <2>2, <2>4, <2>7, <2>8, <2>9, <2>10, QuietCall, BusyUp DEF k
<1>5. CASE StopReturns(n, t)
  <2> DEFINE new == [k EXCEPT !.step = "engine", !.seen = {}, !.stopping = {}]
  <2>1. /\ k.step = "stopping" /\ Goes(n, t, new)
        /\ UNCHANGED <<db, nextId, used, services, up, accepted, deleted>>
    BY <1>0, <1>5 DEF StopReturns, table
  <2>2. new \in Job /\ new.step = "engine" /\ new.op = k.op /\ new.row = k.row /\ new.seen = {}
    <3>1. new \in Job
      BY <1>0, JobEdits
    <3> QED
      BY <1>0, <3>1 DEF Job
  <2> HIDE DEF new
  <2>3. j = new /\ OtherJobs(n, t)
    BY <1>0, <2>1, <2>2, JobGoes
  <2>4. CallShape(j) /\ k.seen = {}
    BY <1>0, <2>1, <2>2, <2>3 DEF CallShape, Idle
  <2>5. AddRight(n, t)'
    BY <1>1, <2>1, <2>2, <2>3 DEF AddRight, Makeable, Enabled, Unmakeable, Running, Ids
  <2>6. \A m \in Node, u \in AnyThread : job'[m][u].seen = job[m][u].seen
    BY <2>2, <2>3, <2>4 DEF OtherJobs
  <2>7. \A i : Gone(n, i) => Gone(n, i)'
    BY <2>1, <2>6 DEF Gone, Known, Running, Ids
  <2>8. DeleteRight(n, t)'
    BY <1>1, <2>1, <2>2, <2>3, <2>7 DEF DeleteRight
  <2> QED
    BY <1>0, <2>1, <2>2, <2>3, <2>4, <2>5, <2>8, QuietCall, BusyUp
<1>6. CASE EngineSynced(n, t)
  <2>1. /\ k.step = "engine" /\ Goes(n, t, Idle)
        /\ UNCHANGED <<db, nextId, used, services, up>>
        /\ accepted' = [accepted EXCEPT ![n] = IF k.op = "add" THEN @ \cup Ids(k.row) ELSE @]
        /\ deleted' = [deleted EXCEPT ![n] = IF k.op = "delete" THEN @ \cup Ids(k.row) ELSE @]
    BY <1>6 DEF EngineSynced, Ends, table, Ids
  <2>2. /\ accepted'[n] = IF k.op = "add" THEN accepted[n] \cup Ids(k.row) ELSE accepted[n]
        /\ deleted'[n] = IF k.op = "delete" THEN deleted[n] \cup Ids(k.row) ELSE deleted[n]
        /\ \A m \in Node : m # n => accepted'[m] = accepted[m] /\ deleted'[m] = deleted[m]
    BY <2>1 DEF TypeParts, TableOK
  <2>3. k.op = "delete" => \A i \in Ids(k.row) : Gone(n, i)
    BY <1>1, <2>1 DEF DeleteRight, Ids
  <2>4. k.op = "add" => Ids(k.row) \cap Ids(Makeable') \subseteq Running(n)
    <3>1. k.op = "add" => Ids(k.row \cap Makeable) \subseteq Running(n)
      BY <1>1, <2>1 DEF AddRight
    <3>2. \A x \in k.row, y \in Makeable : x.id = y.id => x = y
      BY <1>0, SameRow DEF Makeable, Enabled
    <3>3. Makeable' = Makeable
      BY <2>1 DEF Makeable, Enabled, Unmakeable
    <3>4. Ids(k.row) \cap Ids(Makeable) \subseteq Ids(k.row \cap Makeable)
      BY <3>2 DEF Ids
    <3> QED
      BY <3>1, <3>3, <3>4
  <2>5. \A i \in deleted'[n] : i \in deleted[n] \/ (i \in Ids(k.row) /\ Gone(n, i))
    BY <2>2, <2>3
  <2>6. /\ \A i \in accepted'[n] : i \in accepted[n] \/ i \in Ids(k.row)
        /\ accepted'[n] \cap Ids(Makeable') \subseteq accepted[n] \cup Running(n)
    BY <2>2, <2>4
  <2>7. n \in up
    BY <1>0, <2>1, BusyUp
  <2>8. /\ OtherJobs(n, t) /\ j.row = {} /\ j.seen = {} /\ CallShape(j)
        /\ DeleteRight(n, t)' /\ AddRight(n, t)'
    BY <1>2, <2>1
  <2> QED
    BY <2>1, <2>2, <2>5, <2>6, <2>7, <2>8, QuietCall
<1>7. CASE UndoAdd(n, t)
  <2>1. /\ k.step = "undo" /\ Goes(n, t, Idle) /\ db' = db \ k.row
        /\ UNCHANGED <<nextId, used, services, up, accepted, deleted>>
    BY <1>7 DEF UndoAdd, Ends
  <2> QED
    BY <1>0, <1>2, <2>1, QuietCall, BusyUp
<1>8. CASE EngineSyncFails(n, t)
  <2>1. /\ k.step = "engine"
        /\ UNCHANGED <<db, nextId, used, services, up, accepted, deleted>>
    BY <1>8 DEF EngineSyncFails, table
  <2>2. CASE Goes(n, t, Idle)
    BY <1>0, <1>2, <2>1, <2>2, QuietCall, BusyUp
  <2>3. CASE k.op = "add" /\ Goes(n, t, [k EXCEPT !.step = "undo"])
    <3> DEFINE new == [k EXCEPT !.step = "undo"]
    <3>1. new \in Job /\ new.step = "undo" /\ new.op = k.op /\ new.row = k.row /\ new.seen = k.seen
      BY <1>0, JobEdits, ZenonT(60) DEF Job
    <3> HIDE DEF new
    <3>2. j = new /\ OtherJobs(n, t)
      BY <1>0, <2>3, <3>1, JobGoes DEF new
    <3>3. CallShape(j) /\ DeleteRight(n, t)' /\ AddRight(n, t)'
      BY <1>0, <2>1, <2>3, <3>1, <3>2 DEF CallShape, Idle, DeleteRight, AddRight
    <3> QED
      BY <1>0, <2>1, <3>1, <3>2, <3>3, QuietCall, BusyUp
  <2> QED
    BY <1>8, <2>2, <2>3 DEF EngineSyncFails, Ends
<1> QED
  BY <1>3, <1>4, <1>5, <1>6, <1>7, <1>8

\* The step of a call that compares the row it read with the service of that
\* name.
LEMMA ApplyKeeps ==
  ASSUME TypeParts, SyncInv, NEW n \in Node, NEW t \in Thread, SyncApply(n, t)
  PROVE  SyncInv'
<1> DEFINE k == job[n][t]
           j == job'[n][t]
           here == {s \in services[n] : \E r \in k.row : r.name = s.name}
<1>0. /\ t \in AnyThread /\ t # Worker /\ Worker \in AnyThread /\ k \in Job /\ CallShape(k)
      /\ job \in [Node -> [AnyThread -> Job]] /\ db \subseteq DatasourceRow
      /\ services \in [Node -> SUBSET Service]
  <2>1. t \in AnyThread /\ t # Worker /\ Worker \in AnyThread /\ CallShape(k)
    BY SyncThreads DEF AnyThread, SyncInv, Shapes
  <2> QED
    BY <2>1 DEF TypeParts, LockOK, TableOK, ServicesOK
<1>1. DeleteRight(n, t) /\ AddRight(n, t)
  BY DEF SyncInv, DeletionsDone, AdditionsDone
<1>2. /\ k.step = "apply" /\ UNCHANGED <<db, nextId, used, up, deleted>>
      /\ \/ \E r \in k.seen :
              /\ here = {}
              /\ \/ r.enabled /\ r.name \notin Broken /\ RegisterService(n, t, r)
                 \/ r.enabled /\ r.name \in Broken /\ CreateFails(n, t)
                 \/ ~r.enabled /\ RegisterNone(n, t)
         \/ \E s \in here : k.seen = {} /\ UnregisterService(n, t, s, k)
         \/ /\ (k.seen = {}) = (here = {})
            /\ Goes(n, t, [k EXCEPT !.step = "engine", !.seen = {}])
            /\ Unlock(n)
            /\ UNCHANGED <<services, accepted>>
  BY DEF SyncApply, table
<1>3. PICK row \in DatasourceRow : k.row = {row} /\ k.seen \subseteq {row}
  BY <1>0, <1>2 DEF CallShape, Idle
<1>4. n \in up
  BY <1>0, <1>2, BusyUp
<1>5. k.op = "delete" => k.seen = {}
  BY <1>1, <1>2 DEF DeleteRight
<1>6. row \in db => k.seen = {row}
  BY <1>1, <1>2, <1>3 DEF AddRight
<1>7. /\ \A x \in db : x.id = row.id => x = row
      /\ \A s \in services[n] : row.id = s.id <=> row.name = s.name
      /\ \A s, u \in services[n] : s.id = u.id => s = u
      /\ \A x \in db, s \in services[n] : x.id = s.id <=> x.name = s.name
      /\ \A x \in db : x.name = row.name => x = row
  <2>1. row \in k.row
    BY <1>3
  <2> QED
    BY <1>0, <2>1, SameRow, SameService
<1>8. \A u \in AnyThread : u # t => job[n][u].step \notin Locked /\ job[n][u].seen = {}
  BY <1>0, <1>2, LockAlone DEF Locked
<1>9. ASSUME OtherJobs(n, t) PROVE PassRight(n)'
  BY <1>0, <1>8, <1>9 DEF PassRight, OtherJobs, Locked
<1>10. k.op \in {"add", "delete"}
  BY <1>0, <1>2 DEF CallShape, Idle
<1>11. Idle \in Job
  BY JobEdits
<1> HIDE DEF k, here
<1>12. ASSUME NEW r \in k.seen, r.enabled, r.name \notin Broken, here = {}, RegisterService(n, t, r)
       PROVE  SyncInv'
  <2> DEFINE new == [k EXCEPT !.step = "engine", !.seen = {}]
  <2>1. /\ services' = [services EXCEPT ![n] = @ \cup {NewService(r)}]
        /\ Goes(n, t, new) /\ UNCHANGED accepted
    BY <1>12 DEF RegisterService, k
  <2>2. new \in Job /\ new.step = "engine" /\ new.op = k.op /\ new.row = k.row /\ new.seen = {}
    <3>1. new \in Job
      BY <1>0, JobEdits
    <3> QED
      BY <1>0, <3>1 DEF Job
  <2> HIDE DEF new
  <2>3. j = new /\ OtherJobs(n, t)
    BY <1>0, <2>1, <2>2, JobGoes
  <2>4. r = row /\ k.op = "add" /\ k.row = {row}
    BY <1>3, <1>5, <1>10, <1>12
  <2>5. CallShape(j)
    BY <2>2, <2>3, <2>4 DEF CallShape
  <2> DEFINE s0 == NewService(r)
  <2>6. s0.id = r.id /\ s0.name = r.name
    BY <2>4, NewServices
  <2> HIDE DEF s0
  <2>7. services'[n] = services[n] \cup {s0} /\ \A m \in Node : m # n => services'[m] = services[m]
    BY <1>0, <2>1 DEF s0
  <2>8. \A s \in services[n] : s.id # s0.id
    BY <1>7, <1>12, <2>4, <2>6 DEF here
  <2>9. ServicesFrom(n, k.seen)
    BY <1>7, <1>12, <2>6, <2>7, <2>8 DEF ServicesFrom
  <2>10. Running(n)' = Running(n) \cup {row.id}
    BY <2>4, <2>6, <2>7 DEF Running
  <2>11. DeleteRight(n, t)' /\ AddRight(n, t)'
    BY <2>2, <2>3, <2>4, <2>10 DEF DeleteRight, AddRight, Ids
  <2>12. PassRight(n)'
    BY <1>9, <2>3
  <2> QED
    BY <1>0, <1>2, <1>4, <2>1, <2>2, <2>3, <2>5, <2>7, <2>9, <2>10, <2>11, <2>12, StepKeeps DEF k
<1>13. ASSUME Goes(n, t, Idle)
       PROVE  /\ OtherJobs(n, t) /\ j.row = {} /\ j.seen = {} /\ CallShape(j)
              /\ DeleteRight(n, t)' /\ AddRight(n, t)'
  <2>1. j = Idle /\ OtherJobs(n, t)
    BY <1>0, <1>11, <1>13, JobGoes
  <2> QED
    BY <2>1 DEF CallShape, DeleteRight, AddRight, Idle
<1>14. ASSUME NEW r \in k.seen, r.name \in Broken, CreateFails(n, t)
       PROVE  SyncInv'
  <2>1. r = row /\ k.op = "add"
    BY <1>3, <1>5, <1>10, <1>14
  <2>2. /\ accepted' = [accepted EXCEPT ![n] = @ \cup Ids(k.row)]
        /\ Goes(n, t, Idle) /\ UNCHANGED services
    BY <1>14, <2>1 DEF CreateFails, Ends, Ids, k
  <2>3. /\ accepted'[n] = accepted[n] \cup Ids(k.row)
        /\ \A m \in Node : m # n => accepted'[m] = accepted[m]
    BY <2>2 DEF TypeParts, TableOK
  <2>4. Ids(k.row) \cap Ids(Makeable') = {}
    BY <1>2, <1>3, <1>7, <1>14, <2>1 DEF Ids, Makeable, Enabled, Unmakeable
  <2>5. /\ OtherJobs(n, t) /\ j.row = {} /\ j.seen = {} /\ CallShape(j)
        /\ DeleteRight(n, t)' /\ AddRight(n, t)'
    BY <1>13, <2>2
  <2>6. /\ \A i \in accepted'[n] : i \in accepted[n] \/ i \in Ids(k.row)
        /\ accepted'[n] \cap Ids(Makeable') \subseteq accepted[n] \cup Running(n)
    BY <2>3, <2>4
  <2> QED
    BY <1>2, <1>4, <2>2, <2>3, <2>5, <2>6, QuietCall DEF k
<1>15. ASSUME NEW r \in k.seen, RegisterNone(n, t)
       PROVE  SyncInv'
  <2>1. r = row /\ k.op = "add"
    BY <1>3, <1>5, <1>10, <1>15
  <2> DEFINE new == [k EXCEPT !.step = "undo", !.seen = {}]
  <2>2. Goes(n, t, new) /\ UNCHANGED <<services, accepted>>
    BY <1>15, <2>1 DEF RegisterNone, k
  <2>3. new \in Job /\ new.step = "undo" /\ new.op = k.op /\ new.row = k.row /\ new.seen = {}
    <3>1. new \in Job
      BY <1>0, JobEdits
    <3> QED
      BY <1>0, <3>1 DEF Job
  <2> HIDE DEF new
  <2>4. j = new /\ OtherJobs(n, t)
    BY <1>0, <2>2, <2>3, JobGoes
  <2>5. CallShape(j) /\ DeleteRight(n, t)' /\ AddRight(n, t)'
    BY <1>3, <2>1, <2>3, <2>4 DEF CallShape, DeleteRight, AddRight
  <2> QED
    BY <1>2, <1>4, <2>2, <2>3, <2>4, <2>5, QuietCall DEF k
<1>16. ASSUME NEW s \in here, k.seen = {}, UnregisterService(n, t, s, k)
       PROVE  SyncInv'
  <2> DEFINE new == [k EXCEPT !.step = "stopping", !.stopping = {s}]
  <2>1. /\ services' = [services EXCEPT ![n] = @ \ {s}]
        /\ Goes(n, t, new) /\ UNCHANGED accepted
    BY <1>16 DEF UnregisterService
  <2>2. s \in services[n] /\ s.name = row.name /\ s.id = row.id
    BY <1>3, <1>7 DEF here
  <2>3. new \in Job /\ new.step = "stopping" /\ new.op = k.op /\ new.row = k.row /\ new.seen = {}
    <3>1. new \in Job
      BY <1>0, <2>2, JobEdits
    <3> QED
      BY <1>0, <1>16, <3>1 DEF Job
  <2> HIDE DEF new
  <2>4. j = new /\ OtherJobs(n, t)
    BY <1>0, <2>1, <2>3, JobGoes
  <2>5. CallShape(j)
    BY <1>3, <1>10, <2>3, <2>4 DEF CallShape
  <2>6. services'[n] = services[n] \ {s} /\ \A m \in Node : m # n => services'[m] = services[m]
    BY <1>0, <2>1
  <2>7. ServicesFrom(n, k.seen)
    BY <1>7, <2>6 DEF ServicesFrom
  <2>8. row \notin db /\ row.id \notin Ids(db) /\ row.id \notin Ids(Makeable')
    <3>1. row \notin db
      BY <1>6, <1>16
    <3>2. row.id \notin Ids(db)
      BY <1>7, <3>1 DEF Ids
    <3> QED
      BY <1>2, <3>1, <3>2 DEF Makeable, Enabled, Ids
  <2>9. Running(n)' = Running(n) \ {row.id}
    BY <1>7, <2>2, <2>6 DEF Running
  <2>10. Gone(n, row.id)'
    <3>1. row.id \notin Ids(db')
      BY <1>2, <2>8
    <3>2. \A u \in AnyThread : job'[n][u].seen = {}
      BY <1>0, <1>8, <2>3, <2>4 DEF OtherJobs
    <3>3. Known(n)' = db'
      BY <3>2 DEF Known
    <3> QED
      BY <2>9, <3>1, <3>3 DEF Gone, Ids
  <2>11. DeleteRight(n, t)' /\ AddRight(n, t)'
    <3>1. k.row \cap db' = {} /\ k.row \cap Makeable' = {}
      BY <1>2, <1>3, <2>8 DEF Makeable, Enabled
    <3> QED
      BY <1>3, <2>3, <2>4, <2>10, <3>1 DEF DeleteRight, AddRight, Ids
  <2>12. PassRight(n)'
    BY <1>9, <2>4
  <2> QED
    BY <1>0, <1>2, <1>4, <2>1, <2>3, <2>4, <2>5, <2>6, <2>7, <2>8, <2>9, <2>11, <2>12, StepKeeps DEF k
<1>17. ASSUME (k.seen = {}) = (here = {}), Goes(n, t, [k EXCEPT !.step = "engine", !.seen = {}]),
              UNCHANGED <<services, accepted>>
       PROVE  SyncInv'
  <2> DEFINE new == [k EXCEPT !.step = "engine", !.seen = {}]
  <2>1. new \in Job /\ new.step = "engine" /\ new.op = k.op /\ new.row = k.row /\ new.seen = {}
    <3>1. new \in Job
      BY <1>0, JobEdits
    <3> QED
      BY <1>0, <3>1 DEF Job
  <2>2. Goes(n, t, new)
    BY <1>17
  <2> HIDE DEF new
  <2>3. j = new /\ OtherJobs(n, t)
    BY <1>0, <2>1, <2>2, JobGoes
  <2>4. CallShape(j)
    BY <1>3, <1>10, <2>1, <2>3 DEF CallShape
  <2>5. Running(n)' = Running(n) /\ Makeable' = Makeable
    BY <1>2, <1>17 DEF Running, Makeable, Enabled, Unmakeable
  <2>6. row.id \in Running(n) <=> here # {}
    BY <1>3, <1>7 DEF Running, here
  <2>7. ASSUME k.op = "delete" PROVE row \notin db /\ Gone(n, row.id)'
    <3>1. row \notin db
      BY <1>1, <1>3, <2>7 DEF DeleteRight, k
    <3>2. row.id \notin Ids(db')
      BY <1>2, <1>7, <3>1 DEF Ids
    <3>3. \A u \in AnyThread : job'[n][u].seen = {}
      BY <1>0, <1>8, <2>1, <2>3 DEF OtherJobs
    <3>4. Known(n)' = db'
      BY <3>3 DEF Known
    <3>5. row.id \notin Running(n)'
      BY <1>5, <1>17, <2>5, <2>6, <2>7
    <3> QED
      BY <3>1, <3>2, <3>4, <3>5 DEF Gone, Ids
  <2>8. row \in Makeable => row.id \in Running(n)
    BY <1>6, <1>17, <2>6 DEF Makeable, Enabled
  <2>9. DeleteRight(n, t)' /\ AddRight(n, t)'
    <3>1. DeleteRight(n, t)'
      BY <1>2, <1>3, <2>1, <2>3, <2>7 DEF DeleteRight
    <3>2. Ids(k.row \cap Makeable) \subseteq Running(n)
      BY <1>3, <2>8 DEF Ids
    <3>3. AddRight(n, t)'
      BY <2>1, <2>3, <2>5, <3>2 DEF AddRight, Ids
    <3> QED
      BY <3>1, <3>3
  <2> QED
    BY <1>2, <1>4, <1>17, <2>1, <2>3, <2>4, <2>9, QuietCall DEF k
<1> QED
  BY <1>2, <1>12, <1>14, <1>15, <1>16, <1>17

\* The steps of a pass of the synchronizer, whatever calls do in between.
LEMMA PassKeeps ==
  ASSUME TypeParts, SyncInv, NEW n \in Node, ScanRead(n) \/ ScanStep(n)
  PROVE  SyncInv'
<1> DEFINE k == job[n][Worker]
           j == job'[n][Worker]
<1>0. /\ Worker \in AnyThread /\ Worker \notin Thread /\ k \in Job /\ PassShape(k)
      /\ job \in [Node -> [AnyThread -> Job]] /\ db \subseteq DatasourceRow
      /\ services \in [Node -> SUBSET Service] /\ k.seen \subseteq DatasourceRow
  <2>1. Worker \in AnyThread /\ Worker \notin Thread /\ PassShape(k)
    BY SyncThreads DEF AnyThread, SyncInv, Shapes
  <2>2. k \in Job
    BY <2>1 DEF TypeParts, LockOK
  <2> QED
    BY <2>1, <2>2 DEF TypeParts, LockOK, TableOK, ServicesOK, Job
<1>1. PassRight(n)
  BY DEF SyncInv, AdditionsDone
<1>2. /\ \A x \in db, y \in k.seen : x.id = y.id => x = y
      /\ \A x \in k.seen, s \in services[n] : x.id = s.id <=> x.name = s.name
      /\ \A s, u \in services[n] : s.id = u.id => s = u
  BY <1>0, SameRow, SameService
<1>3. Idle \in Job
  BY JobEdits
<1>4. ASSUME UNCHANGED <<db, nextId, used, up, accepted, deleted>>, n \in up, OtherJobs(n, Worker),
             \A m \in Node : m # n => services'[m] = services[m],
             j.row = {}, j.seen \subseteq k.seen \cup db, PassShape(j),
             ServicesFrom(n, k.seen), Running(n) \cap Ids(Makeable) \subseteq Running(n)',
             PassRight(n)'
      PROVE  SyncInv'
  <2>1. Makeable' = Makeable
    BY <1>4 DEF Makeable, Enabled, Unmakeable
  <2>2. (accepted'[n] \cup Running(n)) \cap Ids(Makeable') \subseteq accepted[n] \cup Running(n)'
    BY <1>4, <2>1
  <2>3. /\ Running(n) \cap Ids(Makeable') \subseteq Running(n)'
        /\ \A i \in deleted'[n] : i \in deleted[n]
        /\ \A i \in accepted'[n] : i \in accepted[n]
        /\ db' \subseteq db
    BY <1>4, <2>1
  <2> QED
    BY <1>0, <1>4, <2>2, <2>3, StepKeeps
<1>5. ASSUME UNCHANGED services
      PROVE  /\ ServicesFrom(n, k.seen) /\ Running(n)' = Running(n)
             /\ \A m \in Node : m # n => services'[m] = services[m]
  BY <1>2, <1>5 DEF ServicesFrom, Running
<1> HIDE DEF k
<1>6. CASE ScanRead(n)
  <2> DEFINE new == [Idle EXCEPT !.op = "all", !.step = "scan", !.seen = db]
  <2>1. /\ n \in up /\ Goes(n, Worker, new)
        /\ UNCHANGED <<db, nextId, used, services, up, accepted, deleted>>
    BY <1>6 DEF ScanRead, table
  <2>2. new \in Job /\ new.step = "scan" /\ new.op = "all" /\ new.row = {} /\ new.seen = db
    <3>1. new \in Job
      BY <1>0, JobEdits
    <3> QED
      BY <3>1 DEF Idle
  <2> HIDE DEF new
  <2>3. j = new /\ OtherJobs(n, Worker)
    BY <1>0, <2>1, <2>2, JobGoes
  <2>4. PassShape(j) /\ PassRight(n)'
    BY <2>1, <2>2, <2>3 DEF PassShape, PassRight, Ids
  <2> QED
    BY <1>4, <1>5, <2>1, <2>2, <2>3, <2>4
<1>7. ASSUME NEW r \in k.seen, ScanRegister(n, r) PROVE SyncInv'
  <2>1. /\ k.step = "scan" /\ r \in Missing(n)
        /\ services' = [services EXCEPT ![n] = @ \cup {NewService(r)}]
        /\ UNCHANGED <<db, nextId, used, job, up, accepted, deleted>>
    BY <1>7 DEF ScanRegister, table, k
  <2> DEFINE s0 == NewService(r)
  <2>2. s0.id = r.id /\ s0.name = r.name
    BY <1>0, NewServices
  <2> HIDE DEF s0
  <2>3. services'[n] = services[n] \cup {s0} /\ \A m \in Node : m # n => services'[m] = services[m]
    BY <1>0, <2>1 DEF s0
  <2>4. \A s \in services[n] : s.id # r.id
    BY <2>1 DEF Missing, ById
  <2>5. ServicesFrom(n, k.seen)
    BY <1>2, <2>2, <2>3, <2>4 DEF ServicesFrom
  <2>6. Running(n)' = Running(n) \cup {r.id}
    BY <2>2, <2>3 DEF Running
  <2>7. OtherJobs(n, Worker) /\ j = k /\ k.row = {} /\ PassShape(j)
    BY <1>0, <2>1 DEF OtherJobs, PassShape, Idle, k
  <2>8. PassRight(n)'
    <3>1. Ids(db \ k.seen) \cap Running(n) = {}
      BY <1>1, <2>1 DEF PassRight, k
    <3>2. r.id \notin Ids(db \ k.seen)
      BY <1>2 DEF Ids
    <3>3. Ids((db \ job[n][Worker].seen)') = Ids(db \ k.seen)
      BY <2>1, <2>7
    <3> QED
      BY <2>6, <3>1, <3>2, <3>3 DEF PassRight, Ids
  <2>9. n \in up
    BY <1>0, <2>1, BusyUp DEF k
  <2> QED
    BY <1>4, <2>1, <2>3, <2>5, <2>6, <2>7, <2>8, <2>9
<1>8. ASSUME (\E r \in k.seen : ScanFails(n, r)) \/ ScanEnds(n) PROVE SyncInv'
  <2>1. /\ k.step = "scan" /\ Goes(n, Worker, Idle)
        /\ UNCHANGED <<db, nextId, used, services, up, accepted, deleted>>
    BY <1>8 DEF ScanFails, ScanEnds, Ends, table, k
  <2>2. j = Idle /\ OtherJobs(n, Worker)
    BY <1>0, <1>3, <2>1, JobGoes
  <2>3. j.row = {} /\ j.seen = {} /\ PassShape(j) /\ PassRight(n)'
    BY <2>2 DEF PassShape, PassRight, Idle
  <2>4. n \in up
    BY <1>0, <2>1, BusyUp DEF k
  <2> QED
    BY <1>4, <1>5, <2>1, <2>2, <2>3, <2>4
<1>9. ASSUME NEW s \in services[n], ScanUnregister(n, s) PROVE SyncInv'
  <2> DEFINE new == [k EXCEPT !.step = "stopping", !.stopping = {s}]
  <2>1. /\ k.step = "scan" /\ services' = [services EXCEPT ![n] = @ \ {s}]
        /\ s \in Disabled(n) \/ s \in Stale(n)
        /\ Goes(n, Worker, new) /\ UNCHANGED <<db, nextId, used, up, accepted, deleted>>
    BY <1>9 DEF ScanUnregister, UnregisterService, table, k
  <2>2. new \in Job /\ new.step = "stopping" /\ new.op = k.op /\ new.row = k.row /\ new.seen = k.seen
    <3>1. new \in Job
      BY <1>0, JobEdits
    <3> QED
      BY <1>0, <3>1 DEF Job
  <2> HIDE DEF new
  <2>3. j = new /\ OtherJobs(n, Worker)
    BY <1>0, <2>1, <2>2, JobGoes
  <2>4. PassShape(j) /\ j.row = {}
    BY <1>0, <2>1, <2>2, <2>3 DEF PassShape, Idle
  <2>5. services'[n] = services[n] \ {s} /\ \A m \in Node : m # n => services'[m] = services[m]
    BY <1>0, <2>1
  <2>6. ServicesFrom(n, k.seen)
    BY <1>2, <2>5 DEF ServicesFrom
  <2>7. Running(n)' = Running(n) \ {s.id}
    BY <1>2, <2>5 DEF Running
  <2>8. PassRight(n) => Ids(db \ k.seen) \cap Running(n) = {}
    BY <2>1 DEF PassRight, k
  <2>9. s.id \notin Ids(Makeable)
    <3> SUFFICES ASSUME NEW x \in db, x.enabled, x.id = s.id PROVE FALSE
      BY DEF Ids, Makeable, Enabled
    <3>1. CASE s \in Disabled(n)
      <4>1. PICK r \in k.seen : r.id = s.id /\ ~r.enabled
        BY <3>1 DEF Disabled, k
      <4> QED
        BY <1>2, <4>1
    <3>2. CASE s \in Stale(n)
      <4>1. x \notin k.seen
        BY <3>2 DEF Stale, k
      <4>2. s.id \in Running(n) /\ s.id \in Ids(db \ k.seen)
        BY <4>1 DEF Running, Ids
      <4> QED
        BY <1>1, <2>8, <4>2
    <3> QED
      BY <2>1, <3>1, <3>2
  <2>10. PassRight(n)'
    BY <1>1, <2>1, <2>2, <2>3, <2>7, <2>8 DEF PassRight, Ids
  <2>11. n \in up
    BY <1>0, <2>1, BusyUp DEF k
  <2> QED
    BY <1>4, <2>1, <2>2, <2>3, <2>4, <2>5, <2>6, <2>7, <2>9, <2>10, <2>11
<1>10. CASE StopReturns(n, Worker)
  <2> DEFINE new == [k EXCEPT !.step = "scan", !.stopping = {}]
  <2>1. /\ k.step = "stopping" /\ Goes(n, Worker, new)
        /\ UNCHANGED <<db, nextId, used, services, up, accepted, deleted>>
    BY <1>10 DEF StopReturns, table, k
  <2>2. new \in Job /\ new.step = "scan" /\ new.op = k.op /\ new.row = k.row /\ new.seen = k.seen
    <3>1. new \in Job
      BY <1>0, JobEdits
    <3> QED
      BY <1>0, <3>1 DEF Job
  <2> HIDE DEF new
  <2>3. j = new /\ OtherJobs(n, Worker)
    BY <1>0, <2>1, <2>2, JobGoes
  <2>4. PassShape(j) /\ j.row = {}
    BY <1>0, <2>1, <2>2, <2>3 DEF PassShape, Idle
  <2>5. PassRight(n)'
    BY <1>1, <1>5, <2>1, <2>2, <2>3 DEF PassRight, Ids, k
  <2>6. n \in up
    BY <1>0, <2>1, BusyUp DEF k
  <2> QED
    BY <1>4, <1>5, <2>1, <2>2, <2>3, <2>4, <2>5, <2>6
<1> QED
  BY <1>6, <1>7, <1>8, <1>9, <1>10 DEF ScanStep, k

\* Requests and poll loops leave a service under its id and name.
LEMMA ServiceKeeps ==
  ASSUME TypeParts, SyncInv, NEW n \in Node, NEW s \in services[n], NEW new,
         ServiceGoes(n, s, new)
  PROVE  SyncInv'
<1>0. Worker \in AnyThread /\ Worker \notin Thread /\ services \in [Node -> SUBSET Service]
  BY SyncThreads DEF AnyThread, TypeParts, ServicesOK
<1>1. /\ UNCHANGED <<db, nextId, used, job, up, accepted, deleted>>
      /\ new.id = s.id /\ new.name = s.name
  BY DEF ServiceGoes, table
<1>2. /\ services'[n] = (services[n] \ {s}) \cup {new}
      /\ \A m \in Node : m # n => services'[m] = services[m]
  BY <1>0 DEF ServiceGoes
<1>3. n \in up
  BY DEF SyncInv, Shapes
<1>4. \A u, v \in services[n] : u.id = v.id => u = v
  BY DEF SyncInv, RowsOnce
<1>5. ServicesFrom(n, job[n][Worker].seen)
  BY <1>1, <1>2, <1>4 DEF ServicesFrom
<1>6. Running(n)' = Running(n)
  BY <1>1, <1>2 DEF Running
<1>7. OtherJobs(n, Worker) /\ PassShape(job'[n][Worker]) /\ job'[n][Worker] = job[n][Worker]
  BY <1>1 DEF OtherJobs, SyncInv, Shapes
<1>8. PassRight(n)'
  BY <1>1, <1>6 DEF SyncInv, AdditionsDone, PassRight, Ids
<1>9. (accepted'[n] \cup Running(n)) \cap Ids(Makeable') \subseteq accepted[n] \cup Running(n)'
  BY <1>1, <1>6
<1>10. /\ Running(n) \cap Ids(Makeable') \subseteq Running(n)'
       /\ \A i \in deleted'[n] : i \in deleted[n]
       /\ \A i \in accepted'[n] : i \in accepted[n]
       /\ db' \subseteq db
  BY <1>1, <1>6
<1> QED
  BY <1>0, <1>1, <1>2, <1>3, <1>5, <1>7, <1>8, <1>9, <1>10, StepKeeps

\* A new row has an id and a name that nobody knows.
LEMMA AddKeeps ==
  ASSUME TypeParts, SyncInv, ~Reuse, NEW n \in Node, NEW t \in Thread,
         NEW name \in Name, NEW enabled \in BOOLEAN, AddDatasource(n, t, name, enabled)
  PROVE  SyncInv'
<1> DEFINE row == [id |-> nextId, name |-> name, enabled |-> enabled]
           new == [Idle EXCEPT !.op = "add", !.step = "sync", !.row = {row}]
<1>1. /\ n \in up /\ job[n][t] = Idle /\ nextId <= MaxId /\ name \notin used
      /\ db' = db \cup {row} /\ nextId' = nextId + 1 /\ used' = used \cup {name}
      /\ Goes(n, t, new) /\ UNCHANGED <<services, up, accepted, deleted>>
  BY DEF AddDatasource
<1>2. nextId \in Nat /\ row \in DatasourceRow /\ row.id = nextId /\ row.name = name
  BY <1>1, SyncBounds DEF TypeParts, TableOK, DatasourceRow, Id
<1> HIDE DEF row
<1>3. new \in Job /\ new.op = "add" /\ new.step = "sync" /\ new.row = {row} /\ new.seen = {}
  BY <1>2, JobEdits DEF Idle
<1> HIDE DEF new
<1>4. job'[n][t] = new /\ OtherJobs(n, t) /\ t \in AnyThread /\ Worker \in AnyThread /\ t # Worker
  <2>1. t \in AnyThread /\ Worker \in AnyThread /\ t # Worker
    BY SyncThreads DEF AnyThread
  <2> QED
    BY <1>1, <1>3, <2>1, JobGoes DEF TypeParts, LockOK
<1>5. /\ \A x \in AllRows : x.id < nextId /\ x.name \in used /\ x.id \in Nat
      /\ \A m \in Node : \A s \in services[m] : s.id < nextId /\ s.name \in used /\ s.id \in Nat
      /\ \A m \in Node : \A i \in accepted[m] \cup deleted[m] : i < nextId /\ i \in Nat
  <2>1. \A x \in AllRows : x.id < nextId /\ x.name \in used /\ x.id \in Nat
    BY DEF SyncInv, RowsOnce, AllRows, DatasourceRow, Id
  <2>2. \A m \in Node : \A s \in services[m] : s.id < nextId /\ s.name \in used /\ s.id \in Nat
    BY DEF SyncInv, RowsOnce, TypeParts, ServicesOK, Service, Id
  <2>3. \A m \in Node : \A i \in accepted[m] \cup deleted[m] : i < nextId /\ i \in Nat
    BY DEF SyncInv, RowsOnce, TypeParts, TableOK, Id
  <2> QED
    BY <2>1, <2>2, <2>3
<1>6. AllRows' \subseteq AllRows \cup {row}
  <2>1. ASSUME NEW m \in Node, NEW u \in AnyThread,
               NEW x \in DatasourceRow, x \in job'[m][u].row \cup job'[m][u].seen
        PROVE  x \in AllRows \cup {row}
    <3>1. CASE m = n /\ u = t
      BY <1>3, <1>4, <2>1, <3>1
    <3>2. CASE m # n \/ u # t
      BY <1>4, <2>1, <3>2 DEF OtherJobs, AllRows
    <3> QED
      BY <3>1, <3>2
  <2> QED
    BY <1>1, <2>1 DEF AllRows
<1>7. /\ \A m \in Node, u \in AnyThread : row \notin job[m][u].row /\ row \notin job[m][u].seen
      /\ row \notin db
  <2>1. row \notin AllRows
    BY <1>2, <1>5
  <2> QED
    BY <1>2, <2>1 DEF AllRows
<1>8. RowsOnce'
  <2>1. \A x \in AllRows' : x.id < nextId' /\ x.name \in used'
    BY <1>1, <1>2, <1>5, <1>6
  <2>2. \A x, y \in AllRows' : x.id = y.id \/ x.name = y.name => x = y
    <3>1. \A x \in AllRows : x.id # row.id /\ x.name # row.name
      BY <1>1, <1>2, <1>5
    <3>2. \A x, y \in AllRows : x.id = y.id \/ x.name = y.name => x = y
      BY DEF SyncInv, RowsOnce
    <3> QED
      BY <1>6, <3>1, <3>2
  <2>3. ASSUME NEW m \in Node, NEW s \in services[m]
        PROVE  /\ s.id < nextId' /\ s.name \in used'
               /\ \A x \in AllRows' : x.id = s.id <=> x.name = s.name
               /\ \A u \in services[m] : s.id = u.id => s = u
    <3>1. s.id < nextId' /\ s.name \in used' /\ s.id # row.id /\ s.name # row.name
      BY <1>1, <1>2, <1>5
    <3>2. \A x \in AllRows' : x.id = s.id <=> x.name = s.name
      BY <1>6, <3>1 DEF SyncInv, RowsOnce
    <3> QED
      BY <3>1, <3>2 DEF SyncInv, RowsOnce
  <2>4. \A m \in Node : \A i \in accepted[m] \cup deleted[m] : i < nextId'
    BY <1>1, <1>2, <1>5
  <2> QED
    BY <1>1, <2>1, <2>2, <2>3, <2>4 DEF RowsOnce
<1>9. Shapes'
  <2>1. CallShape(job'[n][t])
    BY <1>2, <1>3, <1>4 DEF CallShape
  <2>2. \A m \in Node, u \in Thread : CallShape(job'[m][u])
    BY <1>4, <2>1 DEF SyncInv, Shapes, OtherJobs, AnyThread
  <2>3. \A m \in Node : PassShape(job'[m][Worker])
    BY <1>4 DEF SyncInv, Shapes, OtherJobs
  <2>4. \A m \in Node \ up : services'[m] = {} /\ \A u \in AnyThread : job'[m][u] = Idle
    BY <1>1, <1>4 DEF SyncInv, Shapes, OtherJobs
  <2> QED
    BY <1>1, <2>2, <2>3, <2>4 DEF Shapes, CallShape, PassShape
<1>10. \A m \in Node : \A i : i # nextId /\ Gone(m, i) => Gone(m, i)'
  <2> SUFFICES ASSUME NEW m \in Node
               PROVE  (Ids(Known(m)) \cup Running(m))' \subseteq Ids(Known(m)) \cup Running(m) \cup {nextId}
    BY DEF Gone
  <2>1. Known(m)' \subseteq Known(m) \cup {row}
    <3>1. ASSUME NEW u \in AnyThread PROVE job'[m][u].seen \subseteq Known(m)
      <4>1. CASE m = n /\ u = t
        BY <1>3, <1>4, <4>1
      <4>2. CASE m # n \/ u # t
        BY <1>4, <4>2 DEF OtherJobs, Known
      <4> QED
        BY <4>1, <4>2
    <3>2. db \subseteq Known(m)
      BY DEF Known
    <3> QED
      BY <1>1, <3>1, <3>2 DEF Known
  <2>2. Running(m)' = Running(m)
    BY <1>1 DEF Running
  <2> QED
    BY <1>2, <2>1, <2>2 DEF Ids
<1>11. DeletionsDone'
  <2>1. \A m \in Node : \A i \in deleted'[m] : Gone(m, i)'
    BY <1>1, <1>2, <1>5, <1>10 DEF SyncInv, DeletionsDone
  <2>2. ASSUME NEW m \in Node, NEW u \in Thread PROVE DeleteRight(m, u)'
    <3>1. u \in AnyThread
      BY DEF AnyThread
    <3>2. CASE m = n /\ u = t
      BY <1>3, <1>4, <3>2 DEF DeleteRight
    <3>3. CASE m # n \/ u # t
      <4>1. job'[m][u] = job[m][u]
        BY <1>4, <3>1, <3>3 DEF OtherJobs
      <4>2. DeleteRight(m, u)
        BY DEF SyncInv, DeletionsDone
      <4>3. \A r \in job[m][u].row : r.id # nextId
        <5>1. job[m][u].row \subseteq AllRows
          BY <3>1 DEF AllRows, TypeParts, LockOK, Job
        <5> QED
          BY <1>2, <1>5, <5>1
      <4> QED
        BY <1>1, <1>7, <1>10, <3>1, <4>1, <4>2, <4>3 DEF DeleteRight
    <3> QED
      BY <3>2, <3>3
  <2> QED
    BY <2>1, <2>2 DEF DeletionsDone
<1>12. AdditionsDone'
  <2>1. Makeable' \subseteq Makeable \cup {row} /\ Ids(Makeable') \subseteq Ids(Makeable) \cup {nextId}
    BY <1>1, <1>2 DEF Makeable, Enabled, Unmakeable, Ids
  <2>2. \A m \in Node : Running(m)' = Running(m) /\ nextId \notin Running(m) /\ nextId \notin accepted[m]
    BY <1>1, <1>2, <1>5 DEF Running
  <2>3. AcceptedRuns'
    <3>1. \A m \in up : m \in Node /\ accepted[m] \cap Ids(Makeable) \subseteq Running(m)
      BY DEF TypeParts, TableOK, SyncInv, AdditionsDone, AcceptedRuns, Makeable
    <3>2. \A m \in up : accepted[m] \cap Ids(Makeable') \subseteq Running(m)'
      BY <2>1, <2>2, <3>1
    <3> QED
      BY <1>1, <3>2 DEF AcceptedRuns, Makeable, Enabled, Unmakeable, Ids
  <2>4. ASSUME NEW m \in Node, NEW u \in Thread PROVE AddRight(m, u)'
    <3>1. u \in AnyThread
      BY DEF AnyThread
    <3>2. CASE m = n /\ u = t
      BY <1>3, <1>4, <3>2 DEF AddRight
    <3>3. CASE m # n \/ u # t
      <4>1. job'[m][u] = job[m][u] /\ AddRight(m, u)
        BY <1>4, <3>1, <3>3 DEF OtherJobs, SyncInv, AdditionsDone
      <4>2. /\ job[m][u].row \cap db' = job[m][u].row \cap db
            /\ job[m][u].row \cap Makeable' \subseteq job[m][u].row \cap Makeable
        BY <1>1, <1>7, <2>1, <3>1
      <4>3. Ids(job[m][u].row \cap Makeable') \subseteq Ids(job[m][u].row \cap Makeable)
        BY <4>2 DEF Ids
      <4> QED
        BY <2>2, <4>1, <4>2, <4>3 DEF AddRight, Ids
    <3> QED
      BY <3>2, <3>3
  <2>5. ASSUME NEW m \in Node PROVE PassRight(m)'
    <3>1. job'[m][Worker] = job[m][Worker] /\ PassRight(m)
      BY <1>4 DEF OtherJobs, SyncInv, AdditionsDone
    <3>2. Ids(db' \ job[m][Worker].seen) \subseteq Ids(db \ job[m][Worker].seen) \cup {nextId}
      BY <1>1, <1>2 DEF Ids
    <3> QED
      BY <2>2, <3>1, <3>2 DEF PassRight, Ids
  <2> QED
    BY <2>3, <2>4, <2>5 DEF AdditionsDone
<1> QED
  BY <1>8, <1>9, <1>11, <1>12 DEF SyncInv

\* A node that crashes knows nothing, and one that starts knows the database.
LEMMA NodeKeeps ==
  ASSUME TypeParts, SyncInv, NEW n \in Node, Crash(n) \/ Start(n)
  PROVE  SyncInv'
<1> DEFINE X == {q \in db : q.enabled}
<1>0. /\ Worker \in AnyThread /\ \A u \in Thread : u \in AnyThread
      /\ services \in [Node -> SUBSET Service] /\ job \in [Node -> [AnyThread -> Job]]
      /\ db \subseteq DatasourceRow /\ up \subseteq Node
  BY DEF AnyThread, TypeParts, ServicesOK, LockOK, TableOK
<1>1. /\ UNCHANGED <<db, nextId, used, accepted, deleted>>
      /\ \/ Crash(n) /\ services'[n] = {} /\ up' = up \ {n}
         \/ Start(n) /\ services'[n] = {NewService(r) : r \in X} /\ up' = up \cup {n}
      /\ \A m \in Node : m # n => services'[m] = services[m]
      /\ \A m \in Node, u \in AnyThread : m # n => job'[m][u] = job[m][u]
  <2>1. CASE Crash(n)
    BY <1>0, <2>1 DEF Crash, table
  <2>2. CASE Start(n)
    BY <1>0, <2>2 DEF Start, table
  <2> QED
    BY <2>1, <2>2
<1>2. \A u \in AnyThread : job'[n][u] = Idle
  <2>1. CASE Crash(n)
    BY <1>0, <2>1 DEF Crash, AnyThread
  <2>2. CASE Start(n)
    BY <2>2 DEF Start, SyncInv, Shapes
  <2> QED
    BY <2>1, <2>2
<1>3. Idle.row = {} /\ Idle.seen = {} /\ Idle.op = "none" /\ Idle.step = "idle"
  BY DEF Idle
<1>4. \A s \in services'[n] : \E x \in X : s.id = x.id /\ s.name = x.name /\ s = NewService(x)
  BY <1>0, <1>1, NewServices
<1> HIDE DEF X
<1>5. X \subseteq db /\ db \subseteq AllRows
  BY <1>0 DEF X, AllRows
<1>6. AllRows' \subseteq AllRows
  <2>1. ASSUME NEW m \in Node, NEW u \in AnyThread,
               NEW x \in DatasourceRow, x \in job'[m][u].row \cup job'[m][u].seen
        PROVE  x \in AllRows
    <3>1. m # n
      BY <1>2, <1>3, <2>1
    <3> QED
      BY <1>1, <2>1, <3>1 DEF AllRows
  <2> QED
    BY <1>1, <2>1 DEF AllRows
<1>7. RowsOnce'
  <2>1. \A x, y \in AllRows : x.id = y.id \/ x.name = y.name => x = y
    BY DEF SyncInv, RowsOnce
  <2>2. ASSUME NEW m \in Node, NEW s \in services'[m]
        PROVE  /\ s.id < nextId /\ s.name \in used
               /\ \A x \in AllRows' : x.id = s.id <=> x.name = s.name
               /\ \A u \in services'[m] : s.id = u.id => s = u
    <3>1. CASE m # n
      BY <1>1, <1>6, <3>1 DEF SyncInv, RowsOnce
    <3>2. CASE m = n
      <4>1. PICK x \in X : s.id = x.id /\ s.name = x.name /\ s = NewService(x)
        BY <1>4, <3>2
      <4>2. x.id < nextId /\ x.name \in used
        BY <1>5 DEF SyncInv, RowsOnce
      <4>3. \A y \in AllRows' : y.id = s.id <=> y.name = s.name
        BY <1>5, <1>6, <2>1, <4>1
      <4>4. \A u \in services'[m] : s.id = u.id => s = u
        BY <1>4, <1>5, <2>1, <3>2, <4>1
      <4> QED
        BY <4>1, <4>2, <4>3, <4>4
    <3> QED
      BY <3>1, <3>2
  <2>3. \A x \in AllRows' : x.id < nextId' /\ x.name \in used'
    BY <1>1, <1>6 DEF SyncInv, RowsOnce
  <2>4. \A m \in Node : \A i \in accepted'[m] \cup deleted'[m] : i < nextId'
    BY <1>1 DEF SyncInv, RowsOnce
  <2>5. \A x, y \in AllRows' : x.id = y.id \/ x.name = y.name => x = y
    BY <1>6, <2>1
  <2> QED
    BY <1>1, <2>2, <2>3, <2>4, <2>5 DEF RowsOnce
<1>8. Shapes'
  <2>1. \A m \in Node, u \in Thread : CallShape(job'[m][u])
    BY <1>0, <1>1, <1>2, SMTT(30) DEF SyncInv, Shapes, CallShape
  <2>2. \A m \in Node : PassShape(job'[m][Worker])
    BY <1>0, <1>1, <1>2 DEF SyncInv, Shapes, PassShape
  <2>3. \A m \in Node \ up' : services'[m] = {} /\ \A u \in AnyThread : job'[m][u] = Idle
    BY <1>1, <1>2 DEF SyncInv, Shapes
  <2> QED
    BY <2>1, <2>2, <2>3 DEF Shapes, CallShape, PassShape
<1>9. \A m \in Node : \A i : Gone(m, i) => Gone(m, i)'
  <2> SUFFICES ASSUME NEW m \in Node
               PROVE  (Ids(Known(m)) \cup Running(m))' \subseteq Ids(Known(m)) \cup Running(m)
    BY DEF Gone
  <2>1. CASE m = n
    <3>1. Known(n)' = db
      BY <1>1, <1>2, <1>3 DEF Known
    <3>2. Running(n)' \subseteq Ids(db)
      BY <1>4, <1>5 DEF Running, Ids
    <3>3. db \subseteq Known(n)
      BY DEF Known
    <3> QED
      BY <2>1, <3>1, <3>2, <3>3 DEF Ids
  <2>2. CASE m # n
    <3>1. Known(m)' = Known(m) /\ Running(m)' = Running(m)
      BY <1>1, <2>2 DEF Known, Running
    <3> QED
      BY <3>1 DEF Ids
  <2> QED
    BY <2>1, <2>2
<1>10. DeletionsDone'
  <2>1. \A m \in Node : \A i \in deleted'[m] : Gone(m, i)'
    BY <1>1, <1>9 DEF SyncInv, DeletionsDone
  <2>2. ASSUME NEW m \in Node, NEW u \in Thread PROVE DeleteRight(m, u)'
    <3>1. CASE m = n
      BY <1>0, <1>2, <1>3, <3>1 DEF DeleteRight
    <3>2. CASE m # n
      BY <1>0, <1>1, <1>9, <3>2 DEF DeleteRight, SyncInv, DeletionsDone
    <3> QED
      BY <3>1, <3>2
  <2> QED
    BY <2>1, <2>2 DEF DeletionsDone
<1>11. AdditionsDone'
  <2>1. Makeable' = Makeable
    BY <1>1 DEF Makeable, Enabled, Unmakeable
  <2>2. ASSUME NEW m \in up' PROVE accepted[m] \cap Ids(Makeable) \subseteq Running(m)'
    <3>1. CASE m # n
      <4>1. m \in up /\ m \in Node
        BY <1>0, <1>1, <3>1
      <4> QED
        BY <1>1, <3>1, <4>1 DEF SyncInv, AdditionsDone, AcceptedRuns, Makeable, Running
    <3>2. CASE m = n
      <4>1. services'[n] = {NewService(r) : r \in X}
        BY <1>1, <3>2
      <4>2. \A r \in X : NewService(r) \in services'[n] /\ NewService(r).id = r.id
        BY <1>0, <1>5, <4>1, NewServices
      <4>3. Ids(X) \subseteq Running(n)'
        BY <4>2 DEF Running, Ids
      <4>4. Makeable \subseteq X
        BY DEF Makeable, Enabled, X
      <4> QED
        BY <3>2, <4>3, <4>4 DEF Ids
    <3> QED
      BY <3>1, <3>2
  <2>3. AcceptedRuns'
    BY <1>1, <2>1, <2>2 DEF AcceptedRuns, Makeable, Enabled, Unmakeable, Ids
  <2>4. ASSUME NEW m \in Node, NEW u \in Thread PROVE AddRight(m, u)'
    <3>1. CASE m = n
      BY <1>0, <1>2, <1>3, <3>1 DEF AddRight
    <3>2. CASE m # n
      <4>1. job'[m][u] = job[m][u] /\ Running(m)' = Running(m) /\ AddRight(m, u)
        BY <1>0, <1>1, <3>2 DEF Running, SyncInv, AdditionsDone
      <4> QED
        BY <1>1, <2>1, <4>1 DEF AddRight, Ids
    <3> QED
      BY <3>1, <3>2
  <2>5. ASSUME NEW m \in Node PROVE PassRight(m)'
    <3>1. CASE m = n
      BY <1>0, <1>2, <1>3, <3>1 DEF PassRight
    <3>2. CASE m # n
      <4>1. job'[m][Worker] = job[m][Worker] /\ Running(m)' = Running(m) /\ PassRight(m)
        BY <1>0, <1>1, <3>2 DEF Running, SyncInv, AdditionsDone
      <4> QED
        BY <1>1, <4>1 DEF PassRight, Ids
    <3> QED
      BY <3>1, <3>2
  <2> QED
    BY <2>3, <2>4, <2>5 DEF AdditionsDone
<1> QED
  BY <1>7, <1>8, <1>10, <1>11 DEF SyncInv

\* The invariant behind both theorems below.
LEMMA SyncInvariant ==
  ASSUME ~Reuse
  PROVE  Spec => []SyncInv
<1>1. Init => SyncInv
  <2> SUFFICES ASSUME Init PROVE SyncInv
    OBVIOUS
  <2>1. /\ db = {} /\ up = Node
        /\ \A n \in Node : services[n] = {} /\ accepted[n] = {} /\ deleted[n] = {}
        /\ \A n \in Node, t \in AnyThread : job[n][t] = Idle
        /\ Worker \in AnyThread /\ \A t \in Thread : t \in AnyThread
    BY DEF Init, AnyThread
  <2>2. Idle.row = {} /\ Idle.seen = {} /\ Idle.op = "none" /\ Idle.step = "idle"
    BY DEF Idle
  <2>3. RowsOnce
    <3>1. AllRows = {}
      BY <2>1, <2>2 DEF AllRows
    <3> QED
      BY <2>1, <3>1 DEF RowsOnce
  <2>4. Shapes
    BY <2>1 DEF Shapes, CallShape, PassShape
  <2>5. DeletionsDone
    BY <2>1, <2>2 DEF DeletionsDone, DeleteRight
  <2>6. AdditionsDone
    BY <2>1, <2>2 DEF AdditionsDone, AcceptedRuns, AddRight, PassRight
  <2> QED
    BY <2>3, <2>4, <2>5, <2>6 DEF SyncInv
<1>2. TypeParts /\ SyncInv /\ [Next]_vars => SyncInv'
  <2> SUFFICES ASSUME TypeParts, SyncInv, [Next]_vars PROVE SyncInv'
    OBVIOUS
  <2>1. CASE UNCHANGED vars
    <3>1. UNCHANGED <<db, nextId, used, services, job, up, accepted, deleted>>
      BY <2>1 DEF vars, table
    <3>2. RowsOnce'
      BY <3>1 DEF SyncInv, RowsOnce, AllRows
    <3>3. Shapes'
      BY <3>1 DEF SyncInv, Shapes, CallShape, PassShape
    <3>4. DeletionsDone'
      BY <3>1 DEF SyncInv, DeletionsDone, DeleteRight, Gone, Known, Running, Ids
    <3>5. AdditionsDone'
      BY <3>1 DEF SyncInv, AdditionsDone, AcceptedRuns, AddRight, PassRight, Makeable, Enabled,
                  Unmakeable, Running, Ids
    <3> QED
      BY <3>2, <3>3, <3>4, <3>5 DEF SyncInv
  <2>2. ASSUME NEW n \in Node, NEW t \in Thread,
               NEW name \in Name, NEW enabled \in BOOLEAN, AddDatasource(n, t, name, enabled)
        PROVE  SyncInv'
    BY <2>2, AddKeeps
  <2>3. ASSUME NEW n \in Node, NEW t \in Thread,
               \/ \E row \in db : DeleteDatasource(n, t, row)
               \/ CallStep(n, t)
               \/ EngineSyncFails(n, t)
        PROVE  SyncInv'
    <3>1. CASE SyncApply(n, t)
      BY <3>1, ApplyKeeps
    <3>2. CASE ~SyncApply(n, t)
      BY <2>3, <3>2, CallKeeps DEF CallStep
    <3> QED
      BY <3>1, <3>2
  <2>4. ASSUME NEW n \in Node, ScanRead(n) \/ ScanStep(n) PROVE SyncInv'
    BY <2>4, PassKeeps
  <2>5. ASSUME NEW n \in Node, NEW s \in services[n],
               RequestRefresh(n, s) \/ GetRequest(n, s) \/ PollTimesOut(n, s) \/ PollEnds(n, s)
        PROVE  SyncInv'
    BY <2>5, ServiceTypes, ServiceKeeps
  <2>6. ASSUME NEW n \in Node, Crash(n) \/ Start(n) PROVE SyncInv'
    BY <2>6, NodeKeeps
  <2> QED
    BY <2>1, <2>2, <2>3, <2>4, <2>5, <2>6 DEF Next
<1> QED
  BY <1>1, <1>2, TypeInvariant, PTL DEF Spec

\* Where no name is used twice, a datasource whose deletion has returned on a
\* node is never run by that node again: for any number of nodes and threads,
\* with passes of the synchronizer, failures of the engine, crashes and starts
\* at any moment.
THEOREM DeletionsLast ==
  ASSUME ~Reuse
  PROVE  Spec => []DeletedStaysGone
<1>1. SyncInv => DeletedStaysGone
  BY DEF SyncInv, DeletionsDone, Gone, DeletedStaysGone
<1> QED
  BY <1>1, SyncInvariant, PTL

\* Likewise, an enabled datasource that a node has added, and whose driver can
\* be made, runs on that node as long as it is in the database and the node is
\* up: no pass that read the database earlier stops it.
THEOREM AdditionsRun ==
  ASSUME ~Reuse
  PROVE  Spec => []AcceptedRuns
<1>1. SyncInv => AcceptedRuns
  BY DEF SyncInv, AdditionsDone
<1> QED
  BY <1>1, SyncInvariant, PTL
=============================================================================
