\* Calls and passes on one node, a driver that cannot be made, refresh requests up to a full queue.
SPECIFICATION Spec
CONSTANTS
  Node = {n1}
  Thread = {t1, t2}
  Worker = worker
  Nobody = nobody
  Name = {a, b}
  Broken = {b}
  PollTime = TRUE
  Reuse = FALSE
  MaxId = 2
  MaxRefresh = 2
  MaxFailures = 1
  MaxCrashes = 1
INVARIANTS TypeOK DeletedStaysGone AcceptedRuns
PROPERTIES Synchronized RefreshServed
CHECK_DEADLOCK FALSE
