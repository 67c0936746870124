\* A name is used again before another node has noticed.
SPECIFICATION Spec
CONSTANTS
  Node = {n1, n2}
  Thread = {t1}
  Worker = worker
  Nobody = nobody
  Name = {a}
  Broken = {}
  PollTime = FALSE
  Reuse = TRUE
  MaxId = 2
  MaxRefresh = 0
  MaxFailures = 0
  MaxCrashes = 0
PROPERTY AllSynchronized
CHECK_DEADLOCK FALSE
