\* Two refresh requests during a poll and a deletion.
SPECIFICATION Spec
CONSTANTS
  Node = {n1}
  Thread = {t1}
  Worker = worker
  Nobody = nobody
  Name = {a}
  Broken = {}
  PollTime = TRUE
  Reuse = FALSE
  MaxId = 1
  MaxRefresh = 2
  MaxFailures = 0
  MaxCrashes = 0
PROPERTY EveryCallEnds
CHECK_DEADLOCK FALSE
