\* Three engines and a driver on a fourth node; crashes, restarts, lost heartbeats and requests.
SPECIFICATION FairSpec
CONSTANTS
  Engine = {e1, e2, e3}
  DriverNode = d
  NoLeader = nobody
  Action = {a1}
  Acquainted = TRUE
  Retry = FALSE
  Unsteady = TRUE
  MaxLosses = 1
  MaxSilences = 2
  MaxRestarts = 2
INVARIANTS TypeOK OneLeaderObeyed
PROPERTIES DeadLeaderVacated EveryActionRuns
CHECK_DEADLOCK FALSE
