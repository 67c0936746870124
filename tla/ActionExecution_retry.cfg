\* Retries are configured and one request is lost.
SPECIFICATION FairSpec
CONSTANTS
  Engine = {e1}
  DriverNode = d
  NoLeader = nobody
  Action = {a1}
  Acquainted = TRUE
  Retry = TRUE
  Unsteady = FALSE
  MaxLosses = 1
  MaxSilences = 0
  MaxRestarts = 0
PROPERTY EveryActionRuns
CHECK_DEADLOCK FALSE
