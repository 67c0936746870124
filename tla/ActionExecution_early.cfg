\* Nodes that have just started and not heard of each other.
SPECIFICATION Spec
CONSTANTS
  Engine = {e1, e2}
  DriverNode = d
  NoLeader = nobody
  Action = {a1}
  Acquainted = FALSE
  Retry = FALSE
  Unsteady = FALSE
  MaxLosses = 0
  MaxSilences = 0
  MaxRestarts = 0
INVARIANT OneLeaderObeyed
CHECK_DEADLOCK FALSE
