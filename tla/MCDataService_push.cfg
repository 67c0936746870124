\* A pushed table from its first publication on, with a restart of its service.
SPECIFICATION Spec
CONSTANTS
  Subscriber = {s1}
  Thread = {t1, t2}
  Row = {r1}
  NoData = NoData
  Cast = Cast
  Kind = "push"
  Warm = FALSE
  Steady = FALSE
  Lossy = TRUE
  MaxSeq = 2
  MaxRestarts = 1
SYMMETRY Symmetry
INVARIANTS TypeOK QueueBeyondGap
CHECK_DEADLOCK FALSE
