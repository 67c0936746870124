\* A pushed table and a late subscriber.
SPECIFICATION Spec
CONSTANTS
  Subscriber = {s1}
  Thread = {t1}
  Row = {r1}
  NoData = NoData
  Cast = Cast
  Kind = "push"
  Warm = FALSE
  Steady = TRUE
  Lossy = FALSE
  MaxSeq = 2
  MaxRestarts = 0
INVARIANT Consistent
CHECK_DEADLOCK FALSE
