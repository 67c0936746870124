\* The publishing service restarts: rows it no longer has.
SPECIFICATION Spec
CONSTANTS
  Subscriber = {s1}
  Thread = {t1}
  Row = {r1, r2}
  NoData = NoData
  Cast = Cast
  Kind = "poll"
  Warm = TRUE
  Steady = TRUE
  Lossy = FALSE
  MaxSeq = 1
  MaxRestarts = 1
INVARIANT ResetReplaces
CHECK_DEADLOCK FALSE
