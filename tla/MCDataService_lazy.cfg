\* A lazy table: the first subscriber triggers its fetch; nothing is lost.
SPECIFICATION FairSpec
CONSTANTS
  Subscriber = {s1}
  Thread = {t1}
  Row = {r1, r2}
  NoData = NoData
  Cast = Cast
  Kind = "lazy"
  Warm = FALSE
  Steady = TRUE
  Lossy = FALSE
  MaxSeq = 3
  MaxRestarts = 0
INVARIANT Consistent
PROPERTY Converges
CHECK_DEADLOCK FALSE
