\* A lost cast: the queue behind it is never cleared.
SPECIFICATION FairSpec
CONSTANTS
  Subscriber = {s1}
  Thread = {t1}
  Row = {r1}
  NoData = NoData
  Cast = Cast
  Kind = "poll"
  Warm = TRUE
  Steady = TRUE
  Lossy = TRUE
  MaxSeq = 4
  MaxRestarts = 0
PROPERTY NothingWaitsForever
CHECK_DEADLOCK FALSE
