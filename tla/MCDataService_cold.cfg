\* From the first publication on, nothing lost: a late seqnum 0.
SPECIFICATION FairSpec
CONSTANTS
  Subscriber = {s1}
  Thread = {t1}
  Row = {r1}
  NoData = NoData
  Cast = Cast
  Kind = "poll"
  Warm = FALSE
  Steady = TRUE
  Lossy = FALSE
  MaxSeq = 3
  MaxRestarts = 0
PROPERTY Converges
CHECK_DEADLOCK FALSE
