\* A polled table, seqnum 0 past, two subscribers: reordering, loss, timeouts, resubscription.
SPECIFICATION Spec
CONSTANTS
  Subscriber = {s1, s2}
  Thread = {t1}
  Row = {r1, r2}
  NoData = NoData
  Cast = Cast
  Kind = "poll"
  Warm = TRUE
  Steady = TRUE
  Lossy = TRUE
  MaxSeq = 3
  MaxRestarts = 0
SYMMETRY Symmetry
INVARIANT Consistent
PROPERTY ImplementsVersionedTable
CHECK_DEADLOCK FALSE
