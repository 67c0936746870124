\* A lazy table and a second subscriber during the fetch.
SPECIFICATION Spec
CONSTANTS
  Subscriber = {s1, s2}
  Thread = {t1}
  Row = {r1, r2}
  NoData = NoData
  Cast = Cast
  Kind = "lazy"
  Warm = FALSE
  Steady = TRUE
  Lossy = FALSE
  MaxSeq = 3
  MaxRestarts = 0
SYMMETRY Symmetry
INVARIANT Consistent
CHECK_DEADLOCK FALSE
