\* Two green threads and a service that gives the table up while a reply is under way.
SPECIFICATION Spec
CONSTANTS
  Subscriber = {s1}
  Thread = {t1, t2}
  Row = {r1}
  NoData = NoData
  Cast = Cast
  Kind = "push"
  Warm = FALSE
  Steady = FALSE
  Lossy = TRUE
  MaxSeq = 2
  MaxRestarts = 1
SYMMETRY Symmetry
INVARIANT SubscribedOnlyIfWanted
CHECK_DEADLOCK FALSE
