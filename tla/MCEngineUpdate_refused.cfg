\* A rule that depends on itself, then others.
SPECIFICATION Spec
CONSTANTS
  p = p  a = a  b = b  u = u  v = v  d1 = d1  d2 = d2
  Thread = {t1}
  Nobody = Nobody
  Policy = {p}
  View = {u}
  DataTable = {d1, d2}
  Observed <- ObservedU
  Row = {x}
  Rule <- SelfRules
  Batch = {}
  MaxDropped = 0
  MaxOvertakes = 0
  MaxData = 1
INVARIANT RefusedOnlyIfRecursive
