\* Rules change, or their policy is deleted, while another thread is in its callbacks.
SPECIFICATION Spec
CONSTANTS
  p = p  a = a  b = b  u = u  v = v  d1 = d1  d2 = d2
  Thread = {t1, t2}
  Nobody = Nobody
  Policy = {p}
  View = {a, u, v}
  DataTable = {d1, d2}
  Observed <- ObservedV
  Row = {x}
  Rule <- LayeredRules
  Batch <- LayeredBatches
  MaxDropped = 1
  MaxOvertakes = 1
  MaxData = 1
SYMMETRY Symmetry
INVARIANTS GraphExact MentionedSubscribed
