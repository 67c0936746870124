\* Two engines that insert rules at once.
SPECIFICATION Spec
CONSTANTS
  n1 = n1  n2 = n2  p = p  q = q  r = r  s = s
  Node = {n1, n2}
  ApiThread = {a1}
  Periodic = periodic
  Nobody = nobody
  Name = {p}
  Datasource = {}
  Existing = {p}
  Rule = {r, s}
  Fact = {}
  Recursive <- Loop
  Op <- Inserts
  CallbackErrors = FALSE
  Replicated = TRUE
  MaxId = 4
  MaxRestarts = 0
SYMMETRY Symmetry
INVARIANTS AcceptedStays NeverRecursive
