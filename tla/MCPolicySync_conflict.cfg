\* Two engines, a policy one of them has not loaded yet.
SPECIFICATION Spec
CONSTANTS
  n1 = n1  n2 = n2  p = p  q = q  r = r  s = s
  Node = {n1, n2}
  ApiThread = {a1}
  Periodic = periodic
  Nobody = nobody
  Name = {p}
  Datasource = {}
  Existing = {}
  Rule = {r, s}
  Fact = {}
  Recursive <- Loop
  Op <- Additions
  CallbackErrors = FALSE
  Replicated = TRUE
  MaxId = 3
  MaxRestarts = 0
INVARIANT NeverRecursive
