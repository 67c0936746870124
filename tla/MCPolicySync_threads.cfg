\* One engine, two API threads, every call, a policy named like a datasource.
SPECIFICATION Spec
CONSTANTS
  n1 = n1  n2 = n2  p = p  q = q  r = r  s = s
  Node = {n1}
  ApiThread = {a1, a2}
  Periodic = periodic
  Nobody = nobody
  Name = {p, q}
  Datasource = {q}
  Existing = {p}
  Rule = {r, s}
  Fact = {s}
  Recursive = {}
  Op <- EveryOp
  CallbackErrors = TRUE
  Replicated = FALSE
  MaxId = 4
  MaxRestarts = 0
INVARIANTS TypeOK PoliciesMatch
