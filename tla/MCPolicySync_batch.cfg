\* One engine, rules in two policies, one restart.
SPECIFICATION FairSpec
CONSTANTS
  n1 = n1  n2 = n2  p = p  q = q  r = r  s = s
  Node = {n1}
  ApiThread = {a1}
  Periodic = periodic
  Nobody = nobody
  Name = {p, q}
  Datasource = {}
  Existing = {p, q}
  Rule = {r, s}
  Fact = {}
  Recursive = {}
  Op <- Inserts
  CallbackErrors = FALSE
  Replicated = FALSE
  MaxId = 4
  MaxRestarts = 1
PROPERTY EventuallyInSync
