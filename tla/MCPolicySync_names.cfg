\* A policy with the name of a datasource.
SPECIFICATION FairSpec
CONSTANTS
  n1 = n1  n2 = n2  p = p  q = q  r = r  s = s
  Node = {n1}
  ApiThread = {a1}
  Periodic = periodic
  Nobody = nobody
  Name = {p, q}
  Datasource = {q}
  Existing = {}
  Rule = {r}
  Fact = {}
  Recursive = {}
  Op <- Creations
  CallbackErrors = FALSE
  Replicated = FALSE
  MaxId = 2
  MaxRestarts = 0
PROPERTY EventuallyInSync
