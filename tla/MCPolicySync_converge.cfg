\* Two engines, a policy and its rules come and go, a restart.
SPECIFICATION FairSpec
CONSTANTS
  n1 = n1  n2 = n2  p = p  q = q  r = r  s = s
  Node = {n1, n2}
  ApiThread = {a1}
  Periodic = periodic
  Nobody = nobody
  Name = {p}
  Datasource = {}
  Existing = {}
  Rule = {r}
  Fact = {}
  Recursive = {}
  Op <- NoDeletePolicy
  CallbackErrors = TRUE
  Replicated = TRUE
  MaxId = 3
  MaxRestarts = 1
PROPERTY EventuallyInSync
