\* One engine, a rule is inserted while its policy is deleted.
SPECIFICATION Spec
CONSTANTS
  n1 = n1  n2 = n2  p = p  q = q  r = r  s = s
  Node = {n1}
  ApiThread = {a1, a2}
  Periodic = periodic
  Nobody = nobody
  Name = {p}
  Datasource = {}
  Existing = {p}
  Rule = {r}
  Fact = {}
  Recursive = {}
  Op <- Orphaning
  CallbackErrors = FALSE
  Replicated = FALSE
  MaxId = 2
  MaxRestarts = 0
INVARIANT RulesHavePolicies
