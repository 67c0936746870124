\* Two rules that each join a table with itself.
SPECIFICATION Spec
CONSTANTS
  Atom <- JoinAtom
  Fact <- Q1Only
  Rule <- JoinRule
  UserRule <- JoinUserRule
  Instances <- JoinInstances
  Expansion <- JoinExpansion
  TableOf <- JoinTable
  MaxUpdates = 3
INVARIANT HelpersDefined
CHECK_DEADLOCK FALSE
