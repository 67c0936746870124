\* A derived table with two proofs, and a rule that yields a tuple in two ways from it.
SPECIFICATION Spec
CONSTANTS
  Atom <- ProjectedAtom
  Fact <- ProjectedFact
  Rule <- ProjectedRule
  UserRule <- ProjectedRule
  Instances <- ProjectedInstances
  Expansion <- ProjectedExpansion
  TableOf <- ProjectedTable
  MaxUpdates = 5
INVARIANT NothingStale
CHECK_DEADLOCK FALSE
