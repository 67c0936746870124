\* A derived table with two proofs, used by another and negated by a third.
SPECIFICATION Spec
CONSTANTS
  Atom <- MultiAtom
  Fact <- QSOnly
  Rule <- MultiRule
  UserRule <- MultiRule
  Instances <- MultiInstances
  Expansion <- MultiExpansion
  TableOf <- MultiTable
  MaxUpdates = 5
INVARIANTS NothingStale ViewsCorrect
CHECK_DEADLOCK FALSE
