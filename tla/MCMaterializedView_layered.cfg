\* Views over facts and over other views; facts also of a table that rules define.
SPECIFICATION FairSpec
CONSTANTS
  Atom <- LayeredAtom
  Fact <- LayeredFact
  Rule <- LayeredRule
  UserRule <- LayeredRule
  Instances <- LayeredInstances
  Expansion <- LayeredExpansion
  TableOf <- LayeredTable
  MaxUpdates = 4
INVARIANTS TypeOK NothingStale NothingMissing
PROPERTY UpdateTerminates
CHECK_DEADLOCK FALSE
