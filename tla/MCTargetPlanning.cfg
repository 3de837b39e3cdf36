SPECIFICATION Spec
CONSTANTS
  Regions = {"r1", "r2"}
  DefaultRegion = "r2"
  Leaves = {"x", "y"}
  Parents = {"organization"}
  Holder <- MCHolder
  MaxTargets = 5
  AskedQueries <- MCQueries
INVARIANT NothingOutside
INVARIANT FoundOnce
INVARIANT PlansAreAskable
