SPECIFICATION Spec
CONSTANTS
  StateIds = {"a", "b", "c", "t"}
  Directives = {"go", "retry"}
  Unset = Unset
  Rank <- MCRank
  DefaultCap = 3
  Bodies <- MCBodies
INVARIANT SearchInv
INVARIANT CapsReachDisjointLoops
INVARIANT LoadingInv
