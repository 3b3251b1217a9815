SPECIFICATION FairSpec
CONSTANTS
  StateIds = {"a", "b", "h", "nowhere"}
  Directives = {"go", "retry", "skip", "end", "bogus"}
  Unset = Unset
  Rank <- MCRank
  DefaultCap = 2
  Garbled = Garbled
  NoOutcome = NoOutcome
  Workflows <- MCWorkflows
  Payloads <- MCPayloads
  MaxCycles = 2
  MaxCrashes = 1
INVARIANT EngineInv
INVARIANT DriftsByBuiltin
PROPERTY CycleEnds
PROPERTY ImplementsHistory
