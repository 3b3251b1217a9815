SPECIFICATION Spec
CONSTANTS
  StateIds = {"a", "b", "h", "nowhere"}
  Directives = {"go", "retry", "skip", "end", "bogus"}
  Unset = Unset
  Rank <- MCRank
  DefaultCap = 2
  Garbled = Garbled
  NoOutcome = NoOutcome
  Workflows <- PairWorkflows
  Payloads <- RetryPayloads
  MaxCycles = 2
  MaxCrashes = 0
INVARIANT UndeclaredCapIsDefault
