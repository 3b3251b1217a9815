SPECIFICATION FairLinearSpec
CONSTANTS
  Issues <- ThreeIssues
  PageSize = 2
  MaxRetries = 2
  MinBackoff = 1
  MaxBackoff = 3
  Cadence = 2
  RetryAfter = {0, 5}
  NoHeader = NoHeader
  NeedsViewer = TRUE
  Callers = {c1, c2}
  QueueSize = 1
INVARIANT ClientInv
PROPERTY PolledSinceAsked
PROPERTY NudgesAreAnswered
PROPERTY QueriesEnd
PROPERTY OutageIsPolled
