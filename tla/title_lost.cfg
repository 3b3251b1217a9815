SPECIFICATION Spec
CONSTANTS
  NoMatcher = NoMatcher
  None = None
  Malformed = Malformed
  Open = Open
  Latest = 2
  t1 = t1
  t2 = t2
  me = me
  other = other
  stray = stray
  Tickets = {t1, t2}
  Stray = stray
  Me = me
  Files <- AllFiles
  States <- AllStates
  FirstVersions = {1}
  Legacy = 0
  LegacyRepo = "r1"
  MaxBoots = 1
  MaxCycles = 1
  MaxEdits = 1
INVARIANT CyclesSeeTheTitle
