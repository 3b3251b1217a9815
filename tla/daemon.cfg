SPECIFICATION FairSpec
CONSTANTS
  Nobody = Nobody
  Tickets = {t1, t2}
  ChannelCap = 1
  MaxRequests = 2
  MaxVisits = 1
INVARIANT HandleMapInv
INVARIANT NothingOutlivesDaemon
PROPERTY ShutdownEnds
