SPECIFICATION FairSpec
CONSTANTS
  Tickets = {t1, t2}
  DaemonWriter = DaemonWriter
  Anything = Anything
  RingSize = 2
  QueueCapacity = 1
  PageLimit = 2
  TicketWindow = 1
  MaxEvents = 4
  MaxEscalations = 2
  MaxBoots = 2
  MaxFaults = 1
  Scenes <- Groups
  Talkers = {t1}
  ChannelSize = 1
  MaxRows = 3
  MaxKeys = 3
INVARIANT LogInv
INVARIANT ViewInv
INVARIANT EscalationsAreLogged
PROPERTY HolesAreAnnounced
PROPERTY DetailSettles
PROPERTY RefreshEnds
