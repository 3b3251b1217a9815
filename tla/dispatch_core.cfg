SPECIFICATION ExecutorFairSpec
CONSTANTS
  parked = parked
  todo = todo
  doing = doing
  done = done
  gone = gone
  Rejected = Rejected
  Blank = blank
  NoTask = NoTask
  NoEntry = NoEntry
  NoTicket = NoTicket
  NoWebhook = NoWebhook
  TargetOf <- MCTargetOf
  Tickets = {t1}
  TaskIds = {k1, k2}
  Triples = {blank, parked, todo, done, gone}
  Payloads = {parked, todo, done, gone, Rejected}
  ChannelCap = 2
  MaxWebhooks = 3
INVARIANT SingleFlight
INVARIANT InFlightTracked
PROPERTY DispatcherNeverBlocks
PROPERTY RevocationSettled
PROPERTY ImplementsLifecycle
