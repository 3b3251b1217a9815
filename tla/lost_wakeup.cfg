SPECIFICATION Spec
CONSTANTS
  parked = parked
  todo = todo
  doing = doing
  done = done
  gone = gone
  Rejected = Rejected
  Blank = blank
  NoTask = NoTask
  NoEntry = NoEntry
  NoTicket = NoTicket
  NoWebhook = NoWebhook
  TargetOf <- MCTargetOf
  Tickets = {t1}
  TaskIds = {k1, k2}
  Triples = {blank, todo, done}
  Payloads = {todo, done, Rejected}
  ChannelCap = 1
  MaxWebhooks = 2
SYMMETRY TaskSymmetry
INVARIANT LatestEvaluated
