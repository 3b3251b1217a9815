SPECIFICATION Spec
CONSTANTS
  parked = parked
  todo = todo
  doing = doing
  done = done
  gone = gone
  Rejected = Rejected
  Blank = blank
  NoTask = NoTask
  NoEntry = NoEntry
  NoTicket = NoTicket
  NoWebhook = NoWebhook
  TargetOf <- MCTargetOf
  Tickets = {t1}
  TaskIds = {k1, k2}
  Triples = {blank, todo}
  Payloads = {todo, Rejected}
  ChannelCap = 1
  MaxWebhooks = 3
SYMMETRY TaskSymmetry
INVARIANT ReadmissionTracked
