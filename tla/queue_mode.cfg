SPECIFICATION FairSpec
CONSTANTS
  parked = parked
  todo = todo
  doing = doing
  done = done
  gone = gone
  Rejected = Rejected
  Blank = blank
  NoTask = NoTask
  NoEntry = NoEntry
  NoTicket = NoTicket
  NoWebhook = NoWebhook
  TargetOf <- MCTargetOf
  Tickets = {t1}
  TaskIds = {k1, k2}
  Triples = {blank, parked, todo, doing}
  Payloads = {parked, todo, doing}
  ChannelCap = 2
  MaxWebhooks = 4
INVARIANT WakeupPending
PROPERTY ChangeIsEvaluated
