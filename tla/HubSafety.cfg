SPECIFICATION Spec
CONSTANTS
  Clients = {c1, c2}
  NoClient = NoClient
  Symbols = {AAPL}
  Types = {A}
  TimeStream = TimeStream
  TimeAskers = {}
  Dates = {d1, d2}
  NoDate = NoDate
  Leavers = {c1, c2}
  InboxCap = 1
  OutboxCap = 1
  NoticeCap = 2
  MaxRequest = 1
SYMMETRY Symmetry
CHECK_DEADLOCK FALSE
INVARIANTS
  ThreadsHaveSubscribers
  GoneHasNoStream
  SubscriptionsArePending
  ThreadsHaveSessions
