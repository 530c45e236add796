SPECIFICATION Spec
CONSTANTS
  Clients = {c1}
  NoClient = NoClient
  Symbols = {AAPL}
  Types = {A}
  TimeStream = TimeStream
  TimeAskers = {}
  Dates = {d1}
  NoDate = NoDate
  Leavers = {c1}
  InboxCap = 1
  OutboxCap = 1
  NoticeCap = 1
  MaxRequest = 1
INVARIANT LastUnsubIsHandled
