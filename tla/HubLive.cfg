SPECIFICATION FairSpec
CONSTANTS
  Clients = {c1, c2}
  NoClient = NoClient
  Symbols = {AAPL}
  Types = {A}
  TimeStream = TimeStream
  TimeAskers = {c1}
  Dates = {d1}
  NoDate = NoDate
  Leavers = {c1}
  InboxCap = 1
  OutboxCap = 1
  NoticeCap = 1
  MaxRequest = 1
CHECK_DEADLOCK FALSE
PROPERTIES
  ConnectingClientsAreServed
  NoticesAreServed
