SPECIFICATION FairSpec
CONSTANTS
  Clients = {c1, c2}
  Askers = {c1}
  Leavers = {c1}
  MaxAsks = 1
  MaxBars = 2
  Streams = {s1}
  MaxStarts = 2
  Nobody = Nobody
  InboxCap = 1
  OutboxCap = 1
  BarCap = 1
  QueryCap = 1
  NoticeCap = 1
CHECK_DEADLOCK FALSE
INVARIANTS
  CleanExitStores
  ThreadsWereSilenced
PROPERTIES
  ShutdownEnds
  CancelledAreUnregistered
