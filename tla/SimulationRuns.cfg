SPECIFICATION FairSpec
CONSTANTS
  Handlers = {h1, h2}
  Threads = {t1}
  Slots = {s1, s2}
  InboxCap = 1
  MaxEpoch = 2
CHECK_DEADLOCK FALSE
INVARIANTS
  ThreadsFollowTheClock
PROPERTIES
  StreamsGoForward
  RestartReturns
