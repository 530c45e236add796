SPECIFICATION FairSpec
CONSTANTS
  Series = {s1}
  NoSeries = NoSeries
  Callers = {c1, c2}
  Tasks = {t1, t2}
  QueryCap = 1
  NoticeCap = 1
CHECK_DEADLOCK FALSE
INVARIANTS
  AnnouncedIsStored
  HydratingIsBacked
  AskedIsBacked
  CallersSingleFlight
  HubNeverStuck
PROPERTIES
  ImplementsService
  TasksFinish
  AskedIsSettled
