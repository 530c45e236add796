SPECIFICATION FairSpec
CONSTANTS
  Configs = {x, y}
  Handlers = {h1, h2}
  Pipes = {p1}
  ChanCap = 1
  MaxElapsed = 2
CHECK_DEADLOCK FALSE
INVARIANTS
  OneAnswerEach
  SettledOnConfig
  LivePipesAreServed
  LastRequestStands
PROPERTIES
  ImplementsRestartService
  LastAnswerIsOwn
  RestartReturns
  RequestsTakeEffect
