SPECIFICATION Spec
CONSTANTS
  Loops = {g1, g2}
  Restarters = {r1}
  Bars <- SomeBars
  Window = 2
  Opens <- TheOpen
  Close = 5
  End = 6
  MaxRestarts = 1
  Kills = TRUE
  DbFails = TRUE
CHECK_DEADLOCK FALSE
INVARIANTS
  TypeOK
  OneLoop
  FinishedIsComplete
PROPERTY ImplementsBarStream
