SPECIFICATION ServiceSpec
CONSTANTS
  Loops = {g1, g2}
  Restarters = {r1}
  Bars <- SomeBars
  Window = 2
  Opens <- TheOpen
  Close = 5
  End = 6
  MaxRestarts = 1
  Kills = FALSE
  DbFails = FALSE
CHECK_DEADLOCK FALSE
PROPERTIES
  RestartReturns
  LoopsEnd
