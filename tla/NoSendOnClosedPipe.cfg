SPECIFICATION Spec
CONSTANTS
  Configs = {x}
  Handlers = {}
  Pipes = {p1}
  ChanCap = 1
  MaxElapsed = 1
INVARIANT NoSendOnClosedPipe
