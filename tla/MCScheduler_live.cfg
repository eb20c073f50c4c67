SPECIFICATION FairSpec
CONSTANTS
  w1 = w1
  w2 = w2
  Workers = {w1}
  Poller = Poller
  None = None
  ProcsCap = 2
  Prog <- LiveProg
  Guard = {}
  TimerTargets = {}
  DrainQuanta = 2
  MaxMbox = 1
  MaxOpen = 1
  MaxRefs = 0
  ProfOn = TRUE
  Signals = TRUE
PROPERTIES
  RecvAfterReturns
  MessageReceived
  RunEnds
