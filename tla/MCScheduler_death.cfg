SPECIFICATION Spec
CONSTANTS
  w1 = w1
  w2 = w2
  Workers = {w1, w2}
  Poller = Poller
  None = None
  ProcsCap = 3
  Prog <- DeathProg
  Guard = {"receive"}
  TimerTargets = {}
  DrainQuanta = 2
  MaxMbox = 1
  MaxOpen = 2
  MaxRefs = 2
  ProfOn = FALSE
  Signals = FALSE
SYMMETRY Sym
INVARIANTS
  StopJustified
  DownAtMostOnce
PROPERTIES
  DownNotLost
