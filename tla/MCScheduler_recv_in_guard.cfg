SPECIFICATION Spec
CONSTANTS
  w1 = w1
  w2 = w2
  Workers = {w1}
  Poller = Poller
  None = None
  ProcsCap = 2
  Prog <- GuardProg
  Guard = {"recv", "receive", "recv_after"}
  TimerTargets = {2}
  DrainQuanta = 2
  MaxMbox = 2
  MaxOpen = 2
  MaxRefs = 0
  ProfOn = FALSE
  Signals = FALSE
INVARIANTS
  CursorOnPeeked
