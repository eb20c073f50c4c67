SPECIFICATION Spec
CONSTANTS
  w1 = w1
  w2 = w2
  Workers = {w1, w2}
  Poller = Poller
  None = None
  ProcsCap = 2
  Prog <- MailProg
  Guard = {"io"}
  TimerTargets = {2}
  DrainQuanta = 1
  MaxMbox = 2
  MaxOpen = 1
  MaxRefs = 0
  ProfOn = FALSE
  Signals = FALSE
SYMMETRY Sym
INVARIANTS
  TypeOK
  CursorOnPeeked
  SingleRunner
  NoLostWakeup
  NobodyForgotten
PROPERTIES
  TimeoutOnlyIfEmpty
