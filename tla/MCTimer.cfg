SPECIFICATION Spec
CONSTANTS
  Callers = {c1}
  Targets = {p1, p2}
  Delays = {0, 1, 2}
  MaxTimers = 2
  MaxNow = 3
SYMMETRY Symmetry
INVARIANTS TypeOK OneShotOnce CancelNotLost IntervalNeverEnds
PROPERTIES CancelStops OncePerTick
