SPECIFICATION Spec
CONSTANTS
  p1 = p1
  p2 = p2
  p3 = p3
  Procs = {p1, p2, p3}
  Payloads = {x1, x2}
  Main = p1
  MaxTree = 2
  MaxHeaders = 4
  MaxMail = 1
SYMMETRY Sym
INVARIANTS TypeOK OneOwner ReleasedOnce NothingLeaks
PROPERTY ImplementsOwnership
CHECK_DEADLOCK FALSE
