SPECIFICATION FairSpec
CONSTANTS
  a1 = a1
  a2 = a2
  Actors = {a1, a2}
  Does <- Duties
  MaxFd = 2
  MaxHeld = 1
  Timeouts = {1}
INVARIANTS TypeOK OneRequest NothingLeaks DeadlineIsBudget
PROPERTIES ResultOfThisCall ConnectReturns
