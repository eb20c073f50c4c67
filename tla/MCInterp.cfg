SPECIFICATION Spec
CONSTANTS
  Fns <- Functions
  Args <- Parameters
  Entry = "main"
  Native = "native"
  Timeouts = {0}
  MaxTemps = 2
  MaxDepth = 15
INVARIANTS StackAsCompiled
PROPERTY ImplementsCalls
CHECK_DEADLOCK FALSE
