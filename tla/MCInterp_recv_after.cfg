SPECIFICATION Spec
CONSTANTS
  Fns <- Functions
  Args <- Parameters
  Entry = "main"
  Native = "native"
  Timeouts = {0, 1}
  MaxTemps = 2
  MaxDepth = 15
INVARIANT StackAsCompiled
CHECK_DEADLOCK FALSE
