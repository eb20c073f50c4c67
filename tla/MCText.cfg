SPECIFICATION Spec
CONSTANTS
  IntBits = 8
  CIntBits = 4
  Bytes = {32, 37, 50, 61, 98, 255}
  MaxAlone = 6
  MaxBoth = 4
  MaxT = 2
INVARIANTS CodecsInvert BuffersSuffice SplitsAgree NumbersInvert
CHECK_DEADLOCK FALSE
