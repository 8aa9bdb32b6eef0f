SPECIFICATION Spec
CONSTANTS
  Width = 12
  Reg = {0, 1, 2, 3, 4, 5, 6, 7}
  Starts <- MCStarts
INVARIANT ArithmeticShifts
CHECK_DEADLOCK FALSE
