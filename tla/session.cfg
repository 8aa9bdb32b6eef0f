SPECIFICATION Spec
CONSTANTS
  ClockLimit = 6
  Deadlines = {0, 2, 4}
  Programs <- MCPrograms
INVARIANTS
  TypeOK
  TicksAccounted
  DeadlineKept
PROPERTIES
  FatalStaysFatal
  ImplementsCheckpoints
  ProcessEnds
CHECK_DEADLOCK FALSE
