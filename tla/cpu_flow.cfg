SPECIFICATION Spec
CONSTANTS
  AddrLimit = 64
  Segment = 32
  Mapped <- MCMapped
  Home <- MCHome
  Edge = {32}
  PortWord = {28}
  Asserts = TRUE
  Reg = {0, 31}
  Value = {0, 18, 28, 52}
  CopValue = {}
  Instr <- FlowInstr
  Noop <- MCNoop
  OpenBus <- MCOpenBus
  Patch <- FlowPatch
  Images <- FlowImages
  ResetVector = 16
  ExcVector = 8
  RomExcVector = 40
  Deadlines = {6}
INVARIANTS
  TypeOK
  Prefetched
  ReturnAddress
  Sequential
PROPERTY
  DiesAgain
CHECK_DEADLOCK FALSE
