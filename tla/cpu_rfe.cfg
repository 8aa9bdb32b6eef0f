SPECIFICATION Spec
CONSTANTS
  AddrLimit = 64
  Segment = 32
  Mapped <- MCMapped
  Home <- MCHome
  Edge = {32}
  PortWord = {28}
  Asserts = FALSE
  Reg = {0, 31}
  Value = {0, 24}
  CopValue <- ModeValues
  Instr <- ModeInstr
  Noop <- MCNoop
  OpenBus <- MCOpenBus
  Patch <- ModePatch
  Images <- ModeImages
  ResetVector = 16
  ExcVector = 8
  RomExcVector = 40
  Deadlines = {3, 8}
PROPERTY
  RfeRestoresModes
CHECK_DEADLOCK FALSE
