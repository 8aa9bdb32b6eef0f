SPECIFICATION Spec
CONSTANTS
  RamSize = 4
  RomSize = 4
  SpuSkip = 424
  SpuSize = 8
  RamAt <- MCRamAt
  RomAt <- MCRomAt
  IcAt = 64
  DmaAt = 80
  SpuAt = 96
  Asserts = TRUE
  Byte <- MCByte
  Stores <- MCStores
  Pins = {3, 9}
INVARIANTS
  TypeOK
  SpuStatusMirrors
PROPERTIES
  RequestedOnEdge
  SlicesIsolated
  ImplementsRegisters
CHECK_DEADLOCK FALSE
