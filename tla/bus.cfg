SPECIFICATION Spec
CONSTANTS
  Device = {"ctrl", "timer"}
  Layout <- MCLayout
  Ranges <- MCRanges
  MemBytes = 8
  Byte = {0, 255}
  ZeroByte = 0
  OpenByte = 255
  Asserts = FALSE
  Addresses = {15, 16, 17, 19, 21, 23, 34}
  Values <- MCValues
INVARIANT
  TypeOK
PROPERTIES
  PortsReached
  CallbackValues
CHECK_DEADLOCK FALSE
