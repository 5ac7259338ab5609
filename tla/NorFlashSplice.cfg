CONSTANTS
  LastBlock = 1
  WordSize = 2
  BlockSize = 8
  bit = bit
  Bits <- MCBits
  Threshold = 4
  Headers <- MCHeaders
  HeadersLength = 4
  CheckedLength = 2
  FactoryImages <- MCFactoryImages
  Ranges <- Unaligned
  Buffers <- MCBuffers
  NoWrite = NoWrite
  MaxCalls = 2
  MaxFaults = 1
  MaxPowerLosses = 2

SPECIFICATION Spec
PROPERTIES SuccessIsStored
CHECK_DEADLOCK FALSE
