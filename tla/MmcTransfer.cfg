CONSTANTS
  Lbas <- MCLbas
  MaxChunks = 2
  Retries = 3
  MaxFaults = 4

SPECIFICATION Spec

INVARIANT TypeOK
INVARIANT SuccessMeansMoved
INVARIANT FramesStayInRpmb
INVARIANT RpmbOnce
INVARIANT DriftIsReported
PROPERTY Terminates
