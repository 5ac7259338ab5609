CONSTANTS
  Lbas <- MCLbas
  MaxChunks = 2
  Retries = 3
  MaxFaults = 4

SPECIFICATION Spec

INVARIANT AllBlocksOrError
