CONSTANTS
  LastBlock = 3
  BlockUnits = 3
  a = a
  b = b
  c = c
  Names <- MCNames
  NoName = NoName
  Payloads = {x}
  Zero = Zero
  Erased = Erased
  Garbage = Garbage
  InitialMedia <- MCMedia
  Lengths = {1, 3}
  Positions = {0, 1}
  MaxCalls = 6
  MaxFaults = 0
  MaxPowerLosses = 0

SPECIFICATION Spec
INVARIANT DiskOrder
CHECK_DEADLOCK FALSE
