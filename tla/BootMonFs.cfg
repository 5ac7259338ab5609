CONSTANTS
  LastBlock = 3
  BlockUnits = 3
  a = a
  b = b
  c = c
  Names <- MCNames
  NoName = NoName
  Payloads = {x}
  Zero = Zero
  Erased = Erased
  Garbage = Garbage
  InitialMedia <- MCMedia
  Lengths = {1, 3}
  Positions = {0, 1}
  MaxCalls = 4
  MaxFaults = 1
  MaxPowerLosses = 1

SPECIFICATION FairSpec
INVARIANTS TypeOK FilesApart ScanFindsList 
PROPERTIES  Terminates
CHECK_DEADLOCK FALSE
