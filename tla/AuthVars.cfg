CONSTANTS
  PoolPages = 10
  Clients <- MCClients
  Wrap = 4
  NoHeader = NoHeader
  PK = PK
  SetupMode = SetupMode
  SecureBootEnable = SecureBootEnable
  SecureBoot = SecureBoot
  CustomMode = CustomMode
  Absent = Absent
  Zero = Zero
  InitialStores <- MCStores
  CallerReads <- MCReads
  CallerSets <- MCSets
  EventCalls <- MCEvents
  PcdSecureBootEnable = 1
  MaxFaults = 1
  MaxCallbacks = 1
  MaxWorldBlocks = 1

SPECIFICATION Spec

INVARIANT TypeOK
INVARIANT BlocksAccounted
INVARIANT CountersBalance
INVARIANT NoFalseOverflow
INVARIANT TransportReady
INVARIANT RepliesMatch
INVARIANT PolicyMatchesStore
 
PROPERTY HeapSpec
 
CHECK_DEADLOCK FALSE
