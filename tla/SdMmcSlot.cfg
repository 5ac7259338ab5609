CONSTANTS
  h1 = h1
  h2 = h2
  s1 = s1
  m1 = m1
  m2 = m2
  NoCard = NoCard
  Hosts <- MCHosts
  SdCards <- MCSdCards
  MmcCards <- MCMmcCards
  CallerTpls <- AtCallback
  RecoveryThreshold = 2
  MaxChunks = 1
  MaxFaults = 2
  MaxCardEvents = 2

SPECIFICATION FairSpec

INVARIANT TypeOK
INVARIANT AtMostOneRpmb
INVARIANT PublishedIsInitialized
 
INVARIANT RecoveryCounted
PROPERTY WithdrawnBeforeForgotten
PROPERTY PresenceTracked
CHECK_DEADLOCK FALSE
