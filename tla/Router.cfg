SPECIFICATION FairSpec
CONSTANTS
  Requests = {r1, r2}
  Providers <- MCProviders
  KnownProviders <- MCKnown
  ConfiguredProviders <- MCConfigured
  ReliableProviders <- MCReliable
  UntimedStreams <- MCUntimed
  Canonicals <- MCCanonicals
  ProviderOf <- MCProviderOf
  CandidateLists <- MCLists
  ProviderRetryAttempts = 1
  FailureThreshold = 2
  RecoverySeconds = 1
  MaxTime = 2
INVARIANTS TypeOK AdmissionWindow TargetsInOrder
PROPERTIES MeetsContract RouteEnds
\* Every request ends and is not repeated.
CHECK_DEADLOCK FALSE
