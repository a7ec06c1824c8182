SPECIFICATION FairSpec
CONSTANTS
  MaxRetries = 3
  MaxFaults = 2
  MaxServerFaults = 1
  MaxBoots = 1
INVARIANTS
  TypeOK
  RegisteredMeansRow
  NoNeedlessRetry
  FaultCost
  GroupOutlivesClient
PROPERTIES
  RegistrationEnds
