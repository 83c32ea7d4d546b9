CONSTANTS
  Builds <- AllBuilds
  HostKeySets <- SomeKeys
  ClientOffers <- FromClients
  ServerOffers <- FromServers

SPECIFICATION FairSpec
CHECK_DEADLOCK FALSE

INVARIANTS
  SidesAgree
  SameHash
PROPERTY
  Completes
