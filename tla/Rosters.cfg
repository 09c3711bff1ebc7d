SPECIFICATION Spec
CONSTANTS
  EpochLength = 2
  MinSelfStake = 3
  MaxActive = 4
  MaxEpoch = 2
  KeptRosters = 2
  RosterPinned = TRUE
  FaultyKeys <- MCFaultyKeys
  HonestVotes <- MCHonestVotes
  ChainRoster <- MCChainRoster
  ChainHeader <- MCChainHeader
  Headers <- MCHeaders
  Certificates <- MCCertificates
  OfferedRosters <- MCOfferedRosters
INVARIANTS
  TrustedRostersAreReal
  FoundHeadersAreReal
  AnchorIsKept
  HonestAnswersPass
