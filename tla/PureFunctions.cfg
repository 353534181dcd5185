SPECIFICATION FunctionsSpec
CONSTANTS
  Addresses <- BothEnds
  NoIP = NoIP
  Pod = Pod
  Peer = Peer
  PodStamps = {0}
  PeerStamps = {0, 1, 3}
  Window = 2
  Filters <- NoFilters
  MaxSeries = 2
  MaxDepth = 2
  PrefixBytes = 4
  Presets <- ClusterPresets
  SecureBase <- Base
  KnownVersions <- TlsVersions
  KnownCiphers <- TlsSuites
  KnownGroups <- TlsGroups
  Fixed <- FixedSuites
  MaxLayers = 5
  MaxTime = 4
  MaxAnswer = 3
INVARIANTS
  CandidatesShareTier
  NeverContradicts
  PayloadOutranksTime
  PlotsShareAxis
  PayloadsTransparent
  PayloadsShowText
  ProfilesHonoured
CHECK_DEADLOCK FALSE
