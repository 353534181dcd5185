SPECIFICATION Spec
CONSTANTS
  Addresses <- Everyone
  NoIP = NoIP
  ClientA = ClientA
  ClientB = ClientB
  Server = Server
  Filters <- NoFilters
  Window = 2
  WireInputs <- TwoClients
  TextInputs <- VerifiedAndNot
  TestInputs <- PartialOnly
  MaxBuffered = 2
  MaxClock = 3
  LastArrival = 1
  MaxPackets = 2
  MaxPlaintexts = 2
INVARIANTS
  PlaintextsExportedOnce
  RecordsAgreeWithPcap
  VerifiedEndpointsKept
  CloseDrains
PROPERTIES
  AmbiguityIsFinal
CHECK_DEADLOCK FALSE
