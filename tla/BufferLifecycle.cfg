SPECIFICATION FairSpec
CONSTANTS
  Addresses <- Everyone
  NoIP = NoIP
  ClientA = ClientA
  ClientB = ClientB
  Server = Server
  Filters <- NoFilters
  Window = 1
  WireInputs <- RequestAndReply
  TextInputs <- OneWrite
  TestInputs = {}
  MaxBuffered = 2
  MaxClock = 2
  LastArrival = 1
  MaxPackets = 3
  MaxPlaintexts = 1
INVARIANTS
  TypeOK
  PacketsInOrder
PROPERTIES
  KeepsPromise
  EveryPacketWritten
  EveryPlaintextExported
CHECK_DEADLOCK FALSE
