SPECIFICATION Spec
CONSTANTS
  MaxReceived = 2
  MaxSecrets = 0
INVARIANTS
  ExitLosesNoPacket
CHECK_DEADLOCK FALSE
