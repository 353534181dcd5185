SPECIFICATION FairSpec
CONSTANTS
  MaxReceived = 1
  MaxSecrets = 2
INVARIANTS
  TypeOK
  StopIsComplete
  AnnouncedWhenOnDisk
  SecretsInOrder
PROPERTIES
  SigtermExits
  DeadlineExits
CHECK_DEADLOCK FALSE
