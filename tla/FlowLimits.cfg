SPECIFICATION TrafficSpec
CONSTANTS
  MaxSize = 2
  ByteLimits = {3, 9}
  CountBytes = 7
  MaxTime = 1
  QueueLength = 2
INVARIANTS
  TypeOK
  OneFlowOverLimit
  DeletedOnce
PROPERTIES
  LimitExits
  EndsInTime
CHECK_DEADLOCK FALSE
