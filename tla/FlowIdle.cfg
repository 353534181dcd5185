SPECIFICATION FairSpec
CONSTANTS
  MaxSize = 2
  ByteLimits = {3, 9}
  CountBytes = 7
  MaxTime = 1
  QueueLength = 2
PROPERTIES
  EndsInTime
CHECK_DEADLOCK FALSE
