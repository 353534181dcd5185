SPECIFICATION FairSpec
CONSTANTS
  s1 = s1
  s2 = s2
  Sessions = {s1, s2}
  NoOne = NoOne
  Together <- Pairs
  MaxFailures = 1
INVARIANTS
  TypeOK
  CleanedUp
PROPERTIES
  RefusedHarmless
  GetsToCapture
CHECK_DEADLOCK FALSE
