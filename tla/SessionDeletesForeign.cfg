SPECIFICATION Spec
CONSTANTS
  s1 = s1
  s2 = s2
  Sessions = {s1, s2}
  NoOne = NoOne
  Together <- Pairs
  MaxFailures = 1
PROPERTIES
  OthersKept
CHECK_DEADLOCK FALSE
