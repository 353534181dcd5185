SPECIFICATION FairSpec
CONSTANTS
  p1 = p1
  p2 = p2
  PromQLs = {p1, p2}
  NoAnswer = NoAnswer
  Panels <- OnePanel
  Durations = {1, 2}
  Selectable = {p2}
  Goroutines = {1, 2}
INVARIANTS
  TypeOK
  GraphsAsBuilt
PROPERTIES
  Settles
CHECK_DEADLOCK FALSE
