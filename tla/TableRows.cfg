SPECIFICATION FairSpec
CONSTANTS
  f1 = f1
  f2 = f2
  f3 = f3
  f4 = f4
  NoFlow = NoFlow
  Flows <- Four
  Time <- Times
  Kind <- Kinds
  KeepCount <- Keep
  MinShow = 2
  MaxShow = 3
  Regexes <- OldestAndNewest
  MaxRegexes = 1
INVARIANTS
  TypeOK
  NewestKept
  RowsOnce
  RowsInOrder
PROPERTIES
  NewestShown
CHECK_DEADLOCK FALSE
