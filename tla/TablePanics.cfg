SPECIFICATION Spec
CONSTANTS
  f1 = f1
  f2 = f2
  f3 = f3
  f4 = f4
  NoFlow = NoFlow
  Flows <- Three
  Time <- TimesOfThree
  Kind <- KindsOfThree
  KeepCount <- Keep
  MinShow = 1
  MaxShow = 2
  Regexes = {}
  MaxRegexes = 1
INVARIANTS
  NoPanic
CHECK_DEADLOCK FALSE
