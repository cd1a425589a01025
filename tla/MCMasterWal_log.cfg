CONSTANTS
  w1 = w1
  w2 = w2
  w3 = w3
  Torn = Torn
  Writes <- MCWrites
  MaxLookups = 1
  MaxCrashes = 2
  MaxErrors = 2
SPECIFICATION Spec
INVARIANTS LoggedStays NumbersOnce
PROPERTIES RefinesPrefixLog
CHECK_DEADLOCK FALSE
