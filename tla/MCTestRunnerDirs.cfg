\* Tests with two library directories.
\* The runner exits.
CHECK_DEADLOCK FALSE
CONSTANTS
  A = A
  LIB = LIB
  x = x
  y = y
  Var = {A, LIB}
  LibraryPath = LIB
  Element <- Elements
  Nothing = Nothing
  Bases <- Environments
  Tests <- TwoDirs
  Direct <- NoDirect
  NoTest = NoTest
  Codes <- SomeCodes
  Signals <- SomeSignals
SPECIFICATION Spec
INVARIANTS
  RunsWhereAsked
