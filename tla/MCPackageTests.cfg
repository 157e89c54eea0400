\* A package that is configured, and its test run.
\* The runner exits, and a configuration may fail.
CHECK_DEADLOCK FALSE
CONSTANTS
  A = A
  LIB = LIB
  x = x
  y = y
  Var = {A, LIB}
  LibraryPath = LIB
  Element <- Elements
  Nothing = Nothing
  Bases <- Environments
  Tests <- OneDir
  Direct <- ByHand
  NoTest = NoTest
  Codes <- SomeCodes
  Signals <- SomeSignals
  Versions <- Provided
  Requests <- UpToTwo
  Absent = Absent
  MaxCalls = 2
  Timeouts <- NoneZeroFive
SPECIFICATION PackageSpec
INVARIANTS
  PackageTypeOK
  RunsItsCommand
  RunsWhereAsked
  PassesIffCommandDoes
  TestsHaveCommands
  NewestSelected
  OneGoogletest
PROPERTIES
  Ends
