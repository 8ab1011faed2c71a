SPECIFICATION SyntaxSpec
CONSTANTS
  MaxTermDepth = 12
  Seeds <- MCSeeds
  Edited <- MCEdited
  Inserted <- MCInserted
INVARIANTS
  OrphansHeld
  NothingLost
  SpansNest
  StatementsSurvive
  RoundTrip
PROPERTY
  ParserReturns
CHECK_DEADLOCK FALSE
