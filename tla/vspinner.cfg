SPECIFICATION FairSpec
CONSTANTS
  Kinds = {"spinner"}
  Levels = {"warning"}
  LogsResults = {"stream"}
CHECK_DEADLOCK FALSE
PROPERTY CancelReturns
