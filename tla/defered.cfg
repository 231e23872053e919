SPECIFICATION FairSpec
CONSTANTS
  Kinds = {"plain", "spinner", "logs"}
  Levels = {"info", "warning"}
  LogsResults = {"stream", "error"}
\* Below the info level and after an error of GetLogs, cancel blocks forever.
CHECK_DEADLOCK FALSE
INVARIANTS
  TypeOK
  SilentAfterCancel
  SpinnerIsEnded
PROPERTIES
  CancelReturnsBut
  LogsReleased
