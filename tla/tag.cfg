SPECIFICATION Spec
CONSTANTS
  Versions <- SomeVersions
  CliVersions <- SomeVersions
  Unparsable = Unparsable
  Dev = Dev
  Latest = Latest
  None = None
\* GetCompatibleTag returns.
CHECK_DEADLOCK FALSE
INVARIANTS
  TypeOK
  NewestCompatible
  TellsReleases
