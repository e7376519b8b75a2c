CONSTANTS
  first = first
  second = second
  Found <- MCFound
  None = None
SPECIFICATION Spec
INVARIANTS
  TypeOK
  FailuresAreReported
  MaliciousIsLeftAlone
  ReplayIsFaithful
\* A run is over when its replay is.
CHECK_DEADLOCK FALSE
