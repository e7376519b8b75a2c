CONSTANTS
  Repos = {r1, r2, r3}
  Limits <- MCLimits
  PageCap = 2
  Fallback = 2
  MaxWait = 3
  Times <- MCTimes
  Headers <- MCHeaders
  None = None
SPECIFICATION Spec
INVARIANTS
  TypeOK
  CompleteIsEarned
  ServerIsRespected
PROPERTY SearchEnds
\* A search is over when it has returned or raised.
CHECK_DEADLOCK FALSE
