SPECIFICATION Spec
CONSTANTS
  Ranked <- TwoRepos
  Owner <- OneOwner
  Accounts <- EmptyOrNot
  Unheard = FALSE
  Limits = {1}
INVARIANT UndoErasesOnlyOwnState
CHECK_DEADLOCK FALSE
