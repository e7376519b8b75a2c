SPECIFICATION Spec
CONSTANTS
  Ranked <- TwoRepos
  Owner <- OneOwner
  Accounts <- SecondStarred
  Unheard = TRUE
  Limits = {1, 2, 3}
INVARIANTS
  IInv
  OnlyWhatWasAnswered
  ExitCodeIsHonest
  OutcomesCanBeBelieved
  IntentIsComplete
  EasyMeansReversible
PROPERTIES
  ImplementsApprovedWrites
  ReviewEnds
CHECK_DEADLOCK FALSE
