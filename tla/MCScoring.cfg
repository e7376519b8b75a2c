CONSTANTS
  None = None
  Repos = {1, 2}
  PageSize = 2
  Truths <- MCTruths
  Weights <- MCWeights
SPECIFICATION Spec
INVARIANTS
  TypeOK
  RefusalsDoNotMislead
  ExplanationAddsUp
  QueueForgetsArrival
\* A run is over when its candidates have been ranked.
CHECK_DEADLOCK FALSE
