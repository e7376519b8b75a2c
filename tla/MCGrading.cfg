CONSTANTS
  None = None
  DigestCap = 90
  SampleCap = 3
  FrameSize = 10
  MarkerSize = 4
  Question = 5
  PromptCap = 100
  Repeats = 3
  Samples = 2
  Grades <- MCGrades
  Repositories <- MCRepositories
SPECIFICATION Spec
INVARIANTS
  TypeOK
  OnlyATrustedModelGrades
  DigestIsTrue
  DigestIsFair
  OnlyNumbersCostContent
PROPERTY GradingEnds
\* A candidate that has its outcome is done with.
CHECK_DEADLOCK FALSE
