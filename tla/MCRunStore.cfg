SPECIFICATION Spec
CONSTANTS
  Procs = {p1, p2, p3}
  r1 = r1
  r2 = r2
  app = app
  Ids = {r1, r2}
  Repos = {app}
  NoRun = none
  History = history
  Runs <- SomeRuns
SYMMETRY Symmetry
INVARIANTS
  NoHalfMigration
  RowsAreGuarded
  ToldIsTrue
  IInv
PROPERTY VersionNeverGoesBack
