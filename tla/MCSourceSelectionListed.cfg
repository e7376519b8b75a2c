CONSTANTS
  MaxEntries = 3
  Trees <- MCTrees
  FileCap = 2
  TotalCap = 3
  CountCap = 1
SPECIFICATION Spec
INVARIANT CompleteForRepositoryIsSo
\* A repository has been read when fetch_files returned or raised.
CHECK_DEADLOCK FALSE
