SPECIFICATION Spec
CONSTANTS
  Procs = {p1, p2}
  Shas = {s1, s2, s3, s4}
  Branches = {main, topic}
  EmptyTree = empty
  Trees = {empty, code}
  Unborn = unborn
SYMMETRY Symmetry
INVARIANTS
  ReportedStaysReachable
  IInv
PROPERTIES
  NoCommitDropped
  RecordLeavesTreeAlone
  ImplementsLog
