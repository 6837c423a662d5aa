SPECIFICATION Spec
CONSTANTS
  r1 = r1
  r2 = r2
  a = a
  b = b
  c = c
  Rids = {r1, r2}
  Codes = {a}
  Spin <- None
  Deaf <- None
  ParentIds = {0, 1}
  Ops <- Serving
  TasksOutlive = TRUE
INVARIANTS
  TypeOK
  SnapshotDag
  CellsAreWhole
PROPERTIES
  SnapshotsArePersistent
  RefinesSession
