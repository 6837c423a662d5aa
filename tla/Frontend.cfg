SPECIFICATION FairSpec
CONSTANTS
  c1 = c1
  a = a
  b = b
  Panels = {p1}
  Ids = {c1}
  Sources = {a, b}
  File <- AsSaved
  Notebooks <- OneCell
  Kinds = {"nbdsl", "other"}
  MaxEvents = 3
INVARIANTS
  TypeOK
  DocumentBeforeExecution
  SettledInAgreement
PROPERTIES
  EditsArrive
