SPECIFICATION Spec
CONSTANTS
  c1 = c1
  c2 = c2
  i = i
  a = a
  b = b
  blank = blank
  Cells = {c1, c2}
  Codes = {i, a, b}
  Blank = blank
  InitCell <- OneInit
  Docs <- Edits
  Kinds = {"cell", "query"}
  CacheOn = FALSE
  Surprises <- None
  MaxInputs = 6
  MaxFaults = 2
INVARIANTS
  TypeOK
  FreshIsVisiblePrefix
  NoHiddenStaleness
PROPERTIES
  NoRestartAfterInterrupt
