SPECIFICATION FairSpec
CONSTANTS
  c1 = c1
  c2 = c2
  i = i
  a = a
  b = b
  blank = blank
  Cells = {c1}
  Codes = {i, a}
  Blank = blank
  InitCell <- OneInit
  Docs <- AnyDocs
  Kinds = {"cell", "console", "query"}
  CacheOn = TRUE
  Surprises <- Everything
  MaxInputs = 4
  MaxFaults = 2
INVARIANTS
  NoHiddenStaleness
PROPERTIES
  EveryJobEnds
