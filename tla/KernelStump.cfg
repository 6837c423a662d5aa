SPECIFICATION Spec
CONSTANTS
  c1 = c1
  c2 = c2
  i = i
  a = a
  b = b
  blank = blank
  Cells = {c1, c2}
  Codes = {i, a, b}
  Blank = blank
  InitCell <- OneInit
  Docs <- NoDocs
  Kinds = {"console", "query"}
  CacheOn = FALSE
  Surprises <- Diverging
  MaxInputs = 4
  MaxFaults = 2
INVARIANTS
  ReplStateIsLedger
