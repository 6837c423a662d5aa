SPECIFICATION Spec
CONSTANTS
  c1 = c1
  c2 = c2
  i = i
  a = a
  b = b
  blank = blank
  Cells = {c1, c2}
  Codes = {i, a, b}
  Blank = blank
  InitCell <- NoInit
  Docs <- OneEdit
  Kinds = {"cell"}
  CacheOn = FALSE
  Surprises <- None
  MaxInputs = 5
  MaxFaults = 0
INVARIANTS
  FreshOutputsCorrect
