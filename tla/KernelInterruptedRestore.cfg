SPECIFICATION Spec
CONSTANTS
  c1 = c1
  c2 = c2
  i = i
  a = a
  b = b
  blank = blank
  Cells = {c1, c2}
  Codes = {i, a, b}
  Blank = blank
  InitCell <- NoInit
  Docs <- NoDocs
  Kinds = {"console"}
  CacheOn = TRUE
  Surprises <- Striking
  MaxInputs = 3
  MaxFaults = 2
PROPERTIES
  NoRestartAfterInterrupt
