SPECIFICATION Spec
CONSTANTS
  c1 = c1
  c2 = c2
  i = i
  a = a
  b = b
  blank = blank
  Cells = {c1, c2}
  Codes = {i, a, b}
  Blank = blank
  InitCell <- NoInit
  Docs <- NoDocs
  Kinds = {"console", "query", "is_complete"}
  CacheOn = TRUE
  Surprises <- Replaying
  MaxInputs = 4
  MaxFaults = 3
INVARIANTS
  ReplStateFromLedger
  AckedCellsKept
PROPERTIES
  RestoreRendersLedger
  NoRestartAfterInterrupt
