SPECIFICATION Spec
CONSTANTS
  a = a
  b = b
  Codes = {a, b}
  MaxCells = 4
  MaxFaults = 4
INVARIANTS
  TypeOK
  ConsoleStateFromLedger
  MatchingKeyLoadsLastCell
  ImportsDescend
PROPERTIES
  MappedOleansKept
