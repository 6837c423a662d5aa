SPECIFICATION FairSpec
CONSTANTS
  r1 = r1
  r2 = r2
  a = a
  b = b
  c = c
  Rids = {r1, r2}
  Codes = {a, b, c}
  Spin <- TwoSpin
  Deaf <- OneDeaf
  ParentIds = {0}
  Ops <- ExecRead
  TasksOutlive = FALSE
INVARIANTS
  RepliesInOrder
  CancelHitsOwnRequest
  OutputsRequestLocal
PROPERTIES
  EveryRequestAnswered
  CancelEndsElaboration
  ClosedPipeEndsWorker
