\* Programs of one thread: at most 3 events, 2 branches open at a time.
CONSTANTS
  Condition = {c1, c2}
  NoCond = NoCond
  MaxReads = 1
  MaxEvents = 3
  MaxDepth = 2
  MaxBlocks = 7

SYMMETRY Symmetry

SPECIFICATION OrderSpec

INVARIANTS
  TypeOK
  AssertsHold
  WalkIsRecordingOrder
  GuardsFollowBlocks
  PathFollowsArms
  Shape

PROPERTY ImplementsProgramOrder

CHECK_DEADLOCK FALSE
