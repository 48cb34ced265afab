\* Two loops with bounds 2 and 1 among branches, at most 4 deep.
CONSTANTS
  outer = outer
  inner = inner
  Policy = {outer, inner}
  UnwindingBound <- BoundOf
  NoLoop = NoLoop
  Condition = {c1}
  NoCond = NoCond
  MaxReads = 1
  MaxEvents = 2
  MaxDepth = 4
  MaxBlocks = 9

SPECIFICATION Spec

INVARIANTS
  TypeOK
  LoopAssertsHold
  IterationsAccountedFor
  NestingIsOpen
  UnwoundInOrder

CHECK_DEADLOCK FALSE
