CONSTANTS
  a = a
  s = s
  Local = {a}
  Shared = {s}
  Cases <- AllCases

SPECIFICATION LoopSpec

INVARIANTS
  LoopTypeOK
  EveryPath
  NeverSliced
  OneSide
  Balanced
  CountBound
  SliceIsExact
  MissesNothing

PROPERTIES
  FlipsOne
  Terminates

CHECK_DEADLOCK FALSE
