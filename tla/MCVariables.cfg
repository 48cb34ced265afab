\* Two scalars and an array of two elements, with one branch in another.
CONSTANTS
  Scalar = {a}
  Array = {xs}
  Index = {0, 1}
  MaxOps = 5
  MaxDepth = 2

SPECIFICATION Spec

INVARIANTS
  TypeOK
  ConditionsAreArms
  WritesAreTheProgram

CHECK_DEADLOCK FALSE
