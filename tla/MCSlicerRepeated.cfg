\* A branch that the program meets twice in one run.
CONSTANT
  Cases <- RepeatedLocation

SPECIFICATION Spec

INVARIANT EveryPath

CHECK_DEADLOCK FALSE
