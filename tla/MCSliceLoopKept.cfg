\* A static shared variable that each slice reads, in a program that does not
\* reset the library between slices.
CONSTANTS
  a = a
  s = s
  Local = {a}
  Shared = {s}
  Cases <- Popping
SPECIFICATION LoopSpec
INVARIANT MissesNothing
CHECK_DEADLOCK FALSE
