\* Programs that assign a variable before they read it, in branches or not; one
\* that locks and unlocks a mutex twice is among them.
CONSTANTS
  Zone = {z1}
  Condition = {c1}
  NoCond = NoCond
  NoWrite = NoWrite
  MaxThread = 2
  MaxEvents = 5
SPECIFICATION Spec
INVARIANT SharedVarsAreMemory
CHECK_DEADLOCK FALSE
