\* Two collections; pushes and pops of a main thread and two children may lie
\* in branches on one condition.
CONSTANTS
  Zone = {z1, z2}
  Condition = {c1}
  NoCond = NoCond
  NoWrite = NoWrite
  MaxThread = 2
  MaxEvents = 4

SYMMETRY Symmetry

SPECIFICATION Spec

INVARIANTS
  ModelsAreStackRuns
  NestedRunsHaveModels
  ReadOnceIsMemory

CHECK_DEADLOCK FALSE
