\* A slice loop: the first events of the main thread outlive reset().
CONSTANTS
  NoThread = NoThread
  Programs <- ResettingLoop
  MaxThreads = 4
  MaxEvents = 6

SPECIFICATION Spec

INVARIANTS
  UniqueIds

CHECK_DEADLOCK FALSE
