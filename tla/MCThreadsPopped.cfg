\* The constructor of class Thread, then end_main_thread().
CONSTANTS
  NoThread = NoThread
  Programs <- Constructing
  MaxThreads = 4
  MaxEvents = 6

SPECIFICATION Spec

INVARIANTS
  EndMainAllowed

CHECK_DEADLOCK FALSE
