\* Both ways of recording threads, with one reset() or a slice loop.
CONSTANTS
  NoThread = NoThread
  Programs <- TestsAndBenchmarks
  MaxThreads = 4
  MaxEvents = 8

SPECIFICATION Spec

INVARIANTS
  TypeOK
  StackIsAncestry
  UniqueIds
  OneSender
  EncodedOrder

CHECK_DEADLOCK FALSE
