\* Three threads and four registrations of three priorities: every safety
\* property.
CONSTANTS
  main = main
  worker = worker
  helper = helper
  c1 = c1
  c2 = c2
  c3 = c3
  c4 = c4
  NoThread = NoThread
  NoCallback = NoCallback
  Main = main
  Threads <- ThreeThreads
  Callbacks <- FourCallbacks
  Priority <- Priorities
  InitialSize = 1
  UIntMax = 7
  Capacities <- UpToFour
SYMMETRY Symmetry
SPECIFICATION Spec
INVARIANTS
  TypeOK
  LockDiscipline
  MemoryOK
  NeverEarly
  ExactlyOnce
  InitialisedBeforeMain
PROPERTIES
  RunOrder
