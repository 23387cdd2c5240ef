\* Three threads and five registrations: every safety property.
CONSTANTS
  main = main
  worker = worker
  helper = helper
  c1 = c1
  c2 = c2
  c3 = c3
  c4 = c4
  c5 = c5
  NoThread = NoThread
  NoCallback = NoCallback
  Main = main
  Threads <- ThreeThreads
  Callbacks <- FiveCallbacks
  InitialSize = 1
  UIntMax = 7
  Capacities <- UpToFour
SYMMETRY Symmetry
SPECIFICATION Spec
INVARIANTS
  TypeOK
  LockDiscipline
  MemoryOK
  NeverEarly
  ExactlyOnce
  NoneStranded
PROPERTIES
  LastInFirstOut
