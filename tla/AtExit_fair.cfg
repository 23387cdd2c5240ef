\* Two threads and three registrations, all of them distinct: what must happen,
\* and the refinement of the abstract stack.
CONSTANTS
  main = main
  worker = worker
  helper = helper
  c1 = c1
  c2 = c2
  c3 = c3
  c4 = c4
  c5 = c5
  NoThread = NoThread
  NoCallback = NoCallback
  Main = main
  Threads <- TwoThreads
  Callbacks <- ThreeCallbacks
  InitialSize = 1
  UIntMax = 7
  Capacities <- UpToFour
SPECIFICATION FairSpec
PROPERTIES
  EveryCallbackRuns
  CallsReturn
  ImplementsStack
