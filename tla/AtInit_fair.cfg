\* Two threads and three registrations: what must happen, and the refinement
\* of the abstract stack.
CONSTANTS
  main = main
  worker = worker
  helper = helper
  c1 = c1
  c2 = c2
  c3 = c3
  c4 = c4
  NoThread = NoThread
  NoCallback = NoCallback
  Main = main
  Threads <- TwoThreads
  Callbacks <- ThreeCallbacks
  Priority <- Priorities
  InitialSize = 1
  UIntMax = 7
  Capacities <- UpToFour
SPECIFICATION FairSpec
PROPERTIES
  EveryCallbackRuns
  CallsReturn
  ImplementsStack
