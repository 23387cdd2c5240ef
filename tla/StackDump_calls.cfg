CONSTANTS
  MaxFrames = 2
  Window = 2
  Distances <- AtNearAndFar
SPECIFICATION Spec
INVARIANTS
  TypeOK
  FramesShown
  Bracketed
  SymbolizerSession
\* A call returns once.
CHECK_DEADLOCK FALSE
