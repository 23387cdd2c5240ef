\* Two threads, one of them with every input, and a creation that may fail.
\* The calls of a thread end, or a wild pointer ends the process.
CHECK_DEADLOCK FALSE
CONSTANTS
  one = one
  two = two
  NoState = NoState
  Threads <- TwoThreads
  Stacks <- SomeStacks
  Offsets <- SomeOffsets
  Formats <- SomeFormats
  MayFail = TRUE
  MaxCalls <- OneAndTwo
SPECIFICATION Spec
INVARIANTS
  TypeOK
  FramesShown
  FramesNamed
  OneFramePerLine
  WalksWithState
  OneStateEach
