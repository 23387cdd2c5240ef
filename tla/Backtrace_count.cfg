\* The documented number of frames.
\* The calls of a thread end, or a wild pointer ends the process.
CHECK_DEADLOCK FALSE
CONSTANTS
  one = one
  two = two
  NoState = NoState
  Threads <- OneThread
  Stacks <- OneStacks
  Offsets <- OneOffset
  Formats <- LinesOfOne
  MayFail = FALSE
  MaxCalls <- OnlyOne
SPECIFICATION Spec
INVARIANTS
  CountIsFrameCount
