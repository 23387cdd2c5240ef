\* The documented filter.
\* The calls of a thread end, or a wild pointer ends the process.
CHECK_DEADLOCK FALSE
CONSTANTS
  one = one
  two = two
  NoState = NoState
  Threads <- OneThread
  Stacks <- OneStacks
  Offsets <- OneOffset
  Formats <- AllOfOne
  MayFail = FALSE
  MaxCalls <- OnlyOne
SPECIFICATION Spec
INVARIANTS
  UninterestingFiltered
