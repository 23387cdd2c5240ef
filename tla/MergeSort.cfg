\* All arrays of up to six cells with three different priorities.
CONSTANTS
  MaxLength = 6
  Priorities = {0, 1, 2}
SPECIFICATION Spec
INVARIANTS
  SortsByRank
  Permutes
\* A function returns once.
CHECK_DEADLOCK FALSE
