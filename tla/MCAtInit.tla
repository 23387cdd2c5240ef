-------------------------------- MODULE MCAtInit --------------------------------
(***************************************************************************)
(* A small process for TLC: the sizes of unsigned int and of the array are *)
(* scaled down, so that doubling happens.                                  *)
(***************************************************************************)
EXTENDS AtInit, TLC

CONSTANTS main, worker, helper, c1, c2, c3, c4

TwoThreads     == {main, worker}
ThreeThreads   == {main, worker, helper}
TwoCallbacks   == {c1, c2}
ThreeCallbacks == {c1, c2, c3}
FourCallbacks  == {c1, c2, c3, c4}

\* Two equal priorities, a higher and a lower one.
Priorities == [c \in Callbacks |-> CASE c \in {c1, c2} -> 0 [] c = c3 -> 1 [] c = c4 -> -1]

\* unsigned int has three bits and the first array one cell; -1 is 7.
UpToFour == {1, 2, 4}

\* Threads are interchangeable but for the one that loads, and callbacks are
\* if they have the same priority.
Symmetry == Permutations({c1, c2}) \cup Permutations(Threads \ {Main})
=============================================================================
