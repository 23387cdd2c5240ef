-------------------------------- MODULE MCAtExit --------------------------------
(***************************************************************************)
(* A small process for TLC: the sizes of unsigned int and of the array are *)
(* scaled down, so that doubling and its overflow happen.                  *)
(***************************************************************************)
EXTENDS AtExit, TLC

CONSTANTS main, worker, helper, c1, c2, c3, c4, c5

TwoThreads     == {main, worker}
ThreeThreads   == {main, worker, helper}
TwoCallbacks   == {c1, c2}
ThreeCallbacks == {c1, c2, c3}
FiveCallbacks  == {c1, c2, c3, c4, c5}

\* unsigned int has three bits and the first array one cell: doubling reaches
\* 2 and 4 and then wraps, which the fifth callback sees; -1 is 7.
UpToFour == {1, 2, 4}

\* Threads are interchangeable but for the one that loads and unloads.
Symmetry == Permutations(Callbacks) \cup Permutations(Threads \ {Main})
=============================================================================
