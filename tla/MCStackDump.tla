------------------------------ MODULE MCStackDump ------------------------------
(***************************************************************************)
(* Every call stack of a few frames, with everything that dladdr and the   *)
(* symbolizer can know of each of them.                                    *)
(***************************************************************************)
EXTENDS StackDump

\* At the symbol, near it, and beyond the window.
AtNearAndFar == {0, 1, 3}
=============================================================================
