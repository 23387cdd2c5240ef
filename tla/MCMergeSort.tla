------------------------------ MODULE MCMergeSort ------------------------------
(***************************************************************************)
(* Every array of at most MaxLength cells, with every assignment of the    *)
(* given priorities to its cells.  The elements are the numbers of the     *)
(* cells, so that equal priorities can be told apart; the last cell lies   *)
(* behind the n cells in use and must not be touched.                      *)
(***************************************************************************)
EXTENDS MergeSort

CONSTANTS MaxLength, Priorities

ASSUME MaxLengthAssumption == MaxLength \in Nat

\* An int in the code.
ASSUME PrioritiesAssumption == Priorities \subseteq Int

VARIABLES n, prio, arr, returned

vars == <<n, prio, arr, returned>>

Cells == [k \in 0..n |-> k]

Init ==
  /\ n \in 0..MaxLength
  /\ prio \in [0..n -> Priorities]
  /\ arr = Cells
  /\ returned = FALSE

Sort ==
  /\ ~ returned
  /\ arr' = Mergesort(arr, prio, n)
  /\ returned' = TRUE
  /\ UNCHANGED <<n, prio>>

Spec == Init /\ [][Sort]_vars

\* The sort of mulle-atinit.c, whose merge prefers the right half on ties,
\* arranges the calls so that taking them from the end yields falling
\* priorities, and registration order among equals.
SortsByRank == returned => arr = ByRank(Cells, prio, n)

\* The sort moves cells around and neither loses, duplicates nor invents one,
\* and it leaves alone what lies behind the cells in use.
Permutes == {arr[k] : k \in 0..n} = 0..n /\ arr[n] = n
=============================================================================
