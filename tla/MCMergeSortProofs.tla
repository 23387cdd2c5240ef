--------------------------- MODULE MCMergeSortProofs ---------------------------
(***************************************************************************)
(* The two properties of the sort that TLC checks for short arrays, proved *)
(* for arrays of any length and any set of integer priorities.             *)
(***************************************************************************)
EXTENDS MCMergeSort, MergeSortProofs

\* Before the call the array is as it was filled, afterwards it is sorted.
SortInv ==
  /\ n \in Nat
  /\ prio \in [0..n -> Int]
  /\ returned \in BOOLEAN
  /\ arr = IF returned THEN Mergesort(Cells, prio, n) ELSE Cells

LEMMA CellsSortable ==
  ASSUME n \in Nat, prio \in [0..n -> Int]
  PROVE  Sortable(Cells, prio, 0..(n - 1)) /\ DOMAIN Cells \subseteq Nat
<1>1. \A k \in 0..(n - 1) : Cells[k] = k /\ prio[Cells[k]] \in Int /\ k \in DOMAIN Cells
  BY DEF Cells
<1>2. IsArray(Cells) /\ DOMAIN Cells \subseteq Nat
  BY DEF Cells, IsArray
<1> QED BY <1>1, <1>2 DEF Sortable

LEMMA InitSortInv == Init => SortInv
<1> SUFFICES ASSUME Init PROVE SortInv
  OBVIOUS
<1>1. n \in Nat /\ returned = FALSE /\ arr = Cells
  BY MaxLengthAssumption DEF Init
<1>2. prio \in [0..n -> Int]
  BY PrioritiesAssumption DEF Init
<1> QED BY <1>1, <1>2 DEF SortInv

LEMMA NextSortInv ==
  ASSUME SortInv, [Sort]_vars
  PROVE  SortInv'
<1>1. CASE Sort
  <2>1. n' = n /\ prio' = prio /\ Cells' = Cells /\ returned' = TRUE /\ arr' = Mergesort(arr, prio, n) /\ ~ returned
    BY <1>1 DEF Sort, Cells
  <2>2. arr = Cells
    BY <2>1 DEF SortInv
  <2> QED BY <2>1, <2>2 DEF SortInv
<1>2. CASE UNCHANGED vars
  BY <1>2 DEF vars, SortInv, Cells
<1> QED BY <1>1, <1>2

LEMMA SortInvIsByRank ==
  ASSUME SortInv
  PROVE  SortsByRank
<1>1. Mergesort(Cells, prio, n) = ByRank(Cells, prio, n)
  BY CellsSortable, MergesortByRank DEF SortInv
<1> QED BY <1>1 DEF SortInv, SortsByRank

LEMMA SortInvPermutes ==
  ASSUME SortInv
  PROVE  Permutes
<1>1. n \in Nat /\ n \notin 0..(n - 1) /\ 0..n = 0..(n - 1) \cup {n}
  BY DEF SortInv
<1>2. CASE ~ returned
  <2>1. arr = Cells
    BY <1>2 DEF SortInv
  <2> QED BY <1>1, <2>1 DEF Cells, Permutes
<1>3. CASE returned
  <2> DEFINE D == 0..(n - 1)
  <2>1. arr = Mergesort(Cells, prio, n)
    BY <1>3 DEF SortInv
  <2>2. Arranges(Cells, Falling(Cells, prio, D), arr, 0, n - 1)
    BY <1>1, <2>1, CellsSortable, MergesortArranges DEF SortInv
  <2>3. PICK p \in [D -> D] :
          /\ \A y \in D : \E x \in D : p[x] = y
          /\ arr = [k \in DOMAIN Cells |-> IF k \in D THEN Cells[p[k]] ELSE Cells[k]]
    BY <2>2 DEF Arranges, InOrder
  <2>4. \A k \in D : arr[k] = p[k]
    BY <1>1, <2>3 DEF Cells
  <2>5. arr[n] = n
    BY <1>1, <2>3 DEF Cells
  <2> HIDE DEF D
  <2>6. \A k \in D \cup {n} : arr[k] \in D \cup {n}
    BY <2>3, <2>4, <2>5
  <2>7. \A y \in D \cup {n} : \E k \in D \cup {n} : arr[k] = y
    BY <2>3, <2>4, <2>5
  <2>8. {arr[k] : k \in D \cup {n}} = D \cup {n}
    BY <2>6, <2>7
  <2> QED BY <1>1, <2>5, <2>8 DEF Permutes, D
<1> QED BY <1>2, <1>3

\* SortsByRank for every length: taken from the end, the cells come by falling
\* priority, and in the order of registration among equals.
THEOREM SortedByRank == Spec => []SortsByRank
<1>1. Init => SortInv
  BY InitSortInv
<1>2. SortInv /\ [Sort]_vars => SortInv'
  BY NextSortInv
<1>3. SortInv => SortsByRank
  BY SortInvIsByRank
<1> QED BY <1>1, <1>2, <1>3, PTL DEF Spec

\* Permutes for every length: no cell is lost, duplicated or invented, and the
\* cell behind those in use is not touched.
THEOREM OnlyPermutes == Spec => []Permutes
<1>1. Init => SortInv
  BY InitSortInv
<1>2. SortInv /\ [Sort]_vars => SortInv'
  BY NextSortInv
<1>3. SortInv => Permutes
  BY SortInvPermutes
<1> QED BY <1>1, <1>2, <1>3, PTL DEF Spec
=============================================================================
