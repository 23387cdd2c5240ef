------------------------------- MODULE MergeSort -------------------------------
(***************************************************************************)
(* The mergesort of mulle-atinit.c, as a function on arrays.  An array is  *)
(* a function on 0..(n - 1); the priority of an element e is prio[e].      *)
(***************************************************************************)
EXTENDS Integers, Sequences, FiniteSets

\* Fault: the comparison the comment in merge() asks for, "<=".
LeftFirstOnTies(prio, l, r) == prio[l] <= prio[r]

\* Whether merge() takes the head l of the left half before the head r of the
\* right half.  On equal priorities it takes the right one.
LeftFirst(prio, l, r) == prio[l] < prio[r]

\* What the loops of merge() still write when i and j are the heads of the two
\* halves; rest has what they write afterwards.
MergeFrom(arr, prio, mid, right, rest, i, j) ==
  CASE i > mid /\ j > right -> << >>
    [] i <= mid /\ (j > right \/ LeftFirst(prio, arr[i], arr[j]))
                            -> <<arr[i]>> \o rest[<<i + 1, j>>]
    [] OTHER                -> <<arr[j]>> \o rest[<<i, j + 1>>]

Merged(arr, prio, left, mid, right) ==
  LET rest[heads \in (left..(mid + 1)) \X ((mid + 1)..(right + 1))] ==
        MergeFrom(arr, prio, mid, right, rest, heads[1], heads[2])
  IN  rest

\* merge: the cells left to right are written, the others stay.
Merge(arr, prio, left, mid, right) ==
  LET written == Merged(arr, prio, left, mid, right)[<<left, mid + 1>>]
  IN  [k \in DOMAIN arr |-> IF k \in left..right THEN written[k - left + 1] ELSE arr[k]]

Middle(left, right) == left + (right - left) \div 2

\* mergesort_internal for the cells l to r; run has what it does to smaller ranges.
\* The recursive calls work on disjoint ranges.
SortFrom(arr, prio, run, l, r) ==
  IF l < r
  THEN LET m == Middle(l, r)
       IN  Merge([k \in DOMAIN arr |-> IF k <= m THEN run[<<l, m>>][k] ELSE run[<<m + 1, r>>][k]],
                 prio, l, m, r)
  ELSE arr

SortedRuns(arr, prio, left, right) ==
  LET run[ends \in (left..right) \X (left..right)] ==
        SortFrom(arr, prio, run, ends[1], ends[2])
  IN  run

MergesortInternal(arr, prio, left, right) ==
  SortedRuns(arr, prio, left, right)[<<left, right>>]

\* Fault: the index of the last cell is taken for its number.
MergesortPastEnd(arr, prio, n) ==
  IF n <= 1 THEN arr ELSE MergesortInternal(arr, prio, 0, n)

\* _prioritized_callback_mergesort: the first n cells are sorted.
Mergesort(arr, prio, n) ==
  IF n <= 1 THEN arr ELSE MergesortInternal(arr, prio, 0, n - 1)

(***************************************************************************)
(* What the sort is for, by rank: cells are taken from the end, by falling *)
(* priority, and with equal priorities in the order of registration.  So   *)
(* cell k ends up where as many cells precede it as have a smaller         *)
(* priority, or the same one and a later registration.                     *)
(***************************************************************************)
Rank(arr, prio, n, k) ==
  Cardinality({j \in 0..(n - 1) :
    prio[arr[j]] < prio[arr[k]] \/ (prio[arr[j]] = prio[arr[k]] /\ j > k)})

ByRank(arr, prio, n) ==
  [i \in DOMAIN arr |->
     IF i < n THEN arr[CHOOSE k \in 0..(n - 1) : Rank(arr, prio, n, k) = i] ELSE arr[i]]
=============================================================================
