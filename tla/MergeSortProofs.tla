---------------------------- MODULE MergeSortProofs ----------------------------
(***************************************************************************)
(* Proofs about the mergesort of mulle-atinit, for arrays of any length    *)
(* and any priorities: it permutes the cells, and arranges them by rank.   *)
(*                                                                         *)
(* Recursion is by induction on sets of numbers: a set that has 0, and     *)
(* with every number the next one, has all of them.                        *)
(***************************************************************************)
EXTENDS MergeSort, FiniteSetTheorems, SequenceTheorems, WellFoundedInduction, TLAPS

(***************************************************************************)
(* Induction                                                               *)
(***************************************************************************)

\* A set of natural numbers that is not empty has a least element.
LEMMA LeastNumber ==
  ASSUME NEW T, T \subseteq Nat, T # {}
  PROVE  \E x \in T : \A y \in T : x <= y
<1> DEFINE R == OpToRel(<, Nat)
<1>1. IsWellFoundedOn(R, Nat)
  BY NatLessThanWellFounded
<1>2. \A x, y \in Nat : x < y => <<x, y>> \in R
  BY DEF OpToRel
<1> HIDE DEF R
<1>3. PICK x \in T : \A y \in T : ~ (<<y, x>> \in R)
  BY <1>1, WFMin
<1>4. ASSUME NEW y \in T PROVE x <= y
  <2>1. x \in Nat /\ y \in Nat /\ ~ (y < x)
    BY <1>2, <1>3
  <2> QED BY <2>1
<1> QED BY <1>4

\* Induction: what a set has from number to number it has for all numbers.
LEMMA EveryNumber ==
  ASSUME NEW T, 0 \in T, \A k \in Nat : k \in T => k + 1 \in T
  PROVE  \A k \in Nat : k \in T
<1> SUFFICES ASSUME Nat \ T # {} PROVE FALSE
  OBVIOUS
<1>1. PICK x \in Nat \ T : \A y \in Nat \ T : x <= y
  BY LeastNumber
<1> QED BY <1>1

(***************************************************************************)
(* merge                                                                   *)
(***************************************************************************)

Heads(left, mid, right) == (left..(mid + 1)) \X ((mid + 1)..(right + 1))

\* How many cells are still to be written from these heads.
ToWrite(mid, right, h) == (mid + 1 - h[1]) + (right + 1 - h[2])

\* What is written depends on what is written from later heads.
LEMMA MergeFromLater ==
  ASSUME NEW arr, NEW prio, NEW left \in Int, NEW mid \in Int, NEW right \in Int,
         NEW f, NEW g, NEW h \in Heads(left, mid, right),
         \A x \in Heads(left, mid, right) :
           ToWrite(mid, right, x) < ToWrite(mid, right, h) => f[x] = g[x]
  PROVE  MergeFrom(arr, prio, mid, right, f, h[1], h[2]) = MergeFrom(arr, prio, mid, right, g, h[1], h[2])
<1> DEFINE i == h[1]  j == h[2]
<1>1. h = <<i, j>> /\ i \in left..(mid + 1) /\ j \in (mid + 1)..(right + 1)
  BY DEF Heads
<1> HIDE DEF i, j
<1>2. ASSUME i <= mid PROVE f[<<i + 1, j>>] = g[<<i + 1, j>>]
  <2>1. <<i + 1, j>> \in Heads(left, mid, right)
    BY <1>1, <1>2 DEF Heads
  <2>2. ToWrite(mid, right, <<i + 1, j>>) < ToWrite(mid, right, <<i, j>>)
    BY <1>1 DEF ToWrite
  <2> QED BY <1>1, <2>1, <2>2
<1>3. ASSUME j <= right PROVE f[<<i, j + 1>>] = g[<<i, j + 1>>]
  <2>1. <<i, j + 1>> \in Heads(left, mid, right)
    BY <1>1, <1>3 DEF Heads
  <2>2. ToWrite(mid, right, <<i, j + 1>>) < ToWrite(mid, right, <<i, j>>)
    BY <1>1 DEF ToWrite
  <2> QED BY <1>1, <2>1, <2>2
<1>4. MergeFrom(arr, prio, mid, right, f, i, j) = MergeFrom(arr, prio, mid, right, g, i, j)
  <2>1. i <= mid \/ j <= right \/ (i > mid /\ j > right)
    BY <1>1
  <2> QED BY <1>1, <1>2, <1>3, <2>1 DEF MergeFrom
<1> QED BY <1>4 DEF i, j

\* The recursion of Merged is well-founded: there is such a function.
LEMMA MergedUnfolds ==
  ASSUME NEW arr, NEW prio, NEW left \in Int, NEW mid \in Int, NEW right \in Int
  PROVE  \A h \in Heads(left, mid, right) :
           Merged(arr, prio, left, mid, right)[h]
             = MergeFrom(arr, prio, mid, right, Merged(arr, prio, left, mid, right), h[1], h[2])
<1> DEFINE D == Heads(left, mid, right)
           W(h) == ToWrite(mid, right, h)
           From(g, h) == MergeFrom(arr, prio, mid, right, g, h[1], h[2])
           Upto(g, k) == g = [h \in D |-> g[h]] /\ \A h \in D : W(h) < k => g[h] = From(g, h)
           T == {k \in Nat : \E g : Upto(g, k)}
<1>0. \A h \in D : W(h) \in Nat
  BY DEF Heads, ToWrite
<1>00. \A f, g, h : h \in D /\ (\A x \in D : W(x) < W(h) => f[x] = g[x]) => From(f, h) = From(g, h)
  BY MergeFromLater
<1> HIDE DEF D, W, From
<1>1. 0 \in T
  <2> DEFINE g == [h \in D |-> << >>]
  <2>1. g = [h \in D |-> g[h]]
    OBVIOUS
  <2>2. \A h \in D : ~ (W(h) < 0)
    BY <1>0
  <2>3. Upto(g, 0)
    BY <2>1, <2>2
  <2> QED BY <2>3
<1>2. ASSUME NEW k \in Nat, k \in T PROVE k + 1 \in T
  <2>1. PICK g : Upto(g, k)
    BY <1>2
  <2> DEFINE f == [h \in D |-> From(g, h)]
  <2>2. f = [h \in D |-> f[h]] /\ \A h \in D : f[h] = From(g, h)
    OBVIOUS
  <2> HIDE DEF f
  <2>3. ASSUME NEW h \in D, W(h) < k + 1 PROVE f[h] = From(f, h)
    <3>1. \A x \in D : W(x) < W(h) => g[x] = f[x]
      BY <1>0, <2>1, <2>2, <2>3
    <3> QED BY <1>00, <2>2, <3>1
  <2> QED BY <2>2, <2>3
<1>3. PICK k \in Nat : \A h \in D : W(h) < k
  <2>1. CASE left <= mid + 1 /\ mid <= right
    <3> DEFINE m == W(<<left, mid + 1>>) + 1
    <3>1. m \in Nat /\ \A h \in D : W(h) < m
      BY <2>1 DEF D, W, Heads, ToWrite
    <3> QED BY <3>1
  <2>2. CASE ~ (left <= mid + 1 /\ mid <= right)
    <3>1. D = {}
      BY <2>2 DEF D, Heads
    <3> QED BY <3>1
  <2> QED BY <2>1, <2>2
<1>4. k \in T
  <2> HIDE DEF T
  <2> QED BY <1>1, <1>2, EveryNumber
<1>5. PICK g : g = [h \in D |-> g[h]] /\ \A h \in D : g[h] = From(g, h)
  BY <1>3, <1>4
<1>6. g = [h \in D |-> From(g, h)]
  BY <1>5
<1> DEFINE M == Merged(arr, prio, left, mid, right)
<1>7. M = [h \in D |-> From(M, h)]
  BY <1>6, Zenon DEF Merged, D, From, Heads
<1> HIDE DEF M
<1>8. \A h \in D : M[h] = From(M, h)
  BY <1>7
<1> QED BY <1>8 DEF M, D, From

\* s has the m cells of S, each of them once, in the order B.
Writes(arr, B, s, S, m) ==
  \E q \in [1..m -> S] :
    /\ s = [x \in 1..m |-> arr[q[x]]]
    /\ \A y \in S : \E x \in 1..m : q[x] = y
    /\ \A x, y \in 1..m : x < y => <<q[x], q[y]>> \in B

\* Writing one cell before others that come after it.
LEMMA WriteOne ==
  ASSUME NEW arr, NEW B, NEW s, NEW S, NEW m \in Nat, NEW e,
         Writes(arr, B, s, S, m), \A y \in S : <<e, y>> \in B
  PROVE  Writes(arr, B, <<arr[e]>> \o s, S \cup {e}, m + 1)
<1>1. PICK q \in [1..m -> S] :
        /\ s = [x \in 1..m |-> arr[q[x]]]
        /\ \A y \in S : \E x \in 1..m : q[x] = y
        /\ \A x, y \in 1..m : x < y => <<q[x], q[y]>> \in B
  BY DEF Writes
<1> DEFINE p == [x \in 1..(m + 1) |-> IF x = 1 THEN e ELSE q[x - 1]]
<1>2. p \in [1..(m + 1) -> S \cup {e}]
  BY <1>1
<1>3. <<arr[e]>> \o s = [x \in 1..(m + 1) |-> arr[p[x]]]
  <2> DEFINE V == {arr[y] : y \in S \cup {e}}
  <2>1. s \in Seq(V) /\ Len(s) = m
    BY <1>1
  <2>2. <<arr[e]>> \in Seq(V) /\ Len(<<arr[e]>>) = 1
    OBVIOUS
  <2> HIDE DEF V
  <2>3. /\ Len(<<arr[e]>> \o s) = m + 1
        /\ <<arr[e]>> \o s \in Seq(V)
        /\ \A x \in 1..(m + 1) : (<<arr[e]>> \o s)[x] = IF x <= 1 THEN <<arr[e]>>[x] ELSE s[x - 1]
    BY <2>1, <2>2, ConcatProperties
  <2>4. <<arr[e]>> \o s = [x \in 1..(m + 1) |-> (<<arr[e]>> \o s)[x]]
    BY <2>3
  <2>5. ASSUME NEW x \in 1..(m + 1) PROVE (<<arr[e]>> \o s)[x] = arr[p[x]]
    <3>1. CASE x = 1
      BY <2>3, <3>1
    <3>2. CASE x # 1
      <4>1. x - 1 \in 1..m /\ ~ (x <= 1)
        BY <3>2
      <4> QED BY <1>1, <2>3, <4>1
    <3> QED BY <3>1, <3>2
  <2> QED BY <2>4, <2>5
<1>4. ASSUME NEW y \in S \cup {e} PROVE \E x \in 1..(m + 1) : p[x] = y
  <2>1. CASE y = e
    <3>1. 1 \in 1..(m + 1) /\ p[1] = e
      OBVIOUS
    <3> QED BY <2>1, <3>1
  <2>2. CASE y \in S
    <3>1. PICK x \in 1..m : q[x] = y
      BY <1>1, <2>2
    <3>2. x + 1 \in 1..(m + 1) /\ p[x + 1] = q[x]
      OBVIOUS
    <3> QED BY <3>1, <3>2
  <2> QED BY <2>1, <2>2
<1>5. ASSUME NEW x \in 1..(m + 1), NEW y \in 1..(m + 1), x < y
      PROVE  <<p[x], p[y]>> \in B
  <2>1. y - 1 \in 1..m /\ p[y] = q[y - 1]
    BY <1>5
  <2>2. CASE x = 1
    BY <1>1, <2>1, <2>2
  <2>3. CASE x # 1
    <3>1. x - 1 \in 1..m /\ p[x] = q[x - 1] /\ x - 1 < y - 1
      BY <1>5, <2>3
    <3> QED BY <1>1, <2>1, <3>1
  <2> QED BY <2>2, <2>3
<1> HIDE DEF p
<1> QED BY <1>2, <1>3, <1>4, <1>5 DEF Writes

\* The order in which merge() meets the cells of two sorted halves.
MergeOrder(arr, prio, left, mid, right, B) ==
  /\ \A x, y \in left..mid : x < y => <<x, y>> \in B
  /\ \A x, y \in (mid + 1)..right : x < y => <<x, y>> \in B
  /\ \A x \in left..mid, y \in (mid + 1)..right :
       IF LeftFirst(prio, arr[x], arr[y]) THEN <<x, y>> \in B ELSE <<y, x>> \in B
  /\ \A x, y, z \in left..right : <<x, y>> \in B /\ <<y, z>> \in B => <<x, z>> \in B

\* The head that is taken precedes all that is left of both halves.
LEMMA TakenLeft ==
  ASSUME NEW arr, NEW prio, NEW left \in Int, NEW mid \in Int, NEW right \in Int, NEW B,
         left <= mid, mid < right, MergeOrder(arr, prio, left, mid, right, B),
         NEW i \in left..mid, NEW j \in (mid + 1)..(right + 1),
         j > right \/ LeftFirst(prio, arr[i], arr[j]),
         NEW y \in ((i + 1)..mid) \cup (j..right)
  PROVE  <<i, y>> \in B
<1>1. CASE y \in (i + 1)..mid
  <2>1. y \in left..mid /\ i < y
    BY <1>1
  <2> QED BY <2>1 DEF MergeOrder
<1>2. CASE y \in j..right
  <2>1. /\ j \in (mid + 1)..right /\ y \in (mid + 1)..right
        /\ j \in left..right /\ y \in left..right /\ i \in left..right
        /\ y = j \/ j < y
    BY <1>2
  <2>2. LeftFirst(prio, arr[i], arr[j])
    BY <2>1
  <2>3. <<i, j>> \in B
    BY <2>1, <2>2 DEF MergeOrder
  <2>4. y = j \/ <<j, y>> \in B
    BY <2>1 DEF MergeOrder
  <2> QED BY <2>1, <2>3, <2>4 DEF MergeOrder
<1> QED BY <1>1, <1>2

LEMMA TakenRight ==
  ASSUME NEW arr, NEW prio, NEW left \in Int, NEW mid \in Int, NEW right \in Int, NEW B,
         left <= mid, mid < right, MergeOrder(arr, prio, left, mid, right, B),
         NEW i \in left..(mid + 1), NEW j \in (mid + 1)..right,
         i > mid \/ ~ LeftFirst(prio, arr[i], arr[j]),
         NEW y \in (i..mid) \cup ((j + 1)..right)
  PROVE  <<j, y>> \in B
<1>1. CASE y \in (j + 1)..right
  <2>1. y \in (mid + 1)..right /\ j < y
    BY <1>1
  <2> QED BY <2>1 DEF MergeOrder
<1>2. CASE y \in i..mid
  <2>1. /\ i \in left..mid /\ y \in left..mid
        /\ j \in left..right /\ y \in left..right /\ i \in left..right
        /\ y = i \/ i < y
    BY <1>2
  <2>2. ~ LeftFirst(prio, arr[i], arr[j])
    BY <2>1
  <2>3. <<j, i>> \in B
    BY <2>1, <2>2 DEF MergeOrder
  <2>4. y = i \/ <<i, y>> \in B
    BY <2>1 DEF MergeOrder
  <2> QED BY <2>1, <2>3, <2>4 DEF MergeOrder
<1> QED BY <1>1, <1>2

\* From any heads on, the rest of both halves is written, in order.
LEMMA MergedWrites ==
  ASSUME NEW arr, NEW prio, NEW left \in Int, NEW mid \in Int, NEW right \in Int, NEW B,
         left <= mid, mid < right, MergeOrder(arr, prio, left, mid, right, B)
  PROVE  Writes(arr, B, Merged(arr, prio, left, mid, right)[<<left, mid + 1>>],
                left..right, right + 1 - left)
<1> DEFINE M == Merged(arr, prio, left, mid, right)
           I == left..(mid + 1)
           J == (mid + 1)..(right + 1)
           S(i, j) == (i..mid) \cup (j..right)
           W(i, j) == (mid + 1 - i) + (right + 1 - j)
           OK(i, j) == Writes(arr, B, M[<<i, j>>], S(i, j), W(i, j))
           T == {k \in Nat : \A i \in I, j \in J : W(i, j) < k => OK(i, j)}
<1>1. \A i \in I, j \in J : M[<<i, j>>] = MergeFrom(arr, prio, mid, right, M, i, j)
  <2>1. SUFFICES ASSUME NEW i \in I, NEW j \in J
                 PROVE  M[<<i, j>>] = MergeFrom(arr, prio, mid, right, M, i, j)
    OBVIOUS
  <2> DEFINE h == <<i, j>>
  <2>2. h \in Heads(left, mid, right) /\ h[1] = i /\ h[2] = j
    BY DEF Heads
  <2> HIDE DEF h
  <2>3. M[h] = MergeFrom(arr, prio, mid, right, M, h[1], h[2])
    BY <2>2, MergedUnfolds
  <2> QED BY <2>2, <2>3 DEF h
<1> HIDE DEF M
<1>2. \A i \in I, j \in J : i \in Int /\ j \in Int /\ W(i, j) \in Nat
  OBVIOUS
<1>3. 0 \in T
  <2>1. \A i \in I, j \in J : ~ (W(i, j) < 0)
    BY <1>2
  <2> HIDE DEF W, OK
  <2> QED BY <2>1
<1>4. ASSUME NEW k \in Nat, k \in T PROVE k + 1 \in T
  <2>1. SUFFICES ASSUME NEW i \in I, NEW j \in J, W(i, j) < k + 1 PROVE OK(i, j)
    <3> HIDE DEF W, OK
    <3> QED
      OBVIOUS
  <2>2. i \in Int /\ j \in Int /\ left <= i /\ i <= mid + 1 /\ mid + 1 <= j /\ j <= right + 1
    OBVIOUS
  <2>3. M[<<i, j>>] = MergeFrom(arr, prio, mid, right, M, i, j)
    BY <1>1
  <2>4. CASE i > mid /\ j > right
    <3>1. M[<<i, j>>] = << >>
      BY <2>3, <2>4 DEF MergeFrom
    <3>2. W(i, j) = 0 /\ S(i, j) = {}
      BY <2>2, <2>4
    <3> DEFINE q == [x \in 1..0 |-> x]
    <3>3. q \in [1..0 -> {}] /\ << >> = [x \in 1..0 |-> arr[q[x]]]
      OBVIOUS
    <3> HIDE DEF W, S, q
    <3>4. Writes(arr, B, << >>, {}, 0)
      BY <3>3 DEF Writes
    <3> QED BY <3>1, <3>2, <3>4
  <2>5. CASE i <= mid /\ (j > right \/ LeftFirst(prio, arr[i], arr[j]))
    <3>1. M[<<i, j>>] = <<arr[i]>> \o M[<<i + 1, j>>]
      <4>1. ~ (i > mid /\ j > right)
        BY <2>2, <2>5
      <4> QED BY <2>3, <2>5, <4>1 DEF MergeFrom
    <3>2. i + 1 \in I /\ i \in left..mid
      BY <2>2, <2>5
    <3>3. W(i + 1, j) \in Nat /\ W(i + 1, j) + 1 = W(i, j) /\ W(i + 1, j) < k
      BY <2>1, <2>2, <2>5
    <3>4. OK(i + 1, j)
      <4> HIDE DEF W, OK
      <4> QED BY <1>4, <3>2, <3>3
    <3>5. \A y \in S(i + 1, j) : <<i, y>> \in B
      BY <2>5, <3>2, TakenLeft
    <3>6. S(i, j) = S(i + 1, j) \cup {i}
      BY <2>2, <2>5
    <3> HIDE DEF W, S
    <3>7. Writes(arr, B, <<arr[i]>> \o M[<<i + 1, j>>], S(i + 1, j) \cup {i}, W(i + 1, j) + 1)
      BY <3>3, <3>4, <3>5, WriteOne
    <3> QED BY <3>1, <3>3, <3>6, <3>7
  <2>6. CASE j <= right /\ (i > mid \/ ~ LeftFirst(prio, arr[i], arr[j]))
    <3>1. M[<<i, j>>] = <<arr[j]>> \o M[<<i, j + 1>>]
      <4>1. ~ (j > right)
        BY <2>2, <2>6
      <4>2. ~ (i <= mid /\ (j > right \/ LeftFirst(prio, arr[i], arr[j])))
        BY <2>2, <2>6, <4>1
      <4> QED BY <2>3, <4>1, <4>2 DEF MergeFrom
    <3>2. j + 1 \in J /\ j \in (mid + 1)..right
      BY <2>2, <2>6
    <3>3. W(i, j + 1) \in Nat /\ W(i, j + 1) + 1 = W(i, j) /\ W(i, j + 1) < k
      BY <2>1, <2>2, <2>6
    <3>4. OK(i, j + 1)
      <4> HIDE DEF W, OK
      <4> QED BY <1>4, <3>2, <3>3
    <3>5. \A y \in S(i, j + 1) : <<j, y>> \in B
      BY <2>6, <3>2, TakenRight
    <3>6. S(i, j) = S(i, j + 1) \cup {j}
      BY <2>2, <2>6
    <3> HIDE DEF W, S
    <3>7. Writes(arr, B, <<arr[j]>> \o M[<<i, j + 1>>], S(i, j + 1) \cup {j}, W(i, j + 1) + 1)
      BY <3>3, <3>4, <3>5, WriteOne
    <3> QED BY <3>1, <3>3, <3>6, <3>7
  <2>7. i <= mid \/ i > mid
    BY <2>2
  <2>8. j <= right \/ j > right
    BY <2>2
  <2> QED BY <2>4, <2>5, <2>6, <2>7, <2>8
<1>5. \A k \in Nat : k \in T
  <2> HIDE DEF T
  <2> QED BY <1>3, <1>4, EveryNumber
<1>6. left \in I /\ mid + 1 \in J /\ S(left, mid + 1) = left..right /\ W(left, mid + 1) = right + 1 - left
  OBVIOUS
<1>7. OK(left, mid + 1)
  <2> HIDE DEF W, OK
  <2>1. W(left, mid + 1) \in Nat /\ W(left, mid + 1) < W(left, mid + 1) + 1
    BY <1>2, <1>6
  <2>2. W(left, mid + 1) + 1 \in T
    <3> HIDE DEF T
    <3> QED
      BY <1>5, <2>1
  <2> QED BY <1>6, <2>1, <2>2
<1> HIDE DEF S, W
<1> QED BY <1>6, <1>7 DEF M

(***************************************************************************)
(* Arrangements                                                            *)
(***************************************************************************)

\* p has each of the numbers l to r, in the order B.
InOrder(p, B, l, r) ==
  /\ \A y \in l..r : \E x \in l..r : p[x] = y
  /\ \A x, y \in l..r : x < y => <<p[x], p[y]>> \in B

\* new has the cells l to r of arr, each of them once, in the order B, and
\* otherwise the cells of arr.
Arranges(arr, B, new, l, r) ==
  \E p \in [l..r -> l..r] :
    /\ InOrder(p, B, l, r)
    /\ new = [k \in DOMAIN arr |-> IF k \in l..r THEN arr[p[k]] ELSE arr[k]]

\* merge() arranges the cells it is given.
LEMMA MergeArranges ==
  ASSUME NEW arr, NEW prio, NEW left \in Int, NEW mid \in Int, NEW right \in Int, NEW B,
         left <= mid, mid < right, MergeOrder(arr, prio, left, mid, right, B)
  PROVE  Arranges(arr, B, Merge(arr, prio, left, mid, right), left, right)
<1> DEFINE m == right + 1 - left
           s == Merged(arr, prio, left, mid, right)[<<left, mid + 1>>]
           I == left..right
<1>1. PICK q \in [1..m -> I] :
        /\ s = [x \in 1..m |-> arr[q[x]]]
        /\ \A y \in I : \E x \in 1..m : q[x] = y
        /\ \A x, y \in 1..m : x < y => <<q[x], q[y]>> \in B
  <2>1. Writes(arr, B, s, I, m)
    BY MergedWrites
  <2> HIDE DEF s, I, m
  <2> QED
    BY <2>1 DEF Writes
<1> DEFINE p == [k \in I |-> q[k - left + 1]]
<1>2. \A k \in I : k - left + 1 \in 1..m
  OBVIOUS
<1>3. p \in [I -> I]
  <2> HIDE DEF m, I
  <2> QED
    BY <1>1, <1>2
<1>4. ASSUME NEW y \in I PROVE \E x \in I : p[x] = y
  <2>1. PICK x \in 1..m : q[x] = y
    BY <1>1
  <2>2. x + left - 1 \in I /\ (x + left - 1) - left + 1 = x
    OBVIOUS
  <2>3. p[x + left - 1] = q[x]
    BY <2>2
  <2> QED BY <2>1, <2>2, <2>3
<1>5. ASSUME NEW x \in I, NEW y \in I, x < y PROVE <<p[x], p[y]>> \in B
  <2>1. /\ x - left + 1 \in 1..m /\ y - left + 1 \in 1..m
        /\ x - left + 1 < y - left + 1
    BY <1>5
  <2> HIDE DEF m, I
  <2> QED
    BY <1>1, <2>1
<1>6. Merge(arr, prio, left, mid, right) = [k \in DOMAIN arr |-> IF k \in I THEN arr[p[k]] ELSE arr[k]]
  <2>1. Merge(arr, prio, left, mid, right) = [k \in DOMAIN arr |-> IF k \in I THEN s[k - left + 1] ELSE arr[k]]
    BY DEF Merge
  <2> HIDE DEF s, m, I
  <2>2. \A k \in I : s[k - left + 1] = arr[p[k]]
    BY <1>1, <1>2
  <2> HIDE DEF p
  <2> QED BY <2>1, <2>2
<1> HIDE DEF p
<1> QED BY <1>3, <1>4, <1>5, <1>6 DEF Arranges, InOrder

(***************************************************************************)
(* mergesort_internal                                                      *)
(***************************************************************************)

LEMMA MiddleBetween ==
  ASSUME NEW l \in Int, NEW r \in Int, l < r
  PROVE  Middle(l, r) \in Int /\ l <= Middle(l, r) /\ Middle(l, r) < r
BY DEF Middle

Ends(left, right) == (left..right) \X (left..right)

\* What bounds the recursion on a range; never negative.
Span(left, right, ends) == (right - left) + (ends[2] - ends[1])

\* How a range is sorted depends on how shorter ranges are.
LEMMA SortFromLater ==
  ASSUME NEW arr, NEW prio, NEW left \in Int, NEW right \in Int, NEW f, NEW g,
         NEW h \in Ends(left, right),
         \A x \in Ends(left, right) :
           Span(left, right, x) < Span(left, right, h) => f[x] = g[x]
  PROVE  SortFrom(arr, prio, f, h[1], h[2]) = SortFrom(arr, prio, g, h[1], h[2])
<1> DEFINE a == h[1]  b == h[2]  m == Middle(a, b)
<1>1. h = <<a, b>> /\ a \in left..right /\ b \in left..right
  BY DEF Ends
<1> HIDE DEF a, b
<1>2. CASE a < b
  <2>1. m \in Int /\ a <= m /\ m < b
    BY <1>1, <1>2, MiddleBetween
  <2> HIDE DEF m
  <2>2. m \in left..right /\ m + 1 \in left..right
    BY <1>1, <2>1
  <2>3. f[<<a, m>>] = g[<<a, m>>]
    <3>1. Span(left, right, <<a, m>>) < Span(left, right, <<a, b>>)
      BY <1>1, <2>1 DEF Span
    <3> QED BY <1>1, <2>2, <3>1 DEF Ends
  <2>4. f[<<m + 1, b>>] = g[<<m + 1, b>>]
    <3>1. Span(left, right, <<m + 1, b>>) < Span(left, right, <<a, b>>)
      BY <1>1, <2>1 DEF Span
    <3> QED BY <1>1, <2>2, <3>1 DEF Ends
  <2>5. SortFrom(arr, prio, f, a, b) = SortFrom(arr, prio, g, a, b)
    BY <1>2, <2>3, <2>4 DEF SortFrom, m
  <2> QED BY <2>5 DEF a, b
<1>3. CASE ~ (a < b)
  BY <1>3 DEF SortFrom, a, b
<1> QED BY <1>2, <1>3

\* The recursion of SortedRuns is well-founded: there is such a function.
LEMMA SortedRunsUnfolds ==
  ASSUME NEW arr, NEW prio, NEW left \in Int, NEW right \in Int
  PROVE  \A l, r \in left..right :
           SortedRuns(arr, prio, left, right)[<<l, r>>]
             = SortFrom(arr, prio, SortedRuns(arr, prio, left, right), l, r)
<1> DEFINE D == Ends(left, right)
           W(h) == Span(left, right, h)
           From(g, h) == SortFrom(arr, prio, g, h[1], h[2])
           Upto(g, k) == g = [h \in D |-> g[h]] /\ \A h \in D : W(h) < k => g[h] = From(g, h)
           T == {k \in Nat : \E g : Upto(g, k)}
<1>0. \A h \in D : W(h) \in Nat /\ W(h) < 2 * (right - left) + 1
  <2>1. SUFFICES ASSUME NEW h \in D PROVE W(h) \in Nat /\ W(h) < 2 * (right - left) + 1
    OBVIOUS
  <2> DEFINE a == h[1]  b == h[2]
  <2>2. a \in left..right /\ b \in left..right /\ W(h) = (right - left) + (b - a)
    BY DEF Span, Ends
  <2> HIDE DEF a, b, W
  <2>3. a \in Int /\ b \in Int /\ left <= a /\ a <= right /\ left <= b /\ b <= right
    BY <2>2
  <2> QED BY <2>2, <2>3
<1>00. \A f, g, h : h \in D /\ (\A x \in D : W(x) < W(h) => f[x] = g[x]) => From(f, h) = From(g, h)
  BY SortFromLater
<1>000. \A h \in D : W(h) \in Nat
  BY <1>0
<1> HIDE DEF D, W, From
<1>1. 0 \in T
  <2> DEFINE g == [h \in D |-> << >>]
  <2>1. g = [h \in D |-> g[h]]
    OBVIOUS
  <2>2. \A h \in D : ~ (W(h) < 0)
    BY <1>0
  <2>3. Upto(g, 0)
    BY <2>1, <2>2
  <2> QED BY <2>3
<1>2. ASSUME NEW k \in Nat, k \in T PROVE k + 1 \in T
  <2>1. PICK g : Upto(g, k)
    BY <1>2
  <2> DEFINE f == [h \in D |-> From(g, h)]
  <2>2. f = [h \in D |-> f[h]] /\ \A h \in D : f[h] = From(g, h)
    OBVIOUS
  <2> HIDE DEF f
  <2>3. ASSUME NEW h \in D, W(h) < k + 1 PROVE f[h] = From(f, h)
    <3>1. \A x \in D : W(x) < W(h) => g[x] = f[x]
      BY <1>000, <2>1, <2>2, <2>3
    <3> QED BY <1>00, <2>2, <3>1
  <2> QED BY <2>2, <2>3
<1>3. PICK k \in Nat : \A h \in D : W(h) < k
  <2> DEFINE m == 2 * (right - left) + 1
  <2>1. CASE m \in Nat
    BY <1>0, <2>1
  <2>2. CASE m \notin Nat
    <3>1. D = {}
      BY <2>2 DEF D, Ends
    <3> QED BY <3>1
  <2> QED BY <2>1, <2>2
<1>4. k \in T
  <2> HIDE DEF T
  <2> QED BY <1>1, <1>2, EveryNumber
<1>5. PICK g : g = [h \in D |-> g[h]] /\ \A h \in D : g[h] = From(g, h)
  BY <1>3, <1>4
<1>6. g = [h \in D |-> From(g, h)]
  BY <1>5
<1> DEFINE M == SortedRuns(arr, prio, left, right)
<1>7. M = [h \in D |-> From(M, h)]
  BY <1>6, Zenon DEF SortedRuns, D, From, Ends
<1> HIDE DEF M
<1>8. ASSUME NEW l \in left..right, NEW r \in left..right
      PROVE  M[<<l, r>>] = SortFrom(arr, prio, M, l, r)
  <2>1. <<l, r>> \in D
    BY DEF D, Ends
  <2>2. M[<<l, r>>] = From(M, <<l, r>>)
    BY <1>7, <2>1
  <2> QED BY <2>2 DEF From
<1> QED BY <1>8 DEF M

\* The order the sort is for: a cell comes before those of greater priority, and
\* on equal priorities before those that were registered earlier.
Falling(arr, prio, D) ==
  {e \in D \X D : \/ prio[arr[e[1]]] < prio[arr[e[2]]]
                  \/ prio[arr[e[1]]] = prio[arr[e[2]]] /\ e[1] > e[2]}

LEMMA FallingPair ==
  ASSUME NEW arr, NEW prio, NEW D, NEW x, NEW y
  PROVE  <<x, y>> \in Falling(arr, prio, D)
           <=> /\ x \in D /\ y \in D
               /\ \/ prio[arr[x]] < prio[arr[y]]
                  \/ prio[arr[x]] = prio[arr[y]] /\ x > y
BY DEF Falling

LEMMA FallingTransitive ==
  ASSUME NEW arr, NEW prio, NEW D, D \subseteq Int, \A k \in D : prio[arr[k]] \in Int,
         NEW x \in D, NEW y \in D, NEW z \in D,
         <<x, y>> \in Falling(arr, prio, D), <<y, z>> \in Falling(arr, prio, D)
  PROVE  <<x, z>> \in Falling(arr, prio, D)
<1> DEFINE a == prio[arr[x]]  b == prio[arr[y]]  c == prio[arr[z]]
<1>1. /\ a \in Int /\ b \in Int /\ c \in Int /\ x \in Int /\ y \in Int /\ z \in Int
      /\ a < b \/ (a = b /\ x > y)
      /\ b < c \/ (b = c /\ y > z)
  BY FallingPair
<1> HIDE DEF a, b, c
<1>2. a < c \/ (a = c /\ x > z)
  BY <1>1
<1> QED BY <1>2, FallingPair DEF a, c

\* Two halves that are arranged are arranged as a whole by merge().
LEMMA JoinHalves ==
  ASSUME NEW arr, NEW prio, NEW l \in Int, NEW m \in Int, NEW r \in Int, l <= m, m < r,
         NEW D, D \subseteq Int, D \subseteq DOMAIN arr, l..r \subseteq D,
         \A k \in D : prio[arr[k]] \in Int,
         NEW low, Arranges(arr, Falling(arr, prio, D), low, l, m),
         NEW high, Arranges(arr, Falling(arr, prio, D), high, m + 1, r)
  PROVE  Arranges(arr, Falling(arr, prio, D),
                  Merge([k \in DOMAIN arr |-> IF k <= m THEN low[k] ELSE high[k]], prio, l, m, r), l, r)
<1> DEFINE B == Falling(arr, prio, D)
           A == [k \in DOMAIN arr |-> IF k <= m THEN low[k] ELSE high[k]]
           L == l..m
           H == (m + 1)..r
           I == l..r
<1>1. PICK p \in [L -> L] :
        /\ \A y \in L : \E x \in L : p[x] = y
        /\ \A x, y \in L : x < y => <<p[x], p[y]>> \in B
        /\ low = [k \in DOMAIN arr |-> IF k \in L THEN arr[p[k]] ELSE arr[k]]
  BY DEF Arranges, InOrder
<1>2. PICK q \in [H -> H] :
        /\ \A y \in H : \E x \in H : q[x] = y
        /\ \A x, y \in H : x < y => <<q[x], q[y]>> \in B
        /\ high = [k \in DOMAIN arr |-> IF k \in H THEN arr[q[k]] ELSE arr[k]]
  BY DEF Arranges, InOrder
<1> DEFINE P == [k \in I |-> IF k <= m THEN p[k] ELSE q[k]]
<1>3. /\ \A k \in L : k \in I /\ k \in Int /\ k <= m
      /\ \A k \in H : k \in I /\ k \in Int /\ ~ (k <= m)
      /\ \A k \in I : k \in D /\ k \in DOMAIN arr /\ (k \in L \/ k \in H)
      /\ \A x \in L, y \in H : x < y
  OBVIOUS
<1>4. \A k \in D : k \in Int /\ k \in DOMAIN arr /\ prio[arr[k]] \in Int
  OBVIOUS
<1> HIDE DEF B, L, H, I
<1>6. /\ \A k \in L : P[k] = p[k] /\ P[k] \in L
      /\ \A k \in H : P[k] = q[k] /\ P[k] \in H
      /\ P \in [I -> I]
  BY <1>3
<1>7. A = [k \in DOMAIN arr |-> IF k \in I THEN arr[P[k]] ELSE arr[k]]
  <2>1. SUFFICES ASSUME NEW k \in DOMAIN arr
                 PROVE  A[k] = IF k \in I THEN arr[P[k]] ELSE arr[k]
    OBVIOUS
  <2> HIDE DEF P
  <2>2. CASE k \in L
    BY <1>1, <1>3, <1>6, <2>2
  <2>3. CASE k \in H
    BY <1>2, <1>3, <1>6, <2>3
  <2>4. CASE k \notin I
    BY <1>1, <1>2, <1>3, <2>4
  <2> QED BY <1>3, <2>2, <2>3, <2>4
<1> HIDE DEF P, A
<1>8. DOMAIN A = DOMAIN arr /\ \A k \in I : A[k] = arr[P[k]]
  BY <1>3, <1>7
<1> DEFINE C == {e \in I \X I : <<P[e[1]], P[e[2]]>> \in B}
<1>9. \A x, y : <<x, y>> \in C <=> x \in I /\ y \in I /\ <<P[x], P[y]>> \in B
  OBVIOUS
<1> HIDE DEF C
<1>10. MergeOrder(A, prio, l, m, r, C)
  <2>1. ASSUME NEW x \in L, NEW y \in L, x < y PROVE <<x, y>> \in C
    BY <1>1, <1>3, <1>6, <1>9, <2>1
  <2>2. ASSUME NEW x \in H, NEW y \in H, x < y PROVE <<x, y>> \in C
    BY <1>2, <1>3, <1>6, <1>9, <2>2
  <2>3. ASSUME NEW x \in L, NEW y \in H
        PROVE  IF LeftFirst(prio, A[x], A[y]) THEN <<x, y>> \in C ELSE <<y, x>> \in C
    <3>1. x \in I /\ y \in I /\ P[x] \in L /\ P[y] \in H /\ P[x] \in D /\ P[y] \in D
      BY <1>3, <1>6
    <3>2. LeftFirst(prio, A[x], A[y]) <=> prio[arr[P[x]]] < prio[arr[P[y]]]
      BY <1>8, <3>1 DEF LeftFirst
    <3>3. CASE prio[arr[P[x]]] < prio[arr[P[y]]]
      <4>1. <<P[x], P[y]>> \in B
        BY <3>1, <3>3, FallingPair DEF B
      <4> QED BY <1>9, <3>1, <3>2, <3>3, <4>1
    <3>4. CASE ~ (prio[arr[P[x]]] < prio[arr[P[y]]])
      <4> DEFINE a == prio[arr[P[x]]]  b == prio[arr[P[y]]]
      <4>1. a \in Int /\ b \in Int /\ P[x] \in Int /\ P[y] \in Int /\ P[x] < P[y]
        BY <1>3, <1>4, <3>1
      <4>2. b < a \/ (b = a /\ P[y] > P[x])
        <5>1. ~ (a < b)
          BY <3>4
        <5> HIDE DEF a, b
        <5> QED BY <4>1, <5>1
      <4>3. <<P[y], P[x]>> \in B
        BY <3>1, <4>2, FallingPair DEF B
      <4> QED BY <1>9, <3>1, <3>2, <3>4, <4>3
    <3> QED BY <3>3, <3>4
  <2>4. ASSUME NEW x \in I, NEW y \in I, NEW z \in I, <<x, y>> \in C, <<y, z>> \in C
        PROVE  <<x, z>> \in C
    <3>1. P[x] \in D /\ P[y] \in D /\ P[z] \in D /\ <<P[x], P[y]>> \in B /\ <<P[y], P[z]>> \in B
      BY <1>3, <1>6, <1>9, <2>4
    <3>2. <<P[x], P[z]>> \in B
      BY <3>1, FallingTransitive DEF B
    <3> QED BY <1>9, <3>2
  <2> QED BY <2>1, <2>2, <2>3, <2>4 DEF MergeOrder, L, H, I
<1>11. PICK s \in [I -> I] :
         /\ \A y \in I : \E x \in I : s[x] = y
         /\ \A x, y \in I : x < y => <<s[x], s[y]>> \in C
         /\ Merge(A, prio, l, m, r) = [k \in DOMAIN A |-> IF k \in I THEN A[s[k]] ELSE A[k]]
  <2>1. Arranges(A, C, Merge(A, prio, l, m, r), l, r)
    BY <1>10, MergeArranges
  <2> QED BY <2>1 DEF Arranges, InOrder, I
<1> DEFINE t == [k \in I |-> P[s[k]]]
<1>12. t \in [I -> I]
  BY <1>6, <1>11
<1>13. ASSUME NEW y \in I PROVE \E x \in I : t[x] = y
  <2>1. PICK z \in I : P[z] = y
    <3>1. CASE y \in L
      BY <1>1, <1>3, <1>6, <3>1
    <3>2. CASE y \in H
      BY <1>2, <1>3, <1>6, <3>2
    <3> QED BY <1>3, <3>1, <3>2
  <2>2. PICK x \in I : s[x] = z
    BY <1>11
  <2> QED BY <2>1, <2>2
<1>14. ASSUME NEW x \in I, NEW y \in I, x < y PROVE <<t[x], t[y]>> \in B
  BY <1>9, <1>11, <1>14
<1>15. Merge(A, prio, l, m, r) = [k \in DOMAIN arr |-> IF k \in I THEN arr[t[k]] ELSE arr[k]]
  <2>1. SUFFICES ASSUME NEW k \in DOMAIN arr
                 PROVE  (IF k \in I THEN A[s[k]] ELSE A[k]) = IF k \in I THEN arr[t[k]] ELSE arr[k]
    BY <1>8, <1>11
  <2>2. CASE k \in I
    BY <1>8, <1>11, <2>2
  <2>3. CASE k \notin I
    BY <1>7, <2>3
  <2> QED BY <2>2, <2>3
<1> HIDE DEF t
<1>16. Arranges(arr, B, Merge(A, prio, l, m, r), l, r)
  BY <1>12, <1>13, <1>14, <1>15 DEF Arranges, InOrder, I
<1> QED BY <1>16 DEF A, B

IsArray(arr) == arr = [k \in DOMAIN arr |-> arr[k]]

\* An array with the cells I, whose priorities are integers.
Sortable(arr, prio, I) ==
  IsArray(arr) /\ I \subseteq DOMAIN arr /\ \A k \in I : prio[arr[k]] \in Int

\* One cell, or none, is arranged.
LEMMA OneCellArranged ==
  ASSUME NEW arr, NEW B, NEW l \in Int, NEW r \in Int, ~ (l < r),
         IsArray(arr)
  PROVE  Arranges(arr, B, arr, l, r)
<1> DEFINE p == [k \in l..r |-> k]
<1>1. p \in [l..r -> l..r] /\ \A k \in l..r : p[k] = k
  OBVIOUS
<1>2. \A x, y \in l..r : ~ (x < y)
  OBVIOUS
<1> HIDE DEF p
<1>3. arr = [k \in DOMAIN arr |-> IF k \in l..r THEN arr[p[k]] ELSE arr[k]]
  BY <1>1 DEF IsArray
<1> QED BY <1>1, <1>2, <1>3 DEF Arranges, InOrder

\* mergesort_internal arranges every range it is called for.
LEMMA InternalArranges ==
  ASSUME NEW arr, NEW prio, NEW left \in Int, NEW right \in Int,
         Sortable(arr, prio, left..right),
         NEW l \in left..right, NEW r \in left..right, l <= r
  PROVE  Arranges(arr, Falling(arr, prio, left..right), SortedRuns(arr, prio, left, right)[<<l, r>>], l, r)
<1> DEFINE I == left..right
           run == SortedRuns(arr, prio, left, right)
           OK(a, b) == Arranges(arr, Falling(arr, prio, I), run[<<a, b>>], a, b)
           T == {k \in Nat : \A a, b \in I : a <= b /\ b - a < k => OK(a, b)}
<1>1. \A a, b \in I : run[<<a, b>>] = SortFrom(arr, prio, run, a, b)
  BY SortedRunsUnfolds
<1> HIDE DEF run
<1>2. \A a \in I : a \in Int /\ left <= a /\ a <= right
  OBVIOUS
<1>3. 0 \in T
  <2>1. \A a, b \in I : ~ (a <= b /\ b - a < 0)
    BY <1>2
  <2> HIDE DEF I, OK
  <2> QED BY <2>1
<1>4. ASSUME NEW k \in Nat, k \in T PROVE k + 1 \in T
  <2>1. SUFFICES ASSUME NEW a \in I, NEW b \in I, a <= b, b - a < k + 1 PROVE OK(a, b)
    <3> HIDE DEF I, OK
    <3> QED
      OBVIOUS
  <2>2. a \in Int /\ b \in Int /\ left <= a /\ b <= right
    BY <1>2
  <2>3. run[<<a, b>>] = SortFrom(arr, prio, run, a, b)
    BY <1>1
  <2>4. CASE a < b
    <3> DEFINE m == Middle(a, b)
    <3>1. m \in Int /\ a <= m /\ m < b
      BY <2>2, <2>4, MiddleBetween
    <3>2. run[<<a, b>>]
            = Merge([x \in DOMAIN arr |-> IF x <= m THEN run[<<a, m>>][x] ELSE run[<<m + 1, b>>][x]], prio, a, m, b)
      BY <2>3, <2>4 DEF SortFrom
    <3> HIDE DEF m
    <3>3. m \in I /\ m + 1 \in I /\ a <= m /\ m + 1 <= b /\ m - a < k /\ b - (m + 1) < k
      BY <2>1, <2>2, <3>1
    <3>4. OK(a, m) /\ OK(m + 1, b)
      <4> HIDE DEF OK, I
      <4> QED BY <1>4, <3>3
    <3>5. a..b \subseteq I /\ I \subseteq Int
      BY <2>2
    <3> HIDE DEF I
    <3>6. \A x \in I : prio[arr[x]] \in Int
      BY DEF I, Sortable
    <3>7. I \subseteq DOMAIN arr
      BY DEF I, Sortable
    <3>8. Arranges(arr, Falling(arr, prio, I),
                   Merge([x \in DOMAIN arr |-> IF x <= m THEN run[<<a, m>>][x] ELSE run[<<m + 1, b>>][x]],
                         prio, a, m, b), a, b)
      BY <2>2, <3>1, <3>4, <3>5, <3>6, <3>7, JoinHalves
    <3> QED BY <3>2, <3>8
  <2>5. CASE ~ (a < b)
    <3>1. run[<<a, b>>] = arr
      BY <2>3, <2>5 DEF SortFrom
    <3> QED BY <2>2, <2>5, <3>1, OneCellArranged DEF Sortable
  <2> QED BY <2>4, <2>5
<1>5. \A k \in Nat : k \in T
  <2> HIDE DEF T
  <2> QED BY <1>3, <1>4, EveryNumber
<1>6. OK(l, r)
  <2> DEFINE k == r - l + 1
  <2>1. k \in Nat /\ r - l < k
    BY <1>2
  <2> HIDE DEF k
  <2>2. k \in T
    BY <1>5, <2>1
  <2> HIDE DEF OK, I
  <2> QED BY <2>1, <2>2 DEF I
<1> QED BY <1>6 DEF run

(***************************************************************************)
(* _prioritized_callback_mergesort                                         *)
(***************************************************************************)

\* For an array of any length and any integer priorities, the sort leaves the
\* cells from n on alone, and arranges the first n: each of them is there once,
\* by rising priority, and on equal priorities the later registration first.
THEOREM MergesortArranges ==
  ASSUME NEW arr, NEW prio, NEW n \in Nat,
         Sortable(arr, prio, 0..(n - 1))
  PROVE  Arranges(arr, Falling(arr, prio, 0..(n - 1)), Mergesort(arr, prio, n), 0, n - 1)
<1>1. CASE n <= 1
  <2>1. ~ (0 < n - 1) /\ n - 1 \in Int
    BY <1>1
  <2> QED BY <1>1, <2>1, OneCellArranged DEF Mergesort, Sortable
<1>2. CASE n > 1
  <2>1. 0 \in 0..(n - 1) /\ n - 1 \in 0..(n - 1) /\ 0 <= n - 1 /\ n - 1 \in Int /\ ~ (n <= 1)
    BY <1>2
  <2>2. Arranges(arr, Falling(arr, prio, 0..(n - 1)), SortedRuns(arr, prio, 0, n - 1)[<<0, n - 1>>], 0, n - 1)
    BY <2>1, InternalArranges
  <2> QED BY <2>1, <2>2 DEF Mergesort, MergesortInternal
<1> QED BY <1>1, <1>2

\* In an arrangement a cell is preceded by as many cells as have a lower place.
LEMMA RankIsPlace ==
  ASSUME NEW arr, NEW prio, NEW n \in Nat, Sortable(arr, prio, 0..(n - 1)),
         NEW p \in [0..(n - 1) -> 0..(n - 1)],
         InOrder(p, Falling(arr, prio, 0..(n - 1)), 0, n - 1),
         NEW i \in 0..(n - 1)
  PROVE  Rank(arr, prio, n, p[i]) = i
<1> DEFINE D == 0..(n - 1)
           B == Falling(arr, prio, D)
           S == {j \in D : prio[arr[j]] < prio[arr[p[i]]] \/ (prio[arr[j]] = prio[arr[p[i]]] /\ j > p[i])}
           f == [x \in 1..i |-> p[x - 1]]
<1>0. /\ \A y \in D : \E x \in D : p[x] = y
      /\ \A x, y \in D : x < y => <<p[x], p[y]>> \in B
  BY DEF InOrder
<1>1. \A x \in D : x \in Int /\ prio[arr[x]] \in Int
  <2>1. \A x \in D : x \in Int
    OBVIOUS
  <2> HIDE DEF D
  <2>2. \A x \in D : prio[arr[x]] \in Int
    BY DEF Sortable, D
  <2> QED BY <2>1, <2>2
<1>2. \A j : j \in S <=> <<j, p[i]>> \in B
  BY FallingPair
<1>3. \A x \in D : <<x, x>> \notin B
  <2>1. ASSUME NEW x \in D, <<x, x>> \in B PROVE FALSE
    <3> DEFINE a == prio[arr[x]]
    <3>1. a \in Int /\ x \in Int /\ (a < a \/ (a = a /\ x > x))
      BY <1>1, <2>1, FallingPair
    <3> HIDE DEF a
    <3> QED BY <3>1
  <2> QED BY <2>1
<1>4. \A x, y \in D : ~ (<<x, y>> \in B /\ <<y, x>> \in B)
  <2>1. D \subseteq Int /\ \A k \in D : prio[arr[k]] \in Int
    BY <1>1
  <2> HIDE DEF D
  <2> QED BY <1>3, <2>1, FallingTransitive
<1>5. \A x, y \in D : x < y => <<p[x], p[y]>> \in B /\ p[x] # p[y]
  <2> HIDE DEF B
  <2>1. \A x \in D : p[x] \in D
    OBVIOUS
  <2> HIDE DEF D
  <2> QED BY <1>0, <1>3, <2>1
<1>6. \A x \in D : x < i <=> p[x] \in S
  <2>1. SUFFICES ASSUME NEW x \in D PROVE x < i <=> p[x] \in S
    OBVIOUS
  <2>2. x < i \/ x = i \/ i < x
    OBVIOUS
  <2>3. p[x] \in D /\ p[i] \in D
    OBVIOUS
  <2> HIDE DEF S, B, D
  <2>4. CASE x < i
    BY <1>2, <1>5, <2>4 DEF D
  <2>5. CASE x = i
    <3>1. ~ (x < i)
      BY <1>1, <2>5
    <3> QED BY <1>2, <1>3, <2>3, <2>5, <3>1
  <2>6. CASE i < x
    <3>1. ~ (x < i) /\ i \in D
      BY <1>1, <2>6 DEF D
    <3>2. <<p[i], p[x]>> \in B
      BY <1>5, <2>6, <3>1
    <3> QED BY <1>2, <1>4, <2>3, <3>1, <3>2
  <2> QED BY <2>2, <2>4, <2>5, <2>6
<1>7. f \in Bijection(1..i, S)
  <2>1. \A x \in 1..i : x - 1 \in D /\ x - 1 < i /\ f[x] = p[x - 1]
    OBVIOUS
  <2>2. f \in [1..i -> S]
    <3> HIDE DEF S, D
    <3> QED
      BY <1>6, <2>1
  <2>3. ASSUME NEW x \in 1..i, NEW y \in 1..i, f[x] = f[y] PROVE x = y
    <3>1. x = y \/ x - 1 < y - 1 \/ y - 1 < x - 1
      OBVIOUS
    <3>2. x - 1 \in D /\ y - 1 \in D /\ p[x - 1] = p[y - 1]
      BY <2>1, <2>3
    <3> HIDE DEF D, f, S, B
    <3>3. ~ (x - 1 < y - 1) /\ ~ (y - 1 < x - 1)
      BY <1>5, <3>2
    <3> QED BY <3>1, <3>3
  <2>4. ASSUME NEW y \in S PROVE \E x \in 1..i : f[x] = y
    <3>1. PICK x \in D : p[x] = y
      BY <1>0
    <3>2. x < i
      BY <1>6, <3>1
    <3>3. x + 1 \in 1..i /\ (x + 1) - 1 = x
      BY <3>2
    <3>4. f[x + 1] = y
      BY <3>1, <3>3
    <3> QED BY <3>3, <3>4
  <2> HIDE DEF f, S
  <2> QED BY <2>2, <2>3, <2>4 DEF Bijection, Injection, Surjection, IsInjective
<1>8. ExistsBijection(1..i, S)
  <2> HIDE DEF f, S
  <2> QED BY <1>7 DEF ExistsBijection
<1>9. Cardinality(S) = i
  <2> HIDE DEF S
  <2>1. i \in Nat
    OBVIOUS
  <2> QED BY <1>8, <2>1, FS_CountingElements
<1> QED BY <1>9 DEF Rank

\* So it is the only one of its rank.
RankedBy(arr, prio, n, p) ==
  \A i, k \in 0..(n - 1) : Rank(arr, prio, n, k) = i <=> k = p[i]

LEMMA RankedCells ==
  ASSUME NEW arr, NEW prio, NEW n \in Nat, Sortable(arr, prio, 0..(n - 1)),
         NEW p \in [0..(n - 1) -> 0..(n - 1)],
         InOrder(p, Falling(arr, prio, 0..(n - 1)), 0, n - 1)
  PROVE  RankedBy(arr, prio, n, p)
<1> DEFINE D == 0..(n - 1)
<1>1. ASSUME NEW i \in D PROVE Rank(arr, prio, n, p[i]) = i
  BY RankIsPlace
<1>2. \A k \in D : \E y \in D : p[y] = k
  BY DEF InOrder
<1> HIDE DEF D
<1>3. \A i, k \in D : Rank(arr, prio, n, k) = i <=> k = p[i]
  BY <1>1, <1>2
<1> QED BY <1>3 DEF D, RankedBy

LEMMA EveryRank ==
  ASSUME NEW arr, NEW prio, NEW n \in Nat, Sortable(arr, prio, 0..(n - 1))
  PROVE  \E p \in [0..(n - 1) -> 0..(n - 1)] : RankedBy(arr, prio, n, p)
<1>1. Arranges(arr, Falling(arr, prio, 0..(n - 1)), Mergesort(arr, prio, n), 0, n - 1)
  BY MergesortArranges
<1>2. PICK p \in [0..(n - 1) -> 0..(n - 1)] :
        InOrder(p, Falling(arr, prio, 0..(n - 1)), 0, n - 1)
  BY <1>1 DEF Arranges
<1> QED BY <1>2, RankedCells

\* So the sort computes what its purpose says: every cell at its rank.
THEOREM MergesortByRank ==
  ASSUME NEW arr, NEW prio, NEW n \in Nat,
         Sortable(arr, prio, 0..(n - 1)), DOMAIN arr \subseteq Nat
  PROVE  Mergesort(arr, prio, n) = ByRank(arr, prio, n)
<1> DEFINE D == 0..(n - 1)
<1>1. PICK p \in [D -> D] :
        /\ InOrder(p, Falling(arr, prio, D), 0, n - 1)
        /\ Mergesort(arr, prio, n) = [k \in DOMAIN arr |-> IF k \in D THEN arr[p[k]] ELSE arr[k]]
  <2>1. Arranges(arr, Falling(arr, prio, D), Mergesort(arr, prio, n), 0, n - 1)
    BY MergesortArranges
  <2> QED BY <2>1 DEF Arranges
<1>2. \A i, k \in D : Rank(arr, prio, n, k) = i <=> k = p[i]
  <2>1. RankedBy(arr, prio, n, p)
    BY <1>1, RankedCells
  <2> QED BY <2>1 DEF RankedBy
<1>3. \A i \in DOMAIN arr : i \in D <=> i < n
  OBVIOUS
<1> HIDE DEF D
<1>4. ASSUME NEW i \in D PROVE (CHOOSE k \in D : Rank(arr, prio, n, k) = i) = p[i]
  <2>1. p[i] \in D
    BY <1>1
  <2> QED BY <1>2, <2>1
<1>5. ByRank(arr, prio, n)
        = [i \in DOMAIN arr |-> IF i < n THEN arr[CHOOSE k \in D : Rank(arr, prio, n, k) = i] ELSE arr[i]]
  BY DEF ByRank, D
<1>6. ASSUME NEW i \in DOMAIN arr
      PROVE  (IF i \in D THEN arr[p[i]] ELSE arr[i])
               = IF i < n THEN arr[CHOOSE k \in D : Rank(arr, prio, n, k) = i] ELSE arr[i]
  <2>1. CASE i \in D
    BY <1>3, <1>4, <2>1
  <2>2. CASE i \notin D
    BY <1>3, <2>2
  <2> QED BY <2>1, <2>2
<1> QED BY <1>1, <1>5, <1>6

\* Ranks depend on the cells that are sorted only.
LEMMA RankOfPrefix ==
  ASSUME NEW arr, NEW prio, NEW n \in Nat,
         Sortable(arr, prio, 0..(n - 1)), DOMAIN arr \subseteq Nat,
         0..(n - 1) \subseteq DOMAIN arr,
         NEW cells, DOMAIN cells = 0..(n - 1),
         \A k \in 0..(n - 1) : cells[k] = arr[k]
  PROVE  \A k \in 0..(n - 1) : ByRank(arr, prio, n)[k] = ByRank(cells, prio, n)[k]
<1> DEFINE D == 0..(n - 1)
<1>1. PICK p \in [D -> D] : RankedBy(arr, prio, n, p)
  BY EveryRank
<1>2. \A i, k \in D : Rank(arr, prio, n, k) = i <=> k = p[i]
  BY <1>1 DEF RankedBy
<1>3. \A k \in D : Rank(cells, prio, n, k) = Rank(arr, prio, n, k)
  <2>1. \A j \in D : cells[j] = arr[j]
    OBVIOUS
  <2> HIDE DEF D
  <2> TAKE k \in D
  <2>2. {j \in D : prio[cells[j]] < prio[cells[k]] \/ (prio[cells[j]] = prio[cells[k]] /\ j > k)}
          = {j \in D : prio[arr[j]] < prio[arr[k]] \/ (prio[arr[j]] = prio[arr[k]] /\ j > k)}
    BY <2>1
  <2> QED BY <2>2 DEF Rank, D
<1>4. ASSUME NEW i \in D
      PROVE  ByRank(arr, prio, n)[i] = ByRank(cells, prio, n)[i]
  <2>1. i < n /\ i \in DOMAIN arr /\ i \in DOMAIN cells /\ p[i] \in D
    OBVIOUS
  <2> HIDE DEF D
  <2>2. (CHOOSE k \in D : Rank(arr, prio, n, k) = i) = p[i]
    BY <1>2, <2>1
  <2>3. (CHOOSE k \in D : Rank(cells, prio, n, k) = i) = p[i]
    BY <1>2, <1>3, <2>1
  <2>4. ByRank(arr, prio, n)[i] = arr[CHOOSE k \in D : Rank(arr, prio, n, k) = i]
    BY <2>1 DEF ByRank, D
  <2>5. ByRank(cells, prio, n)[i] = cells[CHOOSE k \in D : Rank(cells, prio, n, k) = i]
    BY <2>1 DEF ByRank, D
  <2> QED BY <2>1, <2>2, <2>3, <2>4, <2>5 DEF D
<1> QED BY <1>4
=============================================================================
