--------------------------- MODULE LoadDomainsProofs ---------------------------
(***************************************************************************)
(* Proofs about the registries in a process of any number of images,       *)
(* callbacks and priorities.                                               *)
(***************************************************************************)
EXTENDS LoadDomains, MergeSortProofs, TLAPS

\* Nothing ever comes into the copy of a library; its drain finds it empty.
LibraryCopyEmpty ==
  \A x \in Copies : x[2] # Exe => waiting[x] = << >> /\ size[x] # "some"

\* The arrays of the copies are functions, whatever they hold: this invariant
\* needs nothing of what the sort returns for the copy of the executable.
Shape ==
  /\ waiting = [x \in Copies |-> waiting[x]]
  /\ size \in [Copies -> {"none", "some", "ran"}]
  /\ ready \in [Copies -> BOOLEAN]

\* The inductive invariant.  OnlyEmptyUnguarded needs LibraryCopyEmpty, since the
\* mutex of such a copy is locked.
IInv == Shape /\ LibraryCopyEmpty /\ OnlyEmptyUnguarded

LEMMA ExeCopy ==
  /\ \A k \in Kinds : <<k, Exe>> \in Copies /\ <<k, Exe>>[2] = Exe
  /\ \A i \in Images : <<"init", i>> \in Copies /\ <<"exit", i>> \in Copies
  BY DEF Copies, Kinds, Images

LEMMA SortedEmpty == Sorted(<< >>) = << >>
<1>1. Len(<< >>) = 0
  OBVIOUS
<1>2. \A arr : [k \in 1..0 |-> arr[k - 1]] = << >>
  OBVIOUS
<1> QED BY <1>1, <1>2 DEF Sorted, List

LEMMA InitIInv == Init => IInv
  BY DEF Init, IInv, Shape, LibraryCopyEmpty, OnlyEmptyUnguarded

\* What every action without an effect on the registries keeps.
LEMMA Untouched ==
  ASSUME IInv, UNCHANGED registry
  PROVE  IInv'
  BY DEF IInv, Shape, LibraryCopyEmpty, OnlyEmptyUnguarded, registry

\* Whoever registers, it is done in the copy of the executable.
LEMMA RegisterStep ==
  ASSUME IInv, NEW k \in Kinds, NEW c, Register(<<k, Exe>>, c)
  PROVE  IInv'
<1> DEFINE x == <<k, Exe>>
<1>1. x \in Copies /\ x[2] = Exe
  BY ExeCopy
<1> HIDE DEF x
<1>2. Register(x, c)
  BY DEF x
<1>3. /\ ready' = [ready EXCEPT ![x] = TRUE]
      /\ raw' = IF ready'[x] THEN raw ELSE raw \cup {x}
  BY <1>2 DEF Register, Once, Lock
<1>4. ready' \in [Copies -> BOOLEAN] /\ ready'[x] /\ raw' = raw
  BY <1>1, <1>3 DEF IInv, Shape
<1>5. \A y \in Copies : ready[y] => ready'[y]
  BY <1>1, <1>3 DEF IInv, Shape
<1>6. CASE Late(x)
  <2>1. UNCHANGED <<waiting, size>>
    BY <1>2, <1>6 DEF Register
  <2> QED BY <1>4, <1>5, <2>1 DEF IInv, Shape, LibraryCopyEmpty, OnlyEmptyUnguarded
<1>7. CASE ~ Late(x)
  <2>1. /\ waiting' = [waiting EXCEPT ![x] = Append(@, c)]
        /\ size' = [size EXCEPT ![x] = "some"]
    BY <1>2, <1>7 DEF Register
  <2>2. \A y \in Copies \ {x} : waiting'[y] = waiting[y] /\ size'[y] = size[y]
    BY <2>1 DEF IInv, Shape
  <2>3. Shape'
    BY <1>1, <1>4, <2>1 DEF IInv, Shape
  <2>4. LibraryCopyEmpty'
    BY <1>1, <2>2 DEF IInv, LibraryCopyEmpty
  <2>5. OnlyEmptyUnguarded'
    BY <1>1, <1>4, <1>5, <2>2 DEF IInv, OnlyEmptyUnguarded
  <2> QED BY <2>3, <2>4, <2>5 DEF IInv
<1> QED BY <1>6, <1>7

\* The once block is that of the executable, the lock that of the image.
LEMMA AtinitLoadStep ==
  ASSUME IInv, NEW i \in Images, AtinitLoad(i)
  PROVE  IInv'
<1> DEFINE x == <<"init", i>>
           e == <<"init", Exe>>
<1>1. x \in Copies /\ e \in Copies /\ e[2] = Exe /\ (x[2] = Exe => x = e)
  BY ExeCopy DEF Kinds
<1>2. /\ ready' = [ready EXCEPT ![e] = TRUE]
      /\ raw' = IF ready'[x] THEN raw ELSE raw \cup {x}
      /\ waiting' = [waiting EXCEPT ![x] = Sorted(@)]
      /\ size' = size
  BY DEF AtinitLoad, Once, Lock, Resolve, Drains
<1> HIDE DEF x, e
<1>3. ready' \in [Copies -> BOOLEAN] /\ ready'[e] /\ \A y \in Copies : ready[y] => ready'[y]
  BY <1>1, <1>2 DEF IInv, Shape
<1>4. \A y \in Copies : y \in raw' => y \in raw \/ (y = x /\ x[2] # Exe)
  BY <1>1, <1>2, <1>3
<1>5. /\ \A y \in Copies \ {x} : waiting'[y] = waiting[y]
      /\ waiting'[x] = Sorted(waiting[x])
  BY <1>1, <1>2 DEF IInv, Shape
<1>6. x[2] # Exe => waiting'[x] = << >>
  BY <1>1, <1>5, SortedEmpty DEF IInv, LibraryCopyEmpty
<1>7. Shape'
  BY <1>1, <1>2, <1>3 DEF IInv, Shape
<1>8. LibraryCopyEmpty'
  BY <1>2, <1>5, <1>6 DEF IInv, LibraryCopyEmpty
<1>9. OnlyEmptyUnguarded'
  <2>1. \A y \in Copies : waiting'[y] # << >> => ready'[y]
    BY <1>1, <1>3, <1>5, <1>6 DEF IInv, OnlyEmptyUnguarded
  <2>2. \A y \in Copies : y \in raw' => y[2] # Exe /\ size'[y] # "some"
    BY <1>2, <1>4 DEF IInv, OnlyEmptyUnguarded, LibraryCopyEmpty
  <2> QED BY <2>1, <2>2 DEF OnlyEmptyUnguarded
<1> QED BY <1>7, <1>8, <1>9 DEF IInv

LEMMA AtexitLoadStep ==
  ASSUME IInv, NEW i \in Images, AtexitLoad(i)
  PROVE  IInv'
<1>1. ready' = [ready EXCEPT ![<<"exit", Exe>>] = TRUE] /\ UNCHANGED <<waiting, size, raw>>
  BY DEF AtexitLoad, Once, Resolve
<1>2. ready' \in [Copies -> BOOLEAN] /\ \A y \in Copies : ready[y] => ready'[y]
  BY <1>1 DEF IInv, Shape
<1> QED BY <1>1, <1>2 DEF IInv, Shape, LibraryCopyEmpty, OnlyEmptyUnguarded

LEMMA AtexitUnloadStep ==
  ASSUME IInv, NEW i \in Images, AtexitUnload(i)
  PROVE  IInv'
<1> DEFINE x == <<"exit", i>>
           e == <<"exit", Exe>>
<1>1. x \in Copies /\ e \in Copies /\ e[2] = Exe /\ (x[2] = Exe => x = e)
  BY ExeCopy DEF Kinds
<1>2. /\ ready' = [ready EXCEPT ![e] = TRUE]
      /\ raw' = IF ready'[x] THEN raw ELSE raw \cup {x}
      /\ UNCHANGED <<waiting, size>>
  BY DEF AtexitUnload, Once, Lock, Resolve, Drains
<1> HIDE DEF x, e
<1>3. ready' \in [Copies -> BOOLEAN] /\ ready'[e] /\ \A y \in Copies : ready[y] => ready'[y]
  BY <1>1, <1>2 DEF IInv, Shape
<1>4. \A y \in Copies : y \in raw' => y \in raw \/ (y = x /\ x[2] # Exe)
  BY <1>1, <1>2, <1>3
<1>5. Shape' /\ LibraryCopyEmpty'
  BY <1>2, <1>3 DEF IInv, Shape, LibraryCopyEmpty
<1>6. OnlyEmptyUnguarded'
  BY <1>2, <1>3, <1>4 DEF IInv, OnlyEmptyUnguarded, LibraryCopyEmpty
<1> QED BY <1>5, <1>6 DEF IInv

\* What is taken was waiting in the copy of the executable.
LEMMA TakeStep ==
  ASSUME IInv, Take
  PROVE  IInv'
<1> DEFINE x == Copy(Top)
<1>1. PICK s : waiting' = [waiting EXCEPT ![x] = s] /\ waiting[x] # << >>
  BY DEF Take, SomeWait
<1>2. UNCHANGED <<size, ready, raw>>
  BY DEF Take
<1> HIDE DEF x
<1>3. /\ \A y \in Copies : y # x => waiting'[y] = waiting[y]
      /\ x \in Copies => x[2] = Exe /\ ready[x]
  BY <1>1 DEF IInv, Shape, LibraryCopyEmpty, OnlyEmptyUnguarded
<1>4. Shape'
  BY <1>1, <1>2 DEF IInv, Shape
<1>5. LibraryCopyEmpty' /\ OnlyEmptyUnguarded'
  BY <1>2, <1>3 DEF IInv, LibraryCopyEmpty, OnlyEmptyUnguarded
<1> QED BY <1>4, <1>5 DEF IInv

LEMMA DrainedStep ==
  ASSUME IInv, Drained
  PROVE  IInv'
<1>1. size' = [size EXCEPT ![Copy(Top)] = "ran"] /\ UNCHANGED <<waiting, ready, raw>>
  BY DEF Drained
<1>2. size' \in [Copies -> {"none", "some", "ran"}]
  BY <1>1 DEF IInv, Shape
<1>3. \A y \in Copies : size'[y] = size[y] \/ size'[y] = "ran"
  BY <1>1 DEF IInv, Shape
<1> QED BY <1>1, <1>2, <1>3 DEF IInv, Shape, LibraryCopyEmpty, OnlyEmptyUnguarded

LEMMA StepIInv == IInv /\ [Next]_vars => IInv'
<1> SUFFICES ASSUME IInv, [Next]_vars PROVE IInv'
  OBVIOUS
<1>1. CASE UNCHANGED vars
  BY <1>1, Untouched DEF vars
<1>2. CASE Proceed
  <2>1. CASE Take
    BY <2>1, TakeStep
  <2>2. CASE Drained
    BY <2>2, DrainedStep
  <2>3. CASE Call \/ Return \/ EndClient \/ Loaded \/ Unloaded
    BY <2>3, Untouched DEF Call, Return, EndClient, Loaded, Unloaded
  <2>4. ASSUME NEW i \in Images, AtinitLoad(i) \/ AtexitLoad(i) \/ AtexitUnload(i)
        PROVE  IInv'
    BY <2>4, AtinitLoadStep, AtexitLoadStep, AtexitUnloadStep
  <2>5. ASSUME NEW i \in Images, ClientCode(i)
        PROVE  IInv'
    BY <2>5, Untouched DEF ClientCode
  <2> QED BY <1>2, <2>1, <2>2, <2>3, <2>4, <2>5 DEF Proceed
<1>3. ASSUME NEW c \in InitCallbacks, RegisterInit(c)
      PROVE  IInv'
  BY <1>3, RegisterStep DEF RegisterInit, Resolve, Kinds
<1>4. ASSUME NEW c \in ExitCallbacks, RegisterExit(c)
      PROVE  IInv'
  BY <1>4, RegisterStep DEF RegisterExit, Resolve, Kinds
<1>5. ASSUME NEW i \in Images, Load(i) \/ Unload(i)
      PROVE  IInv'
  BY <1>5, Untouched DEF Load, Unload
<1>6. CASE Exit \/ Terminated
  BY <1>6, Untouched DEF Exit, Terminated, vars
<1> QED BY <1>1, <1>2, <1>3, <1>4, <1>5, <1>6 DEF Next

\* OnlyEmptyUnguarded: however many images load, open and close each other, no
\* registration is ever stored in the private copy of a library, the mutex of
\* which is locked without having been initialised (atinit.c:405-406).
THEOREM NothingUnguarded == Spec => []OnlyEmptyUnguarded
<1>1. IInv => OnlyEmptyUnguarded
  BY DEF IInv
<1> QED BY InitIInv, StepIInv, <1>1, PTL DEF Spec

(***************************************************************************)
(* Sequences, and the stack                                                *)
(***************************************************************************)

\* A sequence with an element more, and the stack with an activation more.
LEMMA Appended ==
  ASSUME NEW S, NEW s \in Seq(S), NEW e \in S
  PROVE  /\ Append(s, e) \in Seq(S)
         /\ Len(Append(s, e)) = Len(s) + 1 /\ Len(s) \in Nat
         /\ \A k : k \in DOMAIN Append(s, e) <=> k \in DOMAIN s \/ k = Len(s) + 1
         /\ \A k \in DOMAIN s : Append(s, e)[k] = s[k] /\ k <= Len(s) /\ k \in Nat
         /\ Append(s, e)[Len(s) + 1] = e
OBVIOUS

\* Its elements are those before, and the one that was appended.
LEMMA AppendedElements ==
  ASSUME NEW S, NEW s \in Seq(S), NEW e \in S
  PROVE  Elements(Append(s, e)) = Elements(s) \cup {e}
<1>1. ASSUME NEW x \in Elements(Append(s, e))
      PROVE  x \in Elements(s) \cup {e}
  BY <1>1, Appended DEF Elements
<1>2. ASSUME NEW x \in Elements(s) \cup {e}
      PROVE  x \in Elements(Append(s, e))
  <2>1. CASE x = e
    <3>1. Len(s) + 1 \in DOMAIN Append(s, e) /\ Append(s, e)[Len(s) + 1] = e
      BY Appended
    <3> QED BY <2>1, <3>1 DEF Elements
  <2>2. CASE x \in Elements(s)
    <3>1. PICK k \in DOMAIN s : s[k] = x
      BY <2>2 DEF Elements
    <3>2. k \in DOMAIN Append(s, e) /\ Append(s, e)[k] = x
      BY <3>1, Appended
    <3> QED BY <3>2 DEF Elements
  <2> QED BY <1>2, <2>1, <2>2
<1> QED BY <1>1, <1>2

\* A sequence without its last element.
LEMMA Shortened ==
  ASSUME NEW S, NEW s \in Seq(S), s # << >>
  PROVE  /\ SubSeq(s, 1, Len(s) - 1) \in Seq(S)
         /\ Len(SubSeq(s, 1, Len(s) - 1)) = Len(s) - 1
         /\ Len(s) \in DOMAIN s /\ s[Len(s)] \in S
         /\ \A k : k \in DOMAIN SubSeq(s, 1, Len(s) - 1) <=> k \in DOMAIN s /\ k # Len(s)
         /\ \A k \in DOMAIN SubSeq(s, 1, Len(s) - 1) : SubSeq(s, 1, Len(s) - 1)[k] = s[k]
<1> DEFINE n == Len(s) - 1
           t == SubSeq(s, 1, n)
<1>1. n \in Nat /\ Len(s) = n + 1 /\ DOMAIN s = 1..(n + 1)
  OBVIOUS
<1>2. t \in Seq(S) /\ Len(t) = n
  BY <1>1
<1>3. DOMAIN t = 1..n /\ \A k \in 1..n : t[k] = s[k]
  BY <1>1
<1>4. Len(s) \in DOMAIN s /\ s[Len(s)] \in S
  BY <1>1
<1> HIDE DEF n, t
<1>5. \A k : k \in DOMAIN t <=> k \in DOMAIN s /\ k # Len(s)
  BY <1>1, <1>3
<1> QED BY <1>2, <1>3, <1>4, <1>5 DEF t, n

\* The elements of a sequence of callbacks are callbacks.
LEMMA Members ==
  ASSUME NEW S, NEW s \in Seq(S)
  PROVE  /\ \A k \in DOMAIN s : s[k] \in S /\ s[k] \in Elements(s)
         /\ Elements(s) \subseteq S
         /\ DOMAIN s = 1..Len(s) /\ Len(s) \in Nat
         /\ s = << >> <=> Len(s) = 0
BY DEF Elements

\* The stack with an activation more.
LEMMA Pushed ==
  ASSUME stack \in Seq(Frames), NEW frame \in Frames, Push(frame)
  PROVE  /\ stack' \in Seq(Frames) /\ ~ Idle' /\ Top' = frame
         /\ Len(stack') = Len(stack) + 1 /\ Len(stack) \in Nat
         /\ \A k : k \in DOMAIN stack' <=> k \in DOMAIN stack \/ k = Len(stack) + 1
         /\ \A k \in DOMAIN stack : stack'[k] = stack[k] /\ k <= Len(stack) /\ k \in Nat
         /\ stack'[Len(stack) + 1] = frame
BY Appended DEF Push, Top, Idle

\* The stack without its topmost activation.
LEMMA Popped ==
  ASSUME stack \in Seq(Frames), ~ Idle, Pop
  PROVE  /\ stack' \in Seq(Frames) /\ Len(stack') = Len(stack) - 1
         /\ Len(stack) \in DOMAIN stack /\ Top \in Frames
         /\ \A k : k \in DOMAIN stack' <=> k \in DOMAIN stack /\ k # Len(stack)
         /\ \A k \in DOMAIN stack' : stack'[k] = stack[k]
BY Shortened DEF Pop, Top, Idle

\* The stack with a changed topmost activation.
LEMMA TopChanged ==
  ASSUME stack \in Seq(Frames), ~ Idle, NEW c \in Callbacks \cup {NoCallback},
         stack' = [stack EXCEPT ![Len(stack)].f = c]
  PROVE  /\ stack' \in Seq(Frames) /\ Len(stack') = Len(stack)
         /\ Len(stack) \in DOMAIN stack /\ Top \in Frames
         /\ DOMAIN stack' = DOMAIN stack
         /\ \A k \in DOMAIN stack : k # Len(stack) => stack'[k] = stack[k]
         /\ Top' = [Top EXCEPT !.f = c] /\ Top' \in Frames
         /\ stack'[Len(stack)] = Top'
<1>1. Len(stack) \in DOMAIN stack /\ Top \in Frames
  BY DEF Top, Idle
<1>2. [Top EXCEPT !.f = c] \in Frames
  BY <1>1 DEF Frames
<1>3. stack' = [stack EXCEPT ![Len(stack)] = [Top EXCEPT !.f = c]]
  BY DEF Top
<1> HIDE DEF Frames
<1> QED BY <1>1, <1>2, <1>3 DEF Top

(***************************************************************************)
(* The sort of a sequence                                                  *)
(***************************************************************************)

\* What is at position k after the sort was at position q[k] before: everything is
\* still there, by rising priority, and the later registration first on ties.
SortedBy(s, q) ==
  /\ q \in [DOMAIN s -> DOMAIN s]
  /\ \A y \in DOMAIN s : \E k \in DOMAIN s : q[k] = y
  /\ \A k, m \in DOMAIN s : k < m =>
       \/ Priority[s[q[k]]] < Priority[s[q[m]]]
       \/ Priority[s[q[k]]] = Priority[s[q[m]]] /\ q[k] > q[m]
  /\ Sorted(s) \in Seq(Callbacks) /\ Len(Sorted(s)) = Len(s) /\ DOMAIN Sorted(s) = DOMAIN s
  /\ \A k \in DOMAIN s : Sorted(s)[k] = s[q[k]]

\* The sort of a copy returns a sequence of the same length whose cells are
\* those of before, rearranged.
LEMMA SortArranges ==
  ASSUME NEW s \in Seq(Callbacks)
  PROVE  \E q : SortedBy(s, q)
<1> DEFINE n == Len(s)
           I == 0..(n - 1)
           arr == Cells(s)
           D == DOMAIN s
<1>1. n \in Nat /\ D = 1..n /\ \A k \in D : s[k] \in Callbacks
  OBVIOUS
<1>2. arr = [k \in I |-> s[k + 1]]
  BY DEF Cells
<1> HIDE DEF arr, n
<1>3. ASSUME NEW k \in I
      PROVE  k + 1 \in D /\ arr[k] = s[k + 1] /\ arr[k] \in Callbacks
  BY <1>1, <1>2, <1>3
<1>4. Sortable(arr, Priority, I)
  BY <1>2, <1>3, CallbackAssumption DEF Sortable, IsArray
<1>5. Arranges(arr, Falling(arr, Priority, I), Mergesort(arr, Priority, n), 0, n - 1)
  BY <1>1, <1>4, MergesortArranges
<1>6. PICK p \in [I -> I] :
        /\ InOrder(p, Falling(arr, Priority, I), 0, n - 1)
        /\ Mergesort(arr, Priority, n) = [k \in DOMAIN arr |-> IF k \in I THEN arr[p[k]] ELSE arr[k]]
  BY <1>5 DEF Arranges
<1> DEFINE q == [k \in D |-> p[k - 1] + 1]
<1>7. ASSUME NEW k \in D
      PROVE  /\ k - 1 \in I /\ p[k - 1] \in I /\ k \in Int
             /\ q[k] \in D /\ q[k] = p[k - 1] + 1 /\ s[q[k]] = arr[p[k - 1]]
  <2>1. k - 1 \in I /\ p[k - 1] \in I /\ k \in Int
    BY <1>1, <1>6
  <2> QED BY <2>1, <1>3
<1>8. q \in [D -> D]
  BY <1>7
<1> HIDE DEF q
<1>9. ASSUME NEW y \in D
      PROVE  \E k \in D : q[k] = y
  <2>1. y - 1 \in I /\ y \in Int
    BY <1>1
  <2>2. PICK x \in I : p[x] = y - 1
    BY <1>6, <2>1 DEF InOrder
  <2>3. x + 1 \in D /\ x \in Int /\ (x + 1) - 1 = x
    BY <1>1
  <2>4. q[x + 1] = p[x] + 1
    BY <1>7, <2>3
  <2> QED BY <2>1, <2>2, <2>3, <2>4
<1>10. ASSUME NEW k \in D, NEW m \in D, k < m
       PROVE  \/ Priority[s[q[k]]] < Priority[s[q[m]]]
              \/ Priority[s[q[k]]] = Priority[s[q[m]]] /\ q[k] > q[m]
  <2> DEFINE x == k - 1  y == m - 1
  <2> HIDE DEF D, I
  <2>0. x < y
    <3>1. k \in Int /\ m \in Int
      BY <1>7
    <3> QED BY <3>1, <1>10
  <2>1. /\ x \in I /\ y \in I /\ p[x] \in I /\ p[y] \in I
        /\ q[k] = p[x] + 1 /\ s[q[k]] = arr[p[x]]
        /\ q[m] = p[y] + 1 /\ s[q[m]] = arr[p[y]]
    BY <1>7
  <2> HIDE DEF x, y
  <2>2. <<p[x], p[y]>> \in Falling(arr, Priority, I)
    BY <1>6, <2>0, <2>1 DEF InOrder, I
  <2>3. \/ Priority[arr[p[x]]] < Priority[arr[p[y]]]
        \/ Priority[arr[p[x]]] = Priority[arr[p[y]]] /\ p[x] > p[y]
    BY <2>2, FallingPair
  <2>4. p[x] \in Int /\ p[y] \in Int
    BY <2>1, <1>1 DEF I
  <2> QED BY <2>1, <2>3, <2>4
<1>11. Sorted(s) = [k \in D |-> s[q[k]]]
  <2> DEFINE M == Mergesort(arr, Priority, n)
  <2>1. Sorted(s) = [k \in 1..n |-> M[k - 1]]
    BY DEF Sorted, List, n, arr
  <2>2. ASSUME NEW k \in D PROVE M[k - 1] = s[q[k]]
    BY <1>2, <1>6, <1>7
  <2> HIDE DEF M
  <2> QED BY <2>1, <2>2, <1>1
<1>12. \A k \in D : Sorted(s)[k] = s[q[k]] /\ s[q[k]] \in Callbacks
  BY <1>1, <1>7, <1>11
<1>13. Sorted(s) \in Seq(Callbacks) /\ Len(Sorted(s)) = n /\ DOMAIN Sorted(s) = D
  BY <1>1, <1>11, <1>12
<1>14. SortedBy(s, q)
  BY <1>8, <1>9, <1>10, <1>12, <1>13 DEF SortedBy, n
<1> QED BY <1>14

\* So it keeps the elements.
LEMMA SortKeepsElements ==
  ASSUME NEW s \in Seq(Callbacks)
  PROVE  /\ Sorted(s) \in Seq(Callbacks)
         /\ Elements(Sorted(s)) = Elements(s)
         /\ s = << >> => Sorted(s) = << >>
<1>1. PICK q : SortedBy(s, q)
  BY SortArranges
<1>2. ASSUME NEW x \in Elements(s) PROVE x \in Elements(Sorted(s))
  BY <1>1, <1>2 DEF SortedBy, Elements
<1>3. ASSUME NEW x \in Elements(Sorted(s)) PROVE x \in Elements(s)
  BY <1>1, <1>3 DEF SortedBy, Elements
<1>4. Sorted(s) \in Seq(Callbacks) /\ Len(Sorted(s)) = Len(s)
  BY <1>1 DEF SortedBy
<1>5. Elements(Sorted(s)) = Elements(s)
  BY <1>2, <1>3
<1>6. s = << >> => Sorted(s) = << >>
  BY <1>4
<1> QED BY <1>4, <1>5, <1>6

(***************************************************************************)
(* Types                                                                   *)
(***************************************************************************)

\* The fields of an activation.
LEMMA FrameFields ==
  /\ \A frame \in Frames :
       /\ frame.op \in {"load", "unload", "client", "drain", "late"} /\ frame.kind \in Kinds
       /\ frame.image \in Images /\ frame.f \in Callbacks \cup {NoCallback}
       /\ Copy(frame) \in Copies
  /\ \A op \in {"load", "unload", "client", "drain", "late"}, k \in Kinds, i \in Images,
       c \in Callbacks \cup {NoCallback} :
       /\ Frame(op, k, i, c) \in Frames
       /\ Frame(op, k, i, c).op = op /\ Frame(op, k, i, c).kind = k
       /\ Frame(op, k, i, c).image = i /\ Frame(op, k, i, c).f = c
       /\ Copy(Frame(op, k, i, c)) = <<k, i>>
BY DEF Frames, Frame, Copy, Copies

\* The variables have their types at the start.
LEMMA InitTypes == Init => TypeOK
BY DEF Init, TypeOK

\* The topmost activation is one.
LEMMA TopType ==
  ASSUME TypeOK, ~ Idle
  PROVE  Top \in Frames /\ Top.f \in Callbacks \cup {NoCallback} /\ Copy(Top) \in Copies /\ Top.image \in Images
<1>1. Top \in Frames
  BY DEF TypeOK, Top, Idle
<1> QED BY <1>1, FrameFields

\* Registration keeps the types: the callback comes to the end of the array, or into
\* an activation of its own.
LEMMA RegisterTypes ==
  ASSUME TypeOK, NEW k \in Kinds, NEW c \in Callbacks, Register(<<k, Exe>>, c)
  PROVE  TypeOK'
<1> DEFINE x == <<k, Exe>>
<1>1. x \in Copies /\ x[1] = k /\ x[2] = Exe /\ Exe \in Images
  BY ExeCopy DEF Images
<1>2. order' \in Seq(Callbacks) /\ raw' \subseteq Copies /\ ready' \in [Copies -> BOOLEAN]
  BY <1>1 DEF TypeOK, Register, Once, Lock
<1>3. CASE Late(x)
  <2>1. Push(Frame("late", k, Exe, c)) /\ UNCHANGED <<waiting, size>>
    BY <1>1, <1>3 DEF Register
  <2>2. stack' \in Seq(Frames)
    BY <1>1, <2>1, FrameFields, Pushed DEF TypeOK
  <2> QED BY <1>2, <2>1, <2>2 DEF TypeOK, Register, loader
<1>4. CASE ~ Late(x)
  <2>1. waiting' = [waiting EXCEPT ![x] = Append(@, c)] /\ size' = [size EXCEPT ![x] = "some"] /\ stack' = stack
    BY <1>1, <1>4 DEF Register
  <2> HIDE DEF x
  <2>2. Append(waiting[x], c) \in Seq(Callbacks)
    BY <1>1, Appended DEF TypeOK
  <2>3. waiting' \in [Copies -> Seq(Callbacks)]
    BY <1>1, <2>1, <2>2 DEF TypeOK
  <2>4. size' \in [Copies -> {"none", "some", "ran"}] /\ \A y \in Copies : size'[y] # "some" => waiting'[y] = << >>
    BY <1>1, <2>1 DEF TypeOK
  <2> QED BY <1>2, <2>1, <2>3, <2>4 DEF TypeOK, Register, loader
<1> QED BY <1>3, <1>4

\* The constructor of mulle-atinit keeps the types.
LEMMA AtinitLoadTypes ==
  ASSUME TypeOK, NEW i \in Images, AtinitLoad(i)
  PROVE  TypeOK'
<1> DEFINE x == <<"init", i>>
<1>1. x \in Copies /\ <<"init", Exe>> \in Copies
  BY ExeCopy DEF Kinds
<1>2. waiting' = [waiting EXCEPT ![x] = Sorted(@)]
  BY DEF AtinitLoad, Drains
<1>3. Sorted(waiting[x]) \in Seq(Callbacks) /\ (waiting[x] = << >> => Sorted(waiting[x]) = << >>)
  BY <1>1, SortKeepsElements DEF TypeOK
<1>4. Push(Frame("drain", "init", i, NoCallback))
  BY DEF AtinitLoad, Drains
<1>5. stack' \in Seq(Frames)
  BY <1>4, FrameFields, Pushed DEF TypeOK, Kinds
<1>6. todo' \in [Images -> SUBSET {"client", "atinit", "atexit"}] /\ UNCHANGED <<process, image, size, order, log, done>>
  BY DEF AtinitLoad, Calls, TypeOK
<1>7. ready' \in [Copies -> BOOLEAN] /\ raw' \subseteq Copies
  BY <1>1 DEF AtinitLoad, Once, Lock, Drains, TypeOK
<1>8. cut' \in Nat \cup {-1}
  BY DEF AtinitLoad, TypeOK
<1> HIDE DEF x
<1>9. waiting' \in [Copies -> Seq(Callbacks)] /\ \A y \in Copies : waiting[y] = << >> => waiting'[y] = << >>
  BY <1>1, <1>2, <1>3 DEF TypeOK
<1> QED BY <1>5, <1>6, <1>7, <1>8, <1>9 DEF TypeOK

\* So do the constructor and the destructor of mulle-atexit.
LEMMA AtexitTypes ==
  ASSUME TypeOK, NEW i \in Images, AtexitLoad(i) \/ AtexitUnload(i) \/ ClientCode(i)
  PROVE  TypeOK'
<1>1. ready' \in [Copies -> BOOLEAN]
  BY ExeCopy DEF AtexitLoad, AtexitUnload, ClientCode, registry, Once, Resolve, TypeOK
<1>2. raw' \subseteq Copies
  BY ExeCopy DEF AtexitLoad, AtexitUnload, ClientCode, registry, Lock, Drains, TypeOK
<1>3. todo' \in [Images -> SUBSET {"client", "atinit", "atexit"}] /\ UNCHANGED <<process, image>>
  <2>1. PICK what : todo' = [todo EXCEPT ![i] = @ \ {what}] /\ UNCHANGED <<process, image>>
    BY DEF AtexitLoad, AtexitUnload, ClientCode, Calls
  <2> QED BY <2>1 DEF TypeOK
<1>4. stack' \in Seq(Frames)
  <2>1. CASE AtexitLoad(i)
    BY <2>1 DEF AtexitLoad, TypeOK
  <2>2. CASE AtexitUnload(i)
    BY <2>2, FrameFields, Pushed DEF AtexitUnload, TypeOK, Kinds, Drains
  <2>3. CASE ClientCode(i)
    BY <2>3, FrameFields, Pushed DEF ClientCode, TypeOK, Kinds
  <2> QED BY <2>1, <2>2, <2>3
<1>5. UNCHANGED <<waiting, size, ghosts>>
  BY DEF AtexitLoad, AtexitUnload, ClientCode, registry
<1> QED BY <1>1, <1>2, <1>3, <1>4, <1>5 DEF TypeOK, ghosts

\* So does a drain that takes a callback,
LEMMA TakeTypes ==
  ASSUME TypeOK, Take
  PROVE  TypeOK'
<1> DEFINE x == Copy(Top)
           s == waiting[x]
<1>1. x \in Copies /\ ~ Idle
  BY TopType DEF Take, Draining, On
<1>2. s \in Seq(Callbacks) /\ s # << >>
  BY <1>1 DEF Take, SomeWait, TypeOK
<1>3. /\ waiting' = [waiting EXCEPT ![x] = SubSeq(s, 1, Len(s) - 1)]
      /\ stack' = [stack EXCEPT ![Len(stack)].f = s[Len(s)]]
      /\ UNCHANGED <<loader, size, ready, raw, ghosts>>
  BY DEF Take
<1> HIDE DEF x, s
<1>4. SubSeq(s, 1, Len(s) - 1) \in Seq(Callbacks) /\ s[Len(s)] \in Callbacks
  BY <1>2, Shortened
<1>5. stack' \in Seq(Frames)
  BY <1>1, <1>3, <1>4, TopChanged DEF TypeOK
<1>6. waiting' \in [Copies -> Seq(Callbacks)]
  BY <1>1, <1>3, <1>4 DEF TypeOK
<1>7. \A y \in Copies : size'[y] # "some" => waiting'[y] = << >>
  BY <1>1, <1>2, <1>3 DEF TypeOK, s
<1> QED BY <1>3, <1>5, <1>6, <1>7 DEF TypeOK, loader, ghosts

\* that finds its copy empty,
LEMMA DrainedTypes ==
  ASSUME TypeOK, Drained
  PROVE  TypeOK'
<1> DEFINE x == Copy(Top)
<1>1. x \in Copies /\ ~ Idle
  BY TopType DEF Drained, Draining, On
<1>2. /\ size' = [size EXCEPT ![x] = "ran"] /\ Pop /\ waiting[x] = << >>
      /\ UNCHANGED <<loader, waiting, ready, raw, ghosts>>
  BY DEF Drained, SomeWait
<1> HIDE DEF x
<1>3. stack' \in Seq(Frames)
  BY <1>1, <1>2, Popped DEF TypeOK
<1> QED BY <1>1, <1>2, <1>3 DEF TypeOK, loader, ghosts

\* that calls its callback,
LEMMA CallTypes ==
  ASSUME TypeOK, Call
  PROVE  TypeOK'
<1>1. Top.f \in Callbacks
  BY TopType DEF Call
<1>2. log' \in Seq(Callbacks)
  <2>1. log' = log \/ log' = Append(log, Top.f)
    BY DEF Call
  <2>2. log \in Seq(Callbacks)
    BY DEF TypeOK
  <2>3. Append(log, Top.f) \in Seq(Callbacks)
    BY <1>1, <2>2, Appended
  <2> QED BY <2>1, <2>2, <2>3
<1>3. process' \in {"loading", "main", "exiting", "exited", "crashed"}
  BY DEF Call, TypeOK
<1> QED BY <1>2, <1>3 DEF Call, TypeOK, registry

\* or whose callback has returned;
LEMMA ReturnTypes ==
  ASSUME TypeOK, Return
  PROVE  TypeOK'
<1>1. Top.f \in Callbacks
  BY Members DEF Return, TypeOK
<1>2. stack' \in Seq(Frames)
  BY Popped, TopChanged DEF Return, TypeOK
<1> QED BY <1>1, <1>2 DEF Return, TypeOK, loader, registry

\* and so does the loader.
LEMMA LoaderTypes ==
  ASSUME TypeOK, EndClient \/ Loaded \/ Unloaded \/ Exit \/ \E i \in Images : Load(i) \/ Unload(i)
  PROVE  TypeOK'
<1>1. UNCHANGED <<registry, ghosts>>
  BY DEF EndClient, Loaded, Unloaded, Exit, Load, Unload
<1>2. stack' \in Seq(Frames)
  <2>1. CASE EndClient \/ Loaded \/ Unloaded
    BY <2>1, Popped DEF EndClient, Loaded, Unloaded, On, TypeOK
  <2>2. ASSUME NEW i \in Images, Load(i) \/ Unload(i)
        PROVE  stack' \in Seq(Frames)
    BY <2>2, FrameFields, Pushed DEF Load, Unload, Kinds, TypeOK
  <2> QED BY <2>1, <2>2 DEF Exit, TypeOK
<1>3. image' \in [Images -> {"unloaded", "loading", "ready", "unloading", "closed", "gone"}]
  BY DEF EndClient, Loaded, Unloaded, Exit, Load, Unload, TypeOK, loader
<1>4. todo' \in [Images -> SUBSET {"client", "atinit", "atexit"}]
  <2>1. CASE EndClient \/ Loaded \/ Unloaded \/ Exit
    BY <2>1 DEF EndClient, Loaded, Unloaded, Exit, TypeOK, loader
  <2>2. ASSUME NEW i \in Images, Load(i) \/ Unload(i)
        PROVE  todo' \in [Images -> SUBSET {"client", "atinit", "atexit"}]
    <3>1. PICK new \in SUBSET {"client", "atinit", "atexit"} : todo' = [todo EXCEPT ![i] = new]
      <4>1. CASE Load(i)
        BY <4>1 DEF Load
      <4>2. CASE Unload(i)
        BY <4>2 DEF Unload
      <4> QED BY <2>2, <4>1, <4>2
    <3> QED BY <3>1 DEF TypeOK
  <2> QED BY <2>1, <2>2
<1>5. process' \in {"loading", "main", "exiting", "exited", "crashed"}
  BY DEF EndClient, Loaded, Unloaded, Exit, Load, Unload, TypeOK, loader
<1> QED BY <1>1, <1>2, <1>3, <1>4, <1>5 DEF TypeOK, registry, ghosts

(***************************************************************************)
(* Control: who is on the stack, and when                                  *)
(***************************************************************************)

\* The copy that a callback is registered in, whoever registers it.
Home(c) == <<Kind(c), Exe>>

\* What waits in a copy, or was taken from it, or is executed at once by it, is
\* at home there.
HomeInv ==
  /\ \A x \in Copies : \A k \in DOMAIN waiting[x] : Home(waiting[x][k]) = x
  /\ \A k \in DOMAIN stack : stack[k].f # NoCallback =>
       stack[k].op \in {"drain", "late"} /\ Copy(stack[k]) = Home(stack[k].f)

\* The constructors of the executable run at the bottom of the stack, and so do
\* the destructors of every image.
FrameInv ==
  \A k \in DOMAIN stack :
    /\ stack[k].op = "load" /\ stack[k].image = Exe => k = 1 /\ image[Exe] = "loading"
    /\ stack[k].op = "unload" => k = 1 /\ (stack[k].image = Exe => image[Exe] = "unloading")

\* Whether the executable's copy is drained, or was.
Opened(kind) ==
  IF kind = "init" THEN cut # -1
  ELSE image[Exe] = "gone" \/ (image[Exe] = "unloading" /\ "atexit" \notin todo[Exe])

\* The drain of the executable's copy of a kind.
DrainsExe(frame, kind) == frame.op = "drain" /\ frame.kind = kind /\ frame.image = Exe

\* A copy of the executable that was opened is being drained, or was.
OpenInv ==
  \A kind \in Kinds : Opened(kind) =>
    \/ size[<<kind, Exe>>] = "ran"
    \/ \E k \in DOMAIN stack : DrainsExe(stack[k], kind)

\* Of each kind, the copy of the executable is drained by one activation at
\* most.
OneDrainInv ==
  \A kind \in Kinds : \A k, m \in DOMAIN stack :
    DrainsExe(stack[k], kind) /\ DrainsExe(stack[m], kind) => k = m

\* Before that, nobody executes a callback of that kind, and no registration is late.
ShutInv ==
  \A kind \in Kinds : ~ Opened(kind) =>
    /\ size[<<kind, Exe>>] # "ran"
    /\ waiting[<<kind, Exe>>] = << >> => size[<<kind, Exe>>] = "none"
    /\ \A k \in DOMAIN stack :
         stack[k].op \in {"drain", "late"} => stack[k].kind # kind \/ stack[k].image # Exe
    /\ \A c \in Elements(log) : Kind(c) # kind

\* What the life of the process says of the stack and of the copies.
LifeInv ==
  /\ process = "loading" => image[Exe] \in {"unloaded", "loading"}
  /\ process = "main" => image[Exe] = "ready"
  /\ process = "exiting" => image[Exe] \in {"ready", "unloading", "gone"}
  /\ process = "exited" => image[Exe] = "gone" /\ stack = << >>
  /\ image[Exe] = "unloaded" => cut = -1
  /\ image[Exe] = "loading" => (cut = -1 <=> "atinit" \in todo[Exe])
  /\ image[Exe] \notin {"unloaded", "loading"} => cut # -1 /\ size[<<"init", Exe>>] = "ran"
  /\ image[Exe] = "gone" => size[<<"exit", Exe>>] = "ran"

\* The first inductive invariant: types, and the control of the process.
ControlInv == TypeOK /\ HomeInv /\ FrameInv /\ OpenInv /\ OneDrainInv /\ ShutInv /\ LifeInv

\* It holds at the start.
LEMMA InitControl == Init => ControlInv
<1> SUFFICES ASSUME Init PROVE ControlInv
  OBVIOUS
<1>1. TypeOK
  BY InitTypes
<1>2. \A kind \in Kinds : ~ Opened(kind) /\ <<kind, Exe>> \in Copies /\ Exe \in Images
  BY ExeCopy DEF Init, Opened, Images
<1>3. HomeInv /\ FrameInv /\ OneDrainInv
  BY DEF Init, HomeInv, FrameInv, OneDrainInv
<1>4. OpenInv /\ ShutInv
  BY <1>2 DEF Init, OpenInv, ShutInv, Elements
<1>5. LifeInv
  BY <1>2 DEF Init, LifeInv, Images
<1> QED BY <1>1, <1>3, <1>4, <1>5 DEF ControlInv

(***************************************************************************)
(* How the stack changes                                                   *)
(***************************************************************************)

\* The innermost activation is that of the constructors or destructors of Exe.
LEMMA AtBottom ==
  ASSUME ControlInv
  PROVE  /\ On("load") /\ Top.image = Exe => Len(stack) = 1 /\ image[Exe] = "loading"
         /\ On("unload") => Len(stack) = 1 /\ (Top.image = Exe => image[Exe] = "unloading")
         /\ ~ Idle => Len(stack) \in DOMAIN stack /\ DOMAIN stack = 1..Len(stack)
<1>1. ~ Idle => Len(stack) \in DOMAIN stack /\ DOMAIN stack = 1..Len(stack)
  BY Members DEF ControlInv, TypeOK, Idle
<1>2. On("load") /\ Top.image = Exe => Len(stack) = 1 /\ image[Exe] = "loading"
  BY <1>1 DEF ControlInv, FrameInv, On, Top
<1>3. On("unload") => Len(stack) = 1 /\ (Top.image = Exe => image[Exe] = "unloading")
  BY <1>1 DEF ControlInv, FrameInv, On, Top
<1> QED BY <1>1, <1>2, <1>3

\* An activation that holds nothing, and neither drains nor is late.
Plain(frame) == frame \in Frames /\ frame.op \notin {"drain", "late"} /\ frame.f = NoCallback

\* Where an activation is, when another one comes on top.
LEMMA PushedAt ==
  ASSUME stack \in Seq(Frames), NEW frame \in Frames, Push(frame)
  PROVE  \A k \in DOMAIN stack' : \/ k \in DOMAIN stack /\ stack'[k] = stack[k]
                                  \/ k = Len(stack) + 1 /\ stack'[k] = frame
<1> SUFFICES ASSUME NEW k \in DOMAIN stack'
             PROVE  \/ k \in DOMAIN stack /\ stack'[k] = stack[k]
                    \/ k = Len(stack) + 1 /\ stack'[k] = frame
  OBVIOUS
<1>1. k \in DOMAIN stack \/ k = Len(stack) + 1
  BY Pushed
<1> QED BY <1>1, Pushed

\* An activation without a callback on top leaves everybody at home.
LEMMA PushedHome ==
  ASSUME ControlInv, NEW frame \in Frames, Push(frame), UNCHANGED waiting,
         frame.f # NoCallback => frame.op \in {"drain", "late"} /\ Copy(frame) = Home(frame.f)
  PROVE  HomeInv'
<1>1. \A k \in DOMAIN stack' : (k \in DOMAIN stack /\ stack'[k] = stack[k]) \/ stack'[k] = frame
  BY Pushed DEF ControlInv, TypeOK
<1> QED BY <1>1 DEF ControlInv, HomeInv

\* So does the end of an activation.
LEMMA PoppedHome ==
  ASSUME ControlInv, ~ Idle, Pop, UNCHANGED waiting
  PROVE  HomeInv'
<1>1. \A k \in DOMAIN stack' : k \in DOMAIN stack /\ stack'[k] = stack[k]
  BY Popped DEF ControlInv, TypeOK
<1> QED BY <1>1 DEF ControlInv, HomeInv

\* And what holds of every activation holds of those that remain.
LEMMA PoppedFrames ==
  ASSUME ControlInv, ~ Idle, Pop
  PROVE  /\ OneDrainInv'
         /\ image'[Exe] = image[Exe] => FrameInv'
         /\ Len(stack) = 1 => FrameInv' /\ stack' = << >>
<1>1. \A k \in DOMAIN stack' : k \in DOMAIN stack /\ stack'[k] = stack[k]
  BY Popped DEF ControlInv, TypeOK
<1>2. OneDrainInv'
  BY <1>1 DEF ControlInv, OneDrainInv
<1>3. image'[Exe] = image[Exe] => FrameInv'
  BY <1>1 DEF ControlInv, FrameInv
<1>4. ASSUME Len(stack) = 1 PROVE FrameInv' /\ stack' = << >>
  <2>1. stack' \in Seq(Frames) /\ Len(stack') = 0
    BY <1>4, Popped DEF ControlInv, TypeOK
  <2> QED BY <2>1 DEF FrameInv
<1> QED BY <1>2, <1>3, <1>4

\* What an activation that neither drains nor is late leaves alone.
LEMMA PlainKeeps ==
  ASSUME ControlInv, NEW frame, Plain(frame),
         Push(frame) \/ (~ Idle /\ Pop /\ Top = frame) \/ UNCHANGED stack,
         UNCHANGED <<waiting, size, cut, log>>,
         \A kind \in Kinds : Opened(kind)' = Opened(kind)
  PROVE  HomeInv' /\ OpenInv' /\ OneDrainInv' /\ ShutInv'
<1>1. stack \in Seq(Frames)
  BY DEF ControlInv, TypeOK
<1>2. \A k \in DOMAIN stack' : (k \in DOMAIN stack /\ stack'[k] = stack[k]) \/ stack'[k] = frame
  BY <1>1, Pushed, Popped DEF Plain
<1>3. \A k \in DOMAIN stack : (k \in DOMAIN stack' /\ stack'[k] = stack[k]) \/ stack[k] = frame
  BY <1>1, Pushed, Popped DEF Plain, Top
<1>4. HomeInv'
  BY <1>2 DEF ControlInv, HomeInv, Plain
<1>5. OpenInv'
  BY <1>3 DEF ControlInv, OpenInv, DrainsExe, Plain
<1>6. OneDrainInv'
  BY <1>2 DEF ControlInv, OneDrainInv, DrainsExe, Plain
<1>7. ShutInv'
  BY <1>2 DEF ControlInv, ShutInv, Plain
<1> QED BY <1>4, <1>5, <1>6, <1>7

(***************************************************************************)
(* The actions of the loader                                               *)
(***************************************************************************)

\* While an image is loaded or unloaded, the activation of the loader has no
\* callback.
LEMMA TopIsPlain ==
  ASSUME ControlInv, On("load") \/ On("unload") \/ On("client")
  PROVE  ~ Idle /\ Plain(Top)
<1>1. ~ Idle /\ Top \in Frames /\ Len(stack) \in DOMAIN stack
  BY TopType, AtBottom DEF ControlInv, On
<1>2. Top.f = NoCallback
  BY <1>1 DEF ControlInv, HomeInv, On, Top
<1> QED BY <1>1, <1>2 DEF Plain, On

\* The end of a constructor or of main() keeps the control invariant.
LEMMA EndClientControl ==
  ASSUME ControlInv, EndClient
  PROVE  ControlInv'
<1>1. TypeOK' /\ ~ Idle /\ Plain(Top) /\ Pop /\ UNCHANGED <<loader, registry, ghosts>>
  BY LoaderTypes, TopIsPlain DEF ControlInv, EndClient
<1>2. UNCHANGED <<process, image, todo, waiting, size, cut, log>>
  BY <1>1 DEF loader, registry, ghosts
<1>3. HomeInv' /\ OpenInv' /\ OneDrainInv' /\ ShutInv'
  BY <1>1, <1>2, PlainKeeps DEF Opened
<1>4. FrameInv'
  BY <1>1, <1>2, PoppedFrames
<1>5. process # "exited"
  BY <1>1 DEF ControlInv, LifeInv, Idle
<1>6. LifeInv'
  BY <1>2, <1>5 DEF ControlInv, LifeInv
<1> QED BY <1>1, <1>3, <1>4, <1>6 DEF ControlInv

\* So does the start of client code.
LEMMA ClientCodeControl ==
  ASSUME ControlInv, NEW i \in Images, ClientCode(i)
  PROVE  ControlInv'
<1> DEFINE frame == Frame("client", "init", i, NoCallback)
<1>1. TypeOK' /\ Plain(frame) /\ frame.op = "client" /\ Push(frame) /\ UNCHANGED <<registry, ghosts>>
  BY AtexitTypes, FrameFields DEF ControlInv, ClientCode, Plain, Kinds
<1> HIDE DEF frame
<1>2. UNCHANGED <<process, image, waiting, size, cut, log>> /\ todo' = [todo EXCEPT ![i] = @ \ {"client"}]
      /\ ~ Idle
  BY <1>1 DEF ClientCode, Calls, registry, ghosts, On
<1>3. ("atexit" \in todo'[Exe] <=> "atexit" \in todo[Exe]) /\ ("atinit" \in todo'[Exe] <=> "atinit" \in todo[Exe])
  BY <1>2 DEF ControlInv, TypeOK, Images
<1>4. HomeInv' /\ OpenInv' /\ OneDrainInv' /\ ShutInv'
  BY <1>1, <1>2, <1>3, PlainKeeps DEF Opened
<1>5. FrameInv'
  <2>1. \A k \in DOMAIN stack' : (k \in DOMAIN stack /\ stack'[k] = stack[k]) \/ stack'[k] = frame
    BY <1>1, Pushed DEF ControlInv, TypeOK, Plain
  <2> QED BY <1>1, <1>2, <2>1 DEF ControlInv, FrameInv
<1>6. LifeInv'
  BY <1>2, <1>3 DEF ControlInv, LifeInv, Idle
<1> QED BY <1>1, <1>4, <1>5, <1>6 DEF ControlInv

\* So does the constructor of mulle-atexit, which only sets the copy up.
LEMMA AtexitLoadControl ==
  ASSUME ControlInv, NEW i \in Images, AtexitLoad(i)
  PROVE  ControlInv'
<1>1. TypeOK' /\ UNCHANGED <<stack, waiting, size, raw, ghosts>>
  BY AtexitTypes DEF ControlInv, AtexitLoad
<1>2. UNCHANGED <<process, image, waiting, size, cut, log>> /\ todo' = [todo EXCEPT ![i] = @ \ {"atexit"}]
      /\ ~ Idle /\ On("load") /\ Top.image = i
  BY <1>1 DEF AtexitLoad, Calls, ghosts, On
<1>3. /\ "atinit" \in todo'[Exe] <=> "atinit" \in todo[Exe]
      /\ i # Exe => todo'[Exe] = todo[Exe]
      /\ i = Exe => image[Exe] = "loading"
  BY <1>2, AtBottom DEF ControlInv, TypeOK, Images
<1>4. \A kind \in Kinds : Opened(kind)' = Opened(kind)
  BY <1>2, <1>3 DEF Opened
<1>5. HomeInv' /\ OpenInv' /\ OneDrainInv' /\ ShutInv'
  BY <1>1, <1>2, <1>4, TopIsPlain, PlainKeeps
<1>6. FrameInv' /\ LifeInv'
  BY <1>1, <1>2, <1>3 DEF ControlInv, FrameInv, LifeInv, Idle
<1> QED BY <1>1, <1>5, <1>6 DEF ControlInv

\* So does an image that starts to load.
LEMMA LoadControl ==
  ASSUME ControlInv, NEW i \in Images, Load(i)
  PROVE  ControlInv'
<1> DEFINE frame == Frame("load", "init", i, NoCallback)
<1>1. TypeOK' /\ Plain(frame) /\ frame.op = "load" /\ frame.image = i /\ Push(frame) /\ UNCHANGED <<process, registry, ghosts>>
  <2>1. TypeOK'
    BY LoaderTypes DEF ControlInv
  <2>2. Plain(frame) /\ frame.op = "load" /\ frame.image = i
    BY FrameFields DEF Plain, Kinds
  <2> QED BY <2>1, <2>2 DEF Load
<1> HIDE DEF frame
<1>2. /\ UNCHANGED <<process, waiting, size, cut, log>> /\ image[i] = "unloaded"
      /\ image' = [image EXCEPT ![i] = "loading"]
      /\ todo' = [todo EXCEPT ![i] = {"client", "atinit", "atexit"}]
      /\ process # "exited"
      /\ i = Exe => Idle
  BY <1>1, ImageAssumption DEF Load, registry, ghosts, Libraries
<1>3. /\ i # Exe => image'[Exe] = image[Exe] /\ todo'[Exe] = todo[Exe]
      /\ i = Exe => image'[Exe] = "loading" /\ todo'[Exe] = {"client", "atinit", "atexit"}
  BY <1>2 DEF ControlInv, TypeOK, Images
<1>4. \A kind \in Kinds : Opened(kind)' = Opened(kind)
  BY <1>2, <1>3 DEF Opened
<1>5. HomeInv' /\ OpenInv' /\ OneDrainInv' /\ ShutInv'
  BY <1>1, <1>2, <1>4, PlainKeeps
<1>6. FrameInv'
  <2>1. \A k \in DOMAIN stack' : \/ k \in DOMAIN stack /\ stack'[k] = stack[k]
                                 \/ k = Len(stack) + 1 /\ stack'[k] = frame
    BY <1>1, PushedAt DEF ControlInv, TypeOK, Plain
  <2>2. i = Exe => stack = << >> /\ Len(stack) = 0
    BY <1>2 DEF Idle
  <2> QED BY <1>1, <1>2, <1>3, <2>1, <2>2 DEF ControlInv, FrameInv
<1>7. LifeInv'
  BY <1>2, <1>3 DEF ControlInv, LifeInv
<1> QED BY <1>1, <1>5, <1>6, <1>7 DEF ControlInv

\* So does an image that starts to unload.
LEMMA UnloadControl ==
  ASSUME ControlInv, NEW i \in Images, Unload(i)
  PROVE  ControlInv'
<1> DEFINE frame == Frame("unload", "exit", i, NoCallback)
<1>1. TypeOK' /\ Plain(frame) /\ frame.op = "unload" /\ frame.image = i /\ Push(frame) /\ UNCHANGED <<process, registry, ghosts>>
  <2>1. TypeOK'
    BY LoaderTypes DEF ControlInv
  <2>2. Plain(frame) /\ frame.op = "unload" /\ frame.image = i
    BY FrameFields DEF Plain, Kinds
  <2> QED BY <2>1, <2>2 DEF Unload
<1> HIDE DEF frame
<1>2. /\ UNCHANGED <<process, waiting, size, cut, log>> /\ image[i] = "ready" /\ Idle
      /\ image' = [image EXCEPT ![i] = "unloading"]
      /\ todo' = [todo EXCEPT ![i] = {"client", "atexit"}]
      /\ process # "exited" /\ process # "loading"
      /\ process = "main" => i # Exe
  BY <1>1, ImageAssumption DEF Unload, registry, ghosts, Libraries
<1>3. /\ i # Exe => image'[Exe] = image[Exe] /\ todo'[Exe] = todo[Exe]
      /\ i = Exe => image'[Exe] = "unloading" /\ todo'[Exe] = {"client", "atexit"}
  BY <1>2 DEF ControlInv, TypeOK, Images
<1>4. \A kind \in Kinds : Opened(kind)' = Opened(kind)
  BY <1>2, <1>3 DEF Opened
<1>5. HomeInv' /\ OpenInv' /\ OneDrainInv' /\ ShutInv'
  BY <1>1, <1>2, <1>4, PlainKeeps
<1>6. FrameInv'
  <2>1. \A k \in DOMAIN stack' : \/ k \in DOMAIN stack /\ stack'[k] = stack[k]
                                 \/ k = Len(stack) + 1 /\ stack'[k] = frame
    BY <1>1, PushedAt DEF ControlInv, TypeOK, Plain
  <2>2. stack = << >> /\ Len(stack) = 0
    BY <1>2 DEF Idle
  <2> QED BY <1>1, <1>2, <1>3, <2>1, <2>2 DEF ControlInv, FrameInv
<1>7. LifeInv'
  BY <1>2, <1>3 DEF ControlInv, LifeInv
<1> QED BY <1>1, <1>5, <1>6, <1>7 DEF ControlInv

\* When a drain is not under way any more, it has ended.
LEMMA OpenedRan ==
  ASSUME ControlInv, NEW kind \in Kinds, Opened(kind), Len(stack) = 1, Plain(Top)
  PROVE  size[<<kind, Exe>>] = "ran"
<1>1. \A k \in DOMAIN stack : stack[k] = Top
  BY Members DEF ControlInv, TypeOK, Top
<1> QED BY <1>1 DEF ControlInv, OpenInv, DrainsExe, Plain

\* So does an image that has been loaded.
LEMMA LoadedControl ==
  ASSUME ControlInv, Loaded
  PROVE  ControlInv'
<1> DEFINE i == Top.image
<1>1. /\ TypeOK' /\ ~ Idle /\ Plain(Top) /\ On("load") /\ Pop /\ todo[i] = {} /\ i \in Images
      /\ image' = [image EXCEPT ![i] = "ready"]
      /\ process' = IF i = Exe THEN "main" ELSE process
      /\ UNCHANGED <<todo, registry, ghosts>>
  BY LoaderTypes, TopIsPlain, TopType DEF ControlInv, Loaded
<1> HIDE DEF i
<1>2. UNCHANGED <<todo, waiting, size, cut, log>>
  BY <1>1 DEF registry, ghosts
<1>3. /\ i # Exe => image'[Exe] = image[Exe]
      /\ i = Exe => image'[Exe] = "ready" /\ image[Exe] = "loading" /\ Len(stack) = 1 /\ todo[Exe] = {}
  BY <1>1, AtBottom DEF ControlInv, TypeOK, Images, i
<1>4. \A kind \in Kinds : Opened(kind)' = Opened(kind)
  BY <1>2, <1>3 DEF Opened
<1>5. HomeInv' /\ OpenInv' /\ OneDrainInv' /\ ShutInv'
  BY <1>1, <1>2, <1>4, PlainKeeps
<1>6. FrameInv'
  BY <1>1, <1>3, PoppedFrames
<1>7. LifeInv'
  <2>1. i = Exe => cut # -1 /\ size[<<"init", Exe>>] = "ran"
    <3>1. i = Exe => cut # -1
      BY <1>3 DEF ControlInv, LifeInv
    <3> QED BY <1>1, <1>3, <3>1, OpenedRan DEF Opened, Kinds
  <2>2. process # "exited"
    BY <1>1 DEF ControlInv, LifeInv, Idle
  <2> QED BY <1>1, <1>2, <1>3, <2>1, <2>2 DEF ControlInv, LifeInv
<1> QED BY <1>1, <1>5, <1>6, <1>7 DEF ControlInv

\* So does an image that has been unloaded.
LEMMA UnloadedControl ==
  ASSUME ControlInv, Unloaded
  PROVE  ControlInv'
<1> DEFINE i == Top.image
           end == IF process = "main" THEN "closed" ELSE "gone"
<1>1. /\ TypeOK' /\ ~ Idle /\ Plain(Top) /\ On("unload") /\ Pop /\ todo[i] = {} /\ i \in Images
      /\ image' = [image EXCEPT ![i] = end]
      /\ \/ process' = process
         \/ process' = "exited" /\ process = "exiting" /\ image'[Exe] \in {"unloaded", "closed", "gone"}
      /\ UNCHANGED <<todo, registry, ghosts>>
  <2>1. Exe \in Images
    BY DEF Images
  <2> QED BY <2>1, LoaderTypes, TopIsPlain, TopType DEF ControlInv, Unloaded
<1> HIDE DEF i
<1>2. UNCHANGED <<todo, waiting, size, cut, log>>
  BY <1>1 DEF registry, ghosts
<1>3. Len(stack) = 1 /\ (i = Exe => image[Exe] = "unloading")
  BY <1>1, AtBottom DEF i
<1>4. /\ i # Exe => image'[Exe] = image[Exe]
      /\ i = Exe => image'[Exe] = "gone" /\ todo[Exe] = {}
  BY <1>1, <1>3 DEF ControlInv, TypeOK, Images, LifeInv
<1>5. \A kind \in Kinds : Opened(kind)' = Opened(kind)
  BY <1>2, <1>3, <1>4 DEF Opened
<1>6. HomeInv' /\ OpenInv' /\ OneDrainInv' /\ ShutInv'
  BY <1>1, <1>2, <1>5, PlainKeeps
<1>7. FrameInv' /\ stack' = << >>
  BY <1>1, <1>3, PoppedFrames
<1>8. LifeInv'
  <2>1. i = Exe => size[<<"exit", Exe>>] = "ran"
    BY <1>1, <1>3, <1>4, OpenedRan DEF Opened, Kinds
  <2> QED BY <1>1, <1>2, <1>3, <1>4, <1>7, <2>1 DEF ControlInv, LifeInv
<1> QED BY <1>1, <1>6, <1>7, <1>8 DEF ControlInv

\* What leaves the loader, the stack and the registries alone.
LEMMA ControlUnchanged ==
  ASSUME ControlInv, TypeOK', UNCHANGED <<image, todo, stack, waiting, size, cut, log>>,
         process' = process \/ process' = "crashed" \/ (process' = "exiting" /\ process = "main")
  PROVE  ControlInv'
<1>1. \A kind \in Kinds : Opened(kind)' = Opened(kind)
  BY DEF Opened
<1>2. HomeInv' /\ FrameInv' /\ OneDrainInv'
  BY DEF ControlInv, HomeInv, FrameInv, OneDrainInv
<1>3. OpenInv' /\ ShutInv'
  BY <1>1 DEF ControlInv, OpenInv, ShutInv
<1>4. LifeInv'
  BY DEF ControlInv, LifeInv
<1> QED BY <1>2, <1>3, <1>4 DEF ControlInv

\* A registration comes to the executable's copy of its kind.
LEMMA RegisterControl ==
  ASSUME ControlInv, NEW k \in Kinds, NEW c \in Callbacks, Kind(c) = k, Register(<<k, Exe>>, c),
         process # "exited"
  PROVE  ControlInv'
<1> DEFINE x == <<k, Exe>>
<1>1. TypeOK' /\ x \in Copies /\ x[1] = k /\ x[2] = Exe /\ Home(c) = x /\ Exe \in Images
  BY RegisterTypes, ExeCopy DEF ControlInv, Home, Images
<1>2. UNCHANGED <<process, image, todo, cut, log, done>>
  BY DEF Register, loader
<1>3. \A kind \in Kinds : Opened(kind)' = Opened(kind)
  BY <1>2 DEF Opened
<1>4. CASE Late(x)
  <2> DEFINE frame == Frame("late", k, Exe, c)
  <2>1. Push(frame) /\ UNCHANGED <<waiting, size>>
    BY <1>1, <1>4 DEF Register
  <2>2. /\ frame \in Frames /\ frame.op = "late" /\ frame.kind = k /\ frame.image = Exe /\ frame.f = c
        /\ Copy(frame) = x
    BY <1>1, FrameFields
  <2> HIDE DEF frame
  <2>3. stack \in Seq(Frames)
    BY DEF ControlInv, TypeOK
  <2>4. \A m \in DOMAIN stack' : (m \in DOMAIN stack /\ stack'[m] = stack[m]) \/ stack'[m] = frame
    BY <2>1, <2>2, <2>3, PushedAt
  <2>5. \A m \in DOMAIN stack : m \in DOMAIN stack' /\ stack'[m] = stack[m]
    BY <2>1, <2>2, <2>3, Pushed
  <2>6. HomeInv'
    BY <1>1, <2>1, <2>2, PushedHome
  <2>7. FrameInv'
    BY <1>2, <2>2, <2>4 DEF ControlInv, FrameInv
  <2>8. OneDrainInv'
    BY <2>2, <2>4 DEF ControlInv, OneDrainInv, DrainsExe
  <2>9. OpenInv'
    BY <1>3, <2>1, <2>5 DEF ControlInv, OpenInv
  <2>10. Opened(k)
    BY <1>4 DEF ControlInv, ShutInv, Late
  <2>11. ShutInv'
    BY <1>2, <1>3, <2>1, <2>2, <2>4, <2>10 DEF ControlInv, ShutInv
  <2>12. LifeInv'
    BY <1>2, <2>1 DEF ControlInv, LifeInv
  <2> QED BY <1>1, <2>6, <2>7, <2>8, <2>9, <2>11, <2>12 DEF ControlInv
<1>5. CASE ~ Late(x)
  <2>1. waiting' = [waiting EXCEPT ![x] = Append(@, c)] /\ size' = [size EXCEPT ![x] = "some"] /\ stack' = stack
    BY <1>1, <1>5 DEF Register
  <2>2. waiting[x] \in Seq(Callbacks) /\ size[x] # "ran"
    BY <1>1, <1>5 DEF ControlInv, TypeOK, Late
  <2> HIDE DEF x
  <2>3. /\ \A y \in Copies : y # x => waiting'[y] = waiting[y] /\ size'[y] = size[y]
        /\ waiting'[x] = Append(waiting[x], c) /\ size'[x] = "some"
    BY <1>1, <2>1 DEF ControlInv, TypeOK
  <2>4. HomeInv'
    <3>1. \A m \in DOMAIN waiting'[x] : Home(waiting'[x][m]) = x
      BY <1>1, <2>2, <2>3, Appended DEF ControlInv, HomeInv
    <3> QED BY <2>1, <2>3, <3>1 DEF ControlInv, HomeInv
  <2>5. FrameInv' /\ OneDrainInv'
    BY <1>2, <2>1 DEF ControlInv, FrameInv, OneDrainInv
  <2>6. \A kind \in Kinds : /\ <<kind, Exe>> \in Copies
                            /\ <<kind, Exe>> = x => size[<<kind, Exe>>] # "ran"
                            /\ size'[<<kind, Exe>>] = size[<<kind, Exe>>] \/ <<kind, Exe>> = x
    BY <2>2, <2>3, ExeCopy
  <2>7. OpenInv'
    BY <1>3, <2>1, <2>6 DEF ControlInv, OpenInv
  <2>8. waiting'[x] # << >>
    BY <2>2, <2>3, Appended, Members
  <2>9. ShutInv'
    BY <1>2, <1>3, <2>1, <2>3, <2>6, <2>8 DEF ControlInv, ShutInv
  <2>10. LifeInv'
    BY <1>2, <2>1, <2>3, <2>6 DEF ControlInv, LifeInv, Kinds
  <2> QED BY <1>1, <2>4, <2>5, <2>7, <2>9, <2>10 DEF ControlInv
<1> QED BY <1>4, <1>5

\* The activation that drains begins.
LEMMA DrainBegins ==
  ASSUME ControlInv, NEW k \in Kinds, NEW i \in Images, Push(Frame("drain", k, i, NoCallback)),
         UNCHANGED <<process, image, size, log>>,
         \A kind \in Kinds \ {k} : Opened(kind)' = Opened(kind),
         i = Exe => ~ Opened(k) /\ Opened(k)',
         i # Exe => Opened(k)' = Opened(k),
         \A y \in Copies : y # <<k, i>> => waiting'[y] = waiting[y]
  PROVE  FrameInv' /\ OpenInv' /\ OneDrainInv' /\ ShutInv'
<1> DEFINE frame == Frame("drain", k, i, NoCallback)
<1>1. stack \in Seq(Frames) /\ Exe \in Images
  BY DEF ControlInv, TypeOK, Images
<1>2. frame \in Frames /\ frame.op = "drain" /\ frame.kind = k /\ frame.image = i
  BY FrameFields
<1> HIDE DEF frame
<1>3. Push(frame)
  BY DEF frame
<1>4. \A m \in DOMAIN stack' : \/ m \in DOMAIN stack /\ stack'[m] = stack[m]
                               \/ m = Len(stack) + 1 /\ stack'[m] = frame
  BY <1>1, <1>2, <1>3, PushedAt
<1>5. /\ \A m \in DOMAIN stack : m \in DOMAIN stack' /\ stack'[m] = stack[m]
      /\ Len(stack) + 1 \in DOMAIN stack' /\ stack'[Len(stack) + 1] = frame
  BY <1>1, <1>2, <1>3, Pushed
<1>6. FrameInv'
  BY <1>2, <1>4 DEF ControlInv, FrameInv
<1>7. OneDrainInv'
  <2>1. ASSUME NEW kind \in Kinds, NEW m \in DOMAIN stack, DrainsExe(stack[m], kind), DrainsExe(frame, kind)
        PROVE  FALSE
    <3>1. kind = k /\ i = Exe
      BY <1>2, <2>1 DEF DrainsExe
    <3> QED BY <2>1, <3>1 DEF ControlInv, ShutInv, DrainsExe
  <2> QED BY <1>4, <2>1 DEF ControlInv, OneDrainInv
<1>8. OpenInv'
  <2>1. ASSUME NEW kind \in Kinds, Opened(kind)'
        PROVE  size'[<<kind, Exe>>] = "ran" \/ \E m \in DOMAIN stack' : DrainsExe(stack'[m], kind)
    <3>1. CASE kind = k /\ i = Exe
      BY <1>2, <1>5, <3>1 DEF DrainsExe
    <3>2. CASE ~ (kind = k /\ i = Exe)
      BY <1>5, <2>1, <3>2 DEF ControlInv, OpenInv
    <3> QED BY <3>1, <3>2
  <2> QED BY <2>1 DEF OpenInv, DrainsExe
<1>9. ShutInv'
  <2>1. ASSUME NEW kind \in Kinds, ~ Opened(kind)'
        PROVE  ~ Opened(kind) /\ ~ (kind = k /\ i = Exe) /\ <<kind, Exe>> \in Copies /\ <<kind, Exe>> # <<k, i>>
    <3>1. ~ (kind = k /\ i = Exe)
      BY <2>1
    <3>2. ~ Opened(kind)
      BY <2>1, <3>1
    <3> QED BY <3>1, <3>2, ExeCopy
  <2> QED BY <1>2, <1>4, <2>1 DEF ControlInv, ShutInv
<1> QED BY <1>6, <1>7, <1>8, <1>9

\* The constructor of mulle-atinit, which sorts its copy and drains it, keeps
\* the control invariant.
LEMMA AtinitLoadControl ==
  ASSUME ControlInv, NEW i \in Images, AtinitLoad(i)
  PROVE  ControlInv'
<1> DEFINE x == <<"init", i>>
<1>1. TypeOK' /\ x \in Copies /\ Exe \in Images /\ "init" \in Kinds
  BY AtinitLoadTypes, ExeCopy DEF ControlInv, Images, Kinds
<1>2. /\ waiting' = [waiting EXCEPT ![x] = Sorted(@)]
      /\ cut' = IF i = Exe THEN Len(order) ELSE cut
      /\ Push(Frame("drain", "init", i, NoCallback))
      /\ UNCHANGED <<process, image, size, order, log, done>>
      /\ todo' = [todo EXCEPT ![i] = @ \ {"atinit"}]
      /\ "atinit" \in todo[i] /\ On("load") /\ Top.image = i
  BY DEF AtinitLoad, Drains, Calls
<1>3. /\ i = Exe => image[Exe] = "loading" /\ cut = -1 /\ cut' # -1 /\ todo'[Exe] = todo[Exe] \ {"atinit"}
      /\ i # Exe => cut' = cut /\ todo'[Exe] = todo[Exe]
      /\ "atexit" \in todo'[Exe] <=> "atexit" \in todo[Exe]
  <2>1. i = Exe => image[Exe] = "loading" /\ cut = -1
    BY <1>2, AtBottom DEF ControlInv, LifeInv
  <2>2. Len(order) \in Nat
    BY DEF ControlInv, TypeOK
  <2>3. todo'[Exe] = IF i = Exe THEN todo[Exe] \ {"atinit"} ELSE todo[Exe]
    BY <1>1, <1>2 DEF ControlInv, TypeOK
  <2> QED BY <1>2, <2>1, <2>2, <2>3
<1>4. /\ \A y \in Copies : y # x => waiting'[y] = waiting[y]
      /\ waiting'[x] = Sorted(waiting[x])
  BY <1>1, <1>2 DEF ControlInv, TypeOK
<1>5. FrameInv' /\ OpenInv' /\ OneDrainInv' /\ ShutInv'
  <2>1. \A kind \in Kinds \ {"init"} : Opened(kind)' = Opened(kind)
    BY <1>2, <1>3 DEF Opened
  <2>2. /\ i = Exe => ~ Opened("init") /\ Opened("init")'
        /\ i # Exe => Opened("init")' = Opened("init")
    BY <1>3 DEF Opened
  <2> QED BY <1>1, <1>2, <1>4, <2>1, <2>2, DrainBegins
<1>6. HomeInv'
  <2>1. waiting[x] \in Seq(Callbacks) /\ stack \in Seq(Frames)
    BY <1>1 DEF ControlInv, TypeOK
  <2>2. \A k \in DOMAIN waiting'[x] : Home(waiting'[x][k]) = x
    <3>1. \A c \in Elements(waiting[x]) : Home(c) = x
      BY <1>1 DEF ControlInv, HomeInv, Elements
    <3>2. Elements(waiting'[x]) = Elements(waiting[x])
      BY <1>4, <2>1, SortKeepsElements
    <3> QED BY <3>1, <3>2 DEF Elements
  <2>3. Frame("drain", "init", i, NoCallback) \in Frames /\ Frame("drain", "init", i, NoCallback).f = NoCallback
    BY <1>1, FrameFields
  <2>4. \A k \in DOMAIN stack' : (k \in DOMAIN stack /\ stack'[k] = stack[k]) \/ stack'[k].f = NoCallback
    BY <1>2, <2>1, <2>3, PushedAt
  <2> QED BY <1>4, <2>2, <2>4 DEF ControlInv, HomeInv
<1>7. LifeInv'
  <2>1. ~ Idle
    BY <1>2 DEF On
  <2> QED BY <1>2, <1>3, <2>1 DEF ControlInv, LifeInv, Idle
<1> QED BY <1>1, <1>5, <1>6, <1>7 DEF ControlInv

\* So does the destructor of mulle-atexit.
LEMMA AtexitUnloadControl ==
  ASSUME ControlInv, NEW i \in Images, AtexitUnload(i)
  PROVE  ControlInv'
<1>1. TypeOK' /\ Exe \in Images /\ "exit" \in Kinds
  BY AtexitTypes DEF ControlInv, Images, Kinds
<1>2. /\ Push(Frame("drain", "exit", i, NoCallback))
      /\ UNCHANGED <<process, image, waiting, size, cut, log>>
      /\ todo' = [todo EXCEPT ![i] = @ \ {"atexit"}]
      /\ "atexit" \in todo[i] /\ On("unload") /\ Top.image = i
  BY DEF AtexitUnload, Drains, Calls, ghosts
<1>3. /\ i = Exe => image[Exe] = "unloading" /\ todo'[Exe] = todo[Exe] \ {"atexit"}
      /\ i # Exe => todo'[Exe] = todo[Exe]
      /\ "atinit" \in todo'[Exe] <=> "atinit" \in todo[Exe]
  <2>1. i = Exe => image[Exe] = "unloading"
    BY <1>2, AtBottom
  <2>2. todo'[Exe] = IF i = Exe THEN todo[Exe] \ {"atexit"} ELSE todo[Exe]
    BY <1>1, <1>2 DEF ControlInv, TypeOK
  <2> QED BY <2>1, <2>2
<1>4. FrameInv' /\ OpenInv' /\ OneDrainInv' /\ ShutInv'
  <2>1. \A kind \in Kinds \ {"exit"} : Opened(kind)' = Opened(kind)
    BY <1>2 DEF Opened, Kinds
  <2>2. /\ i = Exe => ~ Opened("exit") /\ Opened("exit")'
        /\ i # Exe => Opened("exit")' = Opened("exit")
    BY <1>2, <1>3 DEF Opened
  <2> QED BY <1>1, <1>2, <2>1, <2>2, DrainBegins
<1>5. HomeInv'
  BY <1>1, <1>2, FrameFields, PushedHome
<1>6. LifeInv'
  <2>1. ~ Idle
    BY <1>2 DEF On
  <2> QED BY <1>2, <1>3, <2>1 DEF ControlInv, LifeInv, Idle
<1> QED BY <1>1, <1>4, <1>5, <1>6 DEF ControlInv

\* When only the callback of the topmost activation changes, all else of the
\* stack stays.
LEMMA SameButTop ==
  ASSUME stack \in Seq(Frames), ~ Idle, NEW c \in Callbacks \cup {NoCallback},
         stack' = [stack EXCEPT ![Len(stack)].f = c]
  PROVE  /\ DOMAIN stack' = DOMAIN stack /\ Len(stack) \in DOMAIN stack
         /\ \A k \in DOMAIN stack :
              /\ stack'[k].op = stack[k].op /\ stack'[k].kind = stack[k].kind
              /\ stack'[k].image = stack[k].image /\ Copy(stack'[k]) = Copy(stack[k])
              /\ stack'[k].f = IF k = Len(stack) THEN c ELSE stack[k].f
<1>1. ASSUME NEW k \in DOMAIN stack, k # Len(stack)
      PROVE  stack'[k] = stack[k]
  BY <1>1, TopChanged
<1>2. stack'[Len(stack)] = [Top EXCEPT !.f = c] /\ Top \in Frames /\ Top = stack[Len(stack)]
  BY TopChanged DEF Top
<1>3. /\ DOMAIN stack' = DOMAIN stack /\ Len(stack) \in DOMAIN stack
  BY TopChanged
<1>4. /\ Top.op = [Top EXCEPT !.f = c].op /\ Top.kind = [Top EXCEPT !.f = c].kind
      /\ Top.image = [Top EXCEPT !.f = c].image /\ [Top EXCEPT !.f = c].f = c
  BY <1>2 DEF Frames
<1> HIDE DEF Top
<1> QED BY <1>1, <1>2, <1>3, <1>4 DEF Copy

\* A drain takes a callback, or gets control back from it.
LEMMA TopKeeps ==
  ASSUME ControlInv, ~ Idle, NEW c \in Callbacks \cup {NoCallback},
         stack' = [stack EXCEPT ![Len(stack)].f = c],
         UNCHANGED <<process, image, todo, size, cut, log>>,
         c # NoCallback => Top.op \in {"drain", "late"} /\ Copy(Top) = Home(c),
         \A y \in Copies : waiting'[y] = waiting[y] \/ (Top.op = "drain" /\ y = Copy(Top))
  PROVE  /\ FrameInv' /\ OpenInv' /\ OneDrainInv' /\ ShutInv' /\ LifeInv'
         /\ \A k \in DOMAIN stack' : stack'[k].f # NoCallback =>
              stack'[k].op \in {"drain", "late"} /\ Copy(stack'[k]) = Home(stack'[k].f)
<1>1. stack \in Seq(Frames)
  BY DEF ControlInv, TypeOK
<1>2. /\ DOMAIN stack' = DOMAIN stack /\ Len(stack) \in DOMAIN stack
      /\ \A k \in DOMAIN stack :
              /\ stack'[k].op = stack[k].op /\ stack'[k].kind = stack[k].kind
              /\ stack'[k].image = stack[k].image /\ Copy(stack'[k]) = Copy(stack[k])
              /\ stack'[k].f = IF k = Len(stack) THEN c ELSE stack[k].f
  BY <1>1, SameButTop
<1>3. \A kind \in Kinds : Opened(kind)' = Opened(kind)
  BY DEF Opened
<1>4. FrameInv'
  BY <1>2 DEF ControlInv, FrameInv
<1>5. OneDrainInv'
  BY <1>2 DEF ControlInv, OneDrainInv, DrainsExe
<1>6. OpenInv'
  BY <1>2, <1>3 DEF ControlInv, OpenInv, DrainsExe
<1>7. ShutInv'
  <2>1. ASSUME NEW kind \in Kinds, ~ Opened(kind)
        PROVE  waiting'[<<kind, Exe>>] = waiting[<<kind, Exe>>]
    <3>1. Top.op = "drain" => Copy(Top) # <<kind, Exe>>
      BY <1>2, <2>1 DEF ControlInv, ShutInv, Top, Copy
    <3> QED BY <3>1, ExeCopy
  <2> QED BY <1>2, <1>3, <2>1 DEF ControlInv, ShutInv
<1>8. LifeInv'
  BY DEF ControlInv, LifeInv, Idle
<1>9. ASSUME NEW k \in DOMAIN stack', stack'[k].f # NoCallback
      PROVE  stack'[k].op \in {"drain", "late"} /\ Copy(stack'[k]) = Home(stack'[k].f)
  <2>1. CASE k = Len(stack)
    BY <1>2, <1>9, <2>1 DEF Top
  <2>2. CASE k # Len(stack)
    BY <1>2, <1>9, <2>2 DEF ControlInv, HomeInv
  <2> QED BY <2>1, <2>2
<1> QED BY <1>4, <1>5, <1>6, <1>7, <1>8, <1>9

\* What Take does, with names for its parts.
Takes(x, s) ==
  /\ x = Copy(Top) /\ s = waiting[x] /\ x \in Copies /\ s \in Seq(Callbacks) /\ s # << >>
  /\ ~ Idle /\ Top.op = "drain" /\ Top.f = NoCallback
  /\ s[Len(s)] \in Callbacks /\ Len(s) \in DOMAIN s
  /\ stack' = [stack EXCEPT ![Len(stack)].f = s[Len(s)]]
  /\ waiting'[x] = SubSeq(s, 1, Len(s) - 1)
  /\ \A y \in Copies : y # x => waiting'[y] = waiting[y]
  /\ UNCHANGED <<process, image, todo, size, ready, raw, order, cut, log, done>>

\* What a drain takes is the last element of its copy.
LEMMA TakeTakes ==
  ASSUME TypeOK, Take
  PROVE  \E x, s : Takes(x, s)
<1> DEFINE x == Copy(Top)
           s == waiting[x]
<1>1. x \in Copies /\ ~ Idle /\ Top.op = "drain" /\ Top.f = NoCallback
  BY TopType DEF Take, Draining, On
<1>2. s \in Seq(Callbacks) /\ s # << >>
  BY <1>1 DEF Take, SomeWait, TypeOK
<1>3. /\ waiting' = [waiting EXCEPT ![x] = SubSeq(s, 1, Len(s) - 1)]
      /\ stack' = [stack EXCEPT ![Len(stack)].f = s[Len(s)]]
      /\ UNCHANGED <<process, image, todo, size, ready, raw, order, cut, log, done>>
  BY DEF Take, loader, ghosts
<1>4. s[Len(s)] \in Callbacks /\ Len(s) \in DOMAIN s
  BY <1>2, Shortened
<1>5. waiting'[x] = SubSeq(s, 1, Len(s) - 1) /\ \A y \in Copies : y # x => waiting'[y] = waiting[y]
  BY <1>1, <1>3 DEF TypeOK
<1>6. Takes(x, s)
  BY <1>1, <1>2, <1>3, <1>4, <1>5 DEF Takes
<1> QED BY <1>6

\* Taking a callback keeps the control invariant: the callback is at home.
LEMMA TakeControl ==
  ASSUME ControlInv, Take
  PROVE  ControlInv'
<1>1. PICK x, s : Takes(x, s)
  BY TakeTakes DEF ControlInv
<1>2. /\ x = Copy(Top) /\ s = waiting[x] /\ x \in Copies /\ s \in Seq(Callbacks) /\ s # << >>
      /\ ~ Idle /\ Top.op = "drain" /\ Top.f = NoCallback
      /\ s[Len(s)] \in Callbacks /\ Len(s) \in DOMAIN s
      /\ stack' = [stack EXCEPT ![Len(stack)].f = s[Len(s)]]
      /\ waiting'[x] = SubSeq(s, 1, Len(s) - 1)
      /\ \A y \in Copies : y # x => waiting'[y] = waiting[y]
      /\ UNCHANGED <<process, image, todo, size, cut, log>>
  BY <1>1 DEF Takes
<1>3. TypeOK'
  BY TakeTypes DEF ControlInv
<1>4. Home(s[Len(s)]) = x
  BY <1>2 DEF ControlInv, HomeInv
<1>5. /\ FrameInv' /\ OpenInv' /\ OneDrainInv' /\ ShutInv' /\ LifeInv'
      /\ \A k \in DOMAIN stack' : stack'[k].f # NoCallback =>
           stack'[k].op \in {"drain", "late"} /\ Copy(stack'[k]) = Home(stack'[k].f)
  BY <1>2, <1>4, TopKeeps
<1>6. \A k \in DOMAIN waiting'[x] : Home(waiting'[x][k]) = x
  BY <1>2, Shortened DEF ControlInv, HomeInv
<1>7. HomeInv'
  BY <1>2, <1>5, <1>6 DEF ControlInv, HomeInv
<1> QED BY <1>3, <1>5, <1>7 DEF ControlInv

\* So does the end of a drain, which marks the copy as run.
LEMMA DrainedControl ==
  ASSUME ControlInv, Drained
  PROVE  ControlInv'
<1> DEFINE x == Copy(Top)
<1>1. /\ TypeOK' /\ x \in Copies /\ ~ Idle /\ Pop /\ Top.op = "drain" /\ Top \in Frames
      /\ size' = [size EXCEPT ![x] = "ran"]
      /\ UNCHANGED <<process, image, todo, waiting, cut, log>>
  <2>1. TypeOK'
    BY DrainedTypes DEF ControlInv
  <2>2. ~ Idle /\ Top.op = "drain"
    BY DEF Drained, Draining, On
  <2>3. x \in Copies /\ Top \in Frames
    BY <2>2, TopType DEF ControlInv
  <2> QED BY <2>1, <2>2, <2>3 DEF Drained, loader, ghosts
<1>2. size'[x] = "ran" /\ \A y \in Copies : y # x => size'[y] = size[y]
  BY <1>1 DEF ControlInv, TypeOK
<1>3. stack \in Seq(Frames)
  BY DEF ControlInv, TypeOK
<1>4. /\ \A k \in DOMAIN stack' : k \in DOMAIN stack /\ stack'[k] = stack[k]
      /\ \A k \in DOMAIN stack : (k \in DOMAIN stack' /\ stack'[k] = stack[k]) \/ stack[k] = Top
      /\ Len(stack) \in DOMAIN stack
  BY <1>1, <1>3, Popped DEF Top
<1>5. \A kind \in Kinds : Opened(kind)' = Opened(kind) /\ <<kind, Exe>> \in Copies
  BY <1>1, ExeCopy DEF Opened
<1>6. HomeInv' /\ FrameInv' /\ OneDrainInv'
  BY <1>1, PoppedHome, PoppedFrames
<1>7. OpenInv'
  <2>1. ASSUME NEW kind \in Kinds, Opened(kind)
        PROVE  size'[<<kind, Exe>>] = "ran" \/ \E k \in DOMAIN stack' : DrainsExe(stack'[k], kind)
    <3>1. CASE x = <<kind, Exe>>
      BY <1>2, <3>1
    <3>2. CASE x # <<kind, Exe>>
      <4>1. ~ DrainsExe(Top, kind)
        BY <3>2 DEF DrainsExe, Copy
      <4>2. size'[<<kind, Exe>>] = size[<<kind, Exe>>]
        BY <1>2, <1>5, <3>2
      <4> QED BY <1>4, <2>1, <4>1, <4>2 DEF ControlInv, OpenInv
    <3> QED BY <3>1, <3>2
  <2> QED BY <1>5, <2>1 DEF OpenInv, DrainsExe
<1>8. ShutInv'
  <2>1. ASSUME NEW kind \in Kinds, ~ Opened(kind)
        PROVE  size'[<<kind, Exe>>] = size[<<kind, Exe>>]
    <3>1. x # <<kind, Exe>>
      BY <1>1, <1>4, <2>1 DEF ControlInv, ShutInv, Top, Copy
    <3> QED BY <1>2, <1>5, <3>1
  <2> QED BY <1>1, <1>4, <1>5, <2>1 DEF ControlInv, ShutInv
<1>9. LifeInv'
  <2>1. \A kind \in Kinds : size[<<kind, Exe>>] = "ran" => size'[<<kind, Exe>>] = "ran"
    BY <1>2, <1>5
  <2> QED BY <1>1, <2>1 DEF ControlInv, LifeInv, Idle, Kinds
<1> QED BY <1>1, <1>6, <1>7, <1>8, <1>9 DEF ControlInv

\* So does the call of a callback, whose client code comes on top.
LEMMA CallControl ==
  ASSUME ControlInv, Call
  PROVE  ControlInv'
<1>1. /\ TypeOK' /\ ~ Idle /\ Top.f \in Callbacks /\ Len(stack) \in DOMAIN stack
      /\ UNCHANGED <<image, todo, stack, waiting, size, cut>>
      /\ \/ process' = "crashed" /\ log' = log
         \/ process' = process /\ log' = Append(log, Top.f)
  <2>1. TypeOK'
    BY CallTypes DEF ControlInv
  <2>2. ~ Idle /\ Top.f # NoCallback
    BY DEF Call
  <2>3. Top.f \in Callbacks
    BY <2>2, TopType DEF ControlInv
  <2>4. Len(stack) \in DOMAIN stack
    BY <2>2, AtBottom
  <2> QED BY <2>1, <2>2, <2>3, <2>4 DEF Call, registry
<1>2. CASE log' = log
  BY <1>1, <1>2, ControlUnchanged
<1>3. CASE process' = process /\ log' = Append(log, Top.f)
  <2>1. \A kind \in Kinds : Opened(kind)' = Opened(kind)
    BY <1>1 DEF Opened
  <2>2. HomeInv' /\ FrameInv' /\ OneDrainInv'
    BY <1>1 DEF ControlInv, HomeInv, FrameInv, OneDrainInv
  <2>3. OpenInv'
    BY <1>1, <2>1 DEF ControlInv, OpenInv
  <2>4. Elements(log') = Elements(log) \cup {Top.f}
    BY <1>1, <1>3, AppendedElements DEF ControlInv, TypeOK
  <2>5. Top.op \in {"drain", "late"} /\ Top.kind = Kind(Top.f) /\ Top.image = Exe
    <3>1. Top.f # NoCallback
      BY <1>1, CallbackAssumption
    <3>2. Top.op \in {"drain", "late"} /\ Copy(Top) = Home(Top.f)
      BY <1>1, <3>1 DEF ControlInv, HomeInv, Top
    <3> QED BY <3>2 DEF Copy, Home
  <2>6. ShutInv'
    <3>1. \A kind \in Kinds : ~ Opened(kind) => Kind(Top.f) # kind
      BY <1>1, <2>5 DEF ControlInv, ShutInv, Top
    <3> QED BY <1>1, <2>1, <2>4, <3>1 DEF ControlInv, ShutInv
  <2>7. LifeInv'
    BY <1>1, <1>3 DEF ControlInv, LifeInv
  <2> QED BY <1>1, <2>2, <2>3, <2>6, <2>7 DEF ControlInv
<1> QED BY <1>1, <1>2, <1>3

\* So does its return.
LEMMA ReturnControl ==
  ASSUME ControlInv, Return
  PROVE  ControlInv'
<1>1. /\ TypeOK' /\ ~ Idle /\ Top.f \in Callbacks
      /\ UNCHANGED <<process, image, todo, waiting, size, cut, log>>
      /\ IF Top.op = "late" THEN Pop ELSE stack' = [stack EXCEPT ![Len(stack)].f = NoCallback]
  <2>1. TypeOK'
    BY ReturnTypes DEF ControlInv
  <2>2. Top.f \in Callbacks
    BY Members DEF Return, ControlInv, TypeOK
  <2> QED BY <2>1, <2>2 DEF Return, loader, registry
<1>2. CASE Top.op = "late"
  <2>1. Pop /\ stack \in Seq(Frames)
    BY <1>1, <1>2 DEF ControlInv, TypeOK
  <2>2. HomeInv' /\ FrameInv' /\ OneDrainInv'
    BY <1>1, <2>1, PoppedHome, PoppedFrames
  <2>3. /\ \A k \in DOMAIN stack' : k \in DOMAIN stack /\ stack'[k] = stack[k]
        /\ \A k \in DOMAIN stack : (k \in DOMAIN stack' /\ stack'[k] = stack[k]) \/ stack[k] = Top
    BY <1>1, <2>1, Popped DEF Top
  <2>4. \A kind \in Kinds : Opened(kind)' = Opened(kind)
    BY <1>1 DEF Opened
  <2>5. OpenInv'
    BY <1>1, <1>2, <2>3, <2>4 DEF ControlInv, OpenInv, DrainsExe
  <2>6. ShutInv'
    BY <1>1, <2>3, <2>4 DEF ControlInv, ShutInv
  <2>7. LifeInv'
    BY <1>1 DEF ControlInv, LifeInv, Idle
  <2> QED BY <1>1, <2>2, <2>5, <2>6, <2>7 DEF ControlInv
<1>3. CASE Top.op # "late"
  <2>1. stack' = [stack EXCEPT ![Len(stack)].f = NoCallback]
    BY <1>1, <1>3
  <2>2. /\ FrameInv' /\ OpenInv' /\ OneDrainInv' /\ ShutInv' /\ LifeInv'
        /\ \A k \in DOMAIN stack' : stack'[k].f # NoCallback =>
             stack'[k].op \in {"drain", "late"} /\ Copy(stack'[k]) = Home(stack'[k].f)
    BY <1>1, <2>1, TopKeeps
  <2>3. HomeInv'
    BY <1>1, <2>2 DEF ControlInv, HomeInv
  <2> QED BY <1>1, <2>2, <2>3 DEF ControlInv
<1> QED BY <1>2, <1>3

\* Client code is executing in a process that has not ended, and it registers its own.
LEMMA ClientIsAlive ==
  ASSUME ControlInv, NEW i, InClient(i)
  PROVE  process # "exited"
BY DEF ControlInv, LifeInv, InClient, Idle, On

\* Every step keeps the control invariant.
LEMMA NextControl ==
  ASSUME ControlInv, [Next]_vars
  PROVE  ControlInv'
<1>1. CASE UNCHANGED vars
  <2>1. TypeOK' /\ UNCHANGED <<process, image, todo, stack, waiting, size, cut, log>>
    BY <1>1 DEF vars, loader, registry, ghosts, ControlInv, TypeOK
  <2> QED BY <2>1, ControlUnchanged
<1>2. CASE Proceed
  <2>1. CASE Take \/ Drained
    BY <2>1, TakeControl, DrainedControl
  <2>2. CASE Call \/ Return
    BY <2>2, CallControl, ReturnControl
  <2>3. CASE EndClient \/ Loaded \/ Unloaded
    BY <2>3, EndClientControl, LoadedControl, UnloadedControl
  <2>4. ASSUME NEW i \in Images, AtinitLoad(i) \/ AtexitLoad(i) \/ AtexitUnload(i) \/ ClientCode(i)
        PROVE  ControlInv'
    BY <2>4, AtinitLoadControl, AtexitLoadControl, AtexitUnloadControl, ClientCodeControl
  <2> QED BY <1>2, <2>1, <2>2, <2>3, <2>4 DEF Proceed
<1>3. ASSUME NEW c \in InitCallbacks, RegisterInit(c)
      PROVE  ControlInv'
  <2>1. c \in Callbacks /\ Kind(c) = "init" /\ "init" \in Kinds
    BY DEF Callbacks, Kind, Kinds
  <2>2. Register(<<"init", Exe>>, c) /\ process # "exited"
    BY <1>3, ClientIsAlive DEF RegisterInit, Resolve
  <2> QED BY <2>1, <2>2, RegisterControl
<1>4. ASSUME NEW c \in ExitCallbacks, RegisterExit(c)
      PROVE  ControlInv'
  <2>1. c \in Callbacks /\ Kind(c) = "exit" /\ "exit" \in Kinds
    BY CallbackAssumption DEF Callbacks, Kind, Kinds
  <2>2. Register(<<"exit", Exe>>, c) /\ process # "exited"
    BY <1>4, ClientIsAlive DEF RegisterExit, Resolve
  <2> QED BY <2>1, <2>2, RegisterControl
<1>5. ASSUME NEW i \in Images, Load(i) \/ Unload(i)
      PROVE  ControlInv'
  BY <1>5, LoadControl, UnloadControl
<1>6. CASE Exit
  <2>1. TypeOK' /\ UNCHANGED <<image, todo, stack, waiting, size, cut, log>> /\ process' = "exiting" /\ process = "main"
    BY <1>6, LoaderTypes DEF ControlInv, Exit, registry, ghosts
  <2> QED BY <2>1, ControlUnchanged
<1>7. CASE Terminated
  BY <1>1, <1>7 DEF Terminated
<1> QED BY <1>1, <1>2, <1>3, <1>4, <1>5, <1>6, <1>7 DEF Next

\* At every time the stack of activations, the life of the process and its
\* images and the state of the copies agree with each other
\* (mulle-atinit.c:366-410, mulle-atexit.c:189-215).
THEOREM ControlInvariance == Spec => []ControlInv
BY InitControl, NextControl, PTL DEF Spec

\* The variables keep their types: for any set of images, callbacks and
\* priorities, what a copy holds are callbacks, and the stack consists of
\* activations.
THEOREM TypeCorrect == Spec => []TypeOK
<1>1. ControlInv => TypeOK
  BY DEF ControlInv
<1> QED BY <1>1, ControlInvariance, PTL

\* No exit callback is executed before exit(): while the images load and while
\* main() runs, none is in the log (mulle-atexit.c:189-215).
THEOREM NoExitBeforeExit == Spec => []ExitOnlyAtExit
<1>1. ControlInv => ExitOnlyAtExit
  <2> SUFFICES ASSUME ControlInv, process \in {"loading", "main"}, NEW c \in ExitCallbacks
               PROVE  c \notin Elements(log)
    BY DEF ExitOnlyAtExit
  <2>1. ~ Opened("exit")
    BY DEF ControlInv, LifeInv, Opened
  <2>2. Kind(c) = "exit"
    BY CallbackAssumption DEF Kind
  <2> QED BY <2>1, <2>2 DEF ControlInv, ShutInv, Kinds
<1> QED BY <1>1, ControlInvariance, PTL

(***************************************************************************)
(* Custody: where a registered callback is                                 *)
(***************************************************************************)

\* The elements of a sequence are all different.
OnceIn(s) == \A k, m \in DOMAIN s : s[k] = s[m] => k = m

\* Registered once, executed once, and returned only after that.
ListInv ==
  /\ OnceIn(order) /\ OnceIn(log)
  /\ Elements(log) \subseteq Elements(order) /\ done \subseteq Elements(log)

\* What waits was registered, was not executed, and waits once.
WaitInv ==
  \A x \in Copies :
    /\ OnceIn(waiting[x])
    /\ Elements(waiting[x]) \subseteq Elements(order)
    /\ Elements(waiting[x]) \cap Elements(log) = {}

\* What an activation holds is in its hands only, and has not returned.
HeldInv ==
  \A k \in DOMAIN stack : stack[k].f # NoCallback =>
    /\ stack[k].f \in Elements(order) /\ stack[k].f \notin done
    /\ stack[k].f \notin Elements(waiting[Home(stack[k].f)])
    /\ \A m \in DOMAIN stack : stack[m].f = stack[k].f => m = k

\* Whatever was registered is somewhere.
KeptInv ==
  \A c \in Elements(order) :
    \/ c \in Elements(waiting[Home(c)])
    \/ \E k \in DOMAIN stack : stack[k].f = c
    \/ c \in done

\* The second inductive invariant: where every registered callback is.
CustodyInv == ControlInv /\ ListInv /\ WaitInv /\ HeldInv /\ KeptInv

\* A callback is at home in one of the copies of the process.
LEMMA HomeIsCopy == \A c \in Callbacks : Home(c) \in Copies
BY ExeCopy DEF Home, Kind, Kinds

\* At the start nothing is registered, and nothing is held.
LEMMA InitCustody == Init => CustodyInv
<1> SUFFICES ASSUME Init PROVE CustodyInv
  OBVIOUS
<1>1. Elements(<< >>) = {} /\ OnceIn(<< >>)
  BY DEF Elements, OnceIn
<1>2. ListInv /\ WaitInv /\ HeldInv /\ KeptInv
  BY <1>1 DEF Init, ListInv, WaitInv, HeldInv, KeptInv
<1> QED BY <1>2, InitControl DEF CustodyInv

(***************************************************************************)
(* Steps that take nothing and give nothing                                *)
(***************************************************************************)

\* The activations that hold something stay what and where they are.
SameHolders ==
  /\ \A k \in DOMAIN stack' : stack'[k].f # NoCallback => k \in DOMAIN stack /\ stack'[k] = stack[k]
  /\ \A k \in DOMAIN stack : stack[k].f # NoCallback => k \in DOMAIN stack' /\ stack'[k] = stack[k]

\* A step that takes no callback, adds none and drops none keeps the custody.
LEMMA QuietCustody ==
  ASSUME CustodyInv, ControlInv', SameHolders, UNCHANGED <<waiting, order, log, done>>
  PROVE  CustodyInv'
<1>1. ListInv' /\ WaitInv'
  BY DEF CustodyInv, ListInv, WaitInv
<1>2. HeldInv'
  BY DEF CustodyInv, HeldInv, SameHolders
<1>3. KeptInv'
  <2>1. \A c \in Elements(order) : c # NoCallback
    BY Members, CallbackAssumption DEF CustodyInv, ControlInv, TypeOK
  <2>2. ASSUME NEW c \in Elements(order), NEW k \in DOMAIN stack, stack[k].f = c
        PROVE  k \in DOMAIN stack' /\ stack'[k].f = c
    BY <2>1, <2>2 DEF SameHolders
  <2> QED BY <2>2 DEF CustodyInv, KeptInv
<1> QED BY <1>1, <1>2, <1>3 DEF CustodyInv

\* An activation without a callback comes on top: nobody holds anything new.
LEMMA PushedHolders ==
  ASSUME stack \in Seq(Frames), NEW frame \in Frames, frame.f = NoCallback, Push(frame)
  PROVE  SameHolders
<1>1. \A k \in DOMAIN stack' : (k \in DOMAIN stack /\ stack'[k] = stack[k]) \/ stack'[k] = frame
  BY PushedAt
<1>2. \A k \in DOMAIN stack : k \in DOMAIN stack' /\ stack'[k] = stack[k]
  BY Pushed
<1> QED BY <1>1, <1>2 DEF SameHolders

\* An activation without a callback leaves: whoever held a callback still does.
LEMMA PoppedHolders ==
  ASSUME stack \in Seq(Frames), ~ Idle, Top.f = NoCallback, Pop
  PROVE  SameHolders
<1>1. \A k \in DOMAIN stack' : k \in DOMAIN stack /\ stack'[k] = stack[k]
  BY Popped
<1>2. \A k \in DOMAIN stack : (k \in DOMAIN stack' /\ stack'[k] = stack[k]) \/ stack[k] = Top
  BY Popped DEF Top
<1> QED BY <1>1, <1>2 DEF SameHolders

\* The loader, the ends of constructors and of main(), and the end of a drain
\* are such steps.
LEMMA QuietSteps ==
  ASSUME CustodyInv,
         \/ Drained \/ EndClient \/ Loaded \/ Unloaded \/ Exit \/ UNCHANGED vars
         \/ \E i \in Images : AtexitLoad(i) \/ AtexitUnload(i) \/ ClientCode(i) \/ Load(i) \/ Unload(i)
  PROVE  SameHolders /\ UNCHANGED <<waiting, order, cut, log, done>>
<1>1. stack \in Seq(Frames) /\ ControlInv
  BY DEF CustodyInv, ControlInv, TypeOK
<1>2. UNCHANGED stack => SameHolders
  BY DEF SameHolders
<1>3. CASE EndClient \/ Loaded \/ Unloaded
  <2>1. Pop /\ UNCHANGED <<registry, ghosts>> /\ ~ Idle /\ Plain(Top)
    BY <1>1, <1>3, TopIsPlain DEF EndClient, Loaded, Unloaded
  <2> QED BY <1>1, <2>1, PoppedHolders DEF Plain, registry, ghosts
<1>4. CASE Drained
  BY <1>1, <1>4, PoppedHolders DEF Drained, Draining, On, ghosts
<1>5. CASE Exit \/ UNCHANGED vars
  BY <1>2, <1>5 DEF Exit, vars, registry, ghosts
<1>6. ASSUME NEW i \in Images, AtexitLoad(i)
      PROVE  SameHolders /\ UNCHANGED <<waiting, order, cut, log, done>>
  BY <1>2, <1>6 DEF AtexitLoad, ghosts
<1>7. ASSUME NEW i \in Images, AtexitUnload(i) \/ ClientCode(i) \/ Load(i) \/ Unload(i)
      PROVE  SameHolders /\ UNCHANGED <<waiting, order, cut, log, done>>
  <2>1. UNCHANGED <<waiting, ghosts>>
    BY <1>7 DEF AtexitUnload, ClientCode, Load, Unload, registry
  <2>2. \E op \in {"drain", "client", "load", "unload"}, k \in Kinds : Push(Frame(op, k, i, NoCallback))
    BY <1>7 DEF AtexitUnload, ClientCode, Load, Unload, Kinds, Drains
  <2>3. PICK op \in {"drain", "client", "load", "unload"}, k \in Kinds : Push(Frame(op, k, i, NoCallback))
    BY <2>2
  <2>4. Frame(op, k, i, NoCallback) \in Frames /\ Frame(op, k, i, NoCallback).f = NoCallback
    BY FrameFields
  <2> QED BY <1>1, <2>1, <2>3, <2>4, PushedHolders DEF ghosts
<1> QED BY <1>3, <1>4, <1>5, <1>6, <1>7

(***************************************************************************)
(* Steps that move a callback                                              *)
(***************************************************************************)

\* The sort duplicates nothing.
LEMMA SortKeepsOnce ==
  ASSUME NEW s \in Seq(Callbacks), OnceIn(s)
  PROVE  OnceIn(Sorted(s))
<1>1. PICK q : SortedBy(s, q)
  BY SortArranges
<1>5. \A k \in DOMAIN s : k \in Nat /\ s[k] \in Callbacks /\ Priority[s[k]] \in Int
  BY CallbackAssumption
<1>2. ASSUME NEW k \in DOMAIN s, NEW m \in DOMAIN s, k < m
      PROVE  Sorted(s)[k] # Sorted(s)[m]
  <2>1. q[k] \in DOMAIN s /\ q[m] \in DOMAIN s
    BY <1>1 DEF SortedBy
  <2>2. /\ Priority[s[q[k]]] \in Int /\ Priority[s[q[m]]] \in Int
        /\ q[k] \in Nat /\ q[m] \in Nat
    BY <1>5, <2>1
  <2>3. \/ Priority[s[q[k]]] < Priority[s[q[m]]]
        \/ Priority[s[q[k]]] = Priority[s[q[m]]] /\ q[k] > q[m]
    BY <1>1, <1>2 DEF SortedBy
  <2>4. s[q[k]] = s[q[m]] => q[k] = q[m]
    BY <2>1 DEF OnceIn
  <2>5. Priority[s[q[k]]] < Priority[s[q[m]]] => Priority[s[q[k]]] # Priority[s[q[m]]]
    BY <2>2
  <2>6. q[k] > q[m] => q[k] # q[m]
    BY <2>2
  <2>7. Sorted(s)[k] = s[q[k]] /\ Sorted(s)[m] = s[q[m]]
    BY <1>1 DEF SortedBy
  <2> QED BY <2>3, <2>4, <2>5, <2>6, <2>7
<1>3. DOMAIN Sorted(s) = DOMAIN s
  BY <1>1 DEF SortedBy
<1>4. \A k, m \in DOMAIN s : k # m => k < m \/ m < k
  BY Members
<1> QED BY <1>2, <1>3, <1>4 DEF OnceIn

\* The constructor of mulle-atinit sorts its copy: what waits is rearranged, no
\* more (mulle-atinit.c:222).
LEMMA AtinitLoadCustody ==
  ASSUME CustodyInv, ControlInv', NEW i \in Images, AtinitLoad(i)
  PROVE  CustodyInv'
<1> DEFINE x == <<"init", i>>
<1>1. x \in Copies /\ stack \in Seq(Frames) /\ waiting[x] \in Seq(Callbacks) /\ waiting \in [Copies -> Seq(Callbacks)]
  BY ExeCopy DEF CustodyInv, ControlInv, TypeOK
<1>2. /\ waiting' = [waiting EXCEPT ![x] = Sorted(@)]
      /\ Push(Frame("drain", "init", i, NoCallback))
      /\ UNCHANGED <<order, log, done>>
  BY DEF AtinitLoad, Drains
<1>3. SameHolders
  <2>1. Frame("drain", "init", i, NoCallback) \in Frames /\ Frame("drain", "init", i, NoCallback).f = NoCallback
    BY FrameFields DEF Kinds
  <2> QED BY <1>1, <1>2, <2>1, PushedHolders
<1> HIDE DEF x
<1>4. /\ waiting'[x] = Sorted(waiting[x]) /\ \A y \in Copies : y # x => waiting'[y] = waiting[y]
      /\ \A y \in Copies : Elements(waiting'[y]) = Elements(waiting[y])
  BY <1>1, <1>2, SortKeepsElements
<1>5. OnceIn(waiting'[x])
  BY <1>1, <1>4, SortKeepsOnce DEF CustodyInv, WaitInv
<1>6. WaitInv'
  BY <1>2, <1>4, <1>5 DEF CustodyInv, WaitInv
<1>7. ListInv'
  BY <1>2 DEF CustodyInv, ListInv
<1>8. \A c \in Elements(order) : Home(c) \in Copies /\ c # NoCallback
  BY Members, HomeIsCopy, CallbackAssumption DEF CustodyInv, ControlInv, TypeOK
<1>9. HeldInv'
  <2> SUFFICES ASSUME NEW k \in DOMAIN stack', stack'[k].f # NoCallback
               PROVE  /\ stack'[k].f \in Elements(order) /\ stack'[k].f \notin done
                      /\ stack'[k].f \notin Elements(waiting'[Home(stack'[k].f)])
                      /\ \A m \in DOMAIN stack' : stack'[m].f = stack'[k].f => m = k
    BY <1>2 DEF HeldInv
  <2>1. k \in DOMAIN stack /\ stack'[k].f = stack[k].f
    BY <1>3 DEF SameHolders
  <2>2. /\ stack[k].f \in Elements(order) /\ stack[k].f \notin done
        /\ stack[k].f \notin Elements(waiting[Home(stack[k].f)])
        /\ \A m \in DOMAIN stack : stack[m].f = stack[k].f => m = k
    BY <2>1 DEF CustodyInv, HeldInv
  <2>3. Home(stack[k].f) \in Copies
    BY <1>8, <2>2
  <2> QED BY <1>3, <1>4, <2>1, <2>2, <2>3 DEF SameHolders
<1>10. KeptInv'
  <2> SUFFICES ASSUME NEW c \in Elements(order)
               PROVE  \/ c \in Elements(waiting'[Home(c)])
                      \/ \E k \in DOMAIN stack' : stack'[k].f = c
                      \/ c \in done
    BY <1>2 DEF KeptInv
  <2>1. ASSUME NEW k \in DOMAIN stack, stack[k].f = c
        PROVE  k \in DOMAIN stack' /\ stack'[k].f = c
    BY <1>3, <1>8, <2>1 DEF SameHolders
  <2> QED BY <1>4, <1>8, <2>1 DEF CustodyInv, KeptInv
<1> QED BY <1>6, <1>7, <1>9, <1>10 DEF CustodyInv

\* What is new to a sequence keeps its elements different.
LEMMA OnceAppended ==
  ASSUME NEW S, NEW s \in Seq(S), NEW e \in S, OnceIn(s), e \notin Elements(s)
  PROVE  OnceIn(Append(s, e))
<1>1. \A k \in DOMAIN s : s[k] # e
  BY DEF Elements
<1>2. \A k \in DOMAIN Append(s, e) :
        (k \in DOMAIN s /\ Append(s, e)[k] = s[k]) \/ (k = Len(s) + 1 /\ Append(s, e)[k] = e)
  BY Appended
<1> QED BY <1>1, <1>2 DEF OnceIn

\* So does taking the last element, which then is in the sequence no more.
LEMMA OnceShortened ==
  ASSUME NEW S, NEW s \in Seq(S), s # << >>, OnceIn(s)
  PROVE  /\ OnceIn(SubSeq(s, 1, Len(s) - 1))
         /\ Elements(SubSeq(s, 1, Len(s) - 1)) = Elements(s) \ {s[Len(s)]}
<1> DEFINE t == SubSeq(s, 1, Len(s) - 1)
<1>1. /\ Len(s) \in DOMAIN s
      /\ \A k : k \in DOMAIN t <=> k \in DOMAIN s /\ k # Len(s)
      /\ \A k \in DOMAIN t : t[k] = s[k]
  BY Shortened
<1> HIDE DEF t
<1>2. OnceIn(t)
  BY <1>1 DEF OnceIn
<1>3. ASSUME NEW c \in Elements(t) PROVE c \in Elements(s) \ {s[Len(s)]}
  BY <1>1, <1>3 DEF Elements, OnceIn
<1>4. ASSUME NEW c \in Elements(s) \ {s[Len(s)]} PROVE c \in Elements(t)
  BY <1>1, <1>4 DEF Elements
<1> QED BY <1>2, <1>3, <1>4 DEF t

\* A registered callback waits, or is held by whoever executes it at once.
LEMMA RegisterCustody ==
  ASSUME CustodyInv, ControlInv', NEW k \in Kinds, NEW c \in Callbacks, Kind(c) = k,
         Register(<<k, Exe>>, c), Fresh(c)
  PROVE  CustodyInv'
<1> DEFINE x == <<k, Exe>>
<1>1. x \in Copies /\ x[1] = k /\ x[2] = Exe /\ Home(c) = x /\ c # NoCallback
  BY ExeCopy, CallbackAssumption DEF Home
<1>2. /\ stack \in Seq(Frames) /\ order \in Seq(Callbacks) /\ waiting \in [Copies -> Seq(Callbacks)]
      /\ waiting[x] \in Seq(Callbacks)
  BY <1>1 DEF CustodyInv, ControlInv, TypeOK
<1>3. UNCHANGED <<log, done>> /\ order' = Append(order, c) /\ Elements(order') = Elements(order) \cup {c}
  BY <1>2, AppendedElements DEF Register
<1>4. /\ c \notin Elements(order) /\ c \notin Elements(log) /\ c \notin done
      /\ \A y \in Copies : c \notin Elements(waiting[y])
      /\ \A m \in DOMAIN stack : stack[m].f # c
  <2>1. c \notin Elements(order)
    BY DEF Fresh
  <2> QED BY <1>1, <2>1 DEF CustodyInv, ListInv, WaitInv, HeldInv
<1>5. ListInv'
  BY <1>2, <1>3, <1>4, OnceAppended DEF CustodyInv, ListInv
<1>6. \A d \in Elements(order) : Home(d) \in Copies
  BY <1>2, Members, HomeIsCopy
<1>7. CASE Late(x)
  <2> DEFINE frame == Frame("late", k, Exe, c)
  <2>1. Push(frame) /\ UNCHANGED <<waiting, size>>
    BY <1>1, <1>7 DEF Register
  <2>2. frame \in Frames /\ frame.f = c
    BY FrameFields DEF Images
  <2> HIDE DEF frame
  <2>3. \A m \in DOMAIN stack' : \/ m \in DOMAIN stack /\ stack'[m].f = stack[m].f
                                 \/ m = Len(stack) + 1 /\ stack'[m].f = c
    BY <1>2, <2>1, <2>2, PushedAt
  <2>4. /\ \A m \in DOMAIN stack : m \in DOMAIN stack' /\ stack'[m].f = stack[m].f
        /\ Len(stack) + 1 \in DOMAIN stack' /\ stack'[Len(stack) + 1].f = c
    BY <1>2, <2>1, <2>2, Pushed
  <2>5. WaitInv'
    BY <1>3, <2>1 DEF CustodyInv, WaitInv
  <2>6. HeldInv'
    BY <1>1, <1>3, <1>4, <2>1, <2>3 DEF CustodyInv, HeldInv
  <2>7. KeptInv'
    BY <1>3, <2>1, <2>4 DEF CustodyInv, KeptInv
  <2> QED BY <1>5, <2>5, <2>6, <2>7 DEF CustodyInv
<1>8. CASE ~ Late(x)
  <2>1. waiting' = [waiting EXCEPT ![x] = Append(@, c)] /\ stack' = stack
    BY <1>1, <1>8 DEF Register
  <2> HIDE DEF x
  <2>2. waiting'[x] = Append(waiting[x], c) /\ \A y \in Copies : y # x => waiting'[y] = waiting[y]
    BY <1>1, <1>2, <2>1
  <2>3. OnceIn(waiting'[x]) /\ Elements(waiting'[x]) = Elements(waiting[x]) \cup {c}
    <3>1. OnceIn(waiting[x])
      BY <1>1 DEF CustodyInv, WaitInv
    <3> QED BY <1>1, <1>2, <1>4, <2>2, <3>1, OnceAppended, AppendedElements
  <2>4. WaitInv'
    BY <1>3, <1>4, <2>2, <2>3 DEF CustodyInv, WaitInv
  <2>5. HeldInv'
    <3> SUFFICES ASSUME NEW m \in DOMAIN stack, stack[m].f # NoCallback
                 PROVE  stack[m].f \in Elements(order') /\ stack[m].f \notin done
                        /\ stack[m].f \notin Elements(waiting'[Home(stack[m].f)])
                        /\ \A i \in DOMAIN stack : stack[i].f = stack[m].f => i = m
      BY <1>3, <2>1 DEF HeldInv
    <3>1. /\ stack[m].f \in Elements(order) /\ stack[m].f \notin done
          /\ stack[m].f \notin Elements(waiting[Home(stack[m].f)])
          /\ \A i \in DOMAIN stack : stack[i].f = stack[m].f => i = m
      BY DEF CustodyInv, HeldInv
    <3>2. Home(stack[m].f) \in Copies /\ stack[m].f # c
      BY <1>4, <1>6, <3>1
    <3> QED BY <1>3, <2>2, <2>3, <3>1, <3>2
  <2>6. KeptInv'
    BY <1>1, <1>3, <1>6, <2>1, <2>2, <2>3 DEF CustodyInv, KeptInv
  <2> QED BY <1>5, <2>4, <2>5, <2>6 DEF CustodyInv
<1> QED BY <1>7, <1>8

\* A drain takes the last callback: it waits no longer, and the drain holds it.
LEMMA TakeCustody ==
  ASSUME CustodyInv, ControlInv', Take
  PROVE  CustodyInv'
<1>1. PICK x, s : Takes(x, s)
  BY TakeTakes DEF CustodyInv, ControlInv
<1> DEFINE e == s[Len(s)]
<1>2. /\ s = waiting[x] /\ x \in Copies /\ s \in Seq(Callbacks) /\ s # << >>
      /\ ~ Idle /\ Top.f = NoCallback /\ e \in Callbacks /\ Len(s) \in DOMAIN s
      /\ stack' = [stack EXCEPT ![Len(stack)].f = e]
      /\ waiting'[x] = SubSeq(s, 1, Len(s) - 1)
      /\ \A y \in Copies : y # x => waiting'[y] = waiting[y]
      /\ UNCHANGED <<order, log, done>>
  BY <1>1 DEF Takes
<1> HIDE DEF e
<1>3. /\ DOMAIN stack' = DOMAIN stack /\ Len(stack) \in DOMAIN stack
      /\ \A k \in DOMAIN stack : stack'[k].f = IF k = Len(stack) THEN e ELSE stack[k].f
  BY <1>2, SameButTop DEF CustodyInv, ControlInv, TypeOK
<1>4. stack[Len(stack)].f = NoCallback /\ e # NoCallback
  BY <1>2, CallbackAssumption DEF Top
<1>5. /\ e \in Elements(s) /\ e \in Elements(order) /\ e \notin Elements(log) /\ e \notin done /\ Home(e) = x
      /\ \A k \in DOMAIN stack : stack[k].f # e
  <2>1. e \in Elements(s) /\ Home(e) = x
    BY <1>2, Members DEF e, CustodyInv, ControlInv, HomeInv
  <2>2. e \in Elements(order) /\ e \notin Elements(log)
    BY <1>2, <2>1 DEF CustodyInv, WaitInv
  <2> QED BY <1>2, <1>4, <2>1, <2>2 DEF CustodyInv, ListInv, HeldInv
<1>6. OnceIn(waiting'[x]) /\ Elements(waiting'[x]) = Elements(waiting[x]) \ {e}
  BY <1>2, OnceShortened DEF CustodyInv, WaitInv, e
<1>7. \A c \in Elements(order) : Home(c) \in Copies
  BY Members, HomeIsCopy DEF CustodyInv, ControlInv, TypeOK
<1>8. \A y \in Copies : Elements(waiting'[y]) \subseteq Elements(waiting[y])
  BY <1>2, <1>6
<1>9. WaitInv'
  BY <1>2, <1>6, <1>8 DEF CustodyInv, WaitInv
<1>10. ListInv'
  BY <1>2 DEF CustodyInv, ListInv
<1>11. HeldInv'
  <2> SUFFICES ASSUME NEW k \in DOMAIN stack', stack'[k].f # NoCallback
               PROVE  /\ stack'[k].f \in Elements(order) /\ stack'[k].f \notin done
                      /\ stack'[k].f \notin Elements(waiting'[Home(stack'[k].f)])
                      /\ \A m \in DOMAIN stack' : stack'[m].f = stack'[k].f => m = k
    BY <1>2 DEF HeldInv
  <2>1. CASE k = Len(stack)
    BY <1>3, <1>5, <1>6, <2>1
  <2>2. CASE k # Len(stack)
    <3>1. stack'[k].f = stack[k].f /\ k \in DOMAIN stack /\ stack[k].f # e
      BY <1>3, <1>5, <2>2
    <3>2. /\ stack[k].f \in Elements(order) /\ stack[k].f \notin done
          /\ stack[k].f \notin Elements(waiting[Home(stack[k].f)])
          /\ \A m \in DOMAIN stack : stack[m].f = stack[k].f => m = k
      BY <3>1 DEF CustodyInv, HeldInv
    <3> QED BY <1>3, <1>7, <1>8, <3>1, <3>2
  <2> QED BY <2>1, <2>2
<1>12. KeptInv'
  <2> SUFFICES ASSUME NEW c \in Elements(order)
               PROVE  \/ c \in Elements(waiting'[Home(c)])
                      \/ \E k \in DOMAIN stack' : stack'[k].f = c
                      \/ c \in done
    BY <1>2 DEF KeptInv
  <2>1. CASE c = e
    BY <1>3, <2>1
  <2>2. CASE c # e
    <3>1. Elements(waiting'[Home(c)]) = Elements(waiting[Home(c)]) \/ Elements(waiting'[Home(c)]) = Elements(waiting[Home(c)]) \ {e}
      BY <1>2, <1>6, <1>7
    <3>2. ASSUME NEW k \in DOMAIN stack, stack[k].f = c
          PROVE  k \in DOMAIN stack' /\ stack'[k].f = c
      <4>1. c # NoCallback
        BY Members, CallbackAssumption DEF CustodyInv, ControlInv, TypeOK
      <4> QED BY <1>3, <1>4, <3>2, <4>1
    <3> QED BY <2>2, <3>1, <3>2 DEF CustodyInv, KeptInv
  <2> QED BY <2>1, <2>2
<1> QED BY <1>9, <1>10, <1>11, <1>12 DEF CustodyInv

\* A callback is written down as executed when its holder calls it.
LEMMA CallCustody ==
  ASSUME CustodyInv, ControlInv', Call
  PROVE  CustodyInv'
<1>1. /\ ~ Idle /\ Top.f # NoCallback /\ Top.f \notin Elements(log) /\ Len(stack) \in DOMAIN stack
      /\ UNCHANGED <<stack, waiting, order, done>>
      /\ log' = log \/ log' = Append(log, Top.f)
  BY AtBottom DEF Call, registry, CustodyInv
<1>2. Top.f \in Callbacks /\ log \in Seq(Callbacks)
  BY <1>1, TopType DEF CustodyInv, ControlInv, TypeOK
<1>3. /\ Top.f \in Elements(order)
      /\ \A y \in Copies : Top.f \notin Elements(waiting[y])
  <2>1. Top.f \in Elements(order) /\ Top.f \notin Elements(waiting[Home(Top.f)])
    BY <1>1 DEF CustodyInv, HeldInv, Top
  <2>2. ASSUME NEW y \in Copies, Top.f \in Elements(waiting[y])
        PROVE  y = Home(Top.f)
    BY <2>2 DEF CustodyInv, ControlInv, HomeInv, Elements
  <2> QED BY <2>1, <2>2
<1>4. CASE log' = Append(log, Top.f)
  <2>1. Elements(log') = Elements(log) \cup {Top.f} /\ OnceIn(log')
    BY <1>1, <1>2, <1>4, AppendedElements, OnceAppended DEF CustodyInv, ListInv
  <2>2. ListInv'
    BY <1>1, <1>3, <2>1 DEF CustodyInv, ListInv
  <2>3. WaitInv'
    BY <1>1, <1>3, <2>1 DEF CustodyInv, WaitInv
  <2> QED BY <1>1, <2>2, <2>3 DEF CustodyInv, HeldInv, KeptInv
<1>5. CASE log' = log
  BY <1>1, <1>5 DEF CustodyInv, ListInv, WaitInv, HeldInv, KeptInv
<1> QED BY <1>1, <1>4, <1>5

\* When it returns, it is done.
LEMMA ReturnCustody ==
  ASSUME CustodyInv, ControlInv', Return
  PROVE  CustodyInv'
<1> DEFINE e == Top.f
<1>1. /\ ~ Idle /\ e \in Elements(log) /\ e \in Callbacks /\ e # NoCallback
      /\ stack \in Seq(Frames) /\ Len(stack) \in DOMAIN stack
      /\ UNCHANGED <<waiting, order, log>> /\ done' = done \cup {e}
  <2>1. Top.f \in Callbacks
    BY Members DEF Return, CustodyInv, ControlInv, TypeOK
  <2> QED BY <2>1, AtBottom, CallbackAssumption DEF Return, registry, CustodyInv, ControlInv, TypeOK
<1>2. /\ \A k \in DOMAIN stack' : stack'[k].f # NoCallback => k \in DOMAIN stack /\ stack'[k].f = stack[k].f /\ k # Len(stack)
      /\ \A k \in DOMAIN stack : (k \in DOMAIN stack' /\ stack'[k].f = stack[k].f) \/ stack[k].f = e
  <2>1. CASE Top.op = "late"
    <3>1. Pop
      BY <2>1 DEF Return
    <3> QED BY <1>1, <3>1, Popped DEF Top
  <2>2. CASE Top.op # "late"
    <3>1. stack' = [stack EXCEPT ![Len(stack)].f = NoCallback]
      BY <2>2 DEF Return
    <3> QED BY <1>1, <3>1, SameButTop DEF Top
  <2> QED BY <2>1, <2>2
<1>3. stack[Len(stack)].f = e
  BY DEF Top
<1> HIDE DEF e
<1>4. \A k \in DOMAIN stack : stack[k].f = e => k = Len(stack)
  BY <1>1, <1>3 DEF CustodyInv, HeldInv
<1>5. ListInv' /\ WaitInv'
  BY <1>1 DEF CustodyInv, ListInv, WaitInv
<1>6. HeldInv'
  <2> SUFFICES ASSUME NEW k \in DOMAIN stack', stack'[k].f # NoCallback
               PROVE  /\ stack'[k].f \in Elements(order) /\ stack'[k].f \notin done \cup {e}
                      /\ stack'[k].f \notin Elements(waiting[Home(stack'[k].f)])
                      /\ \A m \in DOMAIN stack' : stack'[m].f = stack'[k].f => m = k
    BY <1>1 DEF HeldInv
  <2>1. k \in DOMAIN stack /\ stack'[k].f = stack[k].f /\ stack[k].f # e
    BY <1>2, <1>4
  <2>2. /\ stack[k].f \in Elements(order) /\ stack[k].f \notin done
        /\ stack[k].f \notin Elements(waiting[Home(stack[k].f)])
        /\ \A m \in DOMAIN stack : stack[m].f = stack[k].f => m = k
    BY <2>1 DEF CustodyInv, HeldInv
  <2> QED BY <1>2, <2>1, <2>2
<1>7. KeptInv'
  BY <1>1, <1>2 DEF CustodyInv, KeptInv
<1> QED BY <1>5, <1>6, <1>7 DEF CustodyInv

\* Every step keeps the custody of the callbacks.
LEMMA NextCustody ==
  ASSUME CustodyInv, [Next]_vars
  PROVE  CustodyInv'
<1>1. ControlInv'
  BY NextControl DEF CustodyInv
<1>2. CASE \/ Drained \/ EndClient \/ Loaded \/ Unloaded \/ Exit \/ UNCHANGED vars
           \/ \E i \in Images : AtexitLoad(i) \/ AtexitUnload(i) \/ ClientCode(i) \/ Load(i) \/ Unload(i)
  BY <1>1, <1>2, QuietSteps, QuietCustody
<1>3. CASE Take \/ Call \/ Return
  BY <1>1, <1>3, TakeCustody, CallCustody, ReturnCustody
<1>4. ASSUME NEW i \in Images, AtinitLoad(i)
      PROVE  CustodyInv'
  BY <1>1, <1>4, AtinitLoadCustody
<1>5. ASSUME NEW c \in InitCallbacks, RegisterInit(c)
      PROVE  CustodyInv'
  <2>1. c \in Callbacks /\ Kind(c) = "init" /\ "init" \in Kinds
    BY DEF Callbacks, Kind, Kinds
  <2>2. Register(<<"init", Exe>>, c) /\ Fresh(c)
    BY <1>5 DEF RegisterInit, Resolve
  <2> QED BY <1>1, <2>1, <2>2, RegisterCustody
<1>6. ASSUME NEW c \in ExitCallbacks, RegisterExit(c)
      PROVE  CustodyInv'
  <2>1. c \in Callbacks /\ Kind(c) = "exit" /\ "exit" \in Kinds
    BY CallbackAssumption DEF Callbacks, Kind, Kinds
  <2>2. Register(<<"exit", Exe>>, c) /\ Fresh(c)
    BY <1>6 DEF RegisterExit, Resolve
  <2> QED BY <1>1, <2>1, <2>2, RegisterCustody
<1> QED BY <1>2, <1>3, <1>4, <1>5, <1>6 DEF Next, Proceed, Terminated

\* A registered callback is in exactly one place: waiting in its copy, held by
\* one activation, or done; it is never executed twice (mulle-atinit.c:226-255,
\* 339-356, mulle-atexit.c:89-113, 160-180).
THEOREM CustodyInvariance == Spec => []CustodyInv
BY InitCustody, NextCustody, PTL DEF Spec

\* As many elements as cells.
LEMMA OnceCounts ==
  ASSUME NEW S, NEW s \in Seq(S), OnceIn(s)
  PROVE  Cardinality(Elements(s)) = Len(s)
<1>1. s \in [1..Len(s) -> Elements(s)]
  BY DEF Elements
<1>2. s \in Injection(1..Len(s), Elements(s))
  BY <1>1 DEF Injection, OnceIn, IsInjective
<1>3. s \in Surjection(1..Len(s), Elements(s))
  BY <1>1 DEF Surjection, Elements
<1>4. Len(s) \in Nat /\ IsFiniteSet(1..Len(s)) /\ Cardinality(1..Len(s)) = Len(s)
  <2>1. Len(s) \in Nat
    OBVIOUS
  <2> DEFINE n == Len(s)
  <2>2. n \in Nat
    BY <2>1
  <2> HIDE DEF n
  <2>3. IsFiniteSet(1..n) /\ Cardinality(1..n) = n
    BY <2>2, FS_Interval
  <2> QED BY <2>1, <2>3 DEF n
<1> QED BY <1>2, <1>3, <1>4, FS_Surjection

\* When the process has exited, every callback that was ever registered, by
\* whichever image, has been executed, once (mulle-atinit.c:226-255, 339-356,
\* mulle-atexit.c:89-113, 160-180).
THEOREM NothingForgotten == Spec => []AllExecuted
<1>1. CustodyInv => AllExecuted
  <2> SUFFICES ASSUME CustodyInv, process = "exited" PROVE AllExecuted
    BY DEF AllExecuted
  <2>1. stack = << >> /\ \A k \in Kinds : size[<<k, Exe>>] = "ran"
    BY DEF CustodyInv, ControlInv, LifeInv, Kinds
  <2>2. \A k \in Kinds : waiting[<<k, Exe>>] = << >>
    BY <2>1, ExeCopy DEF CustodyInv, ControlInv, TypeOK
  <2>3. ASSUME NEW c \in Elements(order) PROVE c \in done
    <3>1. waiting[Home(c)] = << >>
      BY <2>2 DEF Home, Kind, Kinds
    <3>2. DOMAIN stack = {} /\ Elements(<< >>) = {}
      BY <2>1 DEF Elements
    <3> QED BY <3>1, <3>2 DEF CustodyInv, KeptInv
  <2>4. done = Elements(order) /\ Elements(log) = Elements(order)
    BY <2>3 DEF CustodyInv, ListInv
  <2>5. /\ order \in Seq(Callbacks) /\ OnceIn(order) /\ log \in Seq(Callbacks) /\ OnceIn(log)
    BY DEF CustodyInv, ControlInv, TypeOK, ListInv
  <2>6. Len(log) = Len(order)
    BY <2>4, <2>5, OnceCounts
  <2> QED BY <2>4, <2>6 DEF AllExecuted
<1> QED BY <1>1, CustodyInvariance, PTL

(***************************************************************************)
(* The order of initialisation                                             *)
(***************************************************************************)

\* The position of an element is a cell that holds it.
LEMMA PositionThere ==
  ASSUME NEW s, NEW c \in Elements(s)
  PROVE  Position(s, c) \in DOMAIN s /\ s[Position(s, c)] = c
<1>1. \E k \in DOMAIN s : s[k] = c
  BY DEF Elements
<1>2. Position(s, c) = CHOOSE k \in DOMAIN s : s[k] = c
  BY DEF Position
<1> QED BY <1>1, <1>2, Zenon

\* When elements are different, the position of what a cell holds is that cell.
LEMMA PositionIs ==
  ASSUME NEW s, OnceIn(s), NEW k \in DOMAIN s
  PROVE  Position(s, s[k]) = k
<1>1. s[k] \in Elements(s)
  BY DEF Elements
<1> QED BY <1>1, PositionThere DEF OnceIn

\* Appending something new moves nobody, and the new element comes last.
LEMMA PositionAppended ==
  ASSUME NEW S, NEW s \in Seq(S), NEW e \in S, OnceIn(s), e \notin Elements(s)
  PROVE  /\ \A c \in Elements(s) : Position(Append(s, e), c) = Position(s, c) /\ Position(s, c) <= Len(s)
         /\ Position(Append(s, e), e) = Len(s) + 1
<1>1. OnceIn(Append(s, e))
  BY OnceAppended
<1>2. ASSUME NEW c \in Elements(s)
      PROVE  Position(Append(s, e), c) = Position(s, c) /\ Position(s, c) <= Len(s)
  <2> DEFINE k == Position(s, c)
  <2>1. k \in DOMAIN s /\ s[k] = c
    BY PositionThere
  <2> HIDE DEF k
  <2>2. k \in DOMAIN Append(s, e) /\ Append(s, e)[k] = c /\ k <= Len(s)
    BY <2>1, Appended
  <2>3. Position(Append(s, e), c) = k
    BY <1>1, <2>2, PositionIs
  <2> QED BY <2>2, <2>3 DEF k
<1>3. Position(Append(s, e), e) = Len(s) + 1
  <2>1. Len(s) + 1 \in DOMAIN Append(s, e) /\ Append(s, e)[Len(s) + 1] = e
    BY Appended
  <2> QED BY <1>1, <2>1, PositionIs
<1> QED BY <1>2, <1>3

\* An init callback that was registered before the executable's sort.
Early(c) == c \in InitCallbacks /\ \E k \in 1..cut : order[k] = c

\* By priority, and on equal priorities by registration.
Precedes(a, b) ==
  \/ Priority[a] > Priority[b]
  \/ Priority[a] = Priority[b] /\ Position(order, a) < Position(order, b)

\* It waits in the executable's copy.
Waits(c) == c \in Elements(waiting[InitCopy])

\* Before the sort, the array is in the order of registration.
Unsorted ==
  cut = -1 => \A k, m \in DOMAIN waiting[InitCopy] :
    k < m => Position(order, waiting[InitCopy][k]) < Position(order, waiting[InitCopy][m])

\* After it, what comes first is taken first.
Falls ==
  \A k, m \in DOMAIN waiting[InitCopy] :
    k < m /\ Early(waiting[InitCopy][k]) /\ Early(waiting[InitCopy][m]) =>
      Precedes(waiting[InitCopy][m], waiting[InitCopy][k])

\* What was taken precedes what waits, and was executed before what follows.
TakenFirst ==
  \A a, b \in InitCallbacks : Early(a) /\ Early(b) =>
    /\ Waits(a) /\ ~ Waits(b) => Precedes(b, a)
    /\ ~ Waits(a) /\ ~ Waits(b) /\ Precedes(a, b) =>
         a \in Elements(log) /\ (b \in Elements(log) => Position(log, a) < Position(log, b))

\* Nobody who comes early is executed by whoever registers it, and they are done
\* before main().
EarlyInv ==
  /\ cut = -1 \/ cut \in 0..Len(order)
  /\ \A k \in DOMAIN stack : stack[k].op = "late" => ~ Early(stack[k].f)
  /\ image[Exe] \notin {"unloaded", "loading"} =>
       \A c \in InitCallbacks : Early(c) => c \in done

\* The invariant of the order of initialisation, on top of the custody.
OrderInv == CustodyInv /\ Unsorted /\ Falls /\ TakenFirst /\ EarlyInv

\* The copy that sorts is the one of the executable.
LEMMA InitCopyKnown == InitCopy \in Copies /\ InitCopy = <<"init", Exe>> /\ "init" \in Kinds /\ Exe \in Images
BY ExeCopy DEF InitCopy, Kinds, Images

\* Of two callbacks, one at most precedes the other.
LEMMA PrecedesOneWay ==
  ASSUME CustodyInv, NEW a \in Elements(order), NEW b \in Elements(order), Precedes(a, b)
  PROVE  ~ Precedes(b, a)
<1> DEFINE p == Priority[a]  r == Priority[b]  i == Position(order, a)  j == Position(order, b)
<1>1. order \in Seq(Callbacks)
  BY DEF CustodyInv, ControlInv, TypeOK
<1>2. p \in Int /\ r \in Int
  BY <1>1, Members, CallbackAssumption
<1>3. i \in Int /\ j \in Int
  BY <1>1, Members, PositionThere
<1> HIDE DEF p, r, i, j
<1>4. p > r \/ (p = r /\ i < j)
  BY DEF Precedes, p, r, i, j
<1>5. ~ (r > p \/ (r = p /\ j < i))
  BY <1>2, <1>3, <1>4
<1> QED BY <1>5 DEF Precedes, p, r, i, j

\* Who is early is registered.
LEMMA EarlyRegistered ==
  ASSUME OrderInv, NEW c, Early(c)
  PROVE  c \in Elements(order)
<1>1. order \in Seq(Callbacks)
  BY DEF OrderInv, CustodyInv, ControlInv, TypeOK
<1>2. PICK k \in 1..cut : order[k] = c
  BY DEF Early
<1>3. k \in DOMAIN order
  BY <1>1, <1>2 DEF OrderInv, EarlyInv
<1> QED BY <1>2, <1>3 DEF Elements

\* At the start nobody is early, so everything is in order.
LEMMA InitOrdered == Init => OrderInv
<1> SUFFICES ASSUME Init PROVE OrderInv
  OBVIOUS
<1>1. \A c : ~ Early(c)
  BY DEF Init, Early
<1>2. waiting[InitCopy] = << >> /\ stack = << >> /\ cut = -1 /\ image[Exe] = "unloaded"
  BY InitCopyKnown DEF Init
<1> QED BY <1>1, <1>2, InitCustody DEF OrderInv, Unsorted, Falls, TakenFirst, EarlyInv

\* Only registrations, the drain of the executable's copy and calls change the order.
LEMMA SameOrder ==
  ASSUME OrderInv, CustodyInv', UNCHANGED <<order, cut, log>>, waiting'[InitCopy] = waiting[InitCopy],
         \A k \in DOMAIN stack' : stack'[k].op = "late" /\ stack'[k].f # NoCallback =>
           k \in DOMAIN stack /\ stack'[k].op = stack[k].op /\ stack'[k].f = stack[k].f,
         image'[Exe] \notin {"unloaded", "loading"} =>
           \/ image[Exe] \notin {"unloaded", "loading"} /\ done \subseteq done'
           \/ \A c \in InitCallbacks : Early(c) => c \in done'
  PROVE  OrderInv'
<1>1. \A c : Early(c)' <=> Early(c)
  BY DEF Early
<1>2. \A a, b : Precedes(a, b)' <=> Precedes(a, b)
  BY DEF Precedes
<1>3. \A c : Waits(c)' <=> Waits(c)
  BY DEF Waits
<1>4. Unsorted'
  BY DEF OrderInv, Unsorted
<1>5. Falls'
  BY <1>1, <1>2 DEF OrderInv, Falls
<1>6. TakenFirst'
  BY <1>1, <1>2, <1>3 DEF OrderInv, TakenFirst
<1>7. EarlyInv'
  <2>1. ASSUME NEW k \in DOMAIN stack', stack'[k].op = "late"
        PROVE  ~ Early(stack'[k].f)
    <3>1. ~ Early(NoCallback)
      BY CallbackAssumption DEF Early, Callbacks
    <3>2. CASE stack'[k].f # NoCallback
      BY <2>1, <3>2 DEF OrderInv, EarlyInv
    <3> QED BY <3>1, <3>2
  <2>2. image'[Exe] \notin {"unloaded", "loading"} => \A c \in InitCallbacks : Early(c) => c \in done'
    BY DEF OrderInv, EarlyInv
  <2>3. cut' = -1 \/ cut' \in 0..Len(order')
    BY DEF OrderInv, EarlyInv
  <2> QED BY <1>1, <2>1, <2>2, <2>3 DEF EarlyInv
<1> QED BY <1>4, <1>5, <1>6, <1>7 DEF OrderInv

\* When nobody drains the executable's copy any more, and its constructors are at an
\* end, the early callbacks are done.
LEMMA EarlyDone ==
  ASSUME OrderInv, Loaded, Top.image = Exe, NEW c \in InitCallbacks, Early(c)
  PROVE  c \in done
<1>1. ControlInv /\ On("load") /\ todo[Exe] = {}
  BY DEF OrderInv, CustodyInv, Loaded
<1>2. Len(stack) = 1 /\ image[Exe] = "loading" /\ Plain(Top)
  BY <1>1, AtBottom, TopIsPlain
<1>3. Opened("init")
  BY <1>1, <1>2 DEF ControlInv, LifeInv, Opened
<1>4. size[InitCopy] = "ran"
  BY <1>1, <1>2, <1>3, OpenedRan, InitCopyKnown
<1>5. waiting[InitCopy] = << >>
  BY <1>1, <1>4, InitCopyKnown DEF ControlInv, TypeOK
<1>6. c \notin Elements(waiting[Home(c)])
  BY <1>5 DEF Home, Kind, InitCopy, Elements
<1>7. \A k \in DOMAIN stack : stack[k].f # c
  <2>1. \A k \in DOMAIN stack : stack[k] = Top
    BY <1>1, <1>2, Members DEF ControlInv, TypeOK, Top
  <2> QED BY <1>2, <2>1, CallbackAssumption DEF Plain, Callbacks
<1> QED BY <1>6, <1>7, EarlyRegistered DEF OrderInv, CustodyInv, KeptInv

\* The steps of the loader, of constructors and of main() change nothing of the
\* order.
LEMMA QuietOrder ==
  ASSUME OrderInv, CustodyInv',
         \/ Drained \/ EndClient \/ Loaded \/ Unloaded \/ Exit \/ UNCHANGED vars
         \/ \E i \in Images : AtexitLoad(i) \/ AtexitUnload(i) \/ ClientCode(i) \/ Load(i) \/ Unload(i)
  PROVE  OrderInv'
<1>1. SameHolders /\ UNCHANGED <<waiting, order, cut, log, done>>
  BY QuietSteps DEF OrderInv
<1>2. image \in [Images -> {"unloaded", "loading", "ready", "unloading", "closed", "gone"}] /\ Exe \in Images
  BY DEF OrderInv, CustodyInv, ControlInv, TypeOK, Images
<1>3. image'[Exe] \notin {"unloaded", "loading"} =>
        image[Exe] \notin {"unloaded", "loading"} \/ (Loaded /\ Top.image = Exe)
  <2>1. CASE Loaded
    BY <1>2, <2>1 DEF Loaded
  <2>2. CASE Unloaded
    <3>1. On("unload") /\ image' = [image EXCEPT ![Top.image] = IF process = "main" THEN "closed" ELSE "gone"]
      BY <2>2 DEF Unloaded
    <3>2. Top.image = Exe => image[Exe] = "unloading"
      BY <3>1, AtBottom DEF OrderInv, CustodyInv
    <3> QED BY <1>2, <3>1, <3>2
  <2>3. ASSUME NEW i \in Images, Load(i) \/ Unload(i)
        PROVE  image'[Exe] \notin {"unloaded", "loading"} => image[Exe] \notin {"unloaded", "loading"}
    BY <1>2, <2>3 DEF Load, Unload
  <2>4. CASE \/ Drained \/ EndClient \/ Exit \/ UNCHANGED vars
             \/ \E i \in Images : AtexitLoad(i) \/ AtexitUnload(i) \/ ClientCode(i)
    BY <2>4 DEF Drained, EndClient, Exit, vars, loader, AtexitLoad, AtexitUnload, ClientCode, Calls
  <2> QED BY <2>1, <2>2, <2>3, <2>4
<1>4. image'[Exe] \notin {"unloaded", "loading"} =>
        \/ image[Exe] \notin {"unloaded", "loading"} /\ done \subseteq done'
        \/ \A c \in InitCallbacks : Early(c) => c \in done'
  BY <1>1, <1>3, EarlyDone
<1> QED BY <1>1, <1>4, SameOrder DEF SameHolders

\* A callback that returns, and the end of a drain, change nothing of it.
LEMMA ReturnOrder ==
  ASSUME OrderInv, CustodyInv', Return
  PROVE  OrderInv'
<1>1. /\ UNCHANGED <<image, waiting, order, cut, log>> /\ done \subseteq done'
      /\ ~ Idle /\ stack \in Seq(Frames)
  BY DEF Return, loader, registry, OrderInv, CustodyInv, ControlInv, TypeOK
<1>2. \A k \in DOMAIN stack' : stack'[k].op = "late" /\ stack'[k].f # NoCallback =>
           k \in DOMAIN stack /\ stack'[k].op = stack[k].op /\ stack'[k].f = stack[k].f
  <2>1. CASE Top.op = "late"
    <3>1. Pop
      BY <2>1 DEF Return
    <3> QED BY <1>1, <3>1, Popped
  <2>2. CASE Top.op # "late"
    <3>1. stack' = [stack EXCEPT ![Len(stack)].f = NoCallback]
      BY <2>2 DEF Return
    <3> QED BY <1>1, <3>1, SameButTop
  <2> QED BY <2>1, <2>2
<1> QED BY <1>1, <1>2, SameOrder

\* The sort of the copy of a library is none of the executable's business, and that
\* of the executable finds all the early ones in place.
LEMMA AllWait ==
  ASSUME CustodyInv, cut = -1, NEW c \in InitCallbacks, c \in Elements(order)
  PROVE  c \in Elements(waiting[InitCopy])
<1>1. Home(c) = InitCopy /\ c # NoCallback
  BY CallbackAssumption DEF Home, Kind, InitCopy, Callbacks
<1>2. ~ Opened("init") /\ "init" \in Kinds
  BY DEF Opened, Kinds
<1>3. c \notin done
  BY <1>2 DEF CustodyInv, ListInv, ControlInv, ShutInv, Kind
<1>4. \A k \in DOMAIN stack : stack[k].f # c
  <2> SUFFICES ASSUME NEW k \in DOMAIN stack, stack[k].f = c PROVE FALSE
    OBVIOUS
  <2>1. stack[k].op \in {"drain", "late"} /\ Copy(stack[k]) = InitCopy
    BY <1>1 DEF CustodyInv, ControlInv, HomeInv
  <2>2. stack[k].kind = "init" /\ stack[k].image = Exe
    BY <2>1 DEF Copy, InitCopy
  <2> QED BY <1>2, <2>1, <2>2 DEF CustodyInv, ControlInv, ShutInv
<1> QED BY <1>1, <1>3, <1>4 DEF CustodyInv, KeptInv

\* The sort of the executable's copy arranges what waits so that the last cell
\* precedes all others (mulle-atinit.c:222).
LEMMA AtinitLoadOrder ==
  ASSUME OrderInv, CustodyInv', NEW i \in Images, AtinitLoad(i)
  PROVE  OrderInv'
<1> DEFINE x == <<"init", i>>
<1>1. /\ x \in Copies /\ stack \in Seq(Frames) /\ waiting \in [Copies -> Seq(Callbacks)] /\ order \in Seq(Callbacks)
      /\ x = InitCopy <=> i = Exe
  BY ExeCopy DEF OrderInv, CustodyInv, ControlInv, TypeOK, InitCopy
<1>2. /\ waiting' = [waiting EXCEPT ![x] = Sorted(@)]
      /\ Push(Frame("drain", "init", i, NoCallback))
      /\ cut' = IF i = Exe THEN Len(order) ELSE cut
      /\ UNCHANGED <<image, order, log, done>>
  BY DEF AtinitLoad, Drains, Calls
<1>3. \A k \in DOMAIN stack' : stack'[k].op = "late" => k \in DOMAIN stack /\ stack'[k] = stack[k]
  <2>1. Frame("drain", "init", i, NoCallback) \in Frames /\ Frame("drain", "init", i, NoCallback).op = "drain"
    BY FrameFields DEF Kinds
  <2> QED BY <1>1, <1>2, <2>1, PushedAt
<1>4. CASE i # Exe
  <2>1. waiting'[InitCopy] = waiting[InitCopy]
    BY <1>1, <1>2, <1>4, InitCopyKnown
  <2> QED BY <1>2, <1>3, <1>4, <2>1, SameOrder
<1>5. CASE i = Exe
  <2> DEFINE w == waiting[InitCopy]
  <2>1. w \in Seq(Callbacks) /\ waiting'[InitCopy] = Sorted(w) /\ cut' = Len(order)
    BY <1>1, <1>2, <1>5, InitCopyKnown
  <2>2. On("load") /\ Top.image = Exe /\ "atinit" \in todo[Exe]
    BY <1>5 DEF AtinitLoad, Calls
  <2>3. cut = -1 /\ image[Exe] = "loading"
    BY <2>2, AtBottom DEF OrderInv, CustodyInv, ControlInv, LifeInv
  <2>4. PICK q : SortedBy(w, q)
    BY <2>1, SortArranges
  <2>5. \A k, m \in DOMAIN w : k < m => Position(order, w[k]) < Position(order, w[m])
    BY <2>3 DEF OrderInv, Unsorted
  <2> HIDE DEF w
  <2>6. ASSUME NEW k \in DOMAIN Sorted(w), NEW m \in DOMAIN Sorted(w), k < m
        PROVE  Precedes(Sorted(w)[m], Sorted(w)[k])
    <3>1. k \in DOMAIN w /\ m \in DOMAIN w
      BY <2>4 DEF SortedBy
    <3>2. /\ Sorted(w)[k] = w[q[k]] /\ Sorted(w)[m] = w[q[m]]
          /\ q[k] \in DOMAIN w /\ q[m] \in DOMAIN w
          /\ \/ Priority[w[q[k]]] < Priority[w[q[m]]]
             \/ Priority[w[q[k]]] = Priority[w[q[m]]] /\ q[k] > q[m]
      BY <2>4, <2>6, <3>1 DEF SortedBy
    <3>3. /\ w[q[k]] \in Callbacks /\ w[q[m]] \in Callbacks
          /\ q[k] \in Nat /\ q[m] \in Nat
      BY <2>1, <3>2
    <3>4. Priority[w[q[k]]] \in Int /\ Priority[w[q[m]]] \in Int
      BY <3>3, CallbackAssumption
    <3>5. CASE Priority[w[q[k]]] < Priority[w[q[m]]]
      BY <3>2, <3>4, <3>5 DEF Precedes
    <3>6. CASE Priority[w[q[k]]] = Priority[w[q[m]]] /\ q[k] > q[m]
      <4>1. q[m] < q[k]
        BY <3>3, <3>6
      <4>2. Position(order, w[q[m]]) < Position(order, w[q[k]])
        BY <2>5, <3>2, <4>1
      <4> QED BY <3>2, <3>6, <4>2 DEF Precedes
    <3> QED BY <3>2, <3>5, <3>6
  <2>7. \A a, b : Precedes(a, b)' <=> Precedes(a, b)
    BY <1>2 DEF Precedes
  <2>8. Falls'
    BY <2>1, <2>6, <2>7 DEF Falls
  <2>9. Unsorted'
    <3>1. cut' # -1
      BY <1>1, <2>1
    <3> QED BY <3>1 DEF Unsorted
  <2>10. ASSUME NEW c \in InitCallbacks, Early(c)'
         PROVE  Waits(c)'
    <3>1. PICK k \in 1..Len(order) : order[k] = c
      BY <1>2, <2>1, <2>10 DEF Early
    <3>2. c \in Elements(order)
      BY <1>1, <3>1 DEF Elements
    <3>3. c \in Elements(w)
      BY <2>3, <3>2, AllWait DEF OrderInv, w
    <3> QED BY <2>1, <3>3, SortKeepsElements DEF Waits
  <2>11. TakenFirst'
    BY <2>10 DEF TakenFirst
  <2>12. EarlyInv'
    <3>1. ASSUME NEW k \in DOMAIN stack', stack'[k].op = "late"
          PROVE  stack'[k].f \notin InitCallbacks
      <4>1. k \in DOMAIN stack /\ stack'[k] = stack[k]
        BY <1>3, <3>1
      <4>2. stack[k].kind # "init" \/ stack[k].image # Exe
        <5>1. ~ Opened("init") /\ "init" \in Kinds
          BY <2>3 DEF Opened, Kinds
        <5> QED BY <3>1, <4>1, <5>1 DEF OrderInv, CustodyInv, ControlInv, ShutInv
      <4>3. stack[k].f \notin InitCallbacks
        <5> SUFFICES ASSUME stack[k].f \in InitCallbacks PROVE FALSE
          OBVIOUS
        <5>1. stack[k].f # NoCallback /\ Home(stack[k].f) = <<"init", Exe>>
          BY CallbackAssumption DEF Callbacks, Home, Kind
        <5>2. Copy(stack[k]) = <<"init", Exe>>
          BY <4>1, <5>1 DEF OrderInv, CustodyInv, ControlInv, HomeInv
        <5> QED BY <4>2, <5>2 DEF Copy
      <4> QED BY <4>1, <4>3
    <3>2. cut' \in 0..Len(order')
      BY <1>1, <1>2, <2>1
    <3> QED BY <1>2, <2>3, <3>1, <3>2 DEF EarlyInv, Early
  <2> QED BY <2>8, <2>9, <2>11, <2>12 DEF OrderInv
<1> QED BY <1>4, <1>5

\* Who registers now comes after everybody who is early.
LEMMA RegisterOrder ==
  ASSUME OrderInv, CustodyInv', NEW k \in Kinds, NEW c \in Callbacks, Kind(c) = k,
         Register(<<k, Exe>>, c), Fresh(c)
  PROVE  OrderInv'
<1> DEFINE x == <<k, Exe>>
           w == waiting[InitCopy]
<1>1. /\ x \in Copies /\ x[1] = k /\ x[2] = Exe /\ Home(c) = x /\ c # NoCallback
  BY ExeCopy, CallbackAssumption DEF Home
<1>2. /\ stack \in Seq(Frames) /\ order \in Seq(Callbacks) /\ waiting \in [Copies -> Seq(Callbacks)]
      /\ w \in Seq(Callbacks) /\ OnceIn(order) /\ Elements(w) \subseteq Elements(order)
      /\ cut = -1 \/ cut \in 0..Len(order)
  BY InitCopyKnown DEF OrderInv, CustodyInv, ControlInv, TypeOK, ListInv, WaitInv, EarlyInv
<1>3. /\ UNCHANGED <<image, cut, log, done>> /\ order' = Append(order, c) /\ c \notin Elements(order)
  BY DEF Register, loader, Fresh
<1>4. /\ \A d \in Elements(order) : Position(order', d) = Position(order, d) /\ Position(order, d) <= Len(order)
      /\ Position(order', c) = Len(order) + 1
  BY <1>2, <1>3, PositionAppended
<1>5. \A m \in 1..cut : m \in DOMAIN order /\ order'[m] = order[m]
  BY <1>2, <1>3
<1>6. /\ \A d : Early(d)' <=> Early(d)
      /\ ~ Early(c)
  <2>1. \A d : Early(d)' <=> Early(d)
    BY <1>3, <1>5 DEF Early
  <2>2. ~ Early(c)
    BY <1>3, EarlyRegistered
  <2> QED BY <2>1, <2>2
<1>7. \A a, b \in Elements(order) : Precedes(a, b)' <=> Precedes(a, b)
  BY <1>4 DEF Precedes
<1>8. \/ waiting'[InitCopy] = w
      \/ waiting'[InitCopy] = Append(w, c)
  <2>1. waiting' = waiting \/ waiting' = [waiting EXCEPT ![x] = Append(@, c)]
    BY <1>1 DEF Register
  <2> HIDE DEF x
  <2> QED BY <1>2, <2>1, InitCopyKnown
<1>9. \A m \in DOMAIN w : w[m] \in Elements(order) /\ w[m] \in Elements(w)
  BY <1>2, Members
<1>10. \A m \in DOMAIN waiting'[InitCopy] :
         \/ m \in DOMAIN w /\ waiting'[InitCopy][m] = w[m] /\ m <= Len(w)
         \/ m = Len(w) + 1 /\ waiting'[InitCopy][m] = c
  <2>1. CASE waiting'[InitCopy] = w
    BY <1>2, <2>1
  <2>2. CASE waiting'[InitCopy] = Append(w, c)
    <3> HIDE DEF w
    <3>1. \A m \in DOMAIN Append(w, c) :
            \/ m \in DOMAIN w /\ Append(w, c)[m] = w[m] /\ m <= Len(w)
            \/ m = Len(w) + 1 /\ Append(w, c)[m] = c
      BY <1>2, Appended
    <3> QED BY <2>2, <3>1
  <2> QED BY <1>8, <2>1, <2>2
<1>11. Len(w) \in Nat /\ Len(order) \in Nat
  BY <1>2
<1>12. \A d \in Elements(order) : Position(order, d) \in Nat
  BY <1>2, Members, PositionThere
<1>13. \A d : Early(d) => (Waits(d)' <=> Waits(d))
  <2>1. Elements(waiting'[InitCopy]) = Elements(w) \/ Elements(waiting'[InitCopy]) = Elements(w) \cup {c}
    <3>1. Elements(Append(w, c)) = Elements(w) \cup {c}
      <4> HIDE DEF w
      <4> QED BY <1>2, AppendedElements
    <3> QED BY <1>8, <3>1
  <2> QED BY <1>6, <2>1 DEF Waits
<1>14. \A d : Early(d) => d \in Elements(order)
  BY EarlyRegistered
<1> DEFINE v == waiting'[InitCopy]
<1>15. \A m, p \in DOMAIN v : m < p => m \in DOMAIN w /\ v[m] = w[m]
  <2> SUFFICES ASSUME NEW m \in DOMAIN v, NEW p \in DOMAIN v, m < p
               PROVE  m \in DOMAIN w /\ v[m] = w[m]
    OBVIOUS
  <2>1. DOMAIN w = 1..Len(w)
    BY <1>2
  <2>2. /\ \/ m \in DOMAIN w /\ v[m] = w[m] /\ m <= Len(w)
           \/ m = Len(w) + 1 /\ v[m] = c
        /\ \/ p \in DOMAIN w /\ v[p] = w[p] /\ p <= Len(w)
           \/ p = Len(w) + 1 /\ v[p] = c
    BY <1>10
  <2> HIDE DEF w, v
  <2>3. ~ (m = Len(w) + 1)
    BY <1>11, <2>1, <2>2
  <2> QED BY <2>2, <2>3
<1>16. Unsorted' /\ Falls'
  <2>1. ASSUME cut = -1, NEW m \in DOMAIN v, NEW p \in DOMAIN v, m < p
        PROVE  Position(order', v[m]) < Position(order', v[p])
    <3>1. m \in DOMAIN w /\ v[m] = w[m]
      BY <1>15, <2>1
    <3>2. Position(order', w[m]) = Position(order, w[m]) /\ Position(order, w[m]) <= Len(order) /\ Position(order, w[m]) \in Nat
      BY <1>4, <1>9, <1>12, <3>1
    <3>3. CASE p \in DOMAIN w /\ v[p] = w[p]
      <4>1. Position(order, w[m]) < Position(order, w[p])
        BY <2>1, <3>1, <3>3 DEF OrderInv, Unsorted
      <4>2. Position(order', w[p]) = Position(order, w[p])
        BY <1>4, <1>9, <3>3
      <4> QED BY <3>1, <3>2, <3>3, <4>1, <4>2
    <3>4. CASE v[p] = c
      <4> DEFINE i == Position(order, w[m])  j == Position(order', c)
      <4>1. i \in Nat /\ i <= Len(order) /\ j = Len(order) + 1
        BY <1>4, <3>2
      <4> HIDE DEF i, j
      <4>2. i < j
        BY <1>11, <4>1
      <4> QED BY <3>1, <3>2, <3>4, <4>2 DEF i, j
    <3> QED BY <1>10, <3>3, <3>4
  <2>2. ASSUME NEW m \in DOMAIN v, NEW p \in DOMAIN v, m < p, Early(v[m]), Early(v[p]),
               NEW a, NEW b, a = v[m], b = v[p]
        PROVE  Precedes(b, a)'
    <3>1. a = w[m] /\ b = w[p] /\ m \in DOMAIN w /\ p \in DOMAIN w
      BY <1>6, <1>10, <1>15, <2>2
    <3>2. Precedes(b, a)
      BY <2>2, <3>1 DEF OrderInv, Falls
    <3> QED BY <1>7, <1>9, <3>1, <3>2
  <2>3. Unsorted'
    BY <1>3, <2>1 DEF Unsorted
  <2>4. Falls'
    BY <1>6, <2>2 DEF Falls, Precedes
  <2> QED BY <2>3, <2>4
<1>17. TakenFirst'
  <2> SUFFICES ASSUME NEW a \in InitCallbacks, NEW b \in InitCallbacks, Early(a), Early(b)
               PROVE  /\ Waits(a)' /\ ~ Waits(b)' => Precedes(b, a)'
                      /\ ~ Waits(a)' /\ ~ Waits(b)' /\ Precedes(a, b)' =>
                           a \in Elements(log') /\ (b \in Elements(log') => Position(log', a) < Position(log', b))
    BY <1>6 DEF TakenFirst
  <2>1. /\ Waits(a)' <=> Waits(a)
        /\ Waits(b)' <=> Waits(b)
        /\ Precedes(a, b)' <=> Precedes(a, b)
        /\ Precedes(b, a)' <=> Precedes(b, a)
    BY <1>7, <1>13, <1>14
  <2> QED BY <1>3, <2>1 DEF OrderInv, TakenFirst
<1>18. EarlyInv'
  <2>1. \A m \in DOMAIN stack' : \/ m \in DOMAIN stack /\ stack'[m] = stack[m]
                                 \/ stack'[m].f = c
    <3>1. CASE Late(x)
      <4>1. Push(Frame("late", k, Exe, c))
        BY <1>1, <3>1 DEF Register
      <4>2. Frame("late", k, Exe, c) \in Frames /\ Frame("late", k, Exe, c).f = c
        BY FrameFields DEF Images
      <4> QED BY <1>2, <4>1, <4>2, PushedAt
    <3>2. CASE ~ Late(x)
      BY <3>2 DEF Register
    <3> QED BY <3>1, <3>2
  <2>2. ASSUME NEW m \in DOMAIN stack', stack'[m].op = "late"
        PROVE  ~ Early(stack'[m].f)
    BY <1>6, <2>1, <2>2 DEF OrderInv, EarlyInv
  <2>3. cut' = -1 \/ cut' \in 0..Len(order')
    <3>1. Len(order') = Len(order) + 1
      BY <1>2, <1>3, Appended
    <3> QED BY <1>2, <1>3, <1>11, <3>1
  <2>4. image'[Exe] \notin {"unloaded", "loading"} => \A d \in InitCallbacks : Early(d) => d \in done'
    BY <1>3 DEF OrderInv, EarlyInv
  <2> QED BY <1>6, <2>2, <2>3, <2>4 DEF EarlyInv
<1> QED BY <1>15, <1>16, <1>17, <1>18 DEF OrderInv

\* A drain of the copy of a library, or of exit callbacks, is no concern of the order.
LEMMA TakeOrder ==
  ASSUME OrderInv, CustodyInv', Take
  PROVE  OrderInv'
<1>1. PICK x, s : Takes(x, s)
  BY TakeTakes DEF OrderInv, CustodyInv, ControlInv
<1> DEFINE e == s[Len(s)]
           w == waiting[InitCopy]
<1>2. /\ x = Copy(Top) /\ s = waiting[x] /\ x \in Copies /\ s \in Seq(Callbacks) /\ s # << >>
      /\ ~ Idle /\ Top.op = "drain" /\ Top.f = NoCallback /\ e \in Callbacks /\ Len(s) \in DOMAIN s
      /\ stack' = [stack EXCEPT ![Len(stack)].f = e]
      /\ waiting'[x] = SubSeq(s, 1, Len(s) - 1)
      /\ \A y \in Copies : y # x => waiting'[y] = waiting[y]
      /\ UNCHANGED <<image, order, cut, log, done>>
  BY <1>1 DEF Takes
<1> HIDE DEF e
<1>3. /\ DOMAIN stack' = DOMAIN stack /\ Len(stack) \in DOMAIN stack
      /\ \A k \in DOMAIN stack : /\ stack'[k].op = stack[k].op
                                 /\ stack'[k].f = IF k = Len(stack) THEN e ELSE stack[k].f
  BY <1>2, SameButTop DEF OrderInv, CustodyInv, ControlInv, TypeOK
<1>4. \A k \in DOMAIN stack' : stack'[k].op = "late" /\ stack'[k].f # NoCallback =>
           k \in DOMAIN stack /\ stack'[k].op = stack[k].op /\ stack'[k].f = stack[k].f
  BY <1>2, <1>3 DEF Top
<1>5. CASE x # InitCopy
  <2>1. waiting'[InitCopy] = waiting[InitCopy]
    BY <1>2, <1>5, InitCopyKnown
  <2> QED BY <1>2, <1>4, <2>1, SameOrder
<1>6. CASE x = InitCopy
  <2>1. /\ w = s /\ OnceIn(w) /\ waiting'[InitCopy] = SubSeq(w, 1, Len(w) - 1)
        /\ e = w[Len(w)] /\ w \in Seq(Callbacks) /\ w # << >>
    BY <1>2, <1>6 DEF e, OrderInv, CustodyInv, WaitInv
  <2> HIDE DEF w
  <2>2. /\ \A k \in DOMAIN waiting'[InitCopy] :
             k \in DOMAIN w /\ waiting'[InitCopy][k] = w[k] /\ k < Len(w)
        /\ Elements(waiting'[InitCopy]) = Elements(w) \ {e}
        /\ e \in Elements(w)
    <3>1. /\ \A k : k \in DOMAIN waiting'[InitCopy] <=> k \in DOMAIN w /\ k # Len(w)
          /\ \A k \in DOMAIN waiting'[InitCopy] : waiting'[InitCopy][k] = w[k]
          /\ Len(w) \in DOMAIN w
      BY <2>1, Shortened
    <3>2. Elements(waiting'[InitCopy]) = Elements(w) \ {e}
      BY <2>1, OnceShortened
    <3>3. \A k \in DOMAIN w : k # Len(w) => k < Len(w)
      BY <2>1
    <3>4. e \in Elements(w)
      BY <2>1, <3>1 DEF Elements
    <3> QED BY <3>1, <3>2, <3>3, <3>4
  <2>3. /\ \A c : Early(c)' <=> Early(c)
        /\ \A a, b : Precedes(a, b)' <=> Precedes(a, b)
        /\ \A c : Waits(c)' <=> Waits(c) /\ c # e
        /\ Waits(e)
    BY <1>2, <2>2 DEF Early, Precedes, Waits, w
  <2>4. Unsorted'
    BY <1>2, <2>2 DEF OrderInv, Unsorted, w
  <2>5. Falls'
    BY <2>2, <2>3 DEF OrderInv, Falls, w
  <2>6. ASSUME NEW a \in InitCallbacks, Early(a), Early(e), Waits(a), a # e
        PROVE  Precedes(e, a)
    <3>1. PICK k \in DOMAIN w : w[k] = a
      BY <2>6 DEF Waits, Elements, w
    <3>2. k < Len(w) /\ Len(w) \in DOMAIN w
      BY <2>1, <2>6, <3>1
    <3> QED BY <2>1, <2>6, <3>1, <3>2 DEF OrderInv, Falls, w
  <2>7. ASSUME NEW a \in InitCallbacks, Early(a), ~ Waits(a)
        PROVE  a \in Elements(log)
    <3>1. a \in Elements(order) /\ a # NoCallback /\ Home(a) = InitCopy
      BY <2>7, EarlyRegistered, CallbackAssumption DEF Home, Kind, InitCopy, Callbacks
    <3>2. \A k \in DOMAIN stack : stack[k].f # a
      <4> SUFFICES ASSUME NEW k \in DOMAIN stack, stack[k].f = a PROVE FALSE
        OBVIOUS
      <4>1. stack[k].op \in {"drain", "late"} /\ Copy(stack[k]) = InitCopy
        BY <3>1 DEF OrderInv, CustodyInv, ControlInv, HomeInv
      <4>2. stack[k].op = "drain"
        BY <2>7, <4>1 DEF OrderInv, EarlyInv
      <4>3. DrainsExe(stack[k], "init") /\ DrainsExe(stack[Len(stack)], "init")
        BY <1>2, <1>6, <4>1, <4>2 DEF DrainsExe, Copy, InitCopy, Top
      <4>4. k = Len(stack)
        BY <1>3, <4>3, InitCopyKnown DEF OrderInv, CustodyInv, ControlInv, OneDrainInv
      <4> QED BY <1>2, <3>1, <4>4 DEF Top
    <3>3. a \in done
      BY <2>7, <3>1, <3>2 DEF OrderInv, CustodyInv, KeptInv, Waits
    <3> QED BY <3>3 DEF OrderInv, CustodyInv, ListInv
  <2>8. e \notin Elements(log)
    BY <1>2, <2>2, InitCopyKnown DEF OrderInv, CustodyInv, WaitInv, w
  <2>9. TakenFirst'
    <3> SUFFICES ASSUME NEW a \in InitCallbacks, NEW b \in InitCallbacks, Early(a), Early(b)
                 PROVE  /\ Waits(a)' /\ ~ Waits(b)' => Precedes(b, a)
                        /\ ~ Waits(a)' /\ ~ Waits(b)' /\ Precedes(a, b) =>
                             a \in Elements(log) /\ (b \in Elements(log) => Position(log, a) < Position(log, b))
      BY <1>2, <2>3 DEF TakenFirst
    <3>1. ASSUME Waits(a)', ~ Waits(b)' PROVE Precedes(b, a)
      <4>1. CASE b = e
        BY <2>3, <2>6, <3>1, <4>1
      <4>2. CASE b # e
        BY <2>3, <3>1, <4>2 DEF OrderInv, TakenFirst
      <4> QED BY <4>1, <4>2
    <3>2. ASSUME ~ Waits(a)', ~ Waits(b)', Precedes(a, b)
          PROVE  a \in Elements(log) /\ (b \in Elements(log) => Position(log, a) < Position(log, b))
      <4>1. a # e
        <5> SUFFICES ASSUME a = e PROVE FALSE
          OBVIOUS
        <5>1. a \in Elements(order) /\ b \in Elements(order)
          BY EarlyRegistered
        <5>2. ~ Precedes(b, a)
          BY <3>2, <5>1, PrecedesOneWay DEF OrderInv
        <5>3. b # e
          BY <3>2, <5>2
        <5>4. Precedes(b, a)
          BY <2>3, <3>2, <5>3 DEF OrderInv, TakenFirst
        <5> QED BY <5>2, <5>4
      <4>2. ~ Waits(a) /\ a \in Elements(log)
        BY <2>3, <2>7, <3>2, <4>1
      <4>3. CASE b = e
        BY <2>8, <4>2, <4>3
      <4>4. CASE b # e
        BY <2>3, <3>2, <4>2, <4>4 DEF OrderInv, TakenFirst
      <4> QED BY <4>3, <4>4
    <3> QED BY <3>1, <3>2
  <2>10. EarlyInv'
    <3>1. ASSUME NEW k \in DOMAIN stack', stack'[k].op = "late"
          PROVE  ~ Early(stack'[k].f)
      <4>1. k \in DOMAIN stack /\ stack'[k].f = stack[k].f /\ stack[k].op = "late"
        BY <1>2, <1>3, <3>1 DEF Top
      <4> QED BY <4>1 DEF OrderInv, EarlyInv
    <3> QED BY <1>2, <2>3, <3>1 DEF OrderInv, EarlyInv
  <2> QED BY <2>4, <2>5, <2>9, <2>10 DEF OrderInv
<1> QED BY <1>5, <1>6

\* A callback that a drain calls was taken after everybody who precedes it, and
\* those are executed already.
LEMMA CallOrder ==
  ASSUME OrderInv, CustodyInv', Call
  PROVE  OrderInv'
<1>1. /\ ~ Idle /\ Top.f # NoCallback /\ Top.f \notin Elements(log)
      /\ UNCHANGED <<image, stack, waiting, order, cut, done>>
      /\ log' = log \/ log' = Append(log, Top.f)
  BY DEF Call, registry
<1>2. Top.f \in Callbacks /\ log \in Seq(Callbacks) /\ OnceIn(log)
  BY <1>1, TopType DEF OrderInv, CustodyInv, ControlInv, TypeOK, ListInv
<1>3. CASE log' = log
  BY <1>1, <1>3, SameOrder
<1>4. CASE log' = Append(log, Top.f)
  <2>1. /\ Elements(log') = Elements(log) \cup {Top.f}
        /\ \A c \in Elements(log) : Position(log', c) = Position(log, c) /\ Position(log, c) <= Len(log)
        /\ Position(log', Top.f) = Len(log) + 1
    BY <1>1, <1>2, <1>4, AppendedElements, PositionAppended
  <2>2. Len(log) \in Nat /\ \A c \in Elements(log) : Position(log, c) \in Nat
    BY <1>2, Members, PositionThere
  <2>3. /\ \A c : Early(c)' <=> Early(c)
        /\ \A a, b : Precedes(a, b)' <=> Precedes(a, b)
        /\ \A c : Waits(c)' <=> Waits(c)
    BY <1>1 DEF Early, Precedes, Waits
  <2>4. TakenFirst'
    <3> SUFFICES ASSUME NEW a \in InitCallbacks, NEW b \in InitCallbacks, Early(a), Early(b)
                 PROVE  /\ Waits(a) /\ ~ Waits(b) => Precedes(b, a)
                        /\ ~ Waits(a) /\ ~ Waits(b) /\ Precedes(a, b) =>
                             a \in Elements(log') /\ (b \in Elements(log') => Position(log', a) < Position(log', b))
      BY <2>3 DEF TakenFirst
    <3>1. Waits(a) /\ ~ Waits(b) => Precedes(b, a)
      BY DEF OrderInv, TakenFirst
    <3>2. ASSUME ~ Waits(a), ~ Waits(b), Precedes(a, b)
          PROVE  a \in Elements(log') /\ (b \in Elements(log') => Position(log', a) < Position(log', b))
      <4>1. a \in Elements(log) /\ (b \in Elements(log) => Position(log, a) < Position(log, b))
        BY <3>2 DEF OrderInv, TakenFirst
      <4>2. CASE b = Top.f
        BY <2>1, <2>2, <4>1, <4>2
      <4>3. CASE b # Top.f
        BY <2>1, <4>1, <4>3
      <4> QED BY <4>2, <4>3
    <3> QED BY <3>1, <3>2
  <2>5. Unsorted' /\ Falls'
    BY <1>1, <2>3 DEF OrderInv, Unsorted, Falls
  <2>6. EarlyInv'
    BY <1>1, <2>3 DEF OrderInv, EarlyInv
  <2> QED BY <2>4, <2>5, <2>6 DEF OrderInv
<1> QED BY <1>1, <1>3, <1>4

\* Every step keeps the order.
LEMMA NextOrder ==
  ASSUME OrderInv, [Next]_vars
  PROVE  OrderInv'
<1>1. CustodyInv'
  BY NextCustody DEF OrderInv
<1>2. CASE \/ Drained \/ EndClient \/ Loaded \/ Unloaded \/ Exit \/ UNCHANGED vars
           \/ \E i \in Images : AtexitLoad(i) \/ AtexitUnload(i) \/ ClientCode(i) \/ Load(i) \/ Unload(i)
  BY <1>1, <1>2, QuietOrder
<1>3. CASE Take \/ Call \/ Return
  BY <1>1, <1>3, TakeOrder, CallOrder, ReturnOrder
<1>4. ASSUME NEW i \in Images, AtinitLoad(i)
      PROVE  OrderInv'
  BY <1>1, <1>4, AtinitLoadOrder
<1>5. ASSUME NEW c \in InitCallbacks, RegisterInit(c)
      PROVE  OrderInv'
  <2>1. c \in Callbacks /\ Kind(c) = "init" /\ "init" \in Kinds
    BY DEF Callbacks, Kind, Kinds
  <2>2. Register(<<"init", Exe>>, c) /\ Fresh(c)
    BY <1>5 DEF RegisterInit, Resolve
  <2> QED BY <1>1, <2>1, <2>2, RegisterOrder
<1>6. ASSUME NEW c \in ExitCallbacks, RegisterExit(c)
      PROVE  OrderInv'
  <2>1. c \in Callbacks /\ Kind(c) = "exit" /\ "exit" \in Kinds
    BY CallbackAssumption DEF Callbacks, Kind, Kinds
  <2>2. Register(<<"exit", Exe>>, c) /\ Fresh(c)
    BY <1>6 DEF RegisterExit, Resolve
  <2> QED BY <1>1, <2>1, <2>2, RegisterOrder
<1> QED BY <1>2, <1>3, <1>4, <1>5, <1>6 DEF Next, Proceed, Terminated

\* At every time, what waits in the executable's copy is in the order it will be
\* executed in, and everything taken before precedes it (mulle-atinit.c:72-137,
\* 222).
THEOREM OrderInvariance == Spec => []OrderInv
BY InitOrdered, NextOrder, PTL DEF Spec

\* The init callbacks that were registered before the executable's sort, by
\* whichever images, are executed by descending priority and, on equal
\* priorities, in the order of their registration (mulle-atinit.c:72-137,
\* 220-255).
THEOREM InitsInOrder == Spec => []InitOrder
<1>1. OrderInv => InitOrder
  <2> SUFFICES ASSUME OrderInv PROVE InitOrder
    OBVIOUS
  <2>1. cut = -1 => Elements(log) \cap InitCallbacks = {}
    BY DEF OrderInv, CustodyInv, ControlInv, ShutInv, Opened, Kinds, Kind
  <2>2. ASSUME NEW a \in InitCallbacks, NEW b \in InitCallbacks, Early(a), Early(b), Precedes(a, b), b \in Elements(log)
        PROVE  a \in Elements(log) /\ Position(log, a) < Position(log, b)
    <3>1. ~ Waits(b)
      BY <2>2, InitCopyKnown DEF OrderInv, CustodyInv, WaitInv, Waits
    <3>2. ~ Waits(a)
      <4> SUFFICES ASSUME Waits(a) PROVE FALSE
        OBVIOUS
      <4>1. Precedes(b, a)
        BY <2>2, <3>1 DEF OrderInv, TakenFirst
      <4> QED BY <2>2, <4>1, PrecedesOneWay, EarlyRegistered DEF OrderInv
    <3> QED BY <2>2, <3>1, <3>2 DEF OrderInv, TakenFirst
  <2>3. process \in {"main", "exiting", "exited"} => \A c \in InitCallbacks : Early(c) => c \in done
    BY DEF OrderInv, CustodyInv, ControlInv, LifeInv, EarlyInv
  <2>4. \A c : c \in {d \in InitCallbacks : d \in {order[k] : k \in 1..cut}} <=> c \in InitCallbacks /\ Early(c)
    BY DEF Early
  <2> QED BY <2>1, <2>2, <2>3, <2>4 DEF InitOrder, Precedes
<1> QED BY <1>1, OrderInvariance, PTL

(***************************************************************************)
(* Which code is still there                                               *)
(***************************************************************************)

\* The code of whatever is executing is mapped: that of constructors, destructors and
\* callbacks, and of those that are about to be called by whoever registered them, or
\* by the drain of init callbacks.  Only a drain of exit callbacks can take one whose
\* image was closed, and then the process is at its end.
Executing(frame, calls) ==
  /\ frame.f # NoCallback
  /\ frame.op = "late" \/ frame.kind = "init" \/ frame.f \in Elements(calls)

\* Where the code of an executing activation is, and where a process can crash.
MappedInv ==
  /\ image[Exe] \in {"unloaded", "loading"} => \A i \in Images : image[i] # "closed"
  /\ \A k \in DOMAIN stack :
       /\ stack[k].op \in {"load", "unload", "client"} => image[stack[k].image] # "closed"
       /\ Executing(stack[k], log) => image[Owner[stack[k].f]] # "closed"
  /\ process = "crashed" => ~ Idle /\ Top.f \notin Elements(log) \cup {NoCallback}

\* The custody, and the code.
RunInv == CustodyInv /\ MappedInv

\* At the start nothing is executing.
LEMMA InitRun == Init => RunInv
<1> SUFFICES ASSUME Init PROVE RunInv
  OBVIOUS
<1>1. /\ stack = << >> /\ process = "loading"
      /\ \A i \in Images : image[i] # "closed"
  BY DEF Init
<1> QED BY <1>1, InitCustody DEF RunInv, MappedInv

\* Nothing is closed but by the end of dlclose(), which leaves no activation.
LEMMA MappedKept ==
  ASSUME RunInv, CustodyInv', process # "crashed",
         process' # "crashed",
         \A i \in Images : image'[i] = "closed" => image[i] = "closed",
         image'[Exe] \in {"unloaded", "loading"} => image[Exe] \in {"unloaded", "loading"},
         \A k \in DOMAIN stack' :
           \/ k \in DOMAIN stack /\ stack'[k] = stack[k]
                /\ (stack[k].f \in Elements(log') => stack[k].f \in Elements(log))
           \/ stack'[k].op \in {"load", "unload", "client"} /\ image'[stack'[k].image] # "closed"
                /\ stack'[k].f = NoCallback
           \/ stack'[k].f = NoCallback /\ stack'[k].op \in {"drain", "late"}
           \/ stack'[k].f \in Callbacks /\ stack'[k].op \in {"drain", "late"}
                /\ (Executing(stack'[k], log') => image'[Owner[stack'[k].f]] # "closed")
  PROVE  RunInv'
<1>1. /\ stack \in Seq(Frames) /\ stack' \in Seq(Frames)
      /\ image \in [Images -> {"unloaded", "loading", "ready", "unloading", "closed", "gone"}]
  BY DEF RunInv, CustodyInv, ControlInv, TypeOK
<1>2. \A k \in DOMAIN stack : stack[k] \in Frames /\ stack[k].image \in Images
        /\ (stack[k].f # NoCallback => stack[k].f \in Callbacks /\ Owner[stack[k].f] \in Images)
  <2>1. \A k \in DOMAIN stack : stack[k] \in Frames
    BY <1>1, Members
  <2>2. \A frame \in Frames : frame.image \in Images /\ (frame.f # NoCallback => frame.f \in Callbacks)
    BY DEF Frames
  <2> QED BY <2>1, <2>2, CallbackAssumption
<1>3. ASSUME NEW k \in DOMAIN stack'
      PROVE  /\ stack'[k].op \in {"load", "unload", "client"} => image'[stack'[k].image] # "closed"
             /\ Executing(stack'[k], log') => image'[Owner[stack'[k].f]] # "closed"
  <2>1. CASE k \in DOMAIN stack /\ stack'[k] = stack[k]
                /\ (stack[k].f \in Elements(log') => stack[k].f \in Elements(log))
    <3>1. stack[k].op \in {"load", "unload", "client"} => image[stack[k].image] # "closed"
      BY <2>1 DEF RunInv, MappedInv
    <3>2. Executing(stack[k], log) => image[Owner[stack[k].f]] # "closed"
      BY <2>1 DEF RunInv, MappedInv
    <3>3. Executing(stack'[k], log') => Executing(stack[k], log)
      BY <2>1 DEF Executing
    <3>4. stack[k].f # NoCallback => Owner[stack[k].f] \in Images
      BY <1>2, <2>1
    <3>5. stack[k].image \in Images
      BY <1>2, <2>1
    <3>6. Executing(stack'[k], log') => stack[k].f # NoCallback
      BY <2>1 DEF Executing
    <3> QED BY <2>1, <3>1, <3>2, <3>3, <3>4, <3>5, <3>6
  <2>2. CASE /\ stack'[k].op \in {"load", "unload", "client"} /\ image'[stack'[k].image] # "closed"
             /\ stack'[k].f = NoCallback
    BY <2>2 DEF Executing
  <2>3. CASE stack'[k].f = NoCallback /\ stack'[k].op \in {"drain", "late"}
    BY <2>3 DEF Executing
  <2>4. CASE /\ stack'[k].f \in Callbacks /\ stack'[k].op \in {"drain", "late"}
             /\ Executing(stack'[k], log') => image'[Owner[stack'[k].f]] # "closed"
    BY <2>4
  <2> QED BY <1>3, <2>1, <2>2, <2>3, <2>4
<1> QED BY <1>3 DEF RunInv, MappedInv

\* A crash is at a callback, so whatever else happens, the process has not crashed.
LEMMA NotCrashed ==
  ASSUME RunInv
  PROVE  /\ On("load") \/ On("unload") \/ On("client") => process # "crashed"
         /\ ~ Idle /\ (Top.f = NoCallback \/ Top.f \in Elements(log)) => process # "crashed"
<1>1. process = "crashed" => Top.f \notin Elements(log) \cup {NoCallback}
  BY DEF RunInv, MappedInv
<1>2. On("load") \/ On("unload") \/ On("client") => Top.f = NoCallback
  BY TopIsPlain DEF RunInv, CustodyInv, Plain
<1> QED BY <1>1, <1>2

\* The client code that runs is mapped.
LEMMA ClientMapped ==
  ASSUME RunInv, NEW i \in Images, InClient(i)
  PROVE  image[i] # "closed" /\ process # "crashed"
<1>1. /\ stack \in Seq(Frames)
      /\ ~ Idle => Len(stack) \in DOMAIN stack
  BY AtBottom DEF RunInv, CustodyInv, ControlInv, TypeOK
<1>2. CASE Idle
  BY <1>2 DEF InClient, On
<1>3. CASE On("client") /\ Top.image = i
  BY <1>1, <1>3, NotCrashed DEF On, Top, RunInv, MappedInv
<1>4. CASE ~ Idle /\ Top.f \in Elements(log) /\ Owner[Top.f] = i
  <2>1. Elements(log) \subseteq Callbacks
    BY Members DEF RunInv, CustodyInv, ControlInv, TypeOK
  <2>2. Executing(Top, log)
    BY <1>4, <2>1, CallbackAssumption DEF Executing
  <2> QED BY <1>1, <1>4, <2>2, NotCrashed DEF Top, RunInv, MappedInv
<1> QED BY <1>2, <1>3, <1>4 DEF InClient

\* Whoever registers is executing, so what it executes at once is mapped.
LEMMA RegisterRun ==
  ASSUME RunInv, CustodyInv', NEW k \in Kinds, NEW c \in Callbacks, InClient(Owner[c]),
         Register(<<k, Exe>>, c)
  PROVE  RunInv'
<1>1. /\ image[Owner[c]] # "closed" /\ process # "crashed" /\ stack \in Seq(Frames)
  BY ClientMapped, CallbackAssumption DEF RunInv, CustodyInv, ControlInv, TypeOK
<1>2. /\ UNCHANGED <<process, image, log>>
      /\ UNCHANGED stack \/ Push(Frame("late", k, Exe, c))
  BY DEF Register, loader
<1>3. /\ Frame("late", k, Exe, c) \in Frames /\ Frame("late", k, Exe, c).f = c
      /\ Frame("late", k, Exe, c).op = "late"
  BY FrameFields DEF Images
<1>4. \A m \in DOMAIN stack' : \/ m \in DOMAIN stack /\ stack'[m] = stack[m]
                               \/ stack'[m] = Frame("late", k, Exe, c)
  BY <1>1, <1>2, <1>3, PushedAt
<1> QED BY <1>1, <1>2, <1>3, <1>4, MappedKept

\* What the drain of init callbacks takes is mapped, since nothing was closed
\* yet.
LEMMA TakeRun ==
  ASSUME RunInv, CustodyInv', Take
  PROVE  RunInv'
<1>1. PICK x, s : Takes(x, s)
  BY TakeTakes DEF RunInv, CustodyInv, ControlInv
<1> DEFINE e == s[Len(s)]
<1>2. /\ x = Copy(Top) /\ s = waiting[x] /\ x \in Copies /\ s # << >> /\ s \in Seq(Callbacks)
      /\ ~ Idle /\ Top.op = "drain" /\ Top.f = NoCallback
      /\ e \in Callbacks /\ Len(s) \in DOMAIN s /\ stack \in Seq(Frames)
      /\ stack' = [stack EXCEPT ![Len(stack)].f = e]
      /\ UNCHANGED <<process, image, size, log>>
  BY <1>1 DEF Takes, RunInv, CustodyInv, ControlInv, TypeOK
<1>3. Home(e) = x /\ e \in Elements(s) /\ e \notin Elements(log)
  BY <1>2 DEF RunInv, CustodyInv, ControlInv, HomeInv, WaitInv, Elements
<1>4. process # "crashed"
  BY <1>2, NotCrashed
<1>5. ASSUME Top.kind = "init"
      PROVE  image[Owner[e]] # "closed"
  <2>1. x = InitCopy
    BY <1>2, <1>3, <1>5 DEF Home, Copy, InitCopy
  <2>2. size[InitCopy] # "ran"
    BY <1>2, <2>1 DEF RunInv, CustodyInv, ControlInv, TypeOK
  <2>3. image[Exe] \in {"unloaded", "loading"}
    BY <2>2 DEF RunInv, CustodyInv, ControlInv, LifeInv, InitCopy
  <2> QED BY <1>2, <2>3, CallbackAssumption DEF RunInv, MappedInv
<1> HIDE DEF e
<1>6. /\ DOMAIN stack' = DOMAIN stack
      /\ \A k \in DOMAIN stack : k # Len(stack) => stack'[k] = stack[k]
      /\ stack'[Len(stack)].op = "drain" /\ stack'[Len(stack)].kind = Top.kind
      /\ stack'[Len(stack)].f = e
  <2>1. /\ stack \in Seq(Frames) /\ ~ Idle /\ e \in Callbacks \cup {NoCallback} /\ Top.op = "drain"
        /\ stack' = [stack EXCEPT ![Len(stack)].f = e]
    BY <1>2
  <2>2. /\ DOMAIN stack' = DOMAIN stack /\ Len(stack) \in DOMAIN stack
        /\ \A k \in DOMAIN stack : k # Len(stack) => stack'[k] = stack[k]
    BY <2>1, TopChanged
  <2>3. \A k \in DOMAIN stack : /\ stack'[k].op = stack[k].op /\ stack'[k].kind = stack[k].kind
                               /\ stack'[k].f = IF k = Len(stack) THEN e ELSE stack[k].f
    BY <2>1, SameButTop
  <2> QED BY <2>1, <2>2, <2>3 DEF Top
<1>7. Executing(stack'[Len(stack)], log') => image'[Owner[e]] # "closed"
  <2>1. log' = log /\ image' = image
    BY <1>2
  <2> QED BY <2>1, <1>3, <1>5, <1>6 DEF Executing
<1> QED BY <1>2, <1>4, <1>6, <1>7, MappedKept

\* A callback that is called is mapped, or else the process crashes.
LEMMA CallRun ==
  ASSUME RunInv, CustodyInv', Call
  PROVE  RunInv'
<1>1. /\ process # "crashed" /\ ~ Idle /\ Top.f \notin Elements(log) /\ Top.f # NoCallback
      /\ UNCHANGED <<image, stack>>
  BY DEF Call
<1>2. /\ Top.f \in Callbacks /\ log \in Seq(Callbacks) /\ Len(stack) \in DOMAIN stack /\ Top = stack[Len(stack)]
  BY <1>1, TopType, AtBottom DEF RunInv, CustodyInv, ControlInv, TypeOK, Top
<1>3. CASE process' = "crashed" /\ UNCHANGED log
  BY <1>1, <1>3 DEF RunInv, MappedInv, Idle, Top
<1>4. CASE image[Owner[Top.f]] # "closed" /\ process' = process /\ log' = Append(log, Top.f)
  <2>1. Elements(log') = Elements(log) \cup {Top.f}
    BY <1>2, <1>4, AppendedElements
  <2>2. Top.op \in {"drain", "late"}
    BY <1>1, <1>2 DEF RunInv, CustodyInv, ControlInv, HomeInv
  <2>3. ASSUME NEW k \in DOMAIN stack, k # Len(stack)
        PROVE  stack[k].f \in Elements(log') => stack[k].f \in Elements(log)
    BY <1>1, <1>2, <2>1, <2>3 DEF RunInv, CustodyInv, HeldInv
  <2> QED BY <1>1, <1>2, <1>4, <2>2, <2>3, MappedKept
<1> QED BY <1>3, <1>4 DEF Call

\* A callback that has returned is executing no more.
LEMMA ReturnRun ==
  ASSUME RunInv, CustodyInv', Return
  PROVE  RunInv'
<1>1. /\ process # "crashed" /\ ~ Idle /\ stack \in Seq(Frames) /\ UNCHANGED <<process, image, log>>
  BY NotCrashed DEF Return, RunInv, CustodyInv, ControlInv, TypeOK, loader
<1>2. \A k \in DOMAIN stack' : \/ k \in DOMAIN stack /\ stack'[k] = stack[k]
                               \/ stack'[k].f = NoCallback /\ stack'[k].op \in {"drain", "late"}
  <2>1. CASE Pop
    BY <1>1, <2>1, Popped
  <2>2. CASE stack' = [stack EXCEPT ![Len(stack)].f = NoCallback]
    <3>1. Top.op \in {"drain", "late"}
      <4>1. Top.f \in Callbacks
        BY Members DEF Return, RunInv, CustodyInv, ControlInv, TypeOK
      <4> QED BY <1>1, <4>1, AtBottom, CallbackAssumption DEF RunInv, CustodyInv, ControlInv, HomeInv, Top
    <3>2. NoCallback \in Callbacks \cup {NoCallback}
      OBVIOUS
    <3>3. /\ DOMAIN stack' = DOMAIN stack
          /\ \A k \in DOMAIN stack : k # Len(stack) => stack'[k] = stack[k]
          /\ stack'[Len(stack)].op = Top.op /\ stack'[Len(stack)].f = NoCallback
      BY <1>1, <2>2, <3>2, SameButTop, TopChanged DEF Top
    <3> QED BY <3>1, <3>3
  <2> QED BY <2>1, <2>2 DEF Return
<1> QED BY <1>1, <1>2, MappedKept

\* The end of dlclose() and of the process, after which nothing is executing.
LEMMA UnloadedRun ==
  ASSUME RunInv, CustodyInv', Unloaded
  PROVE  RunInv'
<1> DEFINE i == Top.image
           end == IF process = "main" THEN "closed" ELSE "gone"
<1>1. /\ On("unload") /\ ~ Idle /\ process # "crashed" /\ Len(stack) = 1 /\ Pop /\ i \in Images
      /\ i = Exe => image[Exe] = "unloading"
      /\ image \in [Images -> {"unloaded", "loading", "ready", "unloading", "closed", "gone"}]
      /\ stack \in Seq(Frames)
      /\ Exe \in Images
  BY NotCrashed, AtBottom, TopType DEF Unloaded, On, RunInv, CustodyInv, ControlInv, TypeOK, Images
<1>2. /\ image' = [image EXCEPT ![i] = end]
      /\ process' = process \/ process' = "exited"
  BY DEF Unloaded
<1>3. DOMAIN stack' = {}
  BY <1>1, Popped
<1>4. process' # "crashed"
  BY <1>1, <1>2
<1>5. ASSUME image'[Exe] \in {"unloaded", "loading"}, NEW j \in Images
      PROVE  image'[j] # "closed"
  <2>1. image[Exe] \in {"unloaded", "loading"} /\ i # Exe
    BY <1>1, <1>2, <1>5
  <2>2. process # "main" /\ image[j] # "closed"
    BY <2>1 DEF RunInv, CustodyInv, ControlInv, LifeInv, MappedInv
  <2> QED BY <1>1, <1>2, <2>2
<1> QED BY <1>3, <1>4, <1>5 DEF RunInv, MappedInv

\* The other steps of the loader, and of constructors and destructors.
LEMMA LoaderRun ==
  ASSUME RunInv, CustodyInv',
         \/ Drained \/ EndClient \/ Loaded \/ Exit
         \/ \E i \in Images : AtinitLoad(i) \/ AtexitLoad(i) \/ AtexitUnload(i) \/ ClientCode(i) \/ Load(i) \/ Unload(i)
  PROVE  RunInv'
<1>1. /\ stack \in Seq(Frames) /\ Exe \in Images
      /\ image \in [Images -> {"unloaded", "loading", "ready", "unloading", "closed", "gone"}]
      /\ ~ Idle => Len(stack) \in DOMAIN stack /\ Top = stack[Len(stack)] /\ Top.image \in Images
  BY AtBottom, TopType DEF RunInv, CustodyInv, ControlInv, TypeOK, Images, Top
<1>2. ASSUME Pop, ~ Idle
      PROVE  \A k \in DOMAIN stack' : k \in DOMAIN stack /\ stack'[k] = stack[k]
  BY <1>1, <1>2, Popped
<1>3. ASSUME Drained \/ EndClient \/ Exit
      PROVE  RunInv'
  <2>1. process # "crashed" /\ process' # "crashed" /\ UNCHANGED <<image, log>>
    BY <1>3, NotCrashed DEF Drained, Draining, On, EndClient, Exit, loader, ghosts
  <2>2. UNCHANGED stack \/ (Pop /\ ~ Idle)
    BY <1>3 DEF Drained, Draining, On, EndClient, Exit
  <2> QED BY <1>2, <2>1, <2>2, MappedKept
<1>4. ASSUME Loaded
      PROVE  RunInv'
  <2>1. /\ process # "crashed" /\ process' # "crashed" /\ Pop /\ ~ Idle /\ UNCHANGED log
        /\ image' = [image EXCEPT ![Top.image] = "ready"]
    BY <1>4, NotCrashed DEF Loaded, On, ghosts
  <2>2. /\ \A i \in Images : image'[i] = "closed" => image[i] = "closed"
        /\ image'[Exe] \in {"unloaded", "loading"} => image[Exe] \in {"unloaded", "loading"}
    BY <1>1, <2>1
  <2> QED BY <1>2, <2>1, <2>2, MappedKept
<1>5. ASSUME NEW i \in Images, AtexitLoad(i)
      PROVE  RunInv'
  <2>1. /\ process # "crashed" /\ UNCHANGED <<process, image, log, stack>>
    BY <1>5, NotCrashed DEF AtexitLoad, Calls, ghosts
  <2> QED BY <2>1, MappedKept
<1>6. ASSUME NEW i \in Images, AtinitLoad(i) \/ AtexitUnload(i)
      PROVE  RunInv'
  <2>1. process # "crashed" /\ UNCHANGED <<process, image, log>>
    BY <1>6, NotCrashed DEF AtinitLoad, AtexitUnload, Calls, ghosts
  <2>2. PICK k \in Kinds : Push(Frame("drain", k, i, NoCallback))
    BY <1>6 DEF AtinitLoad, AtexitUnload, Kinds, Drains
  <2>3. /\ Frame("drain", k, i, NoCallback) \in Frames
        /\ Frame("drain", k, i, NoCallback).op = "drain" /\ Frame("drain", k, i, NoCallback).f = NoCallback
    BY FrameFields
  <2>4. \A m \in DOMAIN stack' : \/ m \in DOMAIN stack /\ stack'[m] = stack[m]
                                 \/ stack'[m].f = NoCallback /\ stack'[m].op = "drain"
    BY <1>1, <2>2, <2>3, PushedAt
  <2> QED BY <2>1, <2>4, MappedKept
<1>7. ASSUME NEW i \in Images, ClientCode(i)
      PROVE  RunInv'
  <2> DEFINE frame == Frame("client", "init", i, NoCallback)
  <2>1. /\ process # "crashed" /\ UNCHANGED <<process, image, log>> /\ Push(frame)
        /\ ~ Idle /\ Top.op \in {"load", "unload"} /\ Top.image = i
    BY <1>7, NotCrashed DEF ClientCode, Calls, On, ghosts
  <2>2. image[i] # "closed"
    BY <1>1, <2>1 DEF RunInv, MappedInv
  <2>3. frame \in Frames /\ frame.op = "client" /\ frame.image = i /\ frame.f = NoCallback
    BY FrameFields DEF Kinds
  <2> HIDE DEF frame
  <2>4. \A m \in DOMAIN stack' : \/ m \in DOMAIN stack /\ stack'[m] = stack[m]
                                 \/ stack'[m] = frame
    BY <1>1, <2>1, <2>3, PushedAt
  <2> QED BY <2>1, <2>2, <2>3, <2>4, MappedKept
<1>8. ASSUME NEW i \in Images, Load(i) \/ Unload(i)
      PROVE  RunInv'
  <2>1. PICK op \in {"load", "unload"}, k \in Kinds : Push(Frame(op, k, i, NoCallback))
    BY <1>8 DEF Load, Unload, Kinds
  <2>2. /\ process # "crashed" /\ UNCHANGED <<process, log>>
        /\ \/ image' = [image EXCEPT ![i] = "loading"] /\ image[i] = "unloaded"
           \/ image' = [image EXCEPT ![i] = "unloading"]
    BY <1>8 DEF Load, Unload, ghosts
  <2>3. /\ \A j \in Images : image'[j] = "closed" => image[j] = "closed"
        /\ image'[Exe] \in {"unloaded", "loading"} => image[Exe] \in {"unloaded", "loading"}
        /\ image'[i] # "closed"
    BY <1>1, <2>2
  <2> DEFINE frame == Frame(op, k, i, NoCallback)
  <2>4. frame \in Frames /\ frame.op = op /\ frame.image = i /\ frame.f = NoCallback
    BY FrameFields
  <2>5. Push(frame)
    BY <2>1
  <2> HIDE DEF frame
  <2>6. \A m \in DOMAIN stack' : \/ m \in DOMAIN stack /\ stack'[m] = stack[m]
                                 \/ stack'[m] = frame
    BY <1>1, <2>4, <2>5, PushedAt
  <2> QED BY <2>2, <2>3, <2>4, <2>6, MappedKept
<1> QED BY <1>3, <1>4, <1>5, <1>6, <1>7, <1>8

\* Every step keeps that.
LEMMA NextRun ==
  ASSUME RunInv, [Next]_vars
  PROVE  RunInv'
<1>1. CustodyInv'
  BY NextCustody DEF RunInv
<1>2. CASE UNCHANGED vars
  <2>1. UNCHANGED <<process, image, log, stack>>
    BY <1>2 DEF vars, loader, ghosts
  <2> QED BY <1>1, <2>1 DEF RunInv, MappedInv, Idle, Top
<1>3. ASSUME NEW c \in InitCallbacks, RegisterInit(c)
      PROVE  RunInv'
  <2>1. Register(<<"init", Exe>>, c) /\ InClient(Owner[c]) /\ "init" \in Kinds /\ c \in Callbacks
    BY <1>3 DEF RegisterInit, Resolve, Kinds, Callbacks
  <2> QED BY <1>1, <2>1, RegisterRun
<1>4. ASSUME NEW c \in ExitCallbacks, RegisterExit(c)
      PROVE  RunInv'
  <2>1. Register(<<"exit", Exe>>, c) /\ InClient(Owner[c]) /\ "exit" \in Kinds /\ c \in Callbacks
    BY <1>4 DEF RegisterExit, Resolve, Kinds, Callbacks
  <2> QED BY <1>1, <2>1, RegisterRun
<1>5. CASE Proceed
  BY <1>1, <1>5, TakeRun, CallRun, ReturnRun, UnloadedRun, LoaderRun DEF Proceed
<1>6. CASE Exit \/ \E i \in Images : Load(i) \/ Unload(i)
  BY <1>1, <1>6, LoaderRun
<1> QED BY <1>2, <1>3, <1>4, <1>5, <1>6 DEF Next, Terminated

\* As only main() closes plugins, and not a callback (Unload), no body loses its code
\* while it executes; what crashes are calls from a drain.
THEOREM RunInvariance == Spec => []RunInv
BY InitRun, NextRun, PTL DEF Spec

(***************************************************************************)
(* The stacks of CallbackStack that the process shows                    *)
(***************************************************************************)

\* A copy is marked as run only when its drain is over.
DrainInv ==
  \A kind \in Kinds : \A k \in DOMAIN stack :
    DrainsExe(stack[k], kind) => size[<<kind, Exe>>] # "ran"

\* The activations of the drain of a copy, and those that execute what came too late
\* for it.
DrainsIn(st, x) == {k \in DOMAIN st : st[k].op = "drain" /\ Copy(st[k]) = x}
LatesIn(st, x)  == {k \in DOMAIN st : st[k].op = "late" /\ Copy(st[k]) = x}

InHandOf(st, x)  == IF DrainsIn(st, x) = {} THEN NoCallback ELSE st[CHOOSE k \in DrainsIn(st, x) : TRUE].f
\* What late registrations at a copy hold, in whichever stack.
AtOnceBy(st, x) == {st[k].f : k \in LatesIn(st, x)}

\* What is seen of a copy depends on the stack.
LEMMA Views ==
  ASSUME NEW x
  PROVE  /\ Current(x) = InHandOf(stack, x) /\ Current(x)' = InHandOf(stack', x)
         /\ Direct(x) = AtOnceBy(stack, x) /\ Direct(x)' = AtOnceBy(stack', x)
BY DEF Current, InDrain, InHandOf, DrainsIn, Direct, AtOnceBy, LatesIn

\* The phase of a copy depends on its size and on the stack.
LEMMA Modes ==
  ASSUME NEW x
  PROVE  /\ size[x] = "ran" => Mode(x) = "drained"
         /\ size[x] # "ran" /\ DrainsIn(stack, x) # {} => Mode(x) = "drain"
         /\ size[x] # "ran" /\ DrainsIn(stack, x) = {} => Mode(x) = "collect"
         /\ size'[x] = "ran" => Mode(x)' = "drained"
         /\ size'[x] # "ran" /\ DrainsIn(stack', x) # {} => Mode(x)' = "drain"
         /\ size'[x] # "ran" /\ DrainsIn(stack', x) = {} => Mode(x)' = "collect"
<1>1. InDrain(x) = DrainsIn(stack, x) /\ InDrain(x)' = DrainsIn(stack', x)
  BY DEF InDrain, DrainsIn
<1> QED BY <1>1 DEF Mode

\* What is seen of a drain, when there is but one.
LEMMA InHand ==
  ASSUME NEW st, NEW x, NEW k \in DrainsIn(st, x), \A m \in DrainsIn(st, x) : m = k
  PROVE  InHandOf(st, x) = st[k].f
<1>1. (CHOOSE m \in DrainsIn(st, x) : TRUE) = k
  <2>1. (CHOOSE m \in DrainsIn(st, x) : TRUE) \in DrainsIn(st, x)
    OBVIOUS
  <2> QED BY <2>1
<1> QED BY <1>1 DEF InHandOf

\* The activations that concern a copy stay what and where they are.
Concerns(frame, x) == frame.op \in {"drain", "late"} /\ Copy(frame) = x
\* What is held by the drain of a copy, and by late registrations at it, stays.
SameFrames(x) ==
  /\ \A k \in DOMAIN stack' : Concerns(stack'[k], x) => k \in DOMAIN stack /\ stack'[k] = stack[k]
  /\ \A k \in DOMAIN stack : Concerns(stack[k], x) => k \in DOMAIN stack' /\ stack'[k] = stack[k]

\* So what keeps them is not seen.
LEMMA SameViews ==
  ASSUME NEW x, SameFrames(x)
  PROVE  /\ UNCHANGED <<Current(x), Direct(x)>>
         /\ DrainsIn(stack', x) = DrainsIn(stack, x)
         /\ (size'[x] = "ran" <=> size[x] = "ran") => UNCHANGED Mode(x)
<1>1. DrainsIn(stack', x) = DrainsIn(stack, x) /\ LatesIn(stack', x) = LatesIn(stack, x)
  BY DEF SameFrames, Concerns, DrainsIn, LatesIn
<1>2. \A k \in DrainsIn(stack, x) \cup LatesIn(stack, x) : stack'[k] = stack[k]
  BY DEF SameFrames, Concerns, DrainsIn, LatesIn
<1>3. InHandOf(stack', x) = InHandOf(stack, x)
  <2>1. CASE DrainsIn(stack, x) = {}
    BY <1>1, <2>1 DEF InHandOf
  <2>2. CASE DrainsIn(stack, x) # {}
    <3> DEFINE k == CHOOSE m \in DrainsIn(stack, x) : TRUE
    <3>1. k \in DrainsIn(stack, x)
      BY <2>2
    <3>2. InHandOf(stack, x) = stack[k].f /\ InHandOf(stack', x) = stack'[k].f
      BY <1>1, <2>2 DEF InHandOf
    <3> HIDE DEF k
    <3> QED BY <1>2, <3>1, <3>2
  <2> QED BY <2>1, <2>2
<1>4. AtOnceBy(stack', x) = AtOnceBy(stack, x)
  BY <1>1, <1>2 DEF AtOnceBy
<1>5. UNCHANGED <<Current(x), Direct(x)>>
  BY <1>3, <1>4, Views
<1>6. (size'[x] = "ran" <=> size[x] = "ran") => UNCHANGED Mode(x)
  BY <1>1, Modes
<1> QED BY <1>1, <1>5, <1>6

\* The callbacks of a kind, and what is seen of them.
Of(kind)    == IF kind = "init" THEN InitCallbacks ELSE ExitCallbacks
\* The callbacks of a kind that have begun,
Begun(kind) == Elements(log) \cap Of(kind)
\* and those that have ended.
Ended(kind) == done \cap Of(kind)
Held(kind)  == {Current(<<kind, Exe>>)} \cup Direct(<<kind, Exe>>)

\* The steps of CallbackStack, in terms of one copy of the executable.
Unseen(kind) ==
  LET x == <<kind, Exe>> IN
  UNCHANGED <<waiting[x], Current(x), Direct(x), Begun(kind), Ended(kind), Mode(x)>>

\* A registration waits.
Collects(kind, c) ==
  LET x == <<kind, Exe>> IN
  /\ Mode(x) \in {"collect", "drain"}
  /\ c \notin Elements(waiting[x]) \cup Held(kind) \cup Begun(kind)
  /\ waiting'[x] = Append(waiting[x], c)
  /\ UNCHANGED <<Current(x), Direct(x), Begun(kind), Ended(kind), Mode(x)>>

\* A registration is executed at once.
Diverts(kind, c) ==
  LET x == <<kind, Exe>> IN
  /\ Mode(x) \in {"drain", "drained"} /\ waiting[x] = << >>
  /\ c \notin Held(kind) \cup Begun(kind)
  /\ Direct(x)' = Direct(x) \cup {c}
  /\ UNCHANGED <<waiting[x], Current(x), Begun(kind), Ended(kind), Mode(x)>>

\* The drain starts.
Starts(kind) ==
  LET x == <<kind, Exe>> IN
  /\ Mode(x) = "collect" /\ Mode(x)' = "drain"
  /\ waiting'[x] = IF kind = "init" THEN Sorted(waiting[x]) ELSE waiting[x]
  /\ UNCHANGED <<Current(x), Direct(x), Begun(kind), Ended(kind)>>

\* It takes a callback.
Lifts(kind) ==
  LET x == <<kind, Exe>> IN
  /\ Mode(x) = "drain" /\ Current(x) = NoCallback /\ waiting[x] # << >>
  /\ Current(x)' = waiting[x][Len(waiting[x])]
  /\ waiting'[x] = SubSeq(waiting[x], 1, Len(waiting[x]) - 1)
  /\ UNCHANGED <<Direct(x), Begun(kind), Ended(kind), Mode(x)>>

\* A callback begins,
Begins(kind, c) ==
  LET x == <<kind, Exe>> IN
  /\ Mode(x) \in {"drain", "drained"}
  /\ c \in Held(kind) \ (Begun(kind) \cup {NoCallback})
  /\ Begun(kind)' = Begun(kind) \cup {c}
  /\ UNCHANGED <<waiting[x], Current(x), Direct(x), Ended(kind), Mode(x)>>

\* and ends.
Finishes(kind, c) ==
  LET x == <<kind, Exe>> IN
  /\ Mode(x) \in {"drain", "drained"}
  /\ c \in Begun(kind) \ Ended(kind)
  /\ Ended(kind)' = Ended(kind) \cup {c}
  /\ Current(x)' = IF c = Current(x) THEN NoCallback ELSE Current(x)
  /\ Direct(x)' = Direct(x) \ {c}
  /\ UNCHANGED <<waiting[x], Begun(kind), Mode(x)>>

\* The drain is over.
Stops(kind) ==
  LET x == <<kind, Exe>> IN
  /\ Mode(x) = "drain" /\ Current(x) = NoCallback /\ waiting[x] = << >>
  /\ Mode(x)' = "drained"
  /\ UNCHANGED <<waiting[x], Current(x), Direct(x), Begun(kind), Ended(kind)>>

\* All of these.
Shown(kind) ==
  \/ Unseen(kind) \/ Starts(kind) \/ Lifts(kind) \/ Stops(kind)
  \/ \E c \in Of(kind) : Collects(kind, c) \/ Diverts(kind, c) \/ Begins(kind, c) \/ Finishes(kind, c)

\* The invariant that the refinement needs.
ShowInv == RunInv /\ DrainInv

\* What the invariants say of the topmost activation, and of the types.
LEMMA FromShowInv ==
  ASSUME ShowInv
  PROVE  /\ ControlInv /\ TypeOK /\ stack \in Seq(Frames) /\ waiting \in [Copies -> Seq(Callbacks)]
         /\ log \in Seq(Callbacks) /\ order \in Seq(Callbacks)
         /\ size \in [Copies -> {"none", "some", "ran"}]
         /\ \A kind \in Kinds : <<kind, Exe>> \in Copies
         /\ ~ Idle => Len(stack) \in DOMAIN stack /\ Top = stack[Len(stack)] /\ Top \in Frames
BY ExeCopy, AtBottom, TopType DEF ShowInv, RunInv, CustodyInv, ControlInv, TypeOK, Top

\* The drain of a copy begins when it was not opened yet.
LEMMA NotYetOpened ==
  ASSUME ControlInv
  PROVE  /\ AtinitLoad(Exe) => ~ Opened("init") /\ cut = -1
         /\ AtexitUnload(Exe) => ~ Opened("exit")
<1>1. ASSUME AtinitLoad(Exe) PROVE ~ Opened("init") /\ cut = -1
  <2>1. On("load") /\ Top.image = Exe /\ "atinit" \in todo[Exe]
    BY <1>1 DEF AtinitLoad, Calls
  <2>2. cut = -1
    BY <2>1, AtBottom DEF ControlInv, LifeInv
  <2> QED BY <2>2 DEF Opened
<1>2. ASSUME AtexitUnload(Exe) PROVE ~ Opened("exit")
  <2>1. On("unload") /\ Top.image = Exe /\ "atexit" \in todo[Exe]
    BY <1>2 DEF AtexitUnload, Calls
  <2> QED BY <2>1, AtBottom DEF Opened
<1> QED BY <1>1, <1>2

\* Nothing is drained that is not opened.
LEMMA ShutFrames ==
  ASSUME ControlInv, NEW kind \in Kinds, ~ Opened(kind)
  PROVE  /\ size[<<kind, Exe>>] # "ran"
         /\ \A k \in DOMAIN stack : ~ Concerns(stack[k], <<kind, Exe>>)
         /\ DrainsIn(stack, <<kind, Exe>>) = {} /\ LatesIn(stack, <<kind, Exe>>) = {}
BY DEF ControlInv, ShutInv, Concerns, Copy, DrainsIn, LatesIn

\* A step that begins no drain and ends none keeps the invariant of the drains.
LEMMA DrainKept ==
  ASSUME ShowInv,
         \A k \in DOMAIN stack' : \A kind \in Kinds : DrainsExe(stack'[k], kind) =>
           \/ k \in DOMAIN stack /\ DrainsExe(stack[k], kind)
           \/ size[<<kind, Exe>>] # "ran",
         \A kind \in Kinds : size'[<<kind, Exe>>] = "ran" => size[<<kind, Exe>>] = "ran"
  PROVE  DrainInv'
<1> SUFFICES ASSUME NEW kind \in Kinds, NEW k \in DOMAIN stack', DrainsExe(stack'[k], kind)
             PROVE  size'[<<kind, Exe>>] # "ran"
  BY DEF DrainInv, DrainsExe
<1>1. size[<<kind, Exe>>] # "ran"
  BY DEF ShowInv, DrainInv
<1> QED BY <1>1

\* So does every step.
LEMMA NextShow ==
  ASSUME ShowInv, [Next]_vars
  PROVE  ShowInv'
<1>1. RunInv'
  BY NextRun DEF ShowInv
<1>2. /\ ControlInv /\ stack \in Seq(Frames) /\ size \in [Copies -> {"none", "some", "ran"}]
      /\ \A kind \in Kinds : <<kind, Exe>> \in Copies
  BY FromShowInv
<1>3. ASSUME UNCHANGED stack \/ (~ Idle /\ Pop), UNCHANGED size
      PROVE  DrainInv'
  <2>1. \A k \in DOMAIN stack' : k \in DOMAIN stack /\ stack'[k] = stack[k]
    BY <1>2, <1>3, Popped
  <2> QED BY <1>3, <2>1, DrainKept
<1>4. ASSUME NEW frame \in Frames, Push(frame), UNCHANGED size,
             \A kind \in Kinds : DrainsExe(frame, kind) => size[<<kind, Exe>>] # "ran"
      PROVE  DrainInv'
  <2>1. \A k \in DOMAIN stack' : \/ k \in DOMAIN stack /\ stack'[k] = stack[k]
                                 \/ stack'[k] = frame
    BY <1>2, <1>4, PushedAt
  <2> QED BY <1>4, <2>1, DrainKept
<1>5. ASSUME NEW c \in Callbacks \cup {NoCallback}, ~ Idle, UNCHANGED size,
             stack' = [stack EXCEPT ![Len(stack)].f = c]
      PROVE  DrainInv'
  <2>1. \A k \in DOMAIN stack' : k \in DOMAIN stack /\ stack'[k].op = stack[k].op
             /\ stack'[k].kind = stack[k].kind /\ stack'[k].image = stack[k].image
    BY <1>2, <1>5, SameButTop
  <2> QED BY <1>5, <2>1, DrainKept DEF DrainsExe
<1>6. ASSUME NEW i \in Images, AtinitLoad(i) \/ AtexitUnload(i)
      PROVE  DrainInv'
  <2>1. PICK k \in Kinds : /\ Push(Frame("drain", k, i, NoCallback)) /\ UNCHANGED size
                           /\ i = Exe => ~ Opened(k)
    BY <1>2, <1>6, NotYetOpened DEF AtinitLoad, AtexitUnload, Kinds, Drains
  <2>2. /\ Frame("drain", k, i, NoCallback) \in Frames
        /\ Frame("drain", k, i, NoCallback).kind = k /\ Frame("drain", k, i, NoCallback).image = i
    BY FrameFields
  <2>3. \A kind \in Kinds : DrainsExe(Frame("drain", k, i, NoCallback), kind) => size[<<kind, Exe>>] # "ran"
    BY <1>2, <2>1, <2>2, ShutFrames DEF DrainsExe
  <2> QED BY <1>4, <2>1, <2>2, <2>3
<1>7. ASSUME NEW op \in {"load", "unload", "client"}, NEW k \in Kinds, NEW i \in Images,
             Push(Frame(op, k, i, NoCallback)), UNCHANGED size
      PROVE  DrainInv'
  <2>1. Frame(op, k, i, NoCallback) \in Frames /\ Frame(op, k, i, NoCallback).op = op
    BY FrameFields
  <2> QED BY <1>4, <1>7, <2>1 DEF DrainsExe
<1>8. ASSUME NEW k \in Kinds, NEW c \in Callbacks, Register(<<k, Exe>>, c)
      PROVE  DrainInv'
  <2>1. CASE Late(<<k, Exe>>)
    <3>1. /\ Push(Frame("late", k, Exe, c)) /\ UNCHANGED size
          /\ Frame("late", k, Exe, c) \in Frames /\ Frame("late", k, Exe, c).op = "late"
      BY <1>8, <2>1, FrameFields DEF Register, Images
    <3> QED BY <1>4, <3>1 DEF DrainsExe
  <2>2. CASE ~ Late(<<k, Exe>>)
    <3>1. UNCHANGED stack /\ size' = [size EXCEPT ![<<k, Exe>>] = "some"]
      BY <1>8, <2>2 DEF Register
    <3>2. \A kind \in Kinds : size'[<<kind, Exe>>] = "ran" => size[<<kind, Exe>>] = "ran"
      BY <1>2, <3>1
    <3> QED BY <3>1, <3>2, DrainKept
  <2> QED BY <2>1, <2>2
<1>9. ASSUME Drained
      PROVE  DrainInv'
  <2>1. /\ Pop /\ ~ Idle /\ Top.op = "drain" /\ size' = [size EXCEPT ![Copy(Top)] = "ran"]
        /\ Len(stack) \in DOMAIN stack /\ Top = stack[Len(stack)]
    BY <1>9, FromShowInv DEF Drained, Draining, On
  <2>2. \A k \in DOMAIN stack' : k \in DOMAIN stack /\ stack'[k] = stack[k] /\ k # Len(stack)
    BY <1>2, <2>1, Popped
  <2>3. ASSUME NEW kind \in Kinds, NEW k \in DOMAIN stack', DrainsExe(stack'[k], kind)
        PROVE  size'[<<kind, Exe>>] # "ran"
    <3>1. DrainsExe(stack[k], kind) /\ size[<<kind, Exe>>] # "ran"
      BY <2>2, <2>3 DEF ShowInv, DrainInv
    <3>2. ~ DrainsExe(Top, kind)
      BY <1>2, <2>1, <2>2, <3>1 DEF ControlInv, OneDrainInv
    <3>3. Copy(Top) # <<kind, Exe>>
      BY <2>1, <3>2 DEF Copy, DrainsExe
    <3> QED BY <1>2, <2>1, <3>1, <3>3
  <2> QED BY <2>3 DEF DrainInv, DrainsExe
<1>10. ASSUME Take
       PROVE  DrainInv'
  <2>1. PICK x, s : Takes(x, s)
    BY <1>2, <1>10, TakeTakes DEF ControlInv
  <2>2. s[Len(s)] \in Callbacks \cup {NoCallback} /\ ~ Idle /\ UNCHANGED size
        /\ stack' = [stack EXCEPT ![Len(stack)].f = s[Len(s)]]
    BY <2>1 DEF Takes
  <2> QED BY <1>5, <2>2
<1>11. ASSUME Return
       PROVE  DrainInv'
  <2>1. ~ Idle /\ UNCHANGED size /\ (Pop \/ stack' = [stack EXCEPT ![Len(stack)].f = NoCallback])
    BY <1>11 DEF Return, registry
  <2>2. NoCallback \in Callbacks \cup {NoCallback}
    OBVIOUS
  <2> QED BY <1>3, <1>5, <2>1, <2>2
<1>12. ASSUME Call \/ EndClient \/ Loaded \/ Unloaded \/ Exit \/ UNCHANGED vars \/ \E i \in Images : AtexitLoad(i)
       PROVE  DrainInv'
  <2>1. (UNCHANGED stack \/ (~ Idle /\ Pop)) /\ UNCHANGED size
    BY <1>12 DEF Call, EndClient, Loaded, Unloaded, Exit, AtexitLoad, On, registry, vars
  <2> QED BY <1>3, <2>1
<1>13. ASSUME NEW i \in Images, ClientCode(i) \/ Load(i) \/ Unload(i)
       PROVE  DrainInv'
  <2>1. UNCHANGED size /\ \E op \in {"load", "unload", "client"} : \E k \in Kinds : Push(Frame(op, k, i, NoCallback))
    BY <1>13 DEF ClientCode, Load, Unload, registry, Kinds
  <2> QED BY <1>7, <2>1
<1>14. ASSUME NEW c \in InitCallbacks, RegisterInit(c)
       PROVE  DrainInv'
  <2>1. Register(<<"init", Exe>>, c) /\ "init" \in Kinds /\ c \in Callbacks
    BY <1>14 DEF RegisterInit, Resolve, Kinds, Callbacks
  <2> QED BY <1>8, <2>1
<1>15. ASSUME NEW c \in ExitCallbacks, RegisterExit(c)
       PROVE  DrainInv'
  <2>1. Register(<<"exit", Exe>>, c) /\ "exit" \in Kinds /\ c \in Callbacks
    BY <1>15 DEF RegisterExit, Resolve, Kinds, Callbacks
  <2> QED BY <1>8, <2>1
<1>16. ASSUME Proceed
       PROVE  DrainInv'
  BY <1>6, <1>9, <1>10, <1>11, <1>12, <1>13, <1>16 DEF Proceed
<1>17. DrainInv'
  BY <1>12, <1>13, <1>14, <1>15, <1>16 DEF Next, Terminated
<1> QED BY <1>1, <1>17 DEF ShowInv

\* At the start nothing is drained.
LEMMA InitShow == Init => ShowInv
<1> SUFFICES ASSUME Init PROVE ShowInv
  OBVIOUS
<1>1. stack = << >>
  BY DEF Init
<1> QED BY <1>1, InitRun DEF ShowInv, DrainInv

\* A step that keeps the activations which concern a copy, and what it holds, is not
\* seen there.
LEMMA QuietUnseen ==
  ASSUME NEW kind \in Kinds, SameFrames(<<kind, Exe>>), waiting'[<<kind, Exe>>] = waiting[<<kind, Exe>>],
         size'[<<kind, Exe>>] = "ran" <=> size[<<kind, Exe>>] = "ran",
         UNCHANGED <<Begun(kind), Ended(kind)>>
  PROVE  Unseen(kind)
<1> DEFINE x == <<kind, Exe>>
<1>1. UNCHANGED <<Current(x), Direct(x), Mode(x)>>
  BY SameViews
<1> QED BY <1>1 DEF Unseen

\* Without calls and returns, as many callbacks have begun and ended.
LEMMA SameCalls ==
  ASSUME UNCHANGED <<log, done>>, NEW kind
  PROVE  UNCHANGED <<Begun(kind), Ended(kind)>>
BY DEF Begun, Ended

\* The activations of the loader and of clients concern no copy.
LEMMA PlainUnseen ==
  ASSUME ShowInv, NEW frame, Plain(frame),
         Push(frame) \/ (~ Idle /\ Pop /\ Top = frame) \/ UNCHANGED stack,
         UNCHANGED <<waiting, size, log, done>>, NEW kind \in Kinds
  PROVE  Unseen(kind)
<1>1. stack \in Seq(Frames)
  BY FromShowInv
<1>2. \A k \in DOMAIN stack' : (k \in DOMAIN stack /\ stack'[k] = stack[k]) \/ stack'[k] = frame
  BY <1>1, Pushed, Popped DEF Plain
<1>3. \A k \in DOMAIN stack : (k \in DOMAIN stack' /\ stack'[k] = stack[k]) \/ stack[k] = frame
  BY <1>1, Pushed, Popped DEF Plain, Top
<1>4. SameFrames(<<kind, Exe>>)
  BY <1>2, <1>3 DEF SameFrames, Concerns, Plain
<1> QED BY <1>4, SameCalls, QuietUnseen

\* The steps of the loader, of clients and of the constructor of mulle-atexit
\* are not seen.
LEMMA LoaderUnseen ==
  ASSUME ShowInv, NEW kind \in Kinds,
         \/ EndClient \/ Loaded \/ Unloaded \/ Exit \/ UNCHANGED vars
         \/ \E i \in Images : AtexitLoad(i) \/ ClientCode(i) \/ Load(i) \/ Unload(i)
  PROVE  Unseen(kind)
<1>1. CASE EndClient \/ Loaded \/ Unloaded
  <2>1. On("client") \/ On("load") \/ On("unload")
    BY <1>1 DEF EndClient, Loaded, Unloaded
  <2>2. Plain(Top) /\ ~ Idle
    BY <2>1, FromShowInv, TopIsPlain
  <2>3. Pop /\ UNCHANGED <<waiting, size, log, done>>
    BY <1>1 DEF EndClient, Loaded, Unloaded, registry, ghosts
  <2> QED BY <2>2, <2>3, PlainUnseen
<1>2. CASE Exit \/ UNCHANGED vars \/ \E i \in Images : AtexitLoad(i)
  <2>1. UNCHANGED <<stack, waiting, size, log, done>>
    BY <1>2 DEF Exit, AtexitLoad, registry, ghosts, vars
  <2>2. SameFrames(<<kind, Exe>>)
    BY <2>1 DEF SameFrames
  <2> QED BY <2>1, <2>2, SameCalls, QuietUnseen
<1>3. ASSUME NEW i \in Images, ClientCode(i) \/ Load(i) \/ Unload(i)
      PROVE  Unseen(kind)
  <2>1. PICK op \in {"load", "unload", "client"} : \E k \in Kinds : Push(Frame(op, k, i, NoCallback))
    BY <1>3 DEF ClientCode, Load, Unload, Kinds
  <2>2. PICK k \in Kinds : Push(Frame(op, k, i, NoCallback))
    BY <2>1
  <2> DEFINE frame == Frame(op, k, i, NoCallback)
  <2>3. Plain(frame)
    BY FrameFields DEF Plain
  <2>4. Push(frame) /\ UNCHANGED <<waiting, size, log, done>>
    BY <1>3, <2>2 DEF ClientCode, Load, Unload, registry, ghosts
  <2> HIDE DEF frame
  <2> QED BY <2>3, <2>4, PlainUnseen
<1> QED BY <1>1, <1>2, <1>3

\* The constructor of mulle-atinit and the destructor of mulle-atexit, when they are
\* those of the executable, start the drain.
LEMMA DrainStarts ==
  ASSUME ShowInv, NEW k \in Kinds, NEW i \in Images, Push(Frame("drain", k, i, NoCallback)),
         UNCHANGED <<size, log, done>>, i = Exe => ~ Opened(k), NEW kind \in Kinds,
         waiting'[<<kind, Exe>>] = IF kind = k /\ i = Exe /\ k = "init" THEN Sorted(waiting[<<kind, Exe>>])
                                   ELSE waiting[<<kind, Exe>>]
  PROVE  Unseen(kind) \/ Starts(kind)
<1> DEFINE x == <<kind, Exe>>
           frame == Frame("drain", k, i, NoCallback)
<1>1. /\ stack \in Seq(Frames) /\ ControlInv
      /\ frame \in Frames /\ frame.op = "drain" /\ Copy(frame) = <<k, i>> /\ frame.f = NoCallback
  BY FromShowInv, FrameFields DEF Copy
<1> HIDE DEF frame
<1>2. Push(frame)
  BY DEF frame
<1>3. \A m \in DOMAIN stack' : \/ m \in DOMAIN stack /\ stack'[m] = stack[m]
                               \/ m = Len(stack) + 1 /\ stack'[m] = frame
  BY <1>1, <1>2, PushedAt
<1>4. /\ \A m \in DOMAIN stack : m \in DOMAIN stack' /\ stack'[m] = stack[m]
      /\ Len(stack) + 1 \in DOMAIN stack' /\ stack'[Len(stack) + 1] = frame
  BY <1>1, <1>2, Pushed
<1>5. CASE x # <<k, i>>
  <2>1. SameFrames(x)
    BY <1>1, <1>3, <1>4, <1>5 DEF SameFrames, Concerns
  <2>2. waiting'[x] = waiting[x]
    BY <1>5
  <2> QED BY <2>1, <2>2, SameCalls, QuietUnseen
<1>6. CASE x = <<k, i>>
  <2>1. i = Exe /\ kind = k
    BY <1>6
  <2>2. /\ size[x] # "ran" /\ DrainsIn(stack, x) = {} /\ LatesIn(stack, x) = {}
        /\ \A m \in DOMAIN stack : ~ Concerns(stack[m], x)
    BY <1>1, <2>1, ShutFrames
  <2>3. DrainsIn(stack', x) = {Len(stack) + 1} /\ LatesIn(stack', x) = {}
    <3>1. \A m \in DOMAIN stack' : Concerns(stack'[m], x) => m = Len(stack) + 1 /\ stack'[m] = frame
      BY <1>3, <2>2
    <3>2. \A m \in DrainsIn(stack', x) \cup LatesIn(stack', x) : m \in DOMAIN stack' /\ Concerns(stack'[m], x)
      BY DEF DrainsIn, LatesIn, Concerns
    <3>3. Len(stack) + 1 \in DrainsIn(stack', x)
      BY <1>1, <1>4, <1>6 DEF DrainsIn
    <3>4. \A m \in LatesIn(stack', x) : stack'[m].op = "late"
      BY DEF LatesIn
    <3> QED BY <1>1, <3>1, <3>2, <3>3, <3>4
  <2>4. InHandOf(stack, x) = NoCallback /\ AtOnceBy(stack, x) = {}
    BY <2>2 DEF InHandOf, AtOnceBy
  <2>5. InHandOf(stack', x) = NoCallback /\ AtOnceBy(stack', x) = {}
    <3>1. InHandOf(stack', x) = stack'[Len(stack) + 1].f
      BY <2>3, InHand
    <3> QED BY <1>1, <1>4, <2>3, <3>1 DEF AtOnceBy
  <2>6. UNCHANGED <<Current(x), Direct(x)>>
    BY <2>4, <2>5, Views
  <2>7. Mode(x) = "collect" /\ Mode(x)' = "drain"
    BY <2>2, <2>3, Modes
  <2>8. waiting'[x] = IF kind = "init" THEN Sorted(waiting[x]) ELSE waiting[x]
    BY <2>1
  <2> QED BY <2>6, <2>7, <2>8, SameCalls DEF Starts
<1> QED BY <1>5, <1>6

\* The constructor of mulle-atinit and the destructor of mulle-atexit start the
\* drain of their copy.
LEMMA ConstructorsShown ==
  ASSUME ShowInv, NEW i \in Images, AtinitLoad(i) \/ AtexitUnload(i), NEW kind \in Kinds
  PROVE  Unseen(kind) \/ Starts(kind)
<1>1. /\ ControlInv /\ waiting \in [Copies -> Seq(Callbacks)]
      /\ \A y \in Kinds : <<y, Exe>> \in Copies
      /\ <<"init", i>> \in Copies
  BY FromShowInv, ExeCopy
<1>2. CASE AtinitLoad(i)
  <2>1. /\ Push(Frame("drain", "init", i, NoCallback)) /\ UNCHANGED <<size, log, done>>
        /\ waiting' = [waiting EXCEPT ![<<"init", i>>] = Sorted(@)]
        /\ i = Exe => ~ Opened("init")
    BY <1>1, <1>2, NotYetOpened DEF AtinitLoad, Drains
  <2>2. \/ <<kind, Exe>> = <<"init", i>> /\ waiting'[<<kind, Exe>>] = Sorted(waiting[<<kind, Exe>>])
        \/ <<kind, Exe>> # <<"init", i>> /\ waiting'[<<kind, Exe>>] = waiting[<<kind, Exe>>]
    BY <1>1, <2>1
  <2>3. waiting'[<<kind, Exe>>] = IF kind = "init" /\ i = Exe /\ "init" = "init" THEN Sorted(waiting[<<kind, Exe>>])
                                  ELSE waiting[<<kind, Exe>>]
    BY <2>2
  <2> QED BY <2>1, <2>3, DrainStarts DEF Kinds
<1>3. CASE AtexitUnload(i)
  <2>1. /\ Push(Frame("drain", "exit", i, NoCallback)) /\ UNCHANGED <<waiting, size, log, done>>
        /\ i = Exe => ~ Opened("exit")
    BY <1>1, <1>3, NotYetOpened DEF AtexitUnload, Drains, ghosts
  <2>2. waiting'[<<kind, Exe>>] = IF kind = "exit" /\ i = Exe /\ "exit" = "init" THEN Sorted(waiting[<<kind, Exe>>])
                                  ELSE waiting[<<kind, Exe>>]
    BY <2>1
  <2> QED BY <2>1, <2>2, DrainStarts DEF Kinds
<1> QED BY <1>2, <1>3

\* There is one drain of a copy of the executable, and a callback has one holder.
LEMMA OneDrain ==
  ASSUME ShowInv, NEW kind \in Kinds, NEW k \in DrainsIn(stack, <<kind, Exe>>)
  PROVE  /\ \A m \in DrainsIn(stack, <<kind, Exe>>) : m = k
         /\ InHandOf(stack, <<kind, Exe>>) = stack[k].f
         /\ size[<<kind, Exe>>] # "ran"
<1>1. \A m \in DrainsIn(stack, <<kind, Exe>>) : m \in DOMAIN stack /\ DrainsExe(stack[m], kind)
  BY DEF DrainsIn, DrainsExe, Copy
<1>2. \A m \in DrainsIn(stack, <<kind, Exe>>) : m = k
  BY <1>1, FromShowInv DEF ControlInv, OneDrainInv
<1>3. InHandOf(stack, <<kind, Exe>>) = stack[k].f
  BY <1>2, InHand
<1> QED BY <1>1, <1>2, <1>3 DEF ShowInv, DrainInv

\* A callback is held by one activation at most.
LEMMA OneHolder ==
  ASSUME ShowInv, NEW k \in DOMAIN stack, stack[k].f # NoCallback
  PROVE  /\ \A m \in DOMAIN stack : stack[m].f = stack[k].f => m = k
         /\ stack[k].f \notin done
         /\ Concerns(stack[k], Home(stack[k].f)) /\ stack[k].f \in Callbacks
<1>1. stack[k] \in Frames
  BY FromShowInv, Members
<1>2. stack[k].f \in Callbacks
  BY <1>1 DEF Frames
<1> QED BY <1>2 DEF ShowInv, RunInv, CustodyInv, ControlInv, HeldInv, HomeInv, Concerns

\* What is held was registered.
LEMMA HeldRegistered ==
  ASSUME ShowInv, NEW kind \in Kinds
  PROVE  /\ Held(kind) \subseteq Elements(order) \cup {NoCallback}
         /\ Begun(kind) \subseteq Elements(order)
         /\ Elements(waiting[<<kind, Exe>>]) \subseteq Elements(order)
<1> DEFINE x == <<kind, Exe>>
<1>1. \A k \in DOMAIN stack : stack[k].f \in Elements(order) \cup {NoCallback}
  BY DEF ShowInv, RunInv, CustodyInv, HeldInv
<1>2. InHandOf(stack, x) \in Elements(order) \cup {NoCallback}
  <2>1. CASE DrainsIn(stack, x) = {}
    BY <2>1 DEF InHandOf
  <2>2. ASSUME NEW k \in DrainsIn(stack, x) PROVE InHandOf(stack, x) \in Elements(order) \cup {NoCallback}
    <3>1. k \in DOMAIN stack
      BY DEF DrainsIn
    <3> QED BY <1>1, <3>1, OneDrain
  <2> QED BY <2>1, <2>2
<1>3. AtOnceBy(stack, x) \subseteq Elements(order) \cup {NoCallback}
  BY <1>1 DEF AtOnceBy, LatesIn
<1>4. Held(kind) \subseteq Elements(order) \cup {NoCallback}
  BY <1>2, <1>3, Views DEF Held
<1>5. Begun(kind) \subseteq Elements(order)
  BY DEF ShowInv, RunInv, CustodyInv, ListInv, Begun
<1>6. Elements(waiting[x]) \subseteq Elements(order)
  BY FromShowInv DEF ShowInv, RunInv, CustodyInv, WaitInv
<1> QED BY <1>4, <1>5, <1>6

\* Once opened, a copy is drained or was.
LEMMA OpenedMode ==
  ASSUME ShowInv, NEW kind \in Kinds, Opened(kind)
  PROVE  Mode(<<kind, Exe>>) \in {"drain", "drained"}
<1> DEFINE x == <<kind, Exe>>
<1>1. CASE size[x] = "ran"
  BY <1>1, Modes
<1>2. CASE size[x] # "ran"
  <2>1. PICK k \in DOMAIN stack : DrainsExe(stack[k], kind)
    BY <1>2, FromShowInv DEF ControlInv, OpenInv
  <2>2. k \in DrainsIn(stack, x)
    BY <2>1 DEF DrainsIn, DrainsExe, Copy
  <2> QED BY <1>2, <2>2, Modes
<1> QED BY <1>1, <1>2

\* A registration is collected, or diverted to whoever made it, when nothing
\* waits any more.
LEMMA RegisterShown ==
  ASSUME ShowInv, NEW k \in Kinds, NEW c \in Callbacks, Kind(c) = k,
         Register(<<k, Exe>>, c), Fresh(c), NEW kind \in Kinds
  PROVE  Unseen(kind) \/ (kind = k /\ (Collects(kind, c) \/ Diverts(kind, c)))
<1> DEFINE x == <<kind, Exe>>
           y == <<k, Exe>>
<1>1. /\ stack \in Seq(Frames) /\ waiting \in [Copies -> Seq(Callbacks)]
      /\ size \in [Copies -> {"none", "some", "ran"}] /\ ControlInv /\ x \in Copies /\ y \in Copies
  BY FromShowInv
<1>2. UNCHANGED <<log, done>> /\ c \notin Elements(order)
  BY DEF Register, Fresh
<1>3. c \notin Elements(waiting[x]) \cup Held(kind) \cup Begun(kind)
  BY <1>2, HeldRegistered, CallbackAssumption
<1>4. CASE ~ Late(y)
  <2>1. /\ waiting' = [waiting EXCEPT ![y] = Append(@, c)] /\ size' = [size EXCEPT ![y] = "some"]
        /\ UNCHANGED stack
    BY <1>4 DEF Register
  <2>2. SameFrames(x)
    BY <2>1 DEF SameFrames
  <2>3. size[y] # "ran"
    BY <1>1, <1>4 DEF Late, ControlInv, TypeOK
  <2>4. size'[x] = "ran" <=> size[x] = "ran"
    BY <1>1, <2>1, <2>3
  <2>5. CASE x # y
    <3>1. waiting'[x] = waiting[x]
      BY <1>1, <2>1, <2>5
    <3> QED BY <1>2, <2>2, <2>4, <3>1, SameCalls, QuietUnseen
  <2>6. CASE x = y
    <3>1. kind = k /\ waiting'[x] = Append(waiting[x], c)
      BY <1>1, <2>1, <2>6
    <3>2. Mode(x) \in {"collect", "drain"}
      BY <2>3, <2>6, Modes
    <3>3. UNCHANGED <<Current(x), Direct(x), Mode(x)>>
      BY <2>2, <2>4, SameViews
    <3> QED BY <1>2, <1>3, <3>1, <3>2, <3>3, SameCalls DEF Collects
  <2> QED BY <2>5, <2>6
<1>5. CASE Late(y)
  <2> DEFINE frame == Frame("late", k, Exe, c)
  <2>1. /\ Push(frame) /\ UNCHANGED <<waiting, size>>
        /\ frame \in Frames /\ frame.op = "late" /\ Copy(frame) = y /\ frame.f = c
    BY <1>5, FrameFields DEF Register, Copy, Images
  <2> HIDE DEF frame
  <2>2. \A m \in DOMAIN stack' : \/ m \in DOMAIN stack /\ stack'[m] = stack[m]
                                 \/ m = Len(stack) + 1 /\ stack'[m] = frame
    BY <1>1, <2>1, PushedAt
  <2>3. /\ \A m \in DOMAIN stack : m \in DOMAIN stack' /\ stack'[m] = stack[m]
        /\ Len(stack) + 1 \in DOMAIN stack' /\ stack'[Len(stack) + 1] = frame
    BY <1>1, <2>1, Pushed
  <2>4. CASE x # y
    <3>1. SameFrames(x)
      BY <2>1, <2>2, <2>3, <2>4 DEF SameFrames, Concerns
    <3> QED BY <1>2, <2>1, <3>1, SameCalls, QuietUnseen
  <2>5. CASE x = y
    <3>1. kind = k
      BY <2>5
    <3>2. Opened(k)
      BY <1>1, <1>5 DEF Late, ControlInv, ShutInv
    <3>3. Mode(x) \in {"drain", "drained"} /\ waiting[x] = << >>
      BY <1>5, <2>5, <3>1, <3>2, OpenedMode DEF Late
    <3>4. DrainsIn(stack', x) = DrainsIn(stack, x) /\ \A m \in DrainsIn(stack, x) : stack'[m] = stack[m]
      BY <2>1, <2>2, <2>3 DEF DrainsIn
    <3>5. InHandOf(stack', x) = InHandOf(stack, x)
      <4>1. CASE DrainsIn(stack, x) = {}
        BY <3>4, <4>1 DEF InHandOf
      <4>2. ASSUME NEW m \in DrainsIn(stack, x) PROVE InHandOf(stack', x) = InHandOf(stack, x)
        <5>1. (\A p \in DrainsIn(stack, x) : p = m) /\ InHandOf(stack, x) = stack[m].f
          BY OneDrain
        <5>2. InHandOf(stack', x) = stack'[m].f
          BY <3>4, <5>1, InHand
        <5> QED BY <3>4, <5>1, <5>2
      <4> QED BY <4>1, <4>2
    <3>6. AtOnceBy(stack', x) = AtOnceBy(stack, x) \cup {c}
      <4>1. \A m \in LatesIn(stack', x) : (m \in LatesIn(stack, x) /\ stack'[m] = stack[m]) \/ stack'[m].f = c
        BY <2>1, <2>2 DEF LatesIn
      <4>2. \A m \in LatesIn(stack, x) : m \in LatesIn(stack', x) /\ stack'[m] = stack[m]
        BY <2>3 DEF LatesIn
      <4>3. Len(stack) + 1 \in LatesIn(stack', x) /\ stack'[Len(stack) + 1].f = c
        BY <2>1, <2>3, <2>5 DEF LatesIn
      <4> QED BY <4>1, <4>2, <4>3 DEF AtOnceBy
    <3>7. Direct(x)' = Direct(x) \cup {c} /\ UNCHANGED Current(x)
      BY <3>5, <3>6, Views
    <3>8. UNCHANGED Mode(x)
      BY <2>1, <3>4, Modes
    <3> QED BY <1>2, <1>3, <2>1, <3>1, <3>3, <3>7, <3>8, SameCalls DEF Diverts
  <2> QED BY <2>4, <2>5
<1> QED BY <1>4, <1>5

\* A change of the topmost callback concerns the copy of that activation only.
LEMMA TopRewritten ==
  ASSUME ShowInv, ~ Idle, NEW c \in Callbacks \cup {NoCallback},
         stack' = [stack EXCEPT ![Len(stack)].f = c], NEW x
  PROVE  /\ DrainsIn(stack', x) = DrainsIn(stack, x) /\ LatesIn(stack', x) = LatesIn(stack, x)
         /\ \A k \in DOMAIN stack : stack'[k].f = IF k = Len(stack) THEN c ELSE stack[k].f
         /\ x # Copy(Top) => SameFrames(x)
<1>1. /\ stack \in Seq(Frames) /\ Len(stack) \in DOMAIN stack /\ Top = stack[Len(stack)]
  BY FromShowInv
<1>2. /\ DOMAIN stack' = DOMAIN stack
      /\ \A k \in DOMAIN stack :
           /\ stack'[k].op = stack[k].op /\ Copy(stack'[k]) = Copy(stack[k])
           /\ stack'[k].f = IF k = Len(stack) THEN c ELSE stack[k].f
  BY <1>1, SameButTop
<1>3. \A k \in DOMAIN stack : k # Len(stack) => stack'[k] = stack[k]
  BY <1>1, TopChanged
<1>4. x # Copy(Top) => SameFrames(x)
  BY <1>1, <1>2, <1>3 DEF SameFrames, Concerns
<1> QED BY <1>2, <1>4 DEF DrainsIn, LatesIn

\* A drain takes what waits on top.
LEMMA TakeShown ==
  ASSUME ShowInv, Take, NEW kind \in Kinds
  PROVE  Unseen(kind) \/ Lifts(kind)
<1>1. PICK y, s : Takes(y, s)
  BY FromShowInv, TakeTakes
<1> DEFINE x == <<kind, Exe>>
           e == s[Len(s)]
           n == Len(stack)
<1>2. /\ y = Copy(Top) /\ s = waiting[y] /\ s # << >> /\ ~ Idle /\ Top.op = "drain" /\ Top.f = NoCallback
      /\ e \in Callbacks \cup {NoCallback} /\ stack' = [stack EXCEPT ![Len(stack)].f = e]
      /\ waiting'[y] = SubSeq(s, 1, Len(s) - 1)
      /\ UNCHANGED <<size, log, done>>
  BY <1>1 DEF Takes
<1>3. \A z \in Copies : z # y => waiting'[z] = waiting[z]
  BY <1>1 DEF Takes
<1>4. /\ DrainsIn(stack', x) = DrainsIn(stack, x) /\ LatesIn(stack', x) = LatesIn(stack, x)
      /\ \A k \in DOMAIN stack : stack'[k].f = IF k = n THEN e ELSE stack[k].f
      /\ x # y => SameFrames(x)
  BY <1>2, TopRewritten
<1>5. n \in DOMAIN stack /\ Top = stack[n]
  BY <1>2, FromShowInv
<1> HIDE DEF e, n
<1>6. CASE x # y
  <2>1. waiting'[x] = waiting[x]
    BY <1>3, <1>6, FromShowInv
  <2> QED BY <1>2, <1>4, <1>6, <2>1, SameCalls, QuietUnseen
<1>7. CASE x = y
  <2>1. n \in DrainsIn(stack, x)
    BY <1>2, <1>5, <1>7 DEF DrainsIn
  <2>2. /\ \A m \in DrainsIn(stack, x) : m = n
        /\ InHandOf(stack, x) = NoCallback /\ size[x] # "ran"
    BY <1>2, <1>5, <2>1, OneDrain
  <2>3. InHandOf(stack', x) = e
    <3>1. InHandOf(stack', x) = stack'[n].f
      BY <1>4, <2>1, <2>2, InHand
    <3> QED BY <1>4, <1>5, <3>1
  <2>4. AtOnceBy(stack', x) = AtOnceBy(stack, x)
    <3>1. \A k \in LatesIn(stack, x) : stack'[k].f = stack[k].f
      BY <1>2, <1>4, <1>5 DEF LatesIn
    <3> QED BY <1>4, <3>1 DEF AtOnceBy
  <2>5. Current(x) = NoCallback /\ Current(x)' = e /\ UNCHANGED Direct(x)
    BY <2>2, <2>3, <2>4, Views
  <2>6. Mode(x) = "drain" /\ Mode(x)' = "drain"
    BY <1>2, <1>4, <2>1, <2>2, Modes
  <2>7. /\ waiting[x] # << >> /\ waiting'[x] = SubSeq(waiting[x], 1, Len(waiting[x]) - 1)
        /\ e = waiting[x][Len(waiting[x])]
    BY <1>2, <1>7 DEF e
  <2> QED BY <1>2, <2>5, <2>6, <2>7, SameCalls DEF Lifts
<1> QED BY <1>6, <1>7

\* A drain that finds nothing stops.
LEMMA DrainedShown ==
  ASSUME ShowInv, Drained, NEW kind \in Kinds
  PROVE  Unseen(kind) \/ Stops(kind)
<1> DEFINE x == <<kind, Exe>>
           n == Len(stack)
<1>1. /\ ~ Idle /\ Top.op = "drain" /\ Top.f = NoCallback /\ Pop
      /\ waiting[Copy(Top)] = << >> /\ size' = [size EXCEPT ![Copy(Top)] = "ran"]
      /\ UNCHANGED <<waiting, log, done>>
  BY DEF Drained, Draining, On, SomeWait, ghosts
<1>2. /\ n \in DOMAIN stack /\ Top = stack[n] /\ stack \in Seq(Frames)
      /\ size \in [Copies -> {"none", "some", "ran"}] /\ x \in Copies
  BY <1>1, FromShowInv
<1>3. /\ \A k : k \in DOMAIN stack' <=> k \in DOMAIN stack /\ k # n
      /\ \A k \in DOMAIN stack' : stack'[k] = stack[k]
  BY <1>1, <1>2, Popped
<1> HIDE DEF n
<1>4. CASE x # Copy(Top)
  <2>1. SameFrames(x)
    BY <1>2, <1>3, <1>4 DEF SameFrames, Concerns
  <2>2. size'[x] = size[x]
    BY <1>1, <1>2, <1>4
  <2> QED BY <1>1, <2>1, <2>2, SameCalls, QuietUnseen
<1>5. CASE x = Copy(Top)
  <2>1. n \in DrainsIn(stack, x)
    BY <1>1, <1>2, <1>5 DEF DrainsIn
  <2>2. /\ \A m \in DrainsIn(stack, x) : m = n
        /\ InHandOf(stack, x) = NoCallback /\ size[x] # "ran"
    BY <1>1, <1>2, <2>1, OneDrain
  <2>3. DrainsIn(stack', x) = {}
    BY <1>3, <2>2 DEF DrainsIn
  <2>4. LatesIn(stack', x) = LatesIn(stack, x) /\ \A k \in LatesIn(stack, x) : stack'[k].f = stack[k].f
    BY <1>1, <1>2, <1>3 DEF LatesIn
  <2>5. InHandOf(stack', x) = NoCallback /\ AtOnceBy(stack', x) = AtOnceBy(stack, x)
    BY <2>3, <2>4 DEF InHandOf, AtOnceBy
  <2>6. Current(x) = NoCallback /\ UNCHANGED <<Current(x), Direct(x)>>
    BY <2>2, <2>5, Views
  <2>7. size'[x] = "ran"
    BY <1>1, <1>2, <1>5
  <2>8. Mode(x) = "drain" /\ Mode(x)' = "drained"
    BY <2>1, <2>2, <2>7, Modes
  <2>9. waiting[x] = << >> /\ waiting'[x] = waiting[x]
    BY <1>1, <1>5
  <2> QED BY <1>1, <2>6, <2>8, <2>9, SameCalls DEF Stops
<1> QED BY <1>4, <1>5

\* Whoever holds a callback has an opened copy.
LEMMA HolderOpened ==
  ASSUME ShowInv, NEW kind \in Kinds, NEW k \in DOMAIN stack, Concerns(stack[k], <<kind, Exe>>)
  PROVE  Mode(<<kind, Exe>>) \in {"drain", "drained"}
<1>1. Opened(kind)
  BY FromShowInv, ShutFrames
<1> QED BY <1>1, OpenedMode

\* The callback of the topmost activation, when it has one.
TopHolds(kind, c) ==
  /\ c = Top.f /\ c \in Of(kind) /\ c \in Callbacks /\ c \notin done /\ Copy(Top) = <<kind, Exe>>
  /\ Top.op \in {"drain", "late"}
  /\ \A k \in DOMAIN stack : stack[k].f = c => k = Len(stack)
  /\ Mode(<<kind, Exe>>) \in {"drain", "drained"}

\* It is the drain of its home, or a late registration there.
LEMMA TopHoldsIt ==
  ASSUME ShowInv, ~ Idle, Top.f # NoCallback
  PROVE  /\ TopHolds(Kind(Top.f), Top.f) /\ Kind(Top.f) \in Kinds
         /\ \A kind \in Kinds : kind # Kind(Top.f) => Top.f \notin Of(kind)
<1>1. Len(stack) \in DOMAIN stack /\ Top = stack[Len(stack)]
  BY FromShowInv
<1>2. /\ \A m \in DOMAIN stack : stack[m].f = Top.f => m = Len(stack)
      /\ Top.f \notin done /\ Concerns(Top, Home(Top.f)) /\ Top.f \in Callbacks
  BY <1>1, OneHolder
<1>3. /\ Kind(Top.f) \in Kinds /\ Top.f \in Of(Kind(Top.f)) /\ Home(Top.f) = <<Kind(Top.f), Exe>>
      /\ \A kind \in Kinds : kind # Kind(Top.f) => Top.f \notin Of(kind)
  BY <1>2, CallbackAssumption DEF Kind, Kinds, Of, Callbacks, Home
<1>4. Mode(<<Kind(Top.f), Exe>>) \in {"drain", "drained"}
  BY <1>1, <1>2, <1>3, HolderOpened
<1> QED BY <1>2, <1>3, <1>4 DEF TopHolds, Concerns

\* A callback that is called has begun.
LEMMA CallShown ==
  ASSUME ShowInv, Call, NEW kind \in Kinds
  PROVE  \/ Unseen(kind)
         \/ process' = process /\ \E c \in Of(kind) : Begins(kind, c)
<1> DEFINE x == <<kind, Exe>>
           c == Top.f
           n == Len(stack)
<1>1. /\ ~ Idle /\ c \notin Elements(log) /\ c # NoCallback /\ UNCHANGED <<stack, waiting, size, done>>
      /\ log' = log \/ (process' = process /\ log' = Append(log, c))
  BY DEF Call, registry
<1>2. TopHolds(Kind(c), c) /\ (kind # Kind(c) => c \notin Of(kind)) /\ log \in Seq(Callbacks)
      /\ n \in DOMAIN stack /\ Top = stack[n]
  BY <1>1, TopHoldsIt, FromShowInv
<1>3. SameFrames(x)
  BY <1>1 DEF SameFrames
<1>4. UNCHANGED <<Current(x), Direct(x), Mode(x)>>
  BY <1>1, <1>3, SameViews
<1>5. Ended(kind)' = Ended(kind)
  BY <1>1 DEF Ended
<1> HIDE DEF c, n
<1>6. CASE log' = log
  BY <1>1, <1>3, <1>6, SameCalls, QuietUnseen
<1>7. CASE process' = process /\ log' = Append(log, c)
  <2>1. Elements(log') = Elements(log) \cup {c}
    BY <1>2, <1>7, AppendedElements DEF TopHolds
  <2>2. CASE kind # Kind(c)
    <3>1. Begun(kind)' = Begun(kind)
      BY <1>2, <2>1, <2>2 DEF Begun
    <3> QED BY <1>1, <1>3, <1>5, <3>1, QuietUnseen
  <2>3. CASE kind = Kind(c)
    <3>1. c \in Of(kind) /\ c \notin Begun(kind) /\ Begun(kind)' = Begun(kind) \cup {c}
      BY <1>1, <1>2, <2>1, <2>3 DEF Begun, TopHolds
    <3>2. c \in Held(kind)
      <4>1. CASE Top.op = "drain"
        <5>1. n \in DrainsIn(stack, x)
          BY <1>2, <2>3, <4>1 DEF TopHolds, DrainsIn
        <5>2. Current(x) = c
          BY <1>2, <5>1, OneDrain, Views DEF TopHolds
        <5> QED BY <5>2 DEF Held
      <4>2. CASE Top.op = "late"
        <5>1. n \in LatesIn(stack, x) /\ stack[n].f = c
          BY <1>2, <2>3, <4>2 DEF TopHolds, LatesIn
        <5>2. c \in AtOnceBy(stack, x)
          BY <5>1 DEF AtOnceBy
        <5> QED BY <5>2, Views DEF Held
      <4> QED BY <1>2, <4>1, <4>2 DEF TopHolds
    <3>3. Mode(x) \in {"drain", "drained"}
      BY <1>2, <2>3 DEF TopHolds
    <3> QED BY <1>1, <1>4, <1>5, <1>7, <3>1, <3>2, <3>3 DEF Begins
  <2> QED BY <2>2, <2>3
<1> QED BY <1>1, <1>6, <1>7

\* A callback that returns has ended, and is held no more.
LEMMA ReturnShown ==
  ASSUME ShowInv, Return, NEW kind \in Kinds
  PROVE  Unseen(kind) \/ \E c \in Of(kind) : Finishes(kind, c)
<1> DEFINE x == <<kind, Exe>>
           c == Top.f
           n == Len(stack)
<1>1. /\ ~ Idle /\ c \in Elements(log) /\ done' = done \cup {c} /\ UNCHANGED <<waiting, size, log>>
      /\ Top.op = "late" => Pop
      /\ Top.op # "late" => stack' = [stack EXCEPT ![Len(stack)].f = NoCallback]
  BY DEF Return, registry
<1>2. c # NoCallback
  BY <1>1, FromShowInv, Members, CallbackAssumption
<1>3. TopHolds(Kind(c), c) /\ (kind # Kind(c) => c \notin Of(kind)) /\ stack \in Seq(Frames)
      /\ n \in DOMAIN stack /\ Top = stack[n]
  BY <1>1, <1>2, TopHoldsIt, FromShowInv
<1>4. Begun(kind)' = Begun(kind)
  BY <1>1 DEF Begun
<1>5. ASSUME Top.op = "late"
      PROVE  /\ \A k : k \in DOMAIN stack' <=> k \in DOMAIN stack /\ k # n
             /\ \A k \in DOMAIN stack' : stack'[k] = stack[k]
  BY <1>1, <1>3, <1>5, Popped
<1>6. ASSUME Top.op # "late"
      PROVE  /\ DrainsIn(stack', x) = DrainsIn(stack, x) /\ LatesIn(stack', x) = LatesIn(stack, x)
             /\ \A k \in DOMAIN stack : stack'[k].f = IF k = n THEN NoCallback ELSE stack[k].f
             /\ x # Copy(Top) => SameFrames(x)
  <2>1. NoCallback \in Callbacks \cup {NoCallback}
    OBVIOUS
  <2> QED BY <1>1, <1>6, <2>1, TopRewritten
<1> HIDE DEF c, n
<1>7. ASSUME kind # Kind(c) PROVE Unseen(kind)
  <2>1. Ended(kind)' = Ended(kind)
    BY <1>1, <1>3, <1>7 DEF Ended
  <2>2. x # Copy(Top)
    BY <1>3, <1>7 DEF TopHolds
  <2>3. SameFrames(x)
    BY <1>3, <1>5, <1>6, <2>2 DEF SameFrames, Concerns
  <2> QED BY <1>1, <1>4, <2>1, <2>3, QuietUnseen
<1>8. ASSUME kind = Kind(c) PROVE \E d \in Of(kind) : Finishes(kind, d)
  <2>1. /\ c \in Of(kind) /\ c \in Begun(kind) \ Ended(kind) /\ Ended(kind)' = Ended(kind) \cup {c}
        /\ Mode(x) \in {"drain", "drained"} /\ Copy(Top) = x
        /\ \A k \in DOMAIN stack : stack[k].f = c => k = n
    BY <1>1, <1>3, <1>8 DEF TopHolds, Begun, Ended, n
  <2>2. CASE Top.op = "late"
    <3>1. DrainsIn(stack', x) = DrainsIn(stack, x) /\ \A k \in DrainsIn(stack, x) : stack'[k] = stack[k]
      BY <1>3, <1>5, <2>2 DEF DrainsIn
    <3>2. InHandOf(stack', x) = InHandOf(stack, x) /\ InHandOf(stack, x) # c
      <4>1. CASE DrainsIn(stack, x) = {}
        BY <1>2, <3>1, <4>1 DEF InHandOf
      <4>2. ASSUME NEW m \in DrainsIn(stack, x) PROVE InHandOf(stack', x) = InHandOf(stack, x) /\ InHandOf(stack, x) # c
        <5>1. (\A p \in DrainsIn(stack, x) : p = m) /\ InHandOf(stack, x) = stack[m].f
          BY OneDrain
        <5>2. InHandOf(stack', x) = stack'[m].f
          BY <3>1, <5>1, InHand
        <5>3. m \in DOMAIN stack /\ m # n
          BY <1>3, <2>2 DEF DrainsIn
        <5> QED BY <2>1, <3>1, <5>1, <5>2, <5>3
      <4> QED BY <4>1, <4>2
    <3>3. AtOnceBy(stack', x) = AtOnceBy(stack, x) \ {c}
      <4>1. \A k \in LatesIn(stack', x) : k \in LatesIn(stack, x) /\ stack'[k].f = stack[k].f /\ stack[k].f # c
        BY <1>5, <2>1, <2>2 DEF LatesIn
      <4>2. \A k \in LatesIn(stack, x) : stack[k].f # c => k \in LatesIn(stack', x) /\ stack'[k].f = stack[k].f
        <5>1. stack[n].f = c
          BY <1>3 DEF c
        <5> QED BY <1>5, <2>2, <5>1 DEF LatesIn
      <4> QED BY <4>1, <4>2 DEF AtOnceBy
    <3>4. Current(x)' = Current(x) /\ Current(x) # c /\ Direct(x)' = Direct(x) \ {c}
      BY <3>2, <3>3, Views
    <3>5. UNCHANGED Mode(x)
      BY <1>1, <3>1, Modes
    <3>6. Finishes(kind, c)
      BY <1>1, <1>4, <2>1, <3>4, <3>5 DEF Finishes
    <3> QED BY <2>1, <3>6
  <2>3. CASE Top.op = "drain"
    <3>1. n \in DrainsIn(stack, x)
      BY <1>3, <2>1, <2>3 DEF DrainsIn
    <3>2. (\A m \in DrainsIn(stack, x) : m = n) /\ InHandOf(stack, x) = c
      BY <1>3, <3>1, OneDrain DEF c
    <3>3. InHandOf(stack', x) = NoCallback
      <4>1. InHandOf(stack', x) = stack'[n].f
        BY <1>6, <2>3, <3>1, <3>2, InHand
      <4> QED BY <1>3, <1>6, <2>3, <4>1
    <3>4. AtOnceBy(stack', x) = AtOnceBy(stack, x) \ {c}
      <4>1. \A k \in LatesIn(stack, x) : stack'[k].f = stack[k].f /\ stack[k].f # c
        BY <1>3, <1>6, <2>1, <2>3 DEF LatesIn
      <4> QED BY <1>6, <2>3, <4>1 DEF AtOnceBy
    <3>5. Current(x) = c /\ Current(x)' = NoCallback /\ Direct(x)' = Direct(x) \ {c}
      BY <3>2, <3>3, <3>4, Views
    <3>6. UNCHANGED Mode(x)
      BY <1>1, <1>6, <2>3, Modes
    <3>7. Finishes(kind, c)
      BY <1>1, <1>4, <2>1, <3>5, <3>6 DEF Finishes
    <3> QED BY <2>1, <3>7
  <2> QED BY <1>3, <2>2, <2>3 DEF TopHolds
<1> QED BY <1>7, <1>8

\* Every step is a step of the stack of either kind, or is not seen there.
LEMMA NextShown ==
  ASSUME ShowInv, [Next]_vars, NEW kind \in Kinds
  PROVE  Shown(kind)
<1>1. CASE Take
  BY <1>1, TakeShown DEF Shown
<1>2. CASE Drained
  BY <1>2, DrainedShown DEF Shown
<1>3. CASE Call
  BY <1>3, CallShown DEF Shown
<1>4. CASE Return
  BY <1>4, ReturnShown DEF Shown
<1>5. CASE EndClient \/ Loaded \/ Unloaded \/ Exit \/ UNCHANGED vars
  BY <1>5, LoaderUnseen DEF Shown
<1>6. ASSUME NEW i \in Images, AtexitLoad(i) \/ ClientCode(i) \/ Load(i) \/ Unload(i)
      PROVE  Shown(kind)
  BY <1>6, LoaderUnseen DEF Shown
<1>7. ASSUME NEW i \in Images, AtinitLoad(i) \/ AtexitUnload(i)
      PROVE  Shown(kind)
  BY <1>7, ConstructorsShown DEF Shown
<1>8. ASSUME NEW k \in Kinds, NEW c \in Callbacks, Kind(c) = k, c \in Of(k), Register(<<k, Exe>>, c), Fresh(c)
      PROVE  Shown(kind)
  BY <1>8, RegisterShown DEF Shown
<1>9. ASSUME NEW c \in InitCallbacks, RegisterInit(c)
      PROVE  Shown(kind)
  <2>1. /\ Register(<<"init", Exe>>, c) /\ Fresh(c) /\ "init" \in Kinds /\ c \in Callbacks
        /\ Kind(c) = "init" /\ c \in Of("init")
    BY <1>9 DEF RegisterInit, Resolve, Kinds, Callbacks, Kind, Of
  <2> QED BY <1>8, <2>1
<1>10. ASSUME NEW c \in ExitCallbacks, RegisterExit(c)
       PROVE  Shown(kind)
  <2>1. /\ Register(<<"exit", Exe>>, c) /\ Fresh(c) /\ "exit" \in Kinds /\ c \in Callbacks
        /\ Kind(c) = "exit" /\ c \in Of("exit")
    BY <1>10, CallbackAssumption DEF RegisterExit, Resolve, Kinds, Callbacks, Kind, Of
  <2> QED BY <1>8, <2>1
<1> QED BY <1>1, <1>2, <1>3, <1>4, <1>5, <1>6, <1>7, <1>9, <1>10 DEF Next, Proceed, Terminated

\* The sort arranges what waits by rank.
LEMMA SortedIsByPriority ==
  ASSUME NEW s \in Seq(Callbacks)
  PROVE  Sorted(s) = ByPriority(s)
<1> DEFINE n == Len(s)
           arr == Cells(s)
<1>1. n \in Nat /\ DOMAIN s = 1..n /\ \A k \in 1..n : s[k] \in Callbacks
  OBVIOUS
<1>2. DOMAIN arr = 0..(n - 1) /\ arr = [k \in 0..(n - 1) |-> s[k + 1]]
  BY DEF Cells
<1> HIDE DEF n, arr
<1>3. \A k \in 0..(n - 1) : arr[k] \in Callbacks
  <2> TAKE k \in 0..(n - 1)
  <2>1. k + 1 \in 1..n /\ arr[k] = s[k + 1]
    BY <1>1, <1>2
  <2> QED BY <1>1, <2>1
<1>4. Sortable(arr, Priority, 0..(n - 1)) /\ DOMAIN arr \subseteq Nat
  BY <1>1, <1>2, <1>3, CallbackAssumption DEF Sortable, IsArray
<1>5. Mergesort(arr, Priority, n) = ByRank(arr, Priority, n)
  BY <1>1, <1>4, MergesortByRank
<1> QED BY <1>5 DEF Sorted, ByPriority, n, arr

\* At the start both stacks are empty.
LEMMA InitStackInit == Init => InitStack!Init /\ ExitStack!Init
<1> SUFFICES ASSUME Init PROVE InitStack!Init /\ ExitStack!Init
  OBVIOUS
<1>1. /\ stack = << >> /\ process = "loading" /\ log = << >> /\ done = {}
      /\ waiting = [x \in Copies |-> << >>] /\ size = [x \in Copies |-> "none"]
  BY DEF Init
<1>2. InitCopy \in Copies /\ ExitCopy \in Copies
  BY ExeCopy DEF InitCopy, ExitCopy, Kinds
<1>3. \A x : Current(x) = NoCallback /\ Direct(x) = {} /\ InDrain(x) = {}
  BY <1>1 DEF Current, Direct, InDrain
<1>4. Mode(InitCopy) = "collect" /\ Mode(ExitCopy) = "collect"
  BY <1>1, <1>2, <1>3 DEF Mode
<1>5. Elements(log) = {} /\ waiting[InitCopy] = << >> /\ waiting[ExitCopy] = << >>
  BY <1>1, <1>2 DEF Elements
<1> QED BY <1>1, <1>3, <1>4, <1>5 DEF InitStack!Init, ExitStack!Init

\* What is seen of the copy of init callbacks is a step of their stack.
LEMMA InitStackStep ==
  ASSUME ShowInv, Shown("init")
  PROVE  [InitStack!Next]_(InitStack!vars)
<1>1. /\ <<"init", Exe>> = InitCopy /\ Of("init") = InitCallbacks /\ "init" \in Kinds
      /\ waiting[InitCopy] \in Seq(Callbacks)
  BY FromShowInv DEF InitCopy, Of, Kinds
<1>2. /\ InitStack!Waiting = Elements(waiting[InitCopy])
      /\ InitStack!Known = Elements(waiting[InitCopy]) \cup Held("init") \cup Begun("init")
  BY <1>1 DEF InitStack!Waiting, InitStack!Known, Elements, Held, Begun
<1>3. CASE Unseen("init")
  BY <1>1, <1>3 DEF Unseen, Begun, Ended, InitStack!vars
<1>4. CASE Starts("init")
  <2>1. waiting'[InitCopy] = ByPriority(waiting[InitCopy])
    BY <1>1, <1>4, SortedIsByPriority DEF Starts
  <2>2. InitStack!StartDrain
    BY <1>1, <1>4, <2>1 DEF Starts, Begun, Ended, InitStack!StartDrain
  <2> QED BY <2>2 DEF InitStack!Next
<1>5. CASE Lifts("init")
  <2>1. InitStack!Take
    BY <1>1, <1>5 DEF Lifts, Begun, Ended, InitStack!Take
  <2> QED BY <2>1 DEF InitStack!Next, InitStack!Drain
<1>6. CASE Stops("init")
  <2>1. InitStack!StopDrain
    BY <1>1, <1>6 DEF Stops, Begun, Ended, InitStack!StopDrain
  <2> QED BY <2>1 DEF InitStack!Next, InitStack!Drain
<1>7. ASSUME NEW c \in InitCallbacks, Collects("init", c)
      PROVE  InitStack!Next
  <2>1. InitStack!Register(c)
    BY <1>1, <1>2, <1>7 DEF Collects, Begun, Ended, InitStack!Register
  <2> QED BY <2>1 DEF InitStack!Next
<1>8. ASSUME NEW c \in InitCallbacks, Diverts("init", c)
      PROVE  InitStack!Next
  <2>1. c \notin InitStack!Known
    BY <1>1, <1>2, <1>8 DEF Diverts, Elements
  <2>2. InitStack!Divert(c)
    BY <1>1, <1>8, <2>1 DEF Diverts, Begun, Ended, InitStack!Divert
  <2> QED BY <2>2 DEF InitStack!Next
<1>9. ASSUME NEW c \in InitCallbacks, Begins("init", c)
      PROVE  InitStack!Next
  <2>1. InitStack!Begin(c)
    BY <1>1, <1>9 DEF Begins, Held, Begun, Ended, InitStack!Begin
  <2> QED BY <2>1 DEF InitStack!Next
<1>10. ASSUME NEW c \in InitCallbacks, Finishes("init", c)
       PROVE  InitStack!Next
  <2>1. InitStack!End(c)
    BY <1>1, <1>10 DEF Finishes, Begun, Ended, InitStack!End
  <2> QED BY <2>1 DEF InitStack!Next
<1> QED BY <1>1, <1>3, <1>4, <1>5, <1>6, <1>7, <1>8, <1>9, <1>10 DEF Shown

\* A process that crashed does nothing any more.
LEMMA CrashedStays ==
  ASSUME ShowInv, process = "crashed", [Next]_vars
  PROVE  UNCHANGED vars
<1>1. /\ ~ On("load") /\ ~ On("unload") /\ ~ On("client")
      /\ ~ Idle /\ Top.f # NoCallback /\ Top.f \notin Elements(log)
  BY NotCrashed DEF ShowInv, RunInv, MappedInv
<1>2. \A i \in Images : ~ InClient(i)
  BY ClientMapped DEF ShowInv
<1>3. ~ Take /\ ~ Drained /\ ~ Call /\ ~ Return /\ ~ EndClient /\ ~ Loaded /\ ~ Unloaded /\ ~ Exit
  BY <1>1 DEF Take, Drained, Draining, Call, Return, EndClient, Loaded, Unloaded, Exit
<1>4. \A i \in Images : /\ ~ AtinitLoad(i) /\ ~ AtexitLoad(i) /\ ~ AtexitUnload(i) /\ ~ ClientCode(i)
                        /\ ~ Load(i) /\ ~ Unload(i)
  BY <1>1 DEF AtinitLoad, AtexitLoad, AtexitUnload, ClientCode, Calls, Load, Unload
<1>5. \A c \in Callbacks : ~ RegisterInit(c) /\ ~ RegisterExit(c)
  BY <1>2, CallbackAssumption DEF RegisterInit, RegisterExit
<1> QED BY <1>3, <1>4, <1>5 DEF Next, Proceed, Terminated, Callbacks

\* A crash is at an exit callback that the drain has taken.
LEMMA CrashFails ==
  ASSUME ShowInv, process # "crashed", process' = "crashed", [Next]_vars
  PROVE  ExitStack!Fail
<1>1. Call /\ image[Owner[Top.f]] = "closed"
  <2>1. ~ Take /\ ~ Drained /\ ~ Return /\ ~ EndClient /\ ~ Loaded /\ ~ Unloaded /\ ~ Exit
    BY DEF Take, Drained, Return, EndClient, Loaded, Unloaded, Exit, loader
  <2>2. \A i \in Images : /\ ~ AtinitLoad(i) /\ ~ AtexitLoad(i) /\ ~ AtexitUnload(i) /\ ~ ClientCode(i)
                          /\ ~ Load(i) /\ ~ Unload(i)
    BY DEF AtinitLoad, AtexitLoad, AtexitUnload, ClientCode, Calls, Load, Unload
  <2>3. \A c : ~ RegisterInit(c) /\ ~ RegisterExit(c)
    BY DEF RegisterInit, RegisterExit, Register, loader
  <2>4. Call
    BY <2>1, <2>2, <2>3 DEF Next, Proceed, Terminated, vars, loader
  <2> QED BY <2>4 DEF Call
<1>2. /\ ~ Idle /\ Top.f # NoCallback /\ UNCHANGED <<stack, waiting, size, done, log>>
      /\ Len(stack) \in DOMAIN stack /\ Top = stack[Len(stack)]
  BY <1>1, FromShowInv DEF Call, registry
<1>3. TopHolds(Kind(Top.f), Top.f) /\ Kind(Top.f) \in Kinds
  BY <1>2, TopHoldsIt
<1>4. ~ Executing(Top, log)
  BY <1>1, <1>2 DEF ShowInv, RunInv, MappedInv
<1>5. Top.op = "drain" /\ Copy(Top) = ExitCopy
  BY <1>2, <1>3, <1>4 DEF TopHolds, Executing, Copy, ExitCopy, Kinds
<1>6. Len(stack) \in DrainsIn(stack, ExitCopy) /\ "exit" \in Kinds /\ ExitCopy = <<"exit", Exe>>
  BY <1>2, <1>5 DEF DrainsIn, Kinds, ExitCopy
<1>7. Mode(ExitCopy) = "drain"
  BY <1>6, OneDrain, Modes
<1>8. SameFrames(ExitCopy)
  BY <1>2 DEF SameFrames
<1>9. UNCHANGED <<Current(ExitCopy), Direct(ExitCopy)>>
  BY <1>8, SameViews
<1> QED BY <1>2, <1>7, <1>9 DEF ExitStack!Fail

\* What is seen of the copy of exit callbacks is a step of theirs, unless the
\* process crashes.
LEMMA ExitStackStep ==
  ASSUME ShowInv, Shown("exit"), process # "crashed", process' # "crashed"
  PROVE  [ExitStack!Next]_(ExitStack!vars)
<1>1. /\ <<"exit", Exe>> = ExitCopy /\ Of("exit") = ExitCallbacks /\ "exit" \in Kinds
      /\ waiting[ExitCopy] \in Seq(Callbacks)
  BY FromShowInv DEF ExitCopy, Of, Kinds
<1>2. /\ ExitStack!Waiting = Elements(waiting[ExitCopy])
      /\ ExitStack!Known = Elements(waiting[ExitCopy]) \cup Held("exit") \cup Begun("exit")
  BY <1>1 DEF ExitStack!Waiting, ExitStack!Known, Elements, Held, Begun
<1>3. CASE Unseen("exit")
  BY <1>1, <1>3 DEF Unseen, Begun, Ended, ExitStack!vars
<1>4. CASE Starts("exit")
  <2>1. waiting'[ExitCopy] = AsRegistered(waiting[ExitCopy])
    BY <1>1, <1>4 DEF Starts, AsRegistered
  <2>2. ExitStack!StartDrain
    BY <1>1, <1>4, <2>1 DEF Starts, Begun, Ended, ExitStack!StartDrain
  <2> QED BY <2>2 DEF ExitStack!Next
<1>5. CASE Lifts("exit")
  <2>1. ExitStack!Take
    BY <1>1, <1>5 DEF Lifts, Begun, Ended, ExitStack!Take
  <2> QED BY <2>1 DEF ExitStack!Next, ExitStack!Drain
<1>6. CASE Stops("exit")
  <2>1. ExitStack!StopDrain
    BY <1>1, <1>6 DEF Stops, Begun, Ended, ExitStack!StopDrain
  <2> QED BY <2>1 DEF ExitStack!Next, ExitStack!Drain
<1>7. ASSUME NEW c \in ExitCallbacks, Collects("exit", c)
      PROVE  ExitStack!Next
  <2>1. ExitStack!Register(c)
    BY <1>1, <1>2, <1>7 DEF Collects, Begun, Ended, ExitStack!Register
  <2> QED BY <2>1 DEF ExitStack!Next
<1>8. ASSUME NEW c \in ExitCallbacks, Diverts("exit", c)
      PROVE  ExitStack!Next
  <2>1. c \notin ExitStack!Known
    BY <1>1, <1>2, <1>8 DEF Diverts, Elements
  <2>2. ExitStack!Divert(c)
    BY <1>1, <1>8, <2>1 DEF Diverts, Begun, Ended, ExitStack!Divert
  <2> QED BY <2>2 DEF ExitStack!Next
<1>9. ASSUME NEW c \in ExitCallbacks, Begins("exit", c)
      PROVE  ExitStack!Next
  <2>1. ExitStack!Begin(c)
    BY <1>1, <1>9 DEF Begins, Held, Begun, Ended, ExitStack!Begin
  <2> QED BY <2>1 DEF ExitStack!Next
<1>10. ASSUME NEW c \in ExitCallbacks, Finishes("exit", c)
       PROVE  ExitStack!Next
  <2>1. ExitStack!End(c)
    BY <1>1, <1>10 DEF Finishes, Begun, Ended, ExitStack!End
  <2> QED BY <2>1 DEF ExitStack!Next
<1> QED BY <1>1, <1>3, <1>4, <1>5, <1>6, <1>7, <1>8, <1>9, <1>10 DEF Shown

\* The invariant of the refinement holds at every time: in particular a copy of
\* the executable is not marked as run while it is drained
\* (mulle-atinit.c:234-240, mulle-atexit.c:98-104).
THEOREM ShowInvariance == Spec => []ShowInv
BY InitShow, NextShow, PTL DEF Spec

\* Whichever images register them, init callbacks go through the stack of the
\* executable's copy, which is arranged by rank and drained once (mulle-atinit.c:222,
\* 307-356): no step of the process is one that CallbackStack does not have.
THEOREM ShowsInitStack == Spec => InitStack!Safety
<1>1. Init => InitStack!Init
  BY InitStackInit
<1>2. ShowInv /\ [Next]_vars => [InitStack!Next]_(InitStack!vars)
  <2> SUFFICES ASSUME ShowInv, [Next]_vars PROVE [InitStack!Next]_(InitStack!vars)
    OBVIOUS
  <2>1. Shown("init")
    BY NextShown DEF Kinds
  <2> QED BY <2>1, InitStackStep
<1> QED BY <1>1, <1>2, ShowInvariance, PTL DEF Spec, InitStack!Safety

\* And exit callbacks go through another, last in, first out (mulle-atexit.c:89-113,
\* 189-215), until the process is at its end, or crashes in the drain.
THEOREM ShowsExitStack == Spec => ExitStack!Safety
<1>1. Init => ExitStack!Init
  BY InitStackInit
<1>2. ShowInv /\ [Next]_vars => [ExitStack!Next]_(ExitStack!vars)
  <2> SUFFICES ASSUME ShowInv, [Next]_vars PROVE [ExitStack!Next]_(ExitStack!vars)
    OBVIOUS
  <2>1. CASE process = "crashed"
    <3>1. UNCHANGED vars
      BY <2>1, CrashedStays
    <3>2. UNCHANGED <<process, stack, waiting, size, log, done>>
      BY <3>1 DEF vars, loader, registry, ghosts
    <3>3. Unseen("exit")
      BY <3>1, LoaderUnseen DEF Kinds
    <3> QED BY <2>1, <3>2, <3>3 DEF Unseen, Begun, Ended, Of, ExitCopy, ExitStack!vars
  <2>2. CASE process # "crashed" /\ process' = "crashed"
    <3>1. ExitStack!Fail
      BY <2>2, CrashFails
    <3> QED BY <3>1 DEF ExitStack!Next
  <2>3. CASE process # "crashed" /\ process' # "crashed"
    <3>1. Shown("exit")
      BY NextShown DEF Kinds
    <3> QED BY <2>3, <3>1, ExitStackStep
  <2> QED BY <2>1, <2>2, <2>3
<1> QED BY <1>1, <1>2, ShowInvariance, PTL DEF Spec, ExitStack!Safety
================================================================================
