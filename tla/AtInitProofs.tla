------------------------------ MODULE AtInitProofs ------------------------------
(***************************************************************************)
(* Proofs about mulle-atinit, for any number of threads, of registrations  *)
(* and of bits in an unsigned int, and for any priorities.  Like for       *)
(* mulle-atexit: first control, types and memory, then who has a           *)
(* registration, and at last that a client sees a stack.  What the sort    *)
(* does to the array is MergesortArranges and MergesortByRank.             *)
(***************************************************************************)
EXTENDS AtInit, ActivationsProofs, MergeSortProofs

\* Before the sort, the constructor has not begun or waits for the mutex,
\* nobody takes a registration for a late one (an array that was allocated is
\* not empty), and so nothing is executed.
EarlyInv ==
  phase \in {"loading", "constructor"} =>
    /\ n = 0 => size = 0
    /\ \A c \in Callbacks : runs[c] = 0
    /\ \A t \in Threads : \A i \in DOMAIN stack[t] :
         /\ stack[t][i].op = "run" => phase = "constructor"
         /\ stack[t][i].pc \notin {"call", "calling"}

\* The inductive invariant.  Types need MemoryOK (an empty array is never
\* popped, a drained one never doubled), and NeverEarly needs EarlyInv.
IInv == TypeOK /\ ControlInv /\ MemoryOK /\ EarlyInv

\* Growing yields a capacity that is larger than the present size.
LEMMA NextSizeGrows ==
  ASSUME size \in Capacities \cup {0}
  PROVE  NextSize = 0 \/ (NextSize \in Capacities /\ NextSize > size)
<1>1. CASE size = 0
  BY <1>1, SizeAssumption DEF NextSize
<1>2. CASE size # 0
  <2>1. size \in Capacities /\ size \in Nat /\ size > 0
    BY <1>2, SizeAssumption
  <2>2. Double(size) = 0 \/ (Double(size) = 2 * size /\ Double(size) \in Capacities)
    BY <2>1, SizeAssumption
  <2> QED BY <1>2, <2>1, <2>2 DEF NextSize
<1> QED BY <1>1, <1>2

\* A capacity is a positive number and never the mark of a drained stack.
LEMMA CapacityRange ==
  /\ Ran \in Nat /\ Ran # 0
  /\ Ran \notin Capacities
  /\ \A s \in Capacities : s \in Nat \ {0}
  BY SizeAssumption DEF Ran

LEMMA InitIInv == Init => IInv
<1> SUFFICES ASSUME Init PROVE IInv
  OBVIOUS
<1>1. stack \in [Threads -> Seq(Frame)] /\ \A t \in Threads : stack[t] = << >>
  BY DEF Init, ControlInit
<1>2. ControlTypeOK
  BY <1>1 DEF Init, ControlInit, ControlTypeOK
<1>3. FramesOK /\ LockDiscipline
  BY <1>1 DEF Init, ControlInit, FramesOK, LockDiscipline
<1>4. TypeOK
  BY <1>2, SizeAssumption DEF Init, TypeOK, Null, Phases
<1>5. MemoryOK
  BY CapacityRange DEF Init, MemoryOK, Null
<1>6. EarlyInv
  BY <1>1 DEF Init, EarlyInv
<1> QED BY <1>2, <1>3, <1>4, <1>5, <1>6 DEF IInv, ControlInv

\* A thread enters the library.
LEMMA EnterStep ==
  ASSUME IInv, NEW t \in Threads, NEW fr \in Frame,
         InClient(t), Enter(t, fr), fr.pc = "once",
         fr.op = "add" => fr.f \in Callbacks,
         UNCHANGED <<lock, once, array, ghosts>>, phase' \in Phases,
         \/ phase' \in {"loading", "constructor"} /\ phase \in {"loading", "constructor"}
            /\ (fr.op = "run" => phase' = "constructor")
            /\ (phase = "constructor" => phase' = "constructor")
         \/ phase' \notin {"loading", "constructor"},
         phase' = "aborted" <=> phase = "aborted"
  PROVE  IInv'
<1>1. ControlInv'
  BY EnterKeepsControl DEF IInv, FrameOK
<1>2. TypeOK'
  BY <1>1 DEF IInv, TypeOK, ControlInv, array, ghosts
<1>3. MemoryOK'
  BY DEF IInv, MemoryOK, array
<1>4. EarlyInv'
  <2>1. SUFFICES ASSUME phase' \in {"loading", "constructor"}
                 PROVE  EarlyInv'
    BY DEF EarlyInv
  <2>2. /\ DOMAIN stack'[t] = 1..(Len(stack[t]) + 1)
        /\ stack'[t][Len(stack[t]) + 1] = fr
        /\ \A i \in DOMAIN stack[t] : stack'[t][i] = stack[t][i]
        /\ \A u \in Threads \ {t} : stack'[u] = stack[u]
        /\ DOMAIN stack[t] = 1..Len(stack[t])
        /\ Len(stack[t]) \in Nat
    BY EnterLemma DEF IInv, ControlInv, ControlTypeOK
  <2>3. ASSUME NEW u \in Threads, NEW i \in DOMAIN stack'[u]
        PROVE  /\ stack'[u][i].op = "run" => phase' = "constructor"
               /\ stack'[u][i].pc \notin {"call", "calling"}
    <3>1. CASE u = t /\ i = Len(stack[t]) + 1
      BY <2>1, <2>2, <3>1
    <3>2. CASE u # t \/ i # Len(stack[t]) + 1
      <4>1. i \in DOMAIN stack[u] /\ stack'[u][i] = stack[u][i]
        BY <2>2, <3>2
      <4> QED BY <2>1, <4>1 DEF IInv, EarlyInv
    <3> QED BY <3>1, <3>2
  <2> QED BY <2>1, <2>3 DEF IInv, EarlyInv, array, ghosts
<1> QED BY <1>1, <1>2, <1>3, <1>4 DEF IInv

LEMMA BeginLoadStep == IInv /\ BeginLoad => IInv'
<1> DEFINE fr == [op |-> "run", pc |-> "once", f |-> NoCallback]
<1>1. fr \in Frame /\ fr.op = "run" /\ fr.pc = "once"
  BY DEF Frame, Ops, Pcs
<1> HIDE DEF fr
<1>2. SUFFICES ASSUME IInv, BeginLoad PROVE IInv'
  OBVIOUS
<1>3. Enter(Main, fr) /\ Main \in Threads /\ InClient(Main)
  BY <1>2, MainAssumption DEF BeginLoad, InClient, fr
<1> QED BY <1>1, <1>2, <1>3, EnterStep DEF BeginLoad, Phases

LEMMA BeginAddStep ==
  ASSUME NEW t \in Threads, NEW c \in Callbacks
  PROVE  IInv /\ BeginAdd(t, c) => IInv'
<1> DEFINE fr == [op |-> "add", pc |-> "once", f |-> c]
<1>1. fr \in Frame /\ fr.op = "add" /\ fr.pc = "once" /\ fr.f = c
  BY DEF Frame, Ops, Pcs
<1> HIDE DEF fr
<1>2. SUFFICES ASSUME IInv, BeginAdd(t, c) PROVE IInv'
  OBVIOUS
<1>3. Enter(t, fr) /\ InClient(t) /\ phase \in Phases
  BY <1>2 DEF BeginAdd, fr, IInv, TypeOK
<1> QED BY <1>1, <1>2, <1>3, EnterStep DEF BeginAdd, Phases

LEMMA SynchroniseStep ==
  ASSUME NEW t \in Threads
  PROVE  IInv /\ Synchronise(t) => IInv'
<1> SUFFICES ASSUME IInv, Synchronise(t) PROVE IInv'
  OBVIOUS
<1>1. /\ stack[t] # << >>
      /\ stack \in [Threads -> Seq(Frame)]
      /\ Top(t) \in Frame
      /\ \/ Goto(t, "init") \/ Goto(t, "lock") \/ Goto(t, "locked")
         \/ Leave(t)
  BY ActiveFrame
  DEF Synchronise, OnceEnter, InitLock, OncePass, AfterOnce, Lock, At, IInv, ControlInv, ControlTypeOK
<1>2. ControlInv'
  BY SynchroniseKeepsControl DEF Synchronise, IInv
<1>3. TypeOK'
  BY <1>2 DEF IInv, TypeOK, ControlInv, Synchronise, array, ghosts
<1>4. MemoryOK'
  BY DEF IInv, MemoryOK, Synchronise, array
<1>5. EarlyInv'
  <2>1. SUFFICES ASSUME phase' \in {"loading", "constructor"} PROVE EarlyInv'
    BY DEF EarlyInv
  <2>2. phase' = phase /\ (Top(t).op = "run" => phase = "constructor")
    BY <1>1, <2>1, TopLemma DEF Synchronise, IInv, EarlyInv
  <2>3. ASSUME NEW u \in Threads, NEW i \in DOMAIN stack'[u]
        PROVE  /\ stack'[u][i].op = "run" => phase' = "constructor"
               /\ stack'[u][i].pc \notin {"call", "calling"}
    <3>1. CASE Leave(t)
      <4>1. i \in DOMAIN stack[u] /\ stack'[u][i] = stack[u][i]
        BY <1>1, <3>1, LeaveLemma, TopLemma
      <4> QED BY <2>1, <2>2, <4>1 DEF IInv, EarlyInv
    <3>2. ASSUME NEW pc \in {"init", "lock", "locked"}, Goto(t, pc)
          PROVE  /\ stack'[u][i].op = "run" => phase' = "constructor"
                 /\ stack'[u][i].pc \notin {"call", "calling"}
      <4> DEFINE fr == [Top(t) EXCEPT !.pc = pc]
      <4>1. fr \in Frame /\ fr.op = Top(t).op /\ fr.pc = pc
        BY <1>1 DEF Frame, Pcs
      <4>2. Become(t, fr)
        BY <3>2 DEF Goto
      <4> HIDE DEF fr
      <4>3. CASE u = t /\ i = Len(stack[t])
        BY <1>1, <2>2, <4>1, <4>2, <4>3, BecomeLemma
      <4>4. CASE u # t \/ i # Len(stack[t])
        <5>1. i \in DOMAIN stack[u] /\ stack'[u][i] = stack[u][i]
          BY <1>1, <4>1, <4>2, <4>4, BecomeLemma
        <5> QED BY <2>1, <2>2, <5>1 DEF IInv, EarlyInv
      <4> QED BY <4>3, <4>4
    <3> QED BY <1>1, <3>1, <3>2
  <2> QED BY <2>1, <2>3 DEF IInv, EarlyInv, Synchronise, array, ghosts
<1> QED BY <1>2, <1>3, <1>4, <1>5 DEF IInv

\* Before the sort no registration is late, nobody drains and nobody executes
\* a callback.
LEMMA NothingRunsEarly ==
  ASSUME IInv, NEW t \in Threads, stack[t] # << >>,
         \/ Top(t).op = "run" /\ phase # "constructor"
         \/ Top(t).pc \in {"call", "calling"}
         \/ Late
  PROVE  phase \notin {"loading", "constructor"}
  BY TopLemma DEF IInv, ControlInv, ControlTypeOK, EarlyInv, Late

LEMMA RedirectStep ==
  ASSUME NEW t \in Threads
  PROVE  IInv /\ Redirect(t) => IInv'
<1> SUFFICES ASSUME IInv, Redirect(t) PROVE IInv'
  OBVIOUS
<1> DEFINE fr == [Top(t) EXCEPT !.pc = "call"]
<1>1. /\ stack[t] # << >> /\ Top(t).pc = "locked" /\ Top(t).op = "add"
      /\ Become(t, fr) /\ lock' = NoThread /\ once' = once
      /\ UNCHANGED <<array, phase, ghosts>>
      /\ Late
  BY DEF Redirect, At, Unlock, Goto
<1>2. Top(t) \in Frame /\ FrameOK(Top(t), once)
  BY <1>1, ActiveFrame DEF IInv
<1>3. fr \in Frame /\ FrameOK(fr, once) /\ fr.pc = "call"
  BY <1>1, <1>2 DEF FrameOK, Frame, Pcs
<1> HIDE DEF fr
<1>4. ControlInv'
  BY <1>1, <1>3, BecomeKeepsControl DEF IInv, ControlInv, ControlTypeOK
<1>5. TypeOK' /\ MemoryOK'
  BY <1>1, <1>4 DEF IInv, TypeOK, ControlInv, MemoryOK, array, ghosts
<1>6. EarlyInv'
  BY <1>1, NothingRunsEarly DEF EarlyInv
<1> QED BY <1>4, <1>5, <1>6 DEF IInv

LEMMA AddCallbackStep ==
  ASSUME NEW t \in Threads
  PROVE  IInv /\ AddCallback(t) => IInv'
<1> SUFFICES ASSUME IInv, AddCallback(t) PROVE IInv'
  OBVIOUS
<1>1. /\ stack[t] # << >> /\ Top(t).pc = "locked" /\ Top(t).op = "add"
      /\ Leave(t) /\ lock' = NoThread /\ once' = once
      /\ phase' = phase /\ phase # "aborted"
      /\ sortedAt' = sortedAt /\ runs' = runs /\ done' = done
      /\ n' = n + 1
      /\ clock' = clock + 1
      /\ stamp' = [stamp EXCEPT ![Top(t).f] = clock + 1]
  BY DEF AddCallback, At, Unlock, Alive
<1>2. Top(t) \in Frame /\ Top(t).f \in Callbacks
  BY <1>1, ActiveFrame DEF IInv, FrameOK
<1>3. ControlInv'
  BY <1>1, LeaveKeepsControl DEF IInv, ControlInv, ControlTypeOK
<1>4. /\ n \in Nat /\ size # Ran /\ size \in Capacities \cup {0} /\ n <= size
      /\ DOMAIN calls = 0..(size - 1)
      /\ \A i \in 0..(n - 1) : calls[i] \in Callbacks
  BY <1>1, CapacityRange DEF IInv, TypeOK, MemoryOK, AddCallback, Late, Ran
<1>5. /\ size' \in Capacities /\ size' \in Nat \ {0} /\ size' # Ran /\ n' <= size'
      /\ DOMAIN calls' = 0..(size' - 1)
      /\ \A i \in 0..n : calls'[i] \in Callbacks
      /\ calls' \in [DOMAIN calls' -> Callbacks \cup {NoCallback}]
  <2>1. CASE Full
    <3>1. size' = NextSize /\ NextSize # 0
      BY <2>1 DEF AddCallback
    <3>2. size' \in Capacities /\ size' > size
      BY <1>4, <3>1, NextSizeGrows
    <3>3. size' \in Nat \ {0} /\ size' # Ran /\ n' <= size' /\ n = size
      BY <1>1, <1>4, <2>1, <3>2, CapacityRange DEF Full
    <3>4. calls' = [Realloc(calls, size') EXCEPT ![n] = Top(t).f]
      BY <2>1, <3>1 DEF AddCallback
    <3>5. /\ DOMAIN calls' = 0..(size' - 1)
          /\ calls' \in [0..(size' - 1) -> Callbacks \cup {NoCallback}]
          /\ calls'[n] = Top(t).f
          /\ \A i \in 0..(n - 1) : calls'[i] = calls[i]
      BY <1>2, <1>4, <3>2, <3>3, <3>4 DEF Realloc, IInv, TypeOK
    <3>6. \A i \in 0..n : i = n \/ i \in 0..(n - 1)
      BY <1>4
    <3>7. \A i \in 0..n : calls'[i] \in Callbacks
      BY <1>2, <1>4, <3>5, <3>6
    <3> QED BY <3>2, <3>3, <3>5, <3>7
  <2>2. CASE ~ Full
    <3>1. size' = size /\ calls' = [calls EXCEPT ![n] = Top(t).f] /\ n < size
      BY <1>4, <2>2, CapacityRange DEF AddCallback, Full
    <3>2. size \in Capacities /\ size \in Nat \ {0} /\ n' <= size
      BY <1>1, <1>4, <3>1, CapacityRange
    <3> QED BY <1>2, <1>4, <3>1, <3>2 DEF IInv, TypeOK
  <2> QED BY <2>1, <2>2
<1>6. TypeOK'
  BY <1>1, <1>2, <1>3, <1>5 DEF IInv, TypeOK, ControlInv
<1>7. MemoryOK'
  <2>1. n' - 1 = n /\ n \in Nat
    BY <1>1, <1>4
  <2> QED BY <1>1, <1>4, <1>5, <2>1 DEF MemoryOK, Ran
<1>8. EarlyInv'
  <2>1. n' # 0
    BY <1>1, <1>4
  <2>2. \A u \in Threads : \A i \in DOMAIN stack'[u] :
          i \in DOMAIN stack[u] /\ stack'[u][i] = stack[u][i]
    <3>1. stack \in [Threads -> Seq(Frame)]
      BY DEF IInv, ControlInv, ControlTypeOK
    <3> TAKE u \in Threads
    <3> TAKE i \in DOMAIN stack'[u]
    <3>2. CASE u = t
      BY <1>1, <3>1, <3>2, LeaveLemma, TopLemma
    <3>3. CASE u # t
      BY <1>1, <3>1, <3>3, LeaveLemma
    <3> QED BY <3>2, <3>3
  <2> QED BY <1>1, <2>1, <2>2 DEF IInv, EarlyInv
<1> QED BY <1>3, <1>6, <1>7, <1>8 DEF IInv

LEMMA AbortOnReallocStep ==
  ASSUME NEW t \in Threads
  PROVE  IInv /\ AbortOnRealloc(t) => IInv'
<1> SUFFICES ASSUME IInv, AbortOnRealloc(t) PROVE IInv'
  OBVIOUS
<1>1. ControlInv'
  BY DEF AbortOnRealloc, IInv, ControlInv, ControlTypeOK, FramesOK, LockDiscipline, At, Top
<1>2. size \in Capacities \cup {0}
  BY CapacityRange DEF AbortOnRealloc, IInv, TypeOK, MemoryOK, Late, Alive, Ran
<1>3. size' \in Capacities \cup {0}
  BY <1>2, NextSizeGrows DEF AbortOnRealloc
<1>4. TypeOK'
  BY <1>1, <1>3 DEF AbortOnRealloc, IInv, TypeOK, ControlInv, Phases, Null, ghosts
<1> QED BY <1>1, <1>4 DEF AbortOnRealloc, IInv, MemoryOK, EarlyInv

\* What the sort makes of the array.
LEMMA SortArranges ==
  ASSUME IInv, phase # "aborted", calls' = Mergesort(calls, Priority, n)
  PROVE  \E p \in [0..(n - 1) -> 0..(n - 1)] :
           /\ InOrder(p, Falling(calls, Priority, 0..(n - 1)), 0, n - 1)
           /\ \A k \in 0..(n - 1) : calls'[k] = calls[p[k]] /\ calls'[k] \in Callbacks
           /\ DOMAIN calls' = DOMAIN calls
           /\ calls' \in [DOMAIN calls' -> Callbacks \cup {NoCallback}]
<1>1. /\ n \in Nat /\ calls \in [DOMAIN calls -> Callbacks \cup {NoCallback}]
      /\ \A k \in 0..(n - 1) : k \in DOMAIN calls /\ calls[k] \in Callbacks
  BY DEF IInv, TypeOK, MemoryOK
<1>2. Sortable(calls, Priority, 0..(n - 1))
  BY <1>1, MainAssumption DEF Sortable, IsArray
<1>3. Arranges(calls, Falling(calls, Priority, 0..(n - 1)), calls', 0, n - 1)
  BY <1>1, <1>2, MergesortArranges
<1>4. PICK p \in [0..(n - 1) -> 0..(n - 1)] :
        /\ InOrder(p, Falling(calls, Priority, 0..(n - 1)), 0, n - 1)
        /\ calls' = [k \in DOMAIN calls |-> IF k \in 0..(n - 1) THEN calls[p[k]] ELSE calls[k]]
  BY <1>3 DEF Arranges
<1>5. ASSUME NEW k \in 0..(n - 1)
      PROVE  calls'[k] = calls[p[k]] /\ calls'[k] \in Callbacks
  BY <1>1, <1>4
<1>6. DOMAIN calls' = DOMAIN calls /\ calls' \in [DOMAIN calls' -> Callbacks \cup {NoCallback}]
  BY <1>1, <1>4
<1> QED BY <1>4, <1>5, <1>6

LEMMA SortStep ==
  ASSUME NEW t \in Threads
  PROVE  IInv /\ Sort(t) => IInv'
<1> SUFFICES ASSUME IInv, Sort(t) PROVE IInv'
  OBVIOUS
<1>1. /\ UNCHANGED <<stack, lock, once, n, size, clock, stamp, runs, done>>
      /\ phase = "constructor" /\ phase' = "draining" /\ sortedAt' = clock
      /\ calls' = Mergesort(calls, Priority, n)
  BY DEF Sort
<1>2. ControlInv'
  BY <1>1 DEF IInv, ControlInv, ControlTypeOK, FramesOK, LockDiscipline, At, Top
<1>3. /\ DOMAIN calls' = DOMAIN calls
      /\ calls' \in [DOMAIN calls' -> Callbacks \cup {NoCallback}]
      /\ \A k \in 0..(n - 1) : calls'[k] \in Callbacks
  BY <1>1, SortArranges
<1>4. TypeOK'
  BY <1>1, <1>2, <1>3 DEF IInv, TypeOK, ControlInv, Phases
<1>5. MemoryOK'
  <2>1. /\ \A k \in 0..(n - 1) : k \in DOMAIN calls
        /\ IF size = Ran
           THEN n = 0 /\ calls = Null
           ELSE n <= size /\ DOMAIN calls = 0..(size - 1)
    BY <1>1 DEF IInv, MemoryOK
  <2>2. CASE size = Ran
    <3>1. DOMAIN calls' = {} /\ n = 0
      BY <1>3, <2>1, <2>2 DEF Null
    <3>2. calls' = Null
      BY <1>3, <3>1 DEF Null
    <3> QED BY <1>1, <1>3, <2>1, <2>2, <3>2 DEF MemoryOK, Ran, Null
  <2>3. CASE size # Ran
    BY <1>1, <1>3, <2>1, <2>3 DEF MemoryOK, Ran
  <2> QED BY <2>2, <2>3
<1>6. EarlyInv'
  BY <1>1 DEF EarlyInv
<1> QED BY <1>2, <1>4, <1>5, <1>6 DEF IInv

LEMMA AbortOnMallocStep ==
  ASSUME NEW t \in Threads
  PROVE  IInv /\ AbortOnMalloc(t) => IInv'
<1> SUFFICES ASSUME IInv, AbortOnMalloc(t) PROVE IInv'
  OBVIOUS
<1>1. ControlInv'
  BY DEF AbortOnMalloc, IInv, ControlInv, ControlTypeOK, FramesOK, LockDiscipline, At, Top
<1>2. TypeOK'
  BY <1>1 DEF AbortOnMalloc, IInv, TypeOK, ControlInv, Phases, array, ghosts
<1> QED BY <1>1, <1>2 DEF AbortOnMalloc, IInv, MemoryOK, EarlyInv

LEMMA PopStep ==
  ASSUME NEW t \in Threads
  PROVE  IInv /\ Pop(t) => IInv'
<1> SUFFICES ASSUME IInv, Pop(t) PROVE IInv'
  OBVIOUS
<1> DEFINE fr == [op |-> "run", pc |-> "call", f |-> Last]
<1>1. /\ stack[t] # << >> /\ Top(t).pc = "locked" /\ Top(t).op = "run"
      /\ Become(t, fr) /\ lock' = NoThread /\ once' = once
      /\ UNCHANGED <<size, calls, phase, ghosts>>
      /\ phase # "aborted" /\ n > 0 /\ n' = n - 1 /\ phase # "constructor"
  BY DEF Pop, At, Unlock, Alive, SomeLeft
<1>2. n \in Nat /\ Last \in Callbacks
  <2>1. n \in Nat /\ n - 1 \in 0..(n - 1)
    BY <1>1 DEF IInv, TypeOK
  <2> QED BY <1>1, <2>1 DEF IInv, MemoryOK, Last
<1>3. Top(t) \in Frame /\ FrameOK(Top(t), once)
  BY <1>1, ActiveFrame DEF IInv
<1>4. fr \in Frame /\ FrameOK(fr, once) /\ fr.pc = "call"
  BY <1>1, <1>2, <1>3 DEF FrameOK, Frame, Pcs, Ops
<1> HIDE DEF fr
<1>5. ControlInv'
  BY <1>1, <1>4, BecomeKeepsControl DEF IInv, ControlInv, ControlTypeOK
<1>6. TypeOK'
  BY <1>1, <1>2, <1>5 DEF IInv, TypeOK, ControlInv, ghosts
<1>7. MemoryOK'
  BY <1>1, <1>2, CapacityRange DEF IInv, TypeOK, MemoryOK, Ran
<1>8. EarlyInv'
  BY <1>1, NothingRunsEarly DEF EarlyInv
<1> QED BY <1>5, <1>6, <1>7, <1>8 DEF IInv

LEMMA DrainedStep ==
  ASSUME NEW t \in Threads
  PROVE  IInv /\ Drained(t) => IInv'
<1> SUFFICES ASSUME IInv, Drained(t) PROVE IInv'
  OBVIOUS
<1>1. /\ stack[t] # << >> /\ Top(t).pc = "locked"
      /\ Leave(t) /\ lock' = NoThread /\ once' = once
      /\ phase' = "main" /\ n' = 0 /\ size' = Ran /\ calls' = Null
      /\ UNCHANGED ghosts
  BY DEF Drained, At, Unlock
<1>2. ControlInv'
  BY <1>1, LeaveKeepsControl DEF IInv, ControlInv, ControlTypeOK
<1>3. TypeOK'
  BY <1>1, <1>2 DEF IInv, TypeOK, ControlInv, Phases, Null, Ran, ghosts
<1>4. MemoryOK'
  BY <1>1 DEF MemoryOK, Ran, Null
<1>5. EarlyInv'
  BY <1>1 DEF EarlyInv
<1> QED BY <1>2, <1>3, <1>4, <1>5 DEF IInv

LEMMA CallStep ==
  ASSUME NEW t \in Threads
  PROVE  IInv /\ Call(t) => IInv'
<1> SUFFICES ASSUME IInv, Call(t) PROVE IInv'
  OBVIOUS
<1> DEFINE fr == [Top(t) EXCEPT !.pc = "calling"]
<1>1. /\ stack[t] # << >> /\ Top(t).pc = "call"
      /\ Become(t, fr)
      /\ runs' = [runs EXCEPT ![Top(t).f] = @ + 1]
      /\ UNCHANGED <<lock, once, array, phase, clock, stamp, sortedAt, done>>
  BY DEF Call, At, Goto
<1>2. Top(t) \in Frame /\ FrameOK(Top(t), once) /\ Top(t).f \in Callbacks
  BY <1>1, ActiveFrame DEF IInv, FrameOK
<1>3. fr \in Frame /\ FrameOK(fr, once) /\ fr.pc = "calling"
  BY <1>1, <1>2 DEF FrameOK, Frame, Pcs
<1> HIDE DEF fr
<1>4. ControlInv'
  BY <1>1, <1>3, BecomeKeepsControl DEF IInv, ControlInv, ControlTypeOK
<1>5. TypeOK' /\ MemoryOK'
  BY <1>1, <1>2, <1>4 DEF IInv, TypeOK, ControlInv, MemoryOK, array
<1>6. EarlyInv'
  BY <1>1, NothingRunsEarly DEF EarlyInv
<1> QED BY <1>4, <1>5, <1>6 DEF IInv

LEMMA ReturnStep ==
  ASSUME NEW t \in Threads
  PROVE  IInv /\ Return(t) => IInv'
<1> SUFFICES ASSUME IInv, Return(t) PROVE IInv'
  OBVIOUS
<1>1. /\ stack[t] # << >> /\ Top(t).pc = "calling"
      /\ done' = done \cup {Top(t).f}
      /\ UNCHANGED <<lock, once, array, phase, clock, stamp, sortedAt, runs>>
  BY DEF Return, At
<1>2. Top(t) \in Frame /\ FrameOK(Top(t), once)
  BY <1>1, ActiveFrame DEF IInv
<1>3. ControlInv'
  <2>1. CASE Top(t).op = "run"
    <3> DEFINE fr == [op |-> "run", pc |-> "lock", f |-> NoCallback]
    <3>1. fr \in Frame /\ FrameOK(fr, once) /\ fr.pc = "lock"
      BY <1>1, <1>2 DEF FrameOK, Frame, Pcs, Ops
    <3>2. Become(t, fr)
      BY <2>1 DEF Return
    <3> HIDE DEF fr
    <3> QED BY <1>1, <3>1, <3>2, BecomeKeepsControl DEF IInv, ControlInv, ControlTypeOK
  <2>2. CASE Top(t).op # "run"
    BY <1>1, <2>2, LeaveKeepsControl DEF Return, IInv, ControlInv, ControlTypeOK
  <2> QED BY <2>1, <2>2
<1>4. TypeOK' /\ MemoryOK'
  BY <1>1, <1>2, <1>3 DEF IInv, TypeOK, ControlInv, MemoryOK, array, FrameOK
<1>5. EarlyInv'
  BY <1>1, NothingRunsEarly DEF EarlyInv
<1> QED BY <1>3, <1>4, <1>5 DEF IInv

LEMMA ExitStep == IInv /\ Exit => IInv'
<1> SUFFICES ASSUME IInv, Exit PROVE IInv'
  OBVIOUS
<1>1. ControlInv'
  BY DEF Exit, IInv, ControlInv, ControlTypeOK, FramesOK, LockDiscipline, At, Top
<1>2. TypeOK' /\ MemoryOK' /\ EarlyInv'
  BY <1>1 DEF Exit, IInv, TypeOK, ControlInv, MemoryOK, EarlyInv, Phases, array, ghosts
<1> QED BY <1>1, <1>2 DEF IInv

LEMMA StutterStep == IInv /\ UNCHANGED vars => IInv'
<1> SUFFICES ASSUME IInv, UNCHANGED vars PROVE IInv'
  OBVIOUS
<1>1. ControlInv'
  BY DEF vars, IInv, ControlInv, ControlTypeOK, FramesOK, LockDiscipline, At, Top
<1>2. TypeOK' /\ MemoryOK' /\ EarlyInv'
  BY <1>1 DEF vars, array, ghosts, IInv, TypeOK, ControlInv, MemoryOK, EarlyInv
<1> QED BY <1>1, <1>2 DEF IInv

\* No step of the library breaks the invariant.
LEMMA NextIInv == IInv /\ [Next]_vars => IInv'
<1> SUFFICES ASSUME IInv, [Next]_vars PROVE IInv'
  OBVIOUS
<1>1. CASE BeginLoad
  BY <1>1, BeginLoadStep
<1>3. CASE Exit
  BY <1>3, ExitStep
<1>4. ASSUME NEW t \in Threads, NEW c \in Callbacks, BeginAdd(t, c) PROVE IInv'
  BY <1>4, BeginAddStep
<1>5. ASSUME NEW t \in Threads, Step(t) PROVE IInv'
  BY <1>5, SynchroniseStep, RedirectStep, AddCallbackStep, AbortOnReallocStep, SortStep,
     AbortOnMallocStep, PopStep,
     DrainedStep, CallStep, ReturnStep DEF Step
<1>6. CASE UNCHANGED vars
  BY <1>6, StutterStep
<1> QED BY <1>1, <1>3, <1>4, <1>5, <1>6 DEF Next, Terminated

\* The invariant holds in every state of every behaviour.
THEOREM Invariance == Spec => []IInv
  BY InitIInv, NextIInv, PTL DEF Spec

\* The variables keep their types: in particular size is zero, a capacity that
\* doubling reaches without overflow, or the mark of a drained array.
THEOREM TypeCorrect == Spec => []TypeOK
<1>1. IInv => TypeOK
  BY DEF IInv
<1> QED BY <1>1, Invariance, PTL

\* The mutex excludes, it is not used before it is initialised, and no body of
\* a callback is executed by a thread that holds it.
THEOREM MutexDiscipline == Spec => []LockDiscipline
<1>1. IInv => LockDiscipline
  BY DEF IInv, ControlInv
<1> QED BY <1>1, Invariance, PTL

\* No cell outside of the allocation is used, none is read uninitialised.
THEOREM MemorySafe == Spec => []MemoryOK
<1>1. IInv => MemoryOK
  BY DEF IInv
<1> QED BY <1>1, Invariance, PTL

\* Nothing is executed before the constructor of the executable has sorted.
THEOREM NothingEarly == Spec => []NeverEarly
<1>1. IInv => NeverEarly
  BY DEF IInv, EarlyInv, NeverEarly
<1> QED BY <1>1, Invariance, PTL

(***************************************************************************)
(* Who has a registration: a cell of the array, a frame of some thread, or *)
(* nobody, because its callback has returned.                              *)
(***************************************************************************)

\* What a frame holds is in no cell; its body has been entered if and only if
\* the frame says so.  Until it is added it has no stamp.
Owns(fr) ==
  /\ \A k \in 0..(n - 1) : calls[k] # fr.f
  /\ fr.f \notin done
  /\ runs[fr.f] = IF fr.pc = "calling" THEN 1 ELSE 0
  /\ fr.op # "run" => stamp[fr.f] = 0

HeldInv ==
  \A t \in Threads : \A i \in DOMAIN stack[t] :
    stack[t][i].f \in Callbacks => Owns(stack[t][i])

\* The drain is the outermost activation of Main, and has a callback only while
\* it executes it.
RunInv ==
  \A t \in Threads : \A i \in DOMAIN stack[t] : stack[t][i].op = "run" =>
    /\ t = Main /\ i = 1 /\ phase \in {"constructor", "draining"}
    /\ stack[t][i].pc \notin {"call", "calling"} => stack[t][i].f = NoCallback

\* Cells are in the order of registration at first.  From the sort on, each one
\* is to be executed before all below it.
Ordered(c, d) ==
  IF phase \in {"loading", "constructor"} THEN stamp[c] < stamp[d] ELSE Precedes(d, c)

OrderInv ==
  /\ sortedAt <= clock
  /\ \A k, m \in 0..(n - 1) : k < m => Ordered(calls[k], calls[m])

\* What waits was registered, and was not executed.
CellInv ==
  \A k \in 0..(n - 1) :
    stamp[calls[k]] \in 1..clock /\ runs[calls[k]] = 0 /\ calls[k] \notin done

\* Whatever was added is somewhere.
KeptInv ==
  \A c \in Callbacks : stamp[c] # 0 =>
    \/ \E k \in 0..(n - 1) : calls[k] = c
    \/ \E t \in Threads : \E i \in DOMAIN stack[t] : stack[t][i].f = c
    \/ c \in done

RunsInv ==
  /\ \A c \in Callbacks : runs[c] \in {0, 1}
  /\ \A c \in done : runs[c] = 1

\* The inductive invariant; an aborted process has lost its array.
CustodyInv ==
  phase # "aborted" =>
    /\ UniqueInv /\ HeldInv /\ RunInv /\ CellInv /\ OrderInv /\ KeptInv /\ RunsInv
    /\ phase \in {"main", "exited"} => size = Ran

(***************************************************************************)
(* The steps                                                               *)
(***************************************************************************)

\* What a live process has, in the form in which the steps use it.
LEMMA Unfolded ==
  ASSUME IInv, CustodyInv, phase # "aborted"
  PROVE  /\ stack \in [Threads -> Seq(Frame)]
         /\ n \in Nat /\ clock \in Nat
         /\ stamp \in [Callbacks -> Nat] /\ runs \in [Callbacks -> Nat]
         /\ sortedAt \in Nat /\ Priority \in [Callbacks -> Int]
         /\ UniqueInv /\ HeldInv /\ RunInv /\ CellInv /\ OrderInv /\ KeptInv /\ RunsInv
         /\ phase \in {"main", "exited"} => size = Ran
         /\ \A k \in 0..(n - 1) : k \in DOMAIN calls /\ calls[k] \in Callbacks
         /\ size = Ran => n = 0
         /\ NoCallback \notin Callbacks
  BY SentinelAssumption, MainAssumption
  DEF IInv, ControlInv, ControlTypeOK, TypeOK, CustodyInv, MemoryOK, Ran

\* Nothing is to be executed before itself.
LEMMA OrderedDiffer ==
  ASSUME stamp \in [Callbacks -> Nat], sortedAt \in Nat, NEW c \in Callbacks
  PROVE  ~ Ordered(c, c)
<1>1. stamp[c] \in Nat /\ Priority[c] \in Int
  BY MainAssumption
<1> QED BY <1>1 DEF Ordered, Precedes

\* The order of the cells that stay.
LEMMA OrderKept ==
  ASSUME OrderInv, n \in Nat, n' \in Nat, n' <= n,
         calls' = calls, clock' = clock, stamp' = stamp, sortedAt' = sortedAt,
         phase' = phase \/ (phase = "loading" /\ phase' = "constructor")
  PROVE  OrderInv'
<1>1. \A k \in 0..(n' - 1) : k \in 0..(n - 1)
  <2> DEFINE m == n'
  <2>1. n \in Nat /\ m \in Nat /\ m <= n
    OBVIOUS
  <2> HIDE DEF m
  <2>2. \A k \in 0..(m - 1) : k \in 0..(n - 1)
    BY <2>1
  <2> QED BY <2>2 DEF m
<1> QED BY <1>1 DEF OrderInv, Ordered, Precedes

\* A new activation holds nothing, or a registration that is nowhere else.
LEMMA EnterCustody ==
  ASSUME IInv, CustodyInv, phase # "aborted",
         NEW t \in Threads, NEW fr \in Frame, Enter(t, fr), fr.pc = "once",
         fr.f \in Callbacks => Fresh(fr.f) /\ fr.op # "run",
         fr.op = "run" => t = Main /\ stack[t] = << >> /\ phase' = "constructor" /\ fr.f = NoCallback,
         phase' = phase \/ (phase = "loading" /\ phase' = "constructor"),
         UNCHANGED <<array, ghosts>>
  PROVE  CustodyInv'
<1>1. /\ stack \in [Threads -> Seq(Frame)]
      /\ n' = n /\ calls' = calls /\ size' = size
      /\ clock' = clock /\ stamp' = stamp /\ sortedAt' = sortedAt /\ runs' = runs /\ done' = done
  BY DEF IInv, ControlInv, ControlTypeOK, array, ghosts
<1>0. n \in Nat
  BY DEF IInv, TypeOK
<1>2. UniqueInv /\ HeldInv /\ RunInv /\ CellInv /\ OrderInv /\ KeptInv /\ RunsInv
  BY DEF CustodyInv
<1>3. UniqueInv'
  <2>1. SUFFICES ASSUME NEW u \in Threads, NEW i \in DOMAIN stack'[u], stack'[u][i].f \in Callbacks,
                        NEW v \in Threads, NEW j \in DOMAIN stack'[v], stack'[v][j].f = stack'[u][i].f
                 PROVE  v = u /\ j = i
    BY DEF UniqueInv
  <2>2. \/ u = t /\ i = Len(stack[t]) + 1 /\ stack'[u][i] = fr
        \/ i \in DOMAIN stack[u] /\ stack'[u][i] = stack[u][i]
    BY <1>1, EnterFrames
  <2>3. \/ v = t /\ j = Len(stack[t]) + 1 /\ stack'[v][j] = fr
        \/ j \in DOMAIN stack[v] /\ stack'[v][j] = stack[v][j]
    BY <1>1, EnterFrames
  <2> QED BY <1>2, <2>1, <2>2, <2>3 DEF UniqueInv, Fresh
<1>4. HeldInv'
  <2>1. SUFFICES ASSUME NEW u \in Threads, NEW i \in DOMAIN stack'[u], stack'[u][i].f \in Callbacks
                 PROVE  Owns(stack'[u][i])
    BY <1>1 DEF HeldInv, Owns
  <2>2. CASE u = t /\ i = Len(stack[t]) + 1 /\ stack'[u][i] = fr
    <3>1. Fresh(fr.f) /\ fr.op # "run" /\ fr.f \in Callbacks
      BY <2>1, <2>2
    <3>2. \A k \in 0..(n - 1) : calls[k] # fr.f
      BY <1>2, <3>1 DEF CellInv, Fresh
    <3>3. fr.f \notin done
      BY <1>2, <3>1 DEF RunsInv, Fresh
    <3> QED BY <2>2, <3>1, <3>2, <3>3 DEF Fresh, Owns
  <2>3. CASE i \in DOMAIN stack[u] /\ stack'[u][i] = stack[u][i]
    BY <1>2, <2>1, <2>3 DEF HeldInv
  <2> QED BY <1>1, <2>2, <2>3, EnterFrames
<1>5. RunInv'
  <2>1. SUFFICES ASSUME NEW u \in Threads, NEW i \in DOMAIN stack'[u], stack'[u][i].op = "run"
                 PROVE  /\ u = Main /\ i = 1 /\ phase' \in {"constructor", "draining"}
                        /\ stack'[u][i].pc \notin {"call", "calling"} => stack'[u][i].f = NoCallback
    BY DEF RunInv
  <2>2. CASE u = t /\ i = Len(stack[t]) + 1 /\ stack'[u][i] = fr
    BY <2>1, <2>2
  <2>3. CASE i \in DOMAIN stack[u] /\ stack'[u][i] = stack[u][i]
    BY <1>2, <2>1, <2>3 DEF RunInv
  <2> QED BY <1>1, <2>2, <2>3, EnterFrames
<1>6. CellInv' /\ RunsInv'
  BY <1>1, <1>2 DEF CellInv, RunsInv
<1>7. KeptInv'
  <2> SUFFICES ASSUME NEW c \in Callbacks, stamp[c] # 0
               PROVE  \/ \E k \in 0..(n - 1) : calls[k] = c
                      \/ \E u \in Threads : \E i \in DOMAIN stack'[u] : stack'[u][i].f = c
                      \/ c \in done
    BY <1>1 DEF KeptInv
  <2> QED BY <1>1, <1>2, EnterKeepsFrames DEF KeptInv
<1>8. phase' \in {"main", "exited"} => size' = Ran
  BY <1>1 DEF CustodyInv, Ran
<1>20. OrderInv'
  BY <1>0, <1>1, <1>2, OrderKept
<1> QED BY <1>20, <1>3, <1>4, <1>5, <1>6, <1>7, <1>8 DEF CustodyInv, Ran

\* An activation that moves on, outside of a body, keeps what it holds.
LEMMA GotoCustody ==
  ASSUME IInv, CustodyInv, phase # "aborted",
         NEW t \in Threads, stack[t] # << >>, NEW pc \in Pcs, Goto(t, pc),
         Top(t).pc \notin {"call", "calling"}, pc # "calling",
         UNCHANGED <<array, phase, ghosts>>
  PROVE  CustodyInv'
<1> DEFINE fr == [Top(t) EXCEPT !.pc = pc]
<1>1. /\ stack \in [Threads -> Seq(Frame)]
      /\ n' = n /\ calls' = calls /\ size' = size /\ phase' = phase
      /\ clock' = clock /\ stamp' = stamp /\ sortedAt' = sortedAt /\ runs' = runs /\ done' = done
  BY DEF IInv, ControlInv, ControlTypeOK, array, ghosts
<1>0. n \in Nat
  BY DEF IInv, TypeOK
<1>2. UniqueInv /\ HeldInv /\ RunInv /\ CellInv /\ OrderInv /\ KeptInv /\ RunsInv
  BY DEF CustodyInv
<1>3. Top(t) \in Frame
  BY <1>1, TopLemma
<1>4. fr \in Frame /\ fr.f = Top(t).f /\ fr.op = Top(t).op /\ fr.pc = pc /\ Become(t, fr)
  BY <1>3 DEF Frame, Goto
<1> HIDE DEF fr
<1>5. \A u \in Threads : DOMAIN stack'[u] = DOMAIN stack[u]
  BY <1>1, <1>4, BecomeFrames
<1>6. ASSUME NEW u \in Threads, NEW i \in DOMAIN stack[u]
      PROVE  /\ stack'[u][i].f = stack[u][i].f
             /\ stack'[u][i].op = stack[u][i].op
             /\ stack'[u][i].pc = "calling" <=> stack[u][i].pc = "calling"
             /\ stack[u][i].pc \in {"call", "calling"} => stack'[u][i].pc \in {"call", "calling"}
  BY <1>1, <1>3, <1>4, BecomeFrames
<1>7. UniqueInv'
  BY <1>2, <1>5, <1>6 DEF UniqueInv
<1>8. HeldInv'
  <2>1. SUFFICES ASSUME NEW u \in Threads, NEW i \in DOMAIN stack[u], stack'[u][i].f \in Callbacks
                 PROVE  Owns(stack'[u][i])
    BY <1>1, <1>5 DEF HeldInv, Owns
  <2> QED BY <1>2, <1>6, <2>1 DEF HeldInv, Owns
<1>9. RunInv'
  BY <1>1, <1>2, <1>5, <1>6 DEF RunInv
<1>10. CellInv' /\ RunsInv'
  BY <1>1, <1>2 DEF CellInv, RunsInv
<1>11. KeptInv'
  <2> SUFFICES ASSUME NEW c \in Callbacks, stamp[c] # 0
               PROVE  \/ \E k \in 0..(n - 1) : calls[k] = c
                      \/ \E u \in Threads : \E i \in DOMAIN stack'[u] : stack'[u][i].f = c
                      \/ c \in done
    BY <1>1 DEF KeptInv
  <2> QED BY <1>2, <1>5, <1>6 DEF KeptInv
<1>20. OrderInv'
  BY <1>0, <1>1, <1>2, OrderKept
<1> QED BY <1>20, <1>1, <1>7, <1>8, <1>9, <1>10, <1>11 DEF CustodyInv, Ran

\* A registration that leaves, with its callback in a new cell of the array or
\* with a body that has returned, leaves all other custody alone.
LEMMA LeaveFrameInvs ==
  ASSUME IInv, CustodyInv, phase # "aborted",
         NEW t \in Threads, stack[t] # << >>, Leave(t),
         phase' = phase \/ Top(t).op = "run"
  PROVE  /\ UniqueInv'
         /\ \A u \in Threads : \A i \in DOMAIN stack'[u] : stack'[u][i].op = "run" =>
              /\ u = Main /\ i = 1 /\ phase \in {"constructor", "draining"} /\ Top(t).op # "run"
              /\ stack'[u][i].pc \notin {"call", "calling"} => stack'[u][i].f = NoCallback
         /\ \A u \in Threads : \A i \in DOMAIN stack'[u] : stack'[u][i].f \in Callbacks =>
              /\ Owns(stack'[u][i])
              /\ stack'[u][i].f # Top(t).f
         /\ \A c \in Callbacks : stamp[c] # 0 =>
              \/ \E k \in 0..(n - 1) : calls[k] = c
              \/ \E u \in Threads : \E i \in DOMAIN stack'[u] : stack'[u][i].f = c
              \/ c = Top(t).f
              \/ c \in done
<1>1. /\ stack \in [Threads -> Seq(Frame)]
      /\ UniqueInv /\ HeldInv /\ RunInv /\ KeptInv
  BY Unfolded
<1>2. /\ Len(stack[t]) \in DOMAIN stack[t]
      /\ Top(t) = stack[t][Len(stack[t])]
      /\ \A u \in Threads : \A i \in DOMAIN stack'[u] :
           /\ i \in DOMAIN stack[u] /\ stack'[u][i] = stack[u][i]
           /\ ~ (u = t /\ i = Len(stack[t]))
      /\ \A u \in Threads : \A i \in DOMAIN stack[u] :
           \/ u = t /\ i = Len(stack[t])
           \/ i \in DOMAIN stack'[u] /\ stack'[u][i] = stack[u][i]
  BY <1>1, LeaveFrames
<1>3. UniqueInv'
  BY <1>1, <1>2 DEF UniqueInv
<1>4. ASSUME NEW u \in Threads, NEW i \in DOMAIN stack'[u], stack'[u][i].op = "run"
      PROVE  /\ u = Main /\ i = 1 /\ phase \in {"constructor", "draining"} /\ Top(t).op # "run"
             /\ stack'[u][i].pc \notin {"call", "calling"} => stack'[u][i].f = NoCallback
  BY <1>1, <1>2, <1>4 DEF RunInv
<1>5. ASSUME NEW u \in Threads, NEW i \in DOMAIN stack'[u], stack'[u][i].f \in Callbacks
      PROVE  Owns(stack'[u][i]) /\ stack'[u][i].f # Top(t).f
  <2>1. Owns(stack'[u][i])
    BY <1>1, <1>2, <1>5 DEF HeldInv
  <2>2. stack'[u][i].f # Top(t).f
    BY <1>1, <1>2, <1>5 DEF UniqueInv
  <2> QED BY <2>1, <2>2
<1>6. ASSUME NEW c \in Callbacks, stamp[c] # 0
      PROVE  \/ \E k \in 0..(n - 1) : calls[k] = c
             \/ \E u \in Threads : \E i \in DOMAIN stack'[u] : stack'[u][i].f = c
             \/ c = Top(t).f
             \/ c \in done
  BY <1>1, <1>2, <1>6 DEF KeptInv
<1> QED BY <1>3, <1>4, <1>5, <1>6

\* The constructor has nothing that could be lost when it returns.
LEMMA LeaveCustody ==
  ASSUME IInv, CustodyInv, phase # "aborted",
         NEW t \in Threads, stack[t] # << >>, Leave(t), Top(t).op = "load",
         UNCHANGED <<array, phase, ghosts>>
  PROVE  CustodyInv'
<1>1. /\ n' = n /\ calls' = calls /\ size' = size /\ phase' = phase
      /\ clock' = clock /\ stamp' = stamp /\ sortedAt' = sortedAt /\ runs' = runs /\ done' = done
  BY DEF array, ghosts
<1>2. /\ UniqueInv /\ HeldInv /\ RunInv /\ CellInv /\ OrderInv /\ KeptInv /\ RunsInv
      /\ stack \in [Threads -> Seq(Frame)]
      /\ phase \in {"main", "exited"} => size = Ran
  BY Unfolded
<1>3. HeldInv'
  BY <1>1, LeaveFrameInvs DEF HeldInv, Owns
<1>4. RunInv'
  BY <1>1, LeaveFrameInvs DEF RunInv
<1>5. CellInv' /\ RunsInv'
  BY <1>1, <1>2 DEF CellInv, RunsInv
<1>6. KeptInv'
  <2>1. Top(t).f \in Callbacks => stamp[Top(t).f] = 0
    BY <1>2, TopLemma DEF HeldInv, Owns
  <2> QED BY <1>1, <2>1, LeaveFrameInvs DEF KeptInv
<1>20. OrderInv'
  BY <1>1, Unfolded, OrderKept
<1> QED BY <1>20, <1>1, <1>2, <1>3, <1>4, <1>5, <1>6, LeaveFrameInvs DEF CustodyInv, Ran

LEMMA SynchroniseCustody ==
  ASSUME NEW t \in Threads
  PROVE  IInv /\ CustodyInv /\ Synchronise(t) => CustodyInv'
<1> SUFFICES ASSUME IInv, CustodyInv, Synchronise(t) PROVE CustodyInv'
  OBVIOUS
<1>1. /\ phase # "aborted" /\ stack[t] # << >>
      /\ Top(t).pc \in {"once", "init", "lock"}
      /\ UNCHANGED <<array, phase, ghosts>>
      /\ \/ Goto(t, "init") \/ Goto(t, "lock") \/ Goto(t, "locked")
         \/ Leave(t) /\ Top(t).op = "load"
  BY DEF Synchronise, Alive, OnceEnter, InitLock, OncePass, Lock, AfterOnce, At
<1>2. CASE Leave(t) /\ Top(t).op = "load"
  BY <1>1, <1>2, LeaveCustody
<1>3. ASSUME NEW pc \in {"init", "lock", "locked"}, Goto(t, pc) PROVE CustodyInv'
  BY <1>1, <1>3, GotoCustody DEF Pcs
<1> QED BY <1>1, <1>2, <1>3

LEMMA RedirectCustody ==
  ASSUME NEW t \in Threads
  PROVE  IInv /\ CustodyInv /\ Redirect(t) => CustodyInv'
  BY GotoCustody DEF Redirect, Alive, At, Pcs

\* Growing keeps the cells in use, and the new callback is above them.
LEMMA AddCallbackCells ==
  ASSUME IInv, NEW t \in Threads, AddCallback(t)
  PROVE  calls'[n] = Top(t).f /\ \A k \in 0..(n - 1) : calls'[k] = calls[k]
<1>1. /\ n \in Nat /\ size # Ran /\ size \in Capacities \cup {0} /\ n <= size
      /\ DOMAIN calls = 0..(size - 1)
      /\ calls \in [DOMAIN calls -> Callbacks \cup {NoCallback}]
  BY CapacityRange DEF IInv, TypeOK, MemoryOK, AddCallback, Late, Ran, Alive
<1>2. CASE Full
  <2>1. NextSize \in Capacities /\ NextSize > size /\ n = size /\ NextSize \in Nat /\ size \in Nat
    BY <1>1, <1>2, NextSizeGrows, CapacityRange DEF AddCallback, Full
  <2>2. calls' = [Realloc(calls, NextSize) EXCEPT ![n] = Top(t).f]
    BY <1>2 DEF AddCallback
  <2> QED BY <1>1, <2>1, <2>2 DEF Realloc
<1>3. CASE ~ Full
  <2>1. calls' = [calls EXCEPT ![n] = Top(t).f] /\ n < size
    BY <1>1, <1>3, CapacityRange DEF AddCallback, Full
  <2> QED BY <1>1, <2>1, CapacityRange
<1> QED BY <1>2, <1>3

\* A registration passes from a frame to the topmost cell.
LEMMA AddCallbackCustody ==
  ASSUME NEW t \in Threads
  PROVE  IInv /\ CustodyInv /\ AddCallback(t) => CustodyInv'
<1> SUFFICES ASSUME IInv, CustodyInv, AddCallback(t) PROVE CustodyInv'
  OBVIOUS
<1> DEFINE c == Top(t).f
<1>1. /\ stack[t] # << >> /\ Top(t).pc = "locked" /\ Top(t).op = "add"
      /\ Leave(t) /\ phase' = phase /\ phase # "aborted"
      /\ sortedAt' = sortedAt /\ runs' = runs /\ done' = done
      /\ n' = n + 1 /\ clock' = clock + 1
      /\ stamp' = [stamp EXCEPT ![c] = clock + 1]
  BY DEF AddCallback, At, Alive
<1>2. /\ stack \in [Threads -> Seq(Frame)]
      /\ n \in Nat /\ clock \in Nat /\ stamp \in [Callbacks -> Nat]
      /\ UniqueInv /\ HeldInv /\ RunInv /\ CellInv /\ OrderInv /\ KeptInv /\ RunsInv
      /\ \A k \in 0..(n - 1) : k \in DOMAIN calls /\ calls[k] \in Callbacks
      /\ phase \in {"main", "exited"} => size = Ran
  BY <1>1, Unfolded
<1>3. c \in Callbacks /\ stamp[c] = 0 /\ Owns(Top(t)) /\ runs[c] = 0 /\ c \notin done
  BY <1>1, <1>2, ActiveFrame, TopLemma DEF IInv, FrameOK, HeldInv, Owns
<1>4. calls'[n] = c /\ \A k \in 0..(n - 1) : calls'[k] = calls[k]
  BY AddCallbackCells, <1>1
<1>5. 0..(n' - 1) = 0..(n - 1) \cup {n} /\ n \notin 0..(n - 1)
  BY <1>1, <1>2
<1>6. stamp'[c] = clock + 1 /\ \A d \in Callbacks : d # c => stamp'[d] = stamp[d]
  BY <1>1, <1>2, <1>3
<1>7. \A k \in 0..(n - 1) : calls[k] # c
  BY <1>3 DEF Owns
<1>8. UniqueInv'
  BY <1>1, LeaveFrameInvs
<1>9. HeldInv'
  <2> SUFFICES ASSUME NEW u \in Threads, NEW i \in DOMAIN stack'[u], stack'[u][i].f \in Callbacks
               PROVE  Owns(stack[u][i])'
    BY DEF HeldInv
  <2>1. Owns(stack'[u][i]) /\ stack'[u][i].f # c
    BY <1>1, LeaveFrameInvs
  <2> QED BY <1>1, <1>4, <1>5, <1>6, <2>1 DEF Owns
<1>10. RunInv'
  BY <1>1, LeaveFrameInvs DEF RunInv
<1>11. CellInv'
  <2>1. ASSUME NEW k \in 0..n
        PROVE  stamp'[calls'[k]] \in 1..clock' /\ runs'[calls'[k]] = 0 /\ calls'[k] \notin done'
    <3>1. CASE k = n
      BY <1>1, <1>2, <1>3, <1>4, <1>6, <3>1
    <3>2. CASE k \in 0..(n - 1)
      <4>1. calls'[k] = calls[k] /\ stamp'[calls'[k]] = stamp[calls[k]]
        BY <1>2, <1>4, <1>6, <1>7, <3>2
      <4>2. stamp[calls[k]] \in 1..clock /\ runs[calls[k]] = 0 /\ calls[k] \notin done
        BY <1>2, <3>2 DEF CellInv
      <4> QED BY <1>1, <1>2, <4>1, <4>2
    <3> QED BY <1>2, <3>1, <3>2
  <2> QED BY <1>1, <1>2, <2>1 DEF CellInv
<1>12. KeptInv'
  <2> SUFFICES ASSUME NEW d \in Callbacks, stamp'[d] # 0
               PROVE  \/ \E k \in 0..(n' - 1) : calls'[k] = d
                      \/ \E u \in Threads : \E i \in DOMAIN stack'[u] : stack'[u][i].f = d
                      \/ d \in done'
    BY DEF KeptInv
  <2>1. CASE d = c
    BY <1>4, <1>5, <2>1
  <2>2. CASE d # c
    <3>1. stamp[d] # 0
      BY <1>6, <2>2
    <3>2. \/ \E k \in 0..(n - 1) : calls[k] = d
          \/ \E u \in Threads : \E i \in DOMAIN stack'[u] : stack'[u][i].f = d
          \/ d \in done
      BY <1>1, <2>2, <3>1, LeaveFrameInvs
    <3>3. ASSUME NEW k \in 0..(n - 1), calls[k] = d
          PROVE  \E j \in 0..(n' - 1) : calls'[j] = d
      BY <1>4, <1>5, <3>3
    <3> QED BY <1>1, <3>2, <3>3
  <2> QED BY <2>1, <2>2
<1>13. RunsInv'
  BY <1>1, <1>2 DEF RunsInv
<1>14. phase' \notin {"main", "exited"}
  <2>1. ~ Late /\ n = 0 => size = 0
    BY DEF Late
  <2>2. size = Ran => n = 0
    BY <1>1, Unfolded
  <2> QED BY <1>1, <1>2, <2>1, <2>2, CapacityRange DEF AddCallback
<1>20. OrderInv'
  <2>1. sortedAt \in Nat /\ sortedAt <= clock
    BY <1>1, Unfolded DEF OrderInv
  <2>2. ASSUME NEW k \in 0..n, NEW m \in 0..n, k < m
        PROVE  Ordered(calls[k], calls[m])'
    <3>1. k \in 0..(n - 1)
      BY <1>2, <2>2
    <3>2. /\ calls'[k] = calls[k] /\ stamp'[calls'[k]] = stamp[calls[k]]
          /\ stamp[calls[k]] \in 1..clock
      BY <1>2, <1>4, <1>6, <1>7, <3>1 DEF CellInv
    <3>3. CASE m = n
      <4>1. calls'[m] = c /\ stamp'[calls'[m]] = clock + 1
        BY <1>4, <1>6, <3>3
      <4>2. stamp'[calls'[m]] > sortedAt' /\ stamp'[calls'[m]] > stamp'[calls'[k]]
        BY <1>1, <1>2, <2>1, <3>2, <4>1
      <4> QED BY <4>2 DEF Ordered, Precedes
    <3>4. CASE m \in 0..(n - 1)
      <4>1. calls'[m] = calls[m] /\ stamp'[calls'[m]] = stamp[calls[m]]
        BY <1>2, <1>4, <1>6, <1>7, <3>4
      <4>2. Ordered(calls[k], calls[m])
        BY <1>2, <2>2, <3>1, <3>4 DEF OrderInv
      <4> QED BY <1>1, <3>2, <4>1, <4>2 DEF Ordered, Precedes
    <3> QED BY <1>2, <3>3, <3>4
  <2> QED BY <1>1, <1>2, <2>1, <2>2 DEF OrderInv
<1> QED BY <1>20, <1>8, <1>9, <1>10, <1>11, <1>12, <1>13, <1>14 DEF CustodyInv

\* The sort keeps every registration, and arranges them by rank.
LEMMA SortCustody ==
  ASSUME NEW t \in Threads
  PROVE  IInv /\ CustodyInv /\ Sort(t) => CustodyInv'
<1> SUFFICES ASSUME IInv, CustodyInv, Sort(t) PROVE CustodyInv'
  OBVIOUS
<1>1. /\ phase = "constructor" /\ phase' = "draining" /\ sortedAt' = clock
      /\ stack' = stack /\ n' = n /\ size' = size
      /\ clock' = clock /\ stamp' = stamp /\ runs' = runs /\ done' = done
      /\ calls' = Mergesort(calls, Priority, n)
  BY DEF Sort
<1> DEFINE I == 0..(n - 1)
<1>2. /\ n \in Nat /\ clock \in Nat /\ stamp \in [Callbacks -> Nat]
      /\ UniqueInv /\ HeldInv /\ RunInv /\ CellInv /\ OrderInv /\ KeptInv /\ RunsInv
      /\ \A k \in I : calls[k] \in Callbacks
  BY <1>1, Unfolded
<1>3. PICK p \in [I -> I] :
        /\ InOrder(p, Falling(calls, Priority, I), 0, n - 1)
        /\ \A k \in I : calls'[k] = calls[p[k]]
  BY <1>1, SortArranges
<1>4. /\ \A k \in I : p[k] \in I
      /\ \A y \in I : \E x \in I : p[x] = y
      /\ \A x, y \in I : x < y => <<p[x], p[y]>> \in Falling(calls, Priority, I)
  BY <1>3 DEF InOrder
<1>5. UniqueInv' /\ RunInv' /\ RunsInv'
  BY <1>1, <1>2 DEF UniqueInv, RunInv, RunsInv
<1>6. HeldInv'
  <2> SUFFICES ASSUME NEW u \in Threads, NEW i \in DOMAIN stack[u], stack[u][i].f \in Callbacks
               PROVE  Owns(stack[u][i])'
    BY <1>1 DEF HeldInv
  <2>1. Owns(stack[u][i])
    BY <1>2 DEF HeldInv
  <2>2. \A k \in I : calls[k] # stack[u][i].f
    BY <2>1 DEF Owns
  <2>3. ASSUME NEW k \in I PROVE calls'[k] # stack[u][i].f
    <3>1. p[k] \in I /\ calls'[k] = calls[p[k]]
      BY <1>3, <1>4
    <3> HIDE DEF I
    <3> QED BY <2>2, <3>1
  <2> QED BY <1>1, <2>1, <2>3 DEF Owns
<1>7. CellInv'
  <2>1. \A k \in I : stamp[calls[k]] \in 1..clock /\ runs[calls[k]] = 0 /\ calls[k] \notin done
    BY <1>2 DEF CellInv
  <2>2. ASSUME NEW k \in I
        PROVE  stamp[calls'[k]] \in 1..clock /\ runs[calls'[k]] = 0 /\ calls'[k] \notin done
    <3>1. p[k] \in I /\ calls'[k] = calls[p[k]]
      BY <1>3, <1>4
    <3> HIDE DEF I
    <3> QED BY <2>1, <3>1
  <2> QED BY <1>1, <2>2 DEF CellInv
<1>8. OrderInv'
  <2>1. ASSUME NEW k \in I, NEW m \in I, k < m
        PROVE  Ordered(calls[k], calls[m])'
    <3>1. /\ p[k] \in I /\ p[m] \in I /\ p[k] \in Int /\ p[m] \in Int
          /\ calls[p[k]] \in Callbacks /\ calls[p[m]] \in Callbacks
          /\ calls'[k] = calls[p[k]] /\ calls'[m] = calls[p[m]]
      <4>1. p[k] \in I /\ p[m] \in I
        BY <1>4
      <4>2. p[k] \in Int /\ p[m] \in Int
        BY <1>2, <4>1
      <4> HIDE DEF I
      <4> QED BY <1>2, <1>3, <4>1, <4>2
    <3>2. \/ Priority[calls[p[m]]] > Priority[calls[p[k]]]
          \/ Priority[calls[p[m]]] = Priority[calls[p[k]]] /\ p[m] < p[k]
      <4>1. /\ Priority[calls[p[k]]] \in Int /\ Priority[calls[p[m]]] \in Int
        BY <3>1, MainAssumption
      <4>2. \/ Priority[calls[p[k]]] < Priority[calls[p[m]]]
            \/ Priority[calls[p[k]]] = Priority[calls[p[m]]] /\ p[k] > p[m]
        BY <1>4, <2>1, FallingPair
      <4> QED BY <3>1, <4>1, <4>2
    <3>3. stamp[calls[p[k]]] <= clock /\ stamp[calls[p[m]]] <= clock
      BY <1>2, <3>1 DEF CellInv
    <3>4. p[m] < p[k] => stamp[calls[p[m]]] < stamp[calls[p[k]]]
      BY <1>1, <1>2, <3>1 DEF OrderInv, Ordered
    <3> QED BY <1>1, <3>1, <3>2, <3>3, <3>4 DEF Ordered, Precedes
  <2> QED BY <1>1, <1>2, <2>1 DEF OrderInv
<1>9. KeptInv'
  <2> SUFFICES ASSUME NEW d \in Callbacks, stamp[d] # 0
               PROVE  \/ \E k \in I : calls'[k] = d
                      \/ \E u \in Threads : \E i \in DOMAIN stack[u] : stack[u][i].f = d
                      \/ d \in done
    BY <1>1 DEF KeptInv
  <2>1. ASSUME NEW k \in I, calls[k] = d
        PROVE  \E j \in I : calls'[j] = d
    BY <1>3, <1>4, <2>1
  <2> QED BY <1>2, <2>1 DEF KeptInv
<1> QED BY <1>1, <1>5, <1>6, <1>7, <1>8, <1>9 DEF CustodyInv

\* A registration passes from the topmost cell to the frame of the drain.
LEMMA PopCustody ==
  ASSUME NEW t \in Threads
  PROVE  IInv /\ CustodyInv /\ Pop(t) => CustodyInv'
<1> SUFFICES ASSUME IInv, CustodyInv, Pop(t) PROVE CustodyInv'
  OBVIOUS
<1> DEFINE fr == [op |-> "run", pc |-> "call", f |-> Last]
<1>1. /\ stack[t] # << >> /\ Top(t).pc = "locked" /\ Top(t).op = "run"
      /\ Become(t, fr) /\ n > 0 /\ n' = n - 1
      /\ phase # "aborted" /\ phase' = phase /\ size' = size /\ calls' = calls
      /\ clock' = clock /\ stamp' = stamp /\ sortedAt' = sortedAt /\ runs' = runs /\ done' = done
  BY DEF Pop, At, Alive, SomeLeft, ghosts
<1>2. /\ stack \in [Threads -> Seq(Frame)] /\ n \in Nat
      /\ UniqueInv /\ HeldInv /\ RunInv /\ CellInv /\ OrderInv /\ KeptInv /\ RunsInv
      /\ \A k \in 0..(n - 1) : k \in DOMAIN calls /\ calls[k] \in Callbacks
      /\ phase \in {"main", "exited"} => size = Ran
      /\ NoCallback \notin Callbacks
  BY <1>1, Unfolded
<1>3. /\ n - 1 \in 0..(n - 1)
      /\ 0..(n - 1) = 0..(n' - 1) \cup {n - 1}
      /\ n - 1 \notin 0..(n' - 1)
      /\ \A k \in 0..(n' - 1) : k < n - 1
  BY <1>1, <1>2
<1>4. Last \in Callbacks
  BY <1>2, <1>3 DEF Last
<1>5. fr \in Frame /\ fr.op = "run" /\ fr.pc = "call" /\ fr.f = Last
  BY <1>4 DEF Frame, Ops, Pcs
<1> HIDE DEF fr
<1>6. /\ Len(stack[t]) \in DOMAIN stack[t]
      /\ Top(t) = stack[t][Len(stack[t])]
      /\ \A u \in Threads : DOMAIN stack'[u] = DOMAIN stack[u]
      /\ \A u \in Threads : \A i \in DOMAIN stack[u] :
           stack'[u][i] = IF u = t /\ i = Len(stack[t]) THEN fr ELSE stack[u][i]
  BY <1>1, <1>2, <1>5, BecomeFrames
<1>7. Top(t).f = NoCallback /\ t = Main /\ Len(stack[t]) = 1 /\ phase \in {"constructor", "draining"}
  BY <1>1, <1>2, <1>6 DEF RunInv
<1>9. ASSUME NEW k \in 0..(n' - 1)
      PROVE  calls[k] # Last
  <2>1. k \in 0..(n - 1) /\ Ordered(calls[k], Last)
    BY <1>2, <1>3, <1>9 DEF OrderInv, Last
  <2> QED BY <1>1, <1>4, <2>1, Unfolded, OrderedDiffer
<1>10. ASSUME NEW u \in Threads, NEW i \in DOMAIN stack[u], stack[u][i].f \in Callbacks
       PROVE  stack[u][i].f # Last
  BY <1>2, <1>3, <1>10 DEF HeldInv, Owns, Last
<1>11. UniqueInv'
  <2> SUFFICES ASSUME NEW u \in Threads, NEW i \in DOMAIN stack[u], stack'[u][i].f \in Callbacks,
                      NEW v \in Threads, NEW j \in DOMAIN stack[v], stack'[v][j].f = stack'[u][i].f
               PROVE  v = u /\ j = i
    BY <1>6 DEF UniqueInv
  <2> QED BY <1>2, <1>5, <1>6, <1>10 DEF UniqueInv
<1>12. HeldInv'
  <2>1. SUFFICES ASSUME NEW u \in Threads, NEW i \in DOMAIN stack[u], stack'[u][i].f \in Callbacks
                 PROVE  Owns(stack[u][i])'
    BY <1>6 DEF HeldInv
  <2>2. CASE u = t /\ i = Len(stack[t])
    <3>1. stack'[u][i] = fr
      BY <1>6, <2>2
    <3>2. Last \notin done /\ runs[Last] = 0
      BY <1>2, <1>3 DEF CellInv, Last
    <3> QED BY <1>1, <1>5, <1>9, <3>1, <3>2 DEF Owns
  <2>3. CASE ~ (u = t /\ i = Len(stack[t]))
    <3>1. stack'[u][i] = stack[u][i] /\ Owns(stack[u][i])
      BY <1>2, <1>6, <2>1, <2>3 DEF HeldInv
    <3> QED BY <1>1, <1>3, <3>1 DEF Owns
  <2> QED BY <2>2, <2>3
<1>13. RunInv'
  <2> SUFFICES ASSUME NEW u \in Threads, NEW i \in DOMAIN stack[u], stack'[u][i].op = "run"
               PROVE  /\ u = Main /\ i = 1 /\ phase' \in {"constructor", "draining"}
                      /\ stack'[u][i].pc \notin {"call", "calling"} => stack'[u][i].f = NoCallback
    BY <1>6 DEF RunInv
  <2> QED BY <1>1, <1>2, <1>5, <1>6, <1>7 DEF RunInv
<1>14. CellInv' /\ RunsInv'
  BY <1>1, <1>2, <1>3 DEF CellInv, RunsInv
<1>15. KeptInv'
  <2>1. SUFFICES ASSUME NEW d \in Callbacks, stamp[d] # 0
                 PROVE  \/ \E k \in 0..(n' - 1) : calls[k] = d
                        \/ \E u \in Threads : \E i \in DOMAIN stack'[u] : stack'[u][i].f = d
                        \/ d \in done
    BY <1>1 DEF KeptInv
  <2>2. CASE d = Last
    BY <1>5, <1>6, <2>2
  <2>3. CASE \E k \in 0..(n - 1) : calls[k] = d /\ d # Last
    BY <1>3, <2>3 DEF Last
  <2>4. ASSUME NEW u \in Threads, NEW i \in DOMAIN stack[u], stack[u][i].f = d
        PROVE  i \in DOMAIN stack'[u] /\ stack'[u][i].f = d
    BY <1>2, <1>6, <1>7, <2>4
  <2> QED BY <1>2, <2>1, <2>2, <2>3, <2>4 DEF KeptInv
<1>20. OrderInv'
  BY <1>1, <1>2, Unfolded, OrderKept
<1> QED BY <1>20, <1>1, <1>2, <1>11, <1>12, <1>13, <1>14, <1>15 DEF CustodyInv, Ran

\* The drain ends with nothing in the array and nothing in its frame.
LEMMA DrainedCustody ==
  ASSUME NEW t \in Threads
  PROVE  IInv /\ CustodyInv /\ Drained(t) => CustodyInv'
<1> SUFFICES ASSUME IInv, CustodyInv, Drained(t) PROVE CustodyInv'
  OBVIOUS
<1>1. /\ stack[t] # << >> /\ Top(t).pc = "locked" /\ Top(t).op = "run"
      /\ Leave(t) /\ ~ (n > 0) /\ n' = 0 /\ size' = Ran
      /\ phase # "aborted" /\ phase' = "main"
      /\ clock' = clock /\ stamp' = stamp /\ sortedAt' = sortedAt /\ runs' = runs /\ done' = done
  BY DEF Drained, At, Alive, SomeLeft, ghosts
<1>2. /\ stack \in [Threads -> Seq(Frame)] /\ n \in Nat
      /\ UniqueInv /\ HeldInv /\ RunInv /\ RunsInv
      /\ NoCallback \notin Callbacks
  BY <1>1, Unfolded
<1>3. n = 0 /\ 0..(n' - 1) = {} /\ 0..(n - 1) = {}
  BY <1>1, <1>2
<1>4. Top(t).f = NoCallback
  BY <1>1, <1>2, TopLemma DEF RunInv
<1>5. HeldInv'
  BY <1>1, <1>3, LeaveFrameInvs DEF HeldInv, Owns
<1>6. RunInv'
  BY <1>1, LeaveFrameInvs DEF RunInv
<1>7. CellInv'
  BY <1>3 DEF CellInv
<1>8. KeptInv'
  BY <1>1, <1>2, <1>3, <1>4, LeaveFrameInvs DEF KeptInv
<1>9. RunsInv'
  BY <1>1, <1>2 DEF RunsInv
<1>10. UniqueInv'
  BY <1>1, LeaveFrameInvs
<1>11. size' = Ran'
  BY <1>1 DEF Ran
<1>20. OrderInv'
  BY <1>1, <1>3, Unfolded DEF OrderInv
<1> QED BY <1>20, <1>5, <1>6, <1>7, <1>8, <1>9, <1>10, <1>11 DEF CustodyInv

\* The body of what a frame holds is entered: the frame says so from then on.
LEMMA CallCustody ==
  ASSUME NEW t \in Threads
  PROVE  IInv /\ CustodyInv /\ Call(t) => CustodyInv'
<1> SUFFICES ASSUME IInv, CustodyInv, Call(t) PROVE CustodyInv'
  OBVIOUS
<1> DEFINE fr == [Top(t) EXCEPT !.pc = "calling"]
<1>1. /\ stack[t] # << >> /\ Top(t).pc = "call"
      /\ Become(t, fr)
      /\ phase # "aborted" /\ phase' = phase
      /\ n' = n /\ size' = size /\ calls' = calls
      /\ runs' = [runs EXCEPT ![Top(t).f] = @ + 1]
      /\ clock' = clock /\ stamp' = stamp /\ sortedAt' = sortedAt /\ done' = done
  BY DEF Call, At, Goto, Alive, array
<1>2. /\ stack \in [Threads -> Seq(Frame)] /\ runs \in [Callbacks -> Nat]
      /\ UniqueInv /\ HeldInv /\ RunInv /\ CellInv /\ OrderInv /\ KeptInv /\ RunsInv
      /\ \A k \in 0..(n - 1) : calls[k] \in Callbacks
      /\ phase \in {"main", "exited"} => size = Ran
  BY <1>1, Unfolded
<1>3. Top(t) \in Frame /\ Top(t).f \in Callbacks
  BY <1>1, ActiveFrame DEF IInv, FrameOK
<1>4. fr \in Frame /\ fr.f = Top(t).f /\ fr.op = Top(t).op /\ fr.pc = "calling"
  BY <1>3 DEF Frame, Pcs
<1> HIDE DEF fr
<1>5. /\ Len(stack[t]) \in DOMAIN stack[t]
      /\ Top(t) = stack[t][Len(stack[t])]
      /\ \A u \in Threads : DOMAIN stack'[u] = DOMAIN stack[u]
      /\ \A u \in Threads : \A i \in DOMAIN stack[u] :
           stack'[u][i] = IF u = t /\ i = Len(stack[t]) THEN fr ELSE stack[u][i]
  BY <1>1, <1>2, <1>4, BecomeFrames
<1>6. Owns(Top(t)) /\ runs[Top(t).f] = 0
  BY <1>1, <1>2, <1>3, <1>5 DEF HeldInv, Owns
<1>7. runs'[Top(t).f] = 1 /\ \A d \in Callbacks : d # Top(t).f => runs'[d] = runs[d]
  BY <1>1, <1>2, <1>3, <1>6
<1>8. ASSUME NEW u \in Threads, NEW i \in DOMAIN stack[u]
      PROVE  stack'[u][i].f = stack[u][i].f /\ stack'[u][i].op = stack[u][i].op
  BY <1>4, <1>5
<1>9. UniqueInv'
  <2> SUFFICES ASSUME NEW u \in Threads, NEW i \in DOMAIN stack[u], stack'[u][i].f \in Callbacks,
                      NEW v \in Threads, NEW j \in DOMAIN stack[v], stack'[v][j].f = stack'[u][i].f
               PROVE  v = u /\ j = i
    BY <1>5 DEF UniqueInv
  <2>1. stack[u][i].f \in Callbacks /\ stack[v][j].f = stack[u][i].f
    BY <1>8
  <2> QED BY <1>2, <2>1 DEF UniqueInv
<1>10. HeldInv'
  <2>1. SUFFICES ASSUME NEW u \in Threads, NEW i \in DOMAIN stack[u], stack'[u][i].f \in Callbacks
                 PROVE  Owns(stack[u][i])'
    BY <1>5 DEF HeldInv
  <2>2. CASE u = t /\ i = Len(stack[t])
    BY <1>1, <1>4, <1>5, <1>6, <1>7, <2>2 DEF Owns
  <2>3. CASE ~ (u = t /\ i = Len(stack[t]))
    <3>1. stack'[u][i] = stack[u][i] /\ Owns(stack[u][i])
      BY <1>2, <1>5, <2>1, <2>3 DEF HeldInv
    <3>2. stack[u][i].f # Top(t).f
      BY <1>2, <1>3, <1>5, <2>3 DEF UniqueInv
    <3> QED BY <1>1, <1>7, <2>1, <3>1, <3>2 DEF Owns
  <2> QED BY <2>2, <2>3
<1>11. RunInv'
  <2> SUFFICES ASSUME NEW u \in Threads, NEW i \in DOMAIN stack[u], stack'[u][i].op = "run"
               PROVE  /\ u = Main /\ i = 1 /\ phase' \in {"constructor", "draining"}
                      /\ stack'[u][i].pc \notin {"call", "calling"} => stack'[u][i].f = NoCallback
    BY <1>5 DEF RunInv
  <2> QED BY <1>1, <1>2, <1>4, <1>5 DEF RunInv
<1>12. CellInv'
  <2>1. \A k \in 0..(n - 1) : runs'[calls[k]] = runs[calls[k]]
    BY <1>2, <1>6, <1>7 DEF Owns
  <2> QED BY <1>1, <1>2, <2>1 DEF CellInv
<1>13. KeptInv'
  <2>1. SUFFICES ASSUME NEW d \in Callbacks, stamp[d] # 0
                 PROVE  \/ \E k \in 0..(n - 1) : calls[k] = d
                        \/ \E u \in Threads : \E i \in DOMAIN stack'[u] : stack'[u][i].f = d
                        \/ d \in done
    BY <1>1 DEF KeptInv
  <2>2. ASSUME NEW u \in Threads, NEW i \in DOMAIN stack[u], stack[u][i].f = d
        PROVE  i \in DOMAIN stack'[u] /\ stack'[u][i].f = d
    BY <1>5, <1>8, <2>2
  <2> QED BY <1>2, <2>1, <2>2 DEF KeptInv
<1>14. RunsInv'
  <2>1. Top(t).f \notin done
    BY <1>6 DEF Owns
  <2>2. done \subseteq Callbacks
    BY DEF IInv, TypeOK
  <2> QED BY <1>1, <1>2, <1>7, <2>1, <2>2 DEF RunsInv
<1>20. OrderInv'
  BY <1>1, Unfolded, OrderKept
<1> QED BY <1>20, <1>1, <1>2, <1>9, <1>10, <1>11, <1>12, <1>13, <1>14 DEF CustodyInv, Ran

\* The drain has returned from a body, and gives up what it held.
LEMMA ReturnToDrainCustody ==
  ASSUME NEW t \in Threads, IInv, CustodyInv, Return(t), Top(t).op = "run"
  PROVE  CustodyInv'
<1> DEFINE fr == [op |-> "run", pc |-> "lock", f |-> NoCallback]
<1>1. /\ stack[t] # << >> /\ Top(t).pc = "calling"
      /\ Become(t, fr)
      /\ phase # "aborted" /\ phase' = phase
      /\ n' = n /\ size' = size /\ calls' = calls
      /\ done' = done \cup {Top(t).f}
      /\ clock' = clock /\ stamp' = stamp /\ sortedAt' = sortedAt /\ runs' = runs
  BY DEF Return, At, Alive, array
<1>2. /\ stack \in [Threads -> Seq(Frame)]
      /\ UniqueInv /\ HeldInv /\ RunInv /\ CellInv /\ OrderInv /\ KeptInv /\ RunsInv
      /\ phase \in {"main", "exited"} => size = Ran
      /\ NoCallback \notin Callbacks
  BY <1>1, Unfolded
<1>3. Top(t) \in Frame /\ Top(t).f \in Callbacks
  BY <1>1, ActiveFrame DEF IInv, FrameOK
<1>4. fr \in Frame /\ fr.f = NoCallback /\ fr.op = "run" /\ fr.pc = "lock"
  BY DEF Frame, Ops, Pcs
<1> HIDE DEF fr
<1>5. /\ Len(stack[t]) \in DOMAIN stack[t]
      /\ Top(t) = stack[t][Len(stack[t])]
      /\ \A u \in Threads : DOMAIN stack'[u] = DOMAIN stack[u]
      /\ \A u \in Threads : \A i \in DOMAIN stack[u] :
           stack'[u][i] = IF u = t /\ i = Len(stack[t]) THEN fr ELSE stack[u][i]
  BY <1>1, <1>2, <1>4, BecomeFrames
<1>6. Owns(Top(t)) /\ runs[Top(t).f] = 1
  BY <1>1, <1>2, <1>3, <1>5 DEF HeldInv, Owns
<1>7. UniqueInv'
  <2> SUFFICES ASSUME NEW u \in Threads, NEW i \in DOMAIN stack[u], stack'[u][i].f \in Callbacks,
                      NEW v \in Threads, NEW j \in DOMAIN stack[v], stack'[v][j].f = stack'[u][i].f
               PROVE  v = u /\ j = i
    BY <1>5 DEF UniqueInv
  <2> QED BY <1>2, <1>4, <1>5 DEF UniqueInv
<1>8. HeldInv'
  <2>1. SUFFICES ASSUME NEW u \in Threads, NEW i \in DOMAIN stack[u], stack'[u][i].f \in Callbacks
                 PROVE  Owns(stack[u][i])'
    BY <1>5 DEF HeldInv
  <2>2. ~ (u = t /\ i = Len(stack[t]))
    BY <1>2, <1>4, <1>5, <2>1
  <2>3. stack'[u][i] = stack[u][i] /\ Owns(stack[u][i])
    BY <1>2, <1>5, <2>1, <2>2 DEF HeldInv
  <2>4. stack[u][i].f # Top(t).f
    BY <1>2, <1>3, <1>5, <2>2 DEF UniqueInv
  <2> QED BY <1>1, <2>3, <2>4 DEF Owns
<1>9. RunInv'
  <2> SUFFICES ASSUME NEW u \in Threads, NEW i \in DOMAIN stack[u], stack'[u][i].op = "run"
               PROVE  /\ u = Main /\ i = 1 /\ phase' \in {"constructor", "draining"}
                      /\ stack'[u][i].pc \notin {"call", "calling"} => stack'[u][i].f = NoCallback
    BY <1>5 DEF RunInv
  <2> QED BY <1>1, <1>2, <1>4, <1>5 DEF RunInv
<1>10. CellInv'
  BY <1>1, <1>2, <1>6 DEF CellInv, Owns
<1>11. KeptInv'
  <2>1. SUFFICES ASSUME NEW d \in Callbacks, stamp[d] # 0
                 PROVE  \/ \E k \in 0..(n - 1) : calls[k] = d
                        \/ \E u \in Threads : \E i \in DOMAIN stack'[u] : stack'[u][i].f = d
                        \/ d \in done'
    BY <1>1 DEF KeptInv
  <2>2. ASSUME NEW u \in Threads, NEW i \in DOMAIN stack[u], stack[u][i].f = d
        PROVE  i \in DOMAIN stack'[u] /\ (stack'[u][i].f = d \/ d \in done')
    BY <1>1, <1>5, <2>2
  <2> QED BY <1>1, <1>2, <2>1, <2>2 DEF KeptInv
<1>12. RunsInv'
  BY <1>1, <1>2, <1>6 DEF RunsInv
<1>20. OrderInv'
  BY <1>1, Unfolded, OrderKept
<1> QED BY <1>20, <1>1, <1>2, <1>7, <1>8, <1>9, <1>10, <1>11, <1>12 DEF CustodyInv, Ran

\* A late registration returns when the body of its callback has.
LEMMA ReturnToClientCustody ==
  ASSUME NEW t \in Threads, IInv, CustodyInv, Return(t), Top(t).op # "run"
  PROVE  CustodyInv'
<1>1. /\ stack[t] # << >> /\ Top(t).pc = "calling"
      /\ Leave(t)
      /\ phase # "aborted" /\ phase' = phase
      /\ n' = n /\ size' = size /\ calls' = calls
      /\ done' = done \cup {Top(t).f}
      /\ clock' = clock /\ stamp' = stamp /\ sortedAt' = sortedAt /\ runs' = runs
  BY DEF Return, At, Alive, array
<1>2. /\ stack \in [Threads -> Seq(Frame)]
      /\ HeldInv /\ CellInv /\ RunsInv
      /\ phase \in {"main", "exited"} => size = Ran
  BY <1>1, Unfolded
<1>3. Top(t).f \in Callbacks
  BY <1>1, ActiveFrame DEF IInv, FrameOK
<1>4. Owns(Top(t)) /\ runs[Top(t).f] = 1
  BY <1>1, <1>2, <1>3, TopLemma DEF HeldInv, Owns
<1>5. HeldInv'
  <2> SUFFICES ASSUME NEW u \in Threads, NEW i \in DOMAIN stack'[u], stack'[u][i].f \in Callbacks
               PROVE  Owns(stack[u][i])'
    BY DEF HeldInv
  <2>1. Owns(stack'[u][i]) /\ stack'[u][i].f # Top(t).f
    BY <1>1, LeaveFrameInvs
  <2> QED BY <1>1, <2>1 DEF Owns
<1>6. UniqueInv'
  BY <1>1, LeaveFrameInvs
<1>7. RunInv'
  BY <1>1, LeaveFrameInvs DEF RunInv
<1>8. CellInv'
  BY <1>1, <1>2, <1>4 DEF CellInv, Owns
<1>9. KeptInv'
  <2> SUFFICES ASSUME NEW d \in Callbacks, stamp[d] # 0
               PROVE  \/ \E k \in 0..(n - 1) : calls[k] = d
                      \/ \E u \in Threads : \E i \in DOMAIN stack'[u] : stack'[u][i].f = d
                      \/ d \in done'
    BY <1>1 DEF KeptInv
  <2> QED BY <1>1, LeaveFrameInvs
<1>10. RunsInv'
  BY <1>1, <1>2, <1>4 DEF RunsInv
<1>20. OrderInv'
  BY <1>1, Unfolded, OrderKept
<1> QED BY <1>20, <1>1, <1>2, <1>5, <1>6, <1>7, <1>8, <1>9, <1>10 DEF CustodyInv, Ran

\* Loading and registering start with a frame that is new.
LEMMA BeginCustody ==
  ASSUME IInv, CustodyInv, BeginLoad \/ \E t \in Threads, c \in Callbacks : BeginAdd(t, c)
  PROVE  CustodyInv'
<1>2. CASE BeginLoad
  <2> DEFINE fr == [op |-> "run", pc |-> "once", f |-> NoCallback]
  <2>1. fr \in Frame /\ fr.op = "run" /\ fr.pc = "once" /\ fr.f = NoCallback /\ fr.f \notin Callbacks
    BY SentinelAssumption DEF Frame, Ops, Pcs
  <2>2. Enter(Main, fr) /\ Main \in Threads
    BY <1>2, MainAssumption DEF BeginLoad
  <2> HIDE DEF fr
  <2> QED BY <1>2, <2>1, <2>2, EnterCustody DEF BeginLoad
<1>3. ASSUME NEW t \in Threads, NEW c \in Callbacks, BeginAdd(t, c) PROVE CustodyInv'
  <2> DEFINE fr == [op |-> "add", pc |-> "once", f |-> c]
  <2>1. fr \in Frame /\ fr.op = "add" /\ fr.pc = "once" /\ fr.f = c
    BY DEF Frame, Ops, Pcs
  <2>2. Enter(t, fr)
    BY <1>3 DEF BeginAdd
  <2> HIDE DEF fr
  <2> QED BY <1>3, <2>1, <2>2, EnterCustody DEF BeginAdd, Alive
<1> QED BY <1>2, <1>3

\* A step that leaves the stacks, the array and the ghosts alone.
LEMMA UnchangedCustody ==
  ASSUME CustodyInv, UNCHANGED <<stack, array, ghosts>>,
         phase' = phase \/ (phase = "main" /\ phase' = "exited")
  PROVE  CustodyInv'
  BY DEF CustodyInv, UniqueInv, HeldInv, Owns, RunInv, CellInv, OrderInv, Ordered, Precedes,
         KeptInv, RunsInv, Ran, array, ghosts

LEMMA InitCustody == Init => CustodyInv
<1> SUFFICES ASSUME Init PROVE CustodyInv
  OBVIOUS
<1>1. /\ \A t \in Threads : stack[t] = << >>
      /\ n = 0 /\ phase = "loading" /\ done = {} /\ sortedAt = 0 /\ clock = 0
      /\ \A c \in Callbacks : stamp[c] = 0 /\ runs[c] = 0
  BY DEF Init, ControlInit
<1>2. 0..(n - 1) = {}
  BY <1>1
<1> QED BY <1>1, <1>2 DEF CustodyInv, UniqueInv, HeldInv, RunInv, CellInv, OrderInv, KeptInv, RunsInv

LEMMA NextCustody == IInv /\ CustodyInv /\ [Next]_vars => CustodyInv'
<1> SUFFICES ASSUME IInv, CustodyInv, [Next]_vars PROVE CustodyInv'
  OBVIOUS
<1>1. CASE BeginLoad \/ \E t \in Threads, c \in Callbacks : BeginAdd(t, c)
  BY <1>1, BeginCustody
<1>2. CASE Exit
  BY <1>2, UnchangedCustody DEF Exit
<1>3. ASSUME NEW t \in Threads, Step(t) PROVE CustodyInv'
  <2>1. CASE AbortOnRealloc(t)
    BY <2>1 DEF AbortOnRealloc, CustodyInv
  <2>3. CASE AbortOnMalloc(t)
    BY <2>3 DEF AbortOnMalloc, CustodyInv
  <2>2. CASE Return(t)
    BY <2>2, ReturnToDrainCustody, ReturnToClientCustody
  <2> QED BY <1>3, <2>1, <2>2, <2>3, SynchroniseCustody, RedirectCustody, AddCallbackCustody,
             SortCustody, PopCustody, DrainedCustody, CallCustody DEF Step
<1>4. CASE UNCHANGED vars
  BY <1>4, UnchangedCustody DEF vars
<1> QED BY <1>1, <1>2, <1>3, <1>4 DEF Next, Terminated

\* In every state, whatever was added is in one cell, in one frame, or done.
THEOREM Custody == Spec => [](IInv /\ CustodyInv)
<1>1. Init => IInv /\ CustodyInv
  BY InitIInv, InitCustody
<1>2. (IInv /\ CustodyInv) /\ [Next]_vars => (IInv /\ CustodyInv)'
  BY NextIInv, NextCustody
<1> QED BY <1>1, <1>2, PTL DEF Spec

(***************************************************************************)
(* What follows                                                            *)
(***************************************************************************)

LEMMA CustodyIsOnce == IInv /\ CustodyInv => ExactlyOnce
<1> SUFFICES ASSUME IInv, CustodyInv, phase # "aborted", NEW c \in Callbacks
             PROVE  /\ runs[c] <= 1
                    /\ c \in done => runs[c] = 1 /\ c \notin Queued /\ ~ InFlight(c)
                    /\ c \in Queued => ~ InFlight(c) /\ runs[c] = 0
                    /\ \A p, q \in Holders(c) : p = q
                    /\ \A i, j \in 0..(n - 1) : calls[i] = c /\ calls[j] = c => i = j
                    /\ stamp[c] # 0 => c \in Queued \/ InFlight(c) \/ c \in done
  BY DEF ExactlyOnce
<1>1. /\ n \in Nat /\ clock \in Nat
      /\ UniqueInv /\ HeldInv /\ RunInv /\ CellInv /\ OrderInv /\ KeptInv /\ RunsInv
  BY Unfolded
<1>2. \A p \in Holders(c) : \E t \in Threads : \E i \in DOMAIN stack[t] :
        p = <<t, i>> /\ stack[t][i].f = c
  BY DEF Holders, Frames, FrameAt
<1>3. InFlight(c) <=> \E t \in Threads : \E i \in DOMAIN stack[t] : stack[t][i].f = c
  <2>1. ASSUME NEW t \in Threads, NEW i \in DOMAIN stack[t], stack[t][i].f = c
        PROVE  <<t, i>> \in Holders(c)
    BY <2>1 DEF Holders, Frames, FrameAt
  <2> QED BY <1>2, <2>1 DEF InFlight
<1>4. c \in Queued <=> \E k \in 0..(n - 1) : calls[k] = c
  BY DEF Queued
<1>5. runs[c] <= 1
  BY <1>1 DEF RunsInv
<1>6. c \in done => runs[c] = 1 /\ c \notin Queued /\ ~ InFlight(c)
  BY <1>1, <1>3, <1>4 DEF RunsInv, CellInv, HeldInv, Owns
<1>7. c \in Queued => ~ InFlight(c) /\ runs[c] = 0
  BY <1>1, <1>3, <1>4 DEF CellInv, HeldInv, Owns
<1>8. \A p, q \in Holders(c) : p = q
  BY <1>1, <1>2 DEF UniqueInv
<1>9. ASSUME NEW i \in 0..(n - 1), NEW j \in 0..(n - 1), calls[i] = c, calls[j] = c
      PROVE  i = j
  <2>1. ~ Ordered(c, c)
    BY OrderedDiffer, Unfolded
  <2>2. ~ (i < j) /\ ~ (j < i)
    BY <1>1, <1>9, <2>1 DEF OrderInv
  <2> QED BY <1>1, <2>2
<1>10. stamp[c] # 0 => c \in Queued \/ InFlight(c) \/ c \in done
  BY <1>1, <1>3, <1>4 DEF KeptInv
<1> QED BY <1>5, <1>6, <1>7, <1>8, <1>9, <1>10

\* No registration is lost, and no callback is executed twice.
THEOREM NeitherLostNorTwice == Spec => []ExactlyOnce
  BY Custody, CustodyIsOnce, PTL

\* When main() starts, everything that was ever queued has been executed to
\* its end, and nothing is queued any more.
THEOREM MainFindsAllDone == Spec => []InitialisedBeforeMain
<1>1. IInv /\ CustodyInv => InitialisedBeforeMain
  <2> SUFFICES ASSUME IInv, CustodyInv, phase \in {"main", "exited"}
               PROVE  n = 0 /\ \A c \in Callbacks : stamp[c] # 0 => c \in done
    BY DEF InitialisedBeforeMain
  <2>1. n = 0 /\ HeldInv /\ RunInv /\ KeptInv
    BY Unfolded
  <2>2. 0..(n - 1) = {}
    BY <2>1
  <2>3. ASSUME NEW t \in Threads, NEW i \in DOMAIN stack[t], stack[t][i].f \in Callbacks
        PROVE  stamp[stack[t][i].f] = 0
    BY <2>1, <2>3 DEF HeldInv, Owns, RunInv
  <2> QED BY <2>1, <2>2, <2>3 DEF KeptInv
<1> QED BY <1>1, Custody, PTL

\* Only a pop leads from the critical section of the drain to a call.
LEMMA OnlyPopCalls ==
  ASSUME IInv, Next, NEW t \in Threads,
         At(t, "locked"), Top(t).op = "run", At(t, "call")'
  PROVE  Pop(t)
<1>1. /\ stack \in [Threads -> Seq(Frame)]
      /\ stack[t] # << >> /\ Top(t).pc = "locked" /\ Top(t) = stack[t][Len(stack[t])]
      /\ stack'[t] # << >> /\ stack'[t][Len(stack'[t])].pc = "call"
      /\ \A i \in DOMAIN stack[t] : i < Len(stack[t]) => stack[t][i].pc = "calling"
  BY DEF IInv, ControlInv, ControlTypeOK, LockDiscipline, At, Top
<1>2. stack'[t] # stack[t]
  BY <1>1
<1>3. ASSUME NEW u \in Threads, NEW fr, Enter(u, fr), InClient(u) PROVE FALSE
  BY <1>1, <1>2, <1>3 DEF Enter, InClient, At
<1>4. ~ BeginLoad
  BY <1>1, <1>2 DEF BeginLoad, Enter
<1>5. \A u \in Threads, c \in Callbacks : ~ BeginAdd(u, c)
  BY <1>3 DEF BeginAdd
<1>6. ~ Exit /\ ~ Terminated
  BY <1>2 DEF Exit, Terminated, vars
<1>7. PICK u \in Threads : Step(u)
  BY <1>4, <1>5, <1>6 DEF Next
<1>8. u = t
  BY <1>1, <1>2, <1>7
  DEF Step, Synchronise, OnceEnter, InitLock, OncePass, AfterOnce, Lock, Redirect, AddCallback,
      AbortOnRealloc, Sort, AbortOnMalloc, Pop, Drained, Call, Return, Goto, Become, Leave
<1>9. ~ Synchronise(t) /\ ~ Redirect(t) /\ ~ AddCallback(t) /\ ~ Call(t) /\ ~ Return(t)
  BY <1>1 DEF Synchronise, OnceEnter, InitLock, OncePass, Lock, Redirect, AddCallback, Call, Return, At
<1>10. ~ AbortOnRealloc(t) /\ ~ Sort(t) /\ ~ AbortOnMalloc(t)
  BY <1>2 DEF AbortOnRealloc, Sort, AbortOnMalloc
<1>11. ~ Drained(t)
  <2> SUFFICES ASSUME Drained(t) PROVE FALSE
    OBVIOUS
  <2>1. /\ Len(stack'[t]) = Len(stack[t]) - 1
        /\ DOMAIN stack'[t] = 1..(Len(stack[t]) - 1)
        /\ \A i \in DOMAIN stack'[t] : stack'[t][i] = stack[t][i]
        /\ Len(stack[t]) \in Nat \ {0}
        /\ stack' \in [Threads -> Seq(Frame)]
    BY <1>1, LeaveLemma DEF Drained
  <2>2. Len(stack'[t]) \in DOMAIN stack'[t]
    BY <1>1, <2>1
  <2>3. /\ Len(stack'[t]) \in DOMAIN stack[t]
        /\ Len(stack'[t]) < Len(stack[t])
        /\ stack'[t][Len(stack'[t])] = stack[t][Len(stack'[t])]
    <3>1. DOMAIN stack[t] = 1..Len(stack[t])
      BY <1>1, TopLemma
    <3>2. stack'[t][Len(stack'[t])] = stack[t][Len(stack'[t])]
      BY <2>1, <2>2
    <3>3. Len(stack'[t]) \in 1..(Len(stack[t]) - 1)
      BY <2>1, <2>2
    <3> QED BY <2>1, <3>1, <3>2, <3>3
  <2> QED BY <1>1, <2>3
<1> QED BY <1>7, <1>8, <1>9, <1>10, <1>11 DEF Step

\* The drain takes the callback that precedes all others that wait: the last
\* one that was added since the sort, or else the first by rank.
THEOREM RanksAreKept == Spec => RunOrder
<1>1. ASSUME IInv, CustodyInv, Next, NEW t \in Threads,
             At(t, "locked"), Top(t).op = "run", At(t, "call")', NEW d \in Queued
      PROVE  d = Top(t)'.f \/ Precedes(Top(t)'.f, d)
  <2>1. Pop(t)
    BY <1>1, OnlyPopCalls
  <2> DEFINE fr == [op |-> "run", pc |-> "call", f |-> Last]
  <2>2. /\ stack[t] # << >> /\ n > 0 /\ Become(t, fr) /\ phase # "aborted"
        /\ phase # "constructor" /\ Top(t).op = "run"
        /\ stack \in [Threads -> Seq(Frame)]
        /\ n \in Nat /\ OrderInv
        /\ \A k \in 0..(n - 1) : calls[k] \in Callbacks
    BY <1>1, <2>1, Unfolded DEF Pop, At, SomeLeft, Alive
  <2>3. n - 1 \in 0..(n - 1) /\ Last \in Callbacks
    BY <2>2 DEF Last
  <2>4. fr \in Frame /\ fr.f = Last
    BY <2>3 DEF Frame, Ops, Pcs
  <2> HIDE DEF fr
  <2>5. Top(t)'.f = Last
    BY <2>2, <2>4, BecomeLemma DEF Top
  <2>6. PICK k \in 0..(n - 1) : calls[k] = d
    BY DEF Queued
  <2>7. phase \notin {"loading", "constructor"}
    BY <1>1, <2>2, NothingRunsEarly
  <2>8. CASE k = n - 1
    BY <2>5, <2>6, <2>8 DEF Last
  <2>9. CASE k < n - 1
    <3>1. Ordered(calls[k], calls[n - 1])
      BY <2>2, <2>3, <2>9 DEF OrderInv
    <3> QED BY <2>5, <2>6, <2>7, <3>1 DEF Last, Ordered
  <2> QED BY <2>2, <2>8, <2>9
<1>2. IInv /\ CustodyInv /\ [Next]_vars
        => [\A t \in Threads :
              At(t, "locked") /\ Top(t).op = "run" /\ At(t, "call")'
                => \A d \in Queued : d = Top(t)'.f \/ Precedes(Top(t)'.f, d)]_vars
  BY <1>1
<1> QED BY <1>2, Custody, PTL DEF Spec, RunOrder

(***************************************************************************)
(* A client sees a stack                                                   *)
(***************************************************************************)

\* What a thread is about to push or to execute is new to the stack.
LEMMA NotKnown ==
  ASSUME IInv, CustodyInv, phase # "aborted", NEW t \in Threads, stack[t] # << >>,
         Top(t).op = "add", Top(t).f \in Callbacks, ~ Executes(Top(t))
  PROVE  Top(t).f \notin Abstract!Known
<1> DEFINE c == Top(t).f
<1>1. /\ stack \in [Threads -> Seq(Frame)] /\ n \in Nat
      /\ UniqueInv /\ HeldInv /\ RunsInv
  BY Unfolded
<1>2. Owns(Top(t)) /\ runs[c] = 0
  BY <1>1, TopLemma DEF HeldInv, Owns, Executes
<1>3. \A i \in DOMAIN Waiting : Waiting[i] # c
  <2>1. Waiting = [i \in 1..n |-> calls[i - 1]]
    BY DEF Waiting
  <2>2. ASSUME NEW i \in 1..n PROVE calls[i - 1] # c
    <3>1. i - 1 \in 0..(n - 1)
      BY <1>1
    <3> QED BY <1>2, <3>1 DEF Owns
  <2> QED BY <2>1, <2>2
<1>4. c \notin Direct /\ c # Current(Main)
  BY <1>1, ShownOnce, MainAssumption
<1>5. c \notin Begun
  BY <1>2 DEF Begun
<1> QED BY <1>3, <1>4, <1>5 DEF Abstract!Known, Abstract!Waiting

\* What the stack is made of.
LEMMA SameWaiting ==
  ASSUME UNCHANGED <<array, phase, runs>>
  PROVE  Waiting' = Waiting /\ Begun' = Begun /\ Mode' = Mode
  BY DEF array, Waiting, Begun, Mode

\* An activation that starts, or that moves to the mutex, is not seen.
LEMMA EnterUnseen ==
  ASSUME IInv, NEW t \in Threads, NEW fr \in Frame, Enter(t, fr), fr.pc = "once",
         fr.op = "run" => fr.f = NoCallback
  PROVE  Current(Main)' = Current(Main) /\ Direct' = Direct
  BY EnterShown, MainAssumption DEF IInv, ControlInv, ControlTypeOK

LEMMA BeginAddUnseen ==
  ASSUME IInv, NEW t \in Threads, NEW c \in Callbacks, BeginAdd(t, c)
  PROVE  UNCHANGED Abstract!vars
<1> DEFINE fr == [op |-> "add", pc |-> "once", f |-> c]
<1>1. fr \in Frame /\ fr.op = "add" /\ fr.pc = "once"
  BY DEF Frame, Ops, Pcs
<1>2. Enter(t, fr) /\ UNCHANGED <<array, phase, ghosts>>
  BY DEF BeginAdd
<1> HIDE DEF fr
<1> QED BY <1>1, <1>2, EnterUnseen, SameWaiting DEF Abstract!vars, ghosts

LEMMA BeginLoadUnseen ==
  ASSUME IInv, BeginLoad
  PROVE  UNCHANGED Abstract!vars
<1> DEFINE fr == [op |-> "run", pc |-> "once", f |-> NoCallback]
<1>1. fr \in Frame /\ fr.op = "run" /\ fr.pc = "once" /\ fr.f = NoCallback
  BY DEF Frame, Ops, Pcs
<1>2. /\ Enter(Main, fr) /\ UNCHANGED <<array, ghosts>>
      /\ phase = "loading" /\ phase' = "constructor"
  BY DEF BeginLoad
<1> HIDE DEF fr
<1>3. Waiting' = Waiting /\ Begun' = Begun /\ Mode' = Mode
  BY <1>2 DEF array, ghosts, Waiting, Begun, Mode
<1> QED BY <1>1, <1>2, <1>3, EnterUnseen, MainAssumption DEF Abstract!vars, ghosts

LEMMA SynchroniseUnseen ==
  ASSUME IInv, CustodyInv, NEW t \in Threads, Synchronise(t)
  PROVE  UNCHANGED Abstract!vars
<1>1. /\ phase # "aborted" /\ stack[t] # << >>
      /\ Top(t).pc \in {"once", "init", "lock"}
      /\ UNCHANGED <<array, phase, ghosts>>
      /\ \/ \E pc \in {"init", "lock", "locked"} : Goto(t, pc)
         \/ Leave(t) /\ Top(t).op = "load"
  BY DEF Synchronise, Alive, OnceEnter, InitLock, OncePass, Lock, AfterOnce, At
<1>2. stack \in [Threads -> Seq(Frame)] /\ UniqueInv
  BY <1>1, Unfolded
<1>3. ~ Executes(Top(t))
  BY <1>1 DEF Executes
<1>4. CASE Leave(t) /\ Top(t).op = "load"
  <2>1. Current(Main)' = Current(Main) /\ Direct' = Direct
    BY <1>1, <1>2, <1>3, <1>4, LeaveShown, MainAssumption
  <2> QED BY <1>1, <2>1, SameWaiting DEF Abstract!vars, ghosts
<1>5. ASSUME NEW pc \in {"init", "lock", "locked"}, Goto(t, pc)
      PROVE  UNCHANGED Abstract!vars
  <2> DEFINE fr == [Top(t) EXCEPT !.pc = pc]
  <2>1. Top(t) \in Frame
    BY <1>1, <1>2, TopLemma
  <2>2. fr \in Frame /\ fr.op = Top(t).op /\ fr.f = Top(t).f /\ fr.pc = pc /\ Become(t, fr)
    BY <1>5, <2>1 DEF Frame, Pcs, Goto
  <2>3. ~ Executes(fr)
    BY <1>5, <2>2 DEF Executes
  <2> HIDE DEF fr
  <2>4. Current(Main)' = Current(Main) /\ Direct' = Direct
    BY <1>1, <1>2, <1>3, <2>2, <2>3, MoveShown, MainAssumption
  <2> QED BY <1>1, <2>4, SameWaiting DEF Abstract!vars, ghosts
<1> QED BY <1>1, <1>4, <1>5

\* A late registration is diverted.
LEMMA RedirectDiverts ==
  ASSUME IInv, CustodyInv, NEW t \in Threads, Redirect(t)
  PROVE  \E c \in Callbacks : Abstract!Divert(c)
<1> DEFINE c == Top(t).f
           fr == [Top(t) EXCEPT !.pc = "call"]
<1>1. /\ phase # "aborted" /\ phase # "exited" /\ stack[t] # << >>
      /\ Top(t).pc = "locked" /\ Top(t).op = "add"
      /\ Late /\ Become(t, fr) /\ UNCHANGED <<array, phase, ghosts>>
  BY DEF Redirect, Alive, At, Goto
<1>2. stack \in [Threads -> Seq(Frame)] /\ UniqueInv
  BY <1>1, Unfolded
<1>3. Top(t) \in Frame /\ c \in Callbacks
  BY <1>1, ActiveFrame DEF IInv, FrameOK
<1>4. /\ fr \in Frame /\ fr.op = "add" /\ fr.f = c
      /\ Executes(fr) /\ ~ Executes(Top(t))
  BY <1>1, <1>3 DEF Frame, Pcs, Executes
<1> HIDE DEF fr
<1>5. Current(Main)' = Current(Main) /\ Direct' = Direct \cup {c}
  BY <1>1, <1>2, <1>4, MoveShown, MainAssumption
<1>6. c \notin Abstract!Known
  BY <1>1, <1>3, <1>4, NotKnown
<1>7. Mode \in {"drain", "drained"}
  <2>1. phase \notin {"loading", "constructor"}
    BY <1>1, NothingRunsEarly
  <2>2. phase \in {"draining", "main"}
    BY <1>1, <2>1 DEF IInv, TypeOK, Phases
  <2> QED BY <2>2 DEF Mode
<1>8. Waiting = << >>
  BY <1>1 DEF Late, Waiting
<1>9. Waiting' = Waiting /\ Begun' = Begun /\ Mode' = Mode /\ done' = done
  BY <1>1, SameWaiting DEF ghosts
<1>10. Abstract!Divert(c)
  BY <1>5, <1>6, <1>7, <1>8, <1>9 DEF Abstract!Divert
<1> QED BY <1>3, <1>10

\* A push registers.
LEMMA AddRegisters ==
  ASSUME IInv, CustodyInv, NEW t \in Threads, AddCallback(t)
  PROVE  \E c \in Callbacks : Abstract!Register(c)
<1> DEFINE c == Top(t).f
<1>1. /\ phase # "aborted" /\ phase # "exited" /\ stack[t] # << >>
      /\ Top(t).pc = "locked" /\ Top(t).op = "add" /\ ~ Late
      /\ Leave(t) /\ n' = n + 1 /\ phase' = phase /\ runs' = runs /\ done' = done
  BY DEF AddCallback, Alive, At
<1>2. /\ stack \in [Threads -> Seq(Frame)] /\ UniqueInv /\ n \in Nat
      /\ phase \in {"main", "exited"} => size = Ran
      /\ size = Ran => n = 0
  BY <1>1, Unfolded
<1>3. Top(t) \in Frame /\ c \in Callbacks
  BY <1>1, ActiveFrame DEF IInv, FrameOK
<1>4. ~ Executes(Top(t))
  BY <1>1 DEF Executes
<1>5. Current(Main)' = Current(Main) /\ Direct' = Direct
  BY <1>1, <1>2, <1>4, LeaveShown, MainAssumption
<1>6. c \notin Abstract!Known
  BY <1>1, <1>3, <1>4, NotKnown
<1>7. Mode \in {"collect", "drain"} /\ Mode' = Mode /\ Begun' = Begun
  <2>1. phase \notin {"main", "exited"}
    BY <1>1, <1>2, CapacityRange DEF Late
  <2>2. phase \in {"loading", "constructor", "draining"}
    BY <1>1, <2>1 DEF IInv, TypeOK, Phases
  <2> QED BY <1>1, <2>2 DEF Mode, Begun
<1>8. Waiting' = Append(Waiting, c)
  <2>1. Waiting = [i \in 1..n |-> calls[i - 1]] /\ Waiting' = [i \in 1..(n + 1) |-> calls'[i - 1]]
    BY <1>1 DEF Waiting
  <2>2. calls'[n] = c /\ \A k \in 0..(n - 1) : calls'[k] = calls[k]
    BY AddCallbackCells
  <2>3. ASSUME NEW i \in 1..(n + 1)
        PROVE  calls'[i - 1] = IF i = n + 1 THEN c ELSE calls[i - 1]
    <3>1. i = n + 1 \/ i - 1 \in 0..(n - 1)
      BY <1>2
    <3> QED BY <1>2, <2>2, <3>1
  <2>4. Waiting \in Seq(Callbacks) /\ Len(Waiting) = n
    <3>1. \A i \in 1..n : calls[i - 1] \in Callbacks
      <4> TAKE i \in 1..n
      <4>1. i - 1 \in 0..(n - 1)
        BY <1>2
      <4> QED BY <1>1, <4>1, Unfolded
    <3> QED BY <1>2, <2>1, <3>1
  <2>5. Append(Waiting, c) = [i \in 1..(n + 1) |-> IF i = n + 1 THEN c ELSE calls[i - 1]]
    <3>1. ASSUME NEW i \in 1..(n + 1), i # n + 1 PROVE Waiting[i] = calls[i - 1]
      <4>1. i \in 1..n
        BY <1>2, <3>1
      <4> QED BY <2>1, <4>1
    <3>2. Append(Waiting, c) = [i \in 1..(n + 1) |-> IF i = n + 1 THEN c ELSE Waiting[i]]
      BY <1>3, <2>4, AppendIsFunction
    <3> QED BY <3>1, <3>2
  <2> QED BY <2>1, <2>3, <2>5
<1>9. Abstract!Register(c)
  BY <1>1, <1>5, <1>6, <1>7, <1>8 DEF Abstract!Register
<1> QED BY <1>3, <1>9

\* Out of memory, the stack fails.
LEMMA AbortFails ==
  ASSUME IInv, CustodyInv, NEW t \in Threads, AbortOnRealloc(t)
  PROVE  Abstract!Fail
<1>1. /\ phase \notin {"aborted", "exited"} /\ ~ Late
      /\ phase' = "aborted" /\ stack' = stack /\ runs' = runs /\ done' = done
  BY DEF AbortOnRealloc, Alive, ghosts
<1>2. Current(Main)' = Current(Main) /\ Direct' = Direct
  BY <1>1 DEF Current, Direct, Frames, FrameAt
<1>3. phase # "main"
  BY <1>1, Unfolded, CapacityRange DEF Late
<1>4. phase \in {"loading", "constructor", "draining"}
  BY <1>1, <1>3 DEF IInv, TypeOK, Phases
<1>5. /\ Mode \in {"collect", "drain"} /\ Mode' = "failed"
      /\ Waiting' = << >> /\ Begun' = Begun
  BY <1>1, <1>4 DEF Mode, Waiting, Begun
<1> QED BY <1>1, <1>2, <1>5 DEF Abstract!Fail

LEMMA AbortOnMallocFails ==
  ASSUME NEW t \in Threads, AbortOnMalloc(t)
  PROVE  Abstract!Fail
<1>1. /\ phase = "constructor" /\ phase' = "aborted"
      /\ stack' = stack /\ runs' = runs /\ done' = done
  BY DEF AbortOnMalloc, ghosts
<1>2. Current(Main)' = Current(Main) /\ Direct' = Direct
  BY <1>1 DEF Current, Direct, Frames, FrameAt
<1>3. /\ Mode = "collect" /\ Mode' = "failed"
      /\ Waiting' = << >> /\ Begun' = Begun
  BY <1>1 DEF Mode, Waiting, Begun
<1> QED BY <1>1, <1>2, <1>3 DEF Abstract!Fail

\* The sort starts the drain, and leaves every waiting callback at its rank.
LEMMA SortStarts ==
  ASSUME IInv, NEW t \in Threads, Sort(t)
  PROVE  Abstract!StartDrain
<1> DEFINE D == 0..(n - 1)
           cells == [k \in D |-> Waiting[k + 1]]
<1>1. /\ phase = "constructor" /\ phase' = "draining"
      /\ calls' = Mergesort(calls, Priority, n)
      /\ stack' = stack /\ n' = n /\ runs' = runs /\ done' = done
  BY DEF Sort
<1>2. /\ n \in Nat /\ DOMAIN calls \subseteq Nat
      /\ \A k \in D : k \in DOMAIN calls /\ calls[k] \in Callbacks
  <2>1. /\ n \in Nat /\ \A k \in D : k \in DOMAIN calls /\ calls[k] \in Callbacks
        /\ DOMAIN calls = {} \/ DOMAIN calls = 0..(size - 1)
    BY <1>1 DEF IInv, TypeOK, MemoryOK, Null
  <2> QED BY <2>1
<1>3. Sortable(calls, Priority, D)
  BY <1>1, <1>2, MainAssumption DEF Sortable, IsArray, IInv, TypeOK
<1>4. Waiting = [i \in 1..n |-> calls[i - 1]] /\ Waiting' = [i \in 1..n |-> calls'[i - 1]]
  BY <1>1 DEF Waiting
<1>5. Len(Waiting) = n
  BY <1>2, <1>4
<1>6. \A k \in D : cells[k] = calls[k]
  <2> TAKE k \in D
  <2>1. k + 1 \in 1..n /\ (k + 1) - 1 = k
    BY <1>2
  <2> QED BY <1>4, <2>1
<1>7. \A k \in D : calls'[k] = ByRank(cells, Priority, n)[k]
  <2>1. calls' = ByRank(calls, Priority, n)
    BY <1>1, <1>2, <1>3, MergesortByRank
  <2>2. DOMAIN cells = D
    OBVIOUS
  <2> HIDE DEF cells
  <2> QED BY <1>2, <1>3, <1>6, <2>1, <2>2, RankOfPrefix
<1>8. Waiting' = ByPriority(Waiting)
  <2>1. ByPriority(Waiting) = [i \in 1..n |-> ByRank(cells, Priority, n)[i - 1]]
    BY <1>5 DEF ByPriority
  <2>2. \A i \in 1..n : i - 1 \in D
    BY <1>2
  <2> HIDE DEF cells, D
  <2> QED BY <1>4, <1>7, <2>1, <2>2
<1>9. Current(Main)' = Current(Main) /\ Direct' = Direct
  BY <1>1 DEF Current, Direct, Frames, FrameAt
<1>10. Mode = "collect" /\ Mode' = "drain" /\ Begun' = Begun
  BY <1>1 DEF Mode, Begun
<1> QED BY <1>1, <1>8, <1>9, <1>10 DEF Abstract!StartDrain

\* The activation that drains is what the stack shows of the drain.
LEMMA DrainFrame ==
  ASSUME IInv, CustodyInv, phase # "aborted", NEW t \in Threads, stack[t] # << >>,
         Top(t).op = "run"
  PROVE  /\ t = Main /\ Len(stack[t]) = 1
         /\ phase \in {"constructor", "draining"}
         /\ phase # "constructor" => Mode = "drain"
         /\ Current(Main) = Top(t).f
         /\ Top(t).pc \notin {"call", "calling"} => Top(t).f = NoCallback
<1>1. stack \in [Threads -> Seq(Frame)] /\ RunInv
  BY Unfolded
<1>2. Len(stack[t]) \in DOMAIN stack[t] /\ Top(t) = stack[t][Len(stack[t])]
  BY <1>1, TopLemma
<1>3. /\ t = Main /\ Len(stack[t]) = 1 /\ phase \in {"constructor", "draining"}
      /\ Top(t).pc \notin {"call", "calling"} => Top(t).f = NoCallback
  BY <1>1, <1>2 DEF RunInv
<1>4. phase # "constructor" => Mode = "drain"
  BY <1>3 DEF Mode
<1>5. Current(Main) = Top(t).f
  BY <1>2, <1>3 DEF Current
<1> QED BY <1>3, <1>4, <1>5

LEMMA PopTakes ==
  ASSUME IInv, CustodyInv, NEW t \in Threads, Pop(t)
  PROVE  Abstract!Take
<1> DEFINE fr == [op |-> "run", pc |-> "call", f |-> Last]
<1>1. /\ stack[t] # << >> /\ Top(t).pc = "locked" /\ Top(t).op = "run"
      /\ Become(t, fr) /\ n > 0 /\ n' = n - 1
      /\ phase \notin {"aborted", "constructor"} /\ phase' = phase /\ calls' = calls
      /\ runs' = runs /\ done' = done
  BY DEF Pop, At, Alive, SomeLeft, ghosts
<1>2. /\ stack \in [Threads -> Seq(Frame)] /\ n \in Nat
      /\ \A k \in 0..(n - 1) : calls[k] \in Callbacks
  BY <1>1, Unfolded
<1>3. n - 1 \in 0..(n - 1) /\ Last \in Callbacks
  BY <1>1, <1>2 DEF Last
<1>4. fr \in Frame /\ fr.op = "run" /\ fr.f = Last
  BY <1>3 DEF Frame, Ops, Pcs
<1> HIDE DEF fr
<1>5. /\ t = Main /\ Len(stack[t]) = 1 /\ Mode = "drain"
      /\ Current(Main) = NoCallback
  BY <1>1, DrainFrame
<1>6. Current(Main)' = Last /\ Direct' = Direct
  BY <1>1, <1>2, <1>4, <1>5, RunShown
<1>7. Waiting = [i \in 1..n |-> calls[i - 1]] /\ Waiting' = [i \in 1..(n - 1) |-> calls[i - 1]]
  BY <1>1 DEF Waiting
<1>8. Waiting \in Seq(Callbacks) /\ Len(Waiting) = n
  <2>1. \A i \in 1..n : calls[i - 1] \in Callbacks
    <3> TAKE i \in 1..n
    <3>1. i - 1 \in 0..(n - 1)
      BY <1>2
    <3> QED BY <1>2, <3>1
  <2> QED BY <1>2, <1>7, <2>1
<1>9. Waiting # << >> /\ Waiting[Len(Waiting)] = Last
  <2>1. n \in 1..n
    BY <1>1, <1>2
  <2>2. Waiting[n] = Last
    BY <1>7, <2>1 DEF Last
  <2>3. Waiting # << >>
    BY <1>1, <1>8
  <2> QED BY <1>8, <2>2, <2>3
<1>10. Waiting' = SubSeq(Waiting, 1, Len(Waiting) - 1)
  <2>1. SubSeq(Waiting, 1, Len(Waiting) - 1) = [i \in 1..(n - 1) |-> Waiting[i]]
    BY <1>1, <1>8, FrontIsFunction
  <2>2. \A i \in 1..(n - 1) : Waiting[i] = calls[i - 1]
    BY <1>2, <1>7
  <2> QED BY <1>7, <2>1, <2>2
<1>11. Begun' = Begun /\ Mode' = Mode
  BY <1>1 DEF Begun, Mode
<1> QED BY <1>1, <1>5, <1>6, <1>9, <1>10, <1>11 DEF Abstract!Take

LEMMA DrainedStops ==
  ASSUME IInv, CustodyInv, NEW t \in Threads, Drained(t)
  PROVE  Abstract!StopDrain
<1>1. /\ stack[t] # << >> /\ Top(t).pc = "locked" /\ Top(t).op = "run"
      /\ Leave(t) /\ ~ (n > 0) /\ n' = 0 /\ phase \notin {"aborted", "constructor"} /\ phase' = "main"
      /\ runs' = runs /\ done' = done
  BY DEF Drained, At, Alive, SomeLeft, ghosts
<1>2. /\ stack \in [Threads -> Seq(Frame)] /\ n \in Nat /\ UniqueInv
  BY <1>1, Unfolded
<1>3. Mode = "drain" /\ Current(Main) = NoCallback /\ Top(t).f = NoCallback /\ phase # "aborted"
  BY <1>1, DrainFrame
<1>4. ~ Executes(Top(t))
  BY <1>1 DEF Executes
<1>5. Current(Main)' = Current(Main) /\ Direct' = Direct
  BY <1>1, <1>2, <1>3, <1>4, LeaveShown, MainAssumption
<1>6. n = 0 /\ Waiting = << >> /\ Waiting' = << >>
  BY <1>1, <1>2, <1>3 DEF Waiting
<1>7. Begun' = Begun /\ Mode' = "drained"
  BY <1>1 DEF Begun, Mode
<1> QED BY <1>1, <1>3, <1>5, <1>6, <1>7 DEF Abstract!StopDrain

\* Bodies are entered only when the drain has started.
LEMMA ActiveMode ==
  ASSUME IInv, NEW t \in Threads, stack[t] # << >>, Top(t).pc \in {"call", "calling"},
         phase \notin {"aborted", "exited"}
  PROVE  Mode \in {"drain", "drained"}
<1>1. phase \notin {"loading", "constructor"}
  BY NothingRunsEarly
<1>2. phase \in {"draining", "main"}
  BY <1>1 DEF IInv, TypeOK, Phases
<1> QED BY <1>2 DEF Mode

LEMMA CallBegins ==
  ASSUME IInv, CustodyInv, NEW t \in Threads, Call(t)
  PROVE  \E c \in Callbacks : Abstract!Begin(c)
<1> DEFINE c == Top(t).f
           fr == [Top(t) EXCEPT !.pc = "calling"]
<1>1. /\ stack[t] # << >> /\ Top(t).pc = "call"
      /\ Become(t, fr)
      /\ phase \notin {"aborted", "exited"} /\ UNCHANGED <<array, phase>>
      /\ runs' = [runs EXCEPT ![c] = @ + 1] /\ done' = done
  BY DEF Call, At, Goto, Alive
<1>2. /\ stack \in [Threads -> Seq(Frame)] /\ runs \in [Callbacks -> Nat]
      /\ UniqueInv /\ HeldInv /\ NoCallback \notin Callbacks
  BY <1>1, Unfolded
<1>3. Top(t) \in Frame /\ c \in Callbacks /\ Top(t).op # "load"
  BY <1>1, ActiveFrame DEF IInv, FrameOK
<1>4. fr \in Frame /\ fr.f = c /\ fr.op = Top(t).op /\ fr.pc = "calling"
  BY <1>3 DEF Frame, Pcs
<1> HIDE DEF fr
<1>5. runs[c] = 0
  <2>1. Owns(Top(t))
    BY <1>2, <1>1, <1>3, TopLemma DEF HeldInv
  <2> QED BY <1>1, <2>1 DEF Owns
<1>6. c \notin Begun /\ Begun' = Begun \cup {c}
  BY <1>1, <1>2, <1>3, <1>5 DEF Begun
<1>7. /\ c \in Direct \cup {Current(Main)}
      /\ Current(Main)' = Current(Main) /\ Direct' = Direct
  <2>1. Executes(Top(t)) => Executes(fr) /\ c \in Direct
    BY <1>1, <1>2, <1>3, <1>4, ShownOnce, MainAssumption DEF Executes
  <2>2. /\ Current(Main)' = Current(Main)
        /\ Direct' = Direct \cup IF Executes(fr) THEN {c} ELSE {}
    BY <1>1, <1>2, <1>4, <2>1, MoveShown, MainAssumption
  <2>3. CASE Top(t).op = "run"
    <3>1. Current(Main) = c
      BY <1>1, <2>3, DrainFrame
    <3>2. ~ Executes(fr)
      BY <1>4, <2>3 DEF Executes
    <3> QED BY <2>2, <3>1, <3>2
  <2>4. CASE Top(t).op = "add"
    <3>1. Executes(Top(t))
      BY <1>1, <2>4 DEF Executes
    <3> QED BY <2>1, <2>2, <3>1
  <2> QED BY <1>3, <2>3, <2>4 DEF Frame, Ops
<1>8. Mode \in {"drain", "drained"}
  BY <1>1, ActiveMode
<1>9. Waiting' = Waiting /\ Mode' = Mode
  BY <1>1 DEF array, Waiting, Mode
<1>10. Abstract!Begin(c)
  BY <1>1, <1>2, <1>3, <1>6, <1>7, <1>8, <1>9 DEF Abstract!Begin
<1> QED BY <1>3, <1>10

LEMMA ReturnEnds ==
  ASSUME IInv, CustodyInv, NEW t \in Threads, Return(t)
  PROVE  \E c \in Callbacks : Abstract!End(c)
<1> DEFINE c == Top(t).f
           fr == [op |-> "run", pc |-> "lock", f |-> NoCallback]
<1>1. /\ stack[t] # << >> /\ Top(t).pc = "calling"
      /\ phase \notin {"aborted", "exited"} /\ UNCHANGED <<array, phase>>
      /\ runs' = runs /\ done' = done \cup {c}
      /\ Top(t).op = "run" => Become(t, fr)
      /\ Top(t).op # "run" => Leave(t)
  BY DEF Return, At, Alive
<1>2. /\ stack \in [Threads -> Seq(Frame)] /\ runs \in [Callbacks -> Nat]
      /\ UniqueInv /\ HeldInv /\ NoCallback \notin Callbacks
  BY <1>1, Unfolded
<1>3. Top(t) \in Frame /\ c \in Callbacks /\ Top(t).op # "load"
  BY <1>1, ActiveFrame DEF IInv, FrameOK
<1>4. fr \in Frame /\ fr.f = NoCallback /\ fr.op = "run"
  BY DEF Frame, Ops, Pcs
<1> HIDE DEF fr
<1>5. c \in Begun \ done
  <2>1. Owns(Top(t))
    BY <1>2, <1>1, <1>3, TopLemma DEF HeldInv
  <2> QED BY <1>1, <1>3, <2>1 DEF Owns, Begun
<1>6. /\ Current(Main)' = IF c = Current(Main) THEN NoCallback ELSE Current(Main)
      /\ Direct' = Direct \ {c}
  <2>1. CASE Top(t).op = "run"
    <3>1. t = Main /\ Len(stack[t]) = 1 /\ Current(Main) = c
      BY <1>1, <2>1, DrainFrame
    <3>2. Current(Main)' = NoCallback /\ Direct' = Direct
      BY <1>1, <1>2, <1>4, <2>1, <3>1, RunShown
    <3>3. c \notin Direct
      BY <1>1, <1>2, <1>3, <2>1, ShownOnce, MainAssumption DEF Executes
    <3> QED BY <3>1, <3>2, <3>3
  <2>2. CASE Top(t).op = "add"
    <3>1. Executes(Top(t)) /\ Top(t).op # "run"
      BY <1>1, <2>2 DEF Executes
    <3>2. Current(Main)' = Current(Main) /\ Direct' = Direct \ {c}
      BY <1>1, <1>2, <1>3, <3>1, LeaveShown, MainAssumption
    <3>3. Current(Main) # c
      BY <1>1, <1>2, <1>3, <3>1, ShownOnce, MainAssumption
    <3> QED BY <3>2, <3>3
  <2> QED BY <1>3, <2>1, <2>2 DEF Frame, Ops
<1>7. Mode \in {"drain", "drained"}
  BY <1>1, ActiveMode
<1>8. Waiting' = Waiting /\ Mode' = Mode /\ Begun' = Begun
  BY <1>1, SameWaiting
<1>9. Abstract!End(c)
  BY <1>1, <1>5, <1>6, <1>7, <1>8 DEF Abstract!End
<1> QED BY <1>3, <1>9

LEMMA ExitQuits ==
  ASSUME IInv, Exit
  PROVE  Abstract!Quit
<1>1. phase = "main" /\ phase' = "exited" /\ UNCHANGED <<stack, array, ghosts>>
  BY DEF Exit
<1>2. Current(Main)' = Current(Main) /\ Direct' = Direct
  BY <1>1 DEF Current, Direct, Frames, FrameAt
<1>3. /\ Waiting' = Waiting /\ Begun' = Begun /\ done' = done
      /\ Mode = "drained" /\ Mode' = "gone"
  BY <1>1 DEF array, ghosts, Waiting, Begun, Mode
<1> QED BY <1>2, <1>3 DEF Abstract!Quit

LEMMA StutterUnseen ==
  ASSUME UNCHANGED vars
  PROVE  UNCHANGED Abstract!vars
<1>1. Current(Main)' = Current(Main) /\ Direct' = Direct
  BY DEF vars, Current, Direct, Frames, FrameAt
<1> QED BY <1>1, SameWaiting DEF vars, ghosts, Abstract!vars

LEMMA InitShown == Init => Abstract!Init
<1> SUFFICES ASSUME Init PROVE Abstract!Init
  OBVIOUS
<1>1. \A t \in Threads : stack[t] = << >>
  BY DEF Init, ControlInit
<1>2. Current(Main) = NoCallback
  BY <1>1, MainAssumption DEF Current
<1>3. Direct = {}
  BY <1>1, DirectHasMembers DEF DirectMembers
<1>4. Waiting = << >> /\ Begun = {} /\ done = {} /\ Mode = "collect"
  BY DEF Init, Waiting, Begun, Mode
<1> QED BY <1>2, <1>3, <1>4 DEF Abstract!Init

\* Every step of the library is a step of the stack, or is not seen.
LEMMA NextShown ==
  ASSUME IInv, CustodyInv, [Next]_vars
  PROVE  [Abstract!Next]_(Abstract!vars)
<1>1. CASE BeginLoad
  BY <1>1, BeginLoadUnseen
<1>2. CASE Exit
  BY <1>2, ExitQuits DEF Abstract!Next
<1>3. ASSUME NEW t \in Threads, NEW c \in Callbacks, BeginAdd(t, c)
      PROVE  UNCHANGED Abstract!vars
  BY <1>3, BeginAddUnseen
<1>4. ASSUME NEW t \in Threads, Step(t)
      PROVE  [Abstract!Next]_(Abstract!vars)
  <2>1. CASE Synchronise(t)
    BY <2>1, SynchroniseUnseen
  <2>2. CASE Redirect(t)
    BY <2>2, RedirectDiverts DEF Abstract!Next
  <2>3. CASE AddCallback(t)
    BY <2>3, AddRegisters DEF Abstract!Next
  <2>4. CASE AbortOnRealloc(t)
    BY <2>4, AbortFails DEF Abstract!Next
  <2>5. CASE Pop(t)
    BY <2>5, PopTakes DEF Abstract!Next, Abstract!Drain
  <2>6. CASE Drained(t)
    BY <2>6, DrainedStops DEF Abstract!Next, Abstract!Drain
  <2>7. CASE Call(t)
    BY <2>7, CallBegins DEF Abstract!Next
  <2>8. CASE Return(t)
    BY <2>8, ReturnEnds DEF Abstract!Next
  <2>9. CASE Sort(t)
    BY <2>9, SortStarts DEF Abstract!Next
  <2>10. CASE AbortOnMalloc(t)
    BY <2>10, AbortOnMallocFails DEF Abstract!Next
  <2> QED BY <1>4, <2>1, <2>2, <2>3, <2>4, <2>5, <2>6, <2>7, <2>8, <2>9, <2>10 DEF Step
<1>5. CASE Terminated \/ UNCHANGED vars
  BY <1>5, StutterUnseen DEF Terminated
<1> QED BY <1>1, <1>2, <1>3, <1>4, <1>5 DEF Next

\* Whatever the interleaving, a client sees the stack of CallbackStack.
THEOREM ShowsStack == Spec => Abstract!Safety
<1>1. IInv /\ CustodyInv /\ [Next]_vars => [Abstract!Next]_(Abstract!vars)
  BY NextShown
<1> QED BY <1>1, InitShown, Custody, PTL DEF Spec, Abstract!Safety

=============================================================================
