------------------------------ MODULE AtExitProofs ------------------------------
(***************************************************************************)
(* Proofs about mulle-atexit, for any number of threads, of registrations  *)
(* and of bits in an unsigned int: first control, types and memory, then   *)
(* who has a registration, and at last that a client sees a stack.         *)
(***************************************************************************)
EXTENDS AtExit, ActivationsProofs

\* Before the unload, nobody drains, nobody takes a registration for a late
\* one (an array that was allocated is not empty), and so nothing is executed.
EarlyInv ==
  phase \in {"loading", "live"} =>
    /\ n = 0 => size = 0
    /\ \A c \in Callbacks : runs[c] = 0
    /\ \A t \in Threads : \A i \in DOMAIN stack[t] :
         stack[t][i].op # "run" /\ stack[t][i].pc \notin {"call", "calling"}

\* The inductive invariant.  Types need MemoryOK (an empty array is never
\* popped, a drained one never doubled), and NeverEarly needs EarlyInv.
IInv == TypeOK /\ ControlInv /\ MemoryOK /\ EarlyInv

\* Growing yields a capacity that is larger than the present size.
LEMMA NextSizeGrows ==
  ASSUME size \in Capacities \cup {0}
  PROVE  NextSize = 0 \/ (NextSize \in Capacities /\ NextSize > size)
<1>1. CASE size = 0
  BY <1>1, SizeAssumption DEF NextSize
<1>2. CASE size # 0
  <2>1. size \in Capacities /\ size \in Nat /\ size > 0
    BY <1>2, SizeAssumption
  <2>2. Double(size) = 0 \/ (Double(size) = 2 * size /\ Double(size) \in Capacities)
    BY <2>1, SizeAssumption
  <2> QED BY <1>2, <2>1, <2>2 DEF NextSize
<1> QED BY <1>1, <1>2

\* A capacity is a positive number and never the mark of a drained stack.
LEMMA CapacityRange ==
  /\ Ran \in Nat /\ Ran # 0
  /\ Ran \notin Capacities
  /\ \A s \in Capacities : s \in Nat \ {0}
  BY SizeAssumption DEF Ran

LEMMA InitIInv == Init => IInv
<1> SUFFICES ASSUME Init PROVE IInv
  OBVIOUS
<1>1. stack \in [Threads -> Seq(Frame)] /\ \A t \in Threads : stack[t] = << >>
  BY DEF Init, ControlInit
<1>2. ControlTypeOK
  BY <1>1 DEF Init, ControlInit, ControlTypeOK
<1>3. FramesOK /\ LockDiscipline
  BY <1>1 DEF Init, ControlInit, FramesOK, LockDiscipline
<1>4. TypeOK
  BY <1>2, SizeAssumption DEF Init, TypeOK, Null, Phases
<1>5. MemoryOK
  BY CapacityRange DEF Init, MemoryOK, Null
<1>6. EarlyInv
  BY <1>1 DEF Init, EarlyInv
<1> QED BY <1>2, <1>3, <1>4, <1>5, <1>6 DEF IInv, ControlInv

\* A thread enters the library.
LEMMA EnterStep ==
  ASSUME IInv, NEW t \in Threads, NEW fr \in Frame,
         InClient(t), Enter(t, fr), fr.pc = "once",
         fr.op = "add" => fr.f \in Callbacks,
         UNCHANGED <<lock, once, array, ghosts>>, phase' \in Phases,
         \/ phase' \in {"loading", "live"} /\ phase \in {"loading", "live"} /\ fr.op # "run"
         \/ phase' \notin {"loading", "live"},
         phase' = "aborted" <=> phase = "aborted"
  PROVE  IInv'
<1>1. ControlInv'
  BY EnterKeepsControl DEF IInv, FrameOK
<1>2. TypeOK'
  BY <1>1 DEF IInv, TypeOK, ControlInv, array, ghosts
<1>3. MemoryOK'
  BY DEF IInv, MemoryOK, array
<1>4. EarlyInv'
  <2>1. SUFFICES ASSUME phase' \in {"loading", "live"}
                 PROVE  EarlyInv'
    BY DEF EarlyInv
  <2>2. /\ DOMAIN stack'[t] = 1..(Len(stack[t]) + 1)
        /\ stack'[t][Len(stack[t]) + 1] = fr
        /\ \A i \in DOMAIN stack[t] : stack'[t][i] = stack[t][i]
        /\ \A u \in Threads \ {t} : stack'[u] = stack[u]
        /\ DOMAIN stack[t] = 1..Len(stack[t])
        /\ Len(stack[t]) \in Nat
    BY EnterLemma DEF IInv, ControlInv, ControlTypeOK
  <2>3. ASSUME NEW u \in Threads, NEW i \in DOMAIN stack'[u]
        PROVE  stack'[u][i].op # "run" /\ stack'[u][i].pc \notin {"call", "calling"}
    <3>1. CASE u = t /\ i = Len(stack[t]) + 1
      BY <2>1, <2>2, <3>1
    <3>2. CASE u # t \/ i # Len(stack[t]) + 1
      <4>1. i \in DOMAIN stack[u] /\ stack'[u][i] = stack[u][i]
        BY <2>2, <3>2
      <4> QED BY <2>1, <4>1 DEF IInv, EarlyInv
    <3> QED BY <3>1, <3>2
  <2> QED BY <2>1, <2>3 DEF IInv, EarlyInv, array, ghosts
<1> QED BY <1>1, <1>2, <1>3, <1>4 DEF IInv

LEMMA BeginLoadStep == IInv /\ BeginLoad => IInv'
<1> DEFINE fr == [op |-> "load", pc |-> "once", f |-> NoCallback]
<1>1. fr \in Frame /\ fr.op = "load" /\ fr.pc = "once"
  BY DEF Frame, Ops, Pcs
<1> HIDE DEF fr
<1>2. SUFFICES ASSUME IInv, BeginLoad PROVE IInv'
  OBVIOUS
<1>3. Enter(Main, fr) /\ Main \in Threads /\ InClient(Main)
  BY <1>2, MainAssumption DEF BeginLoad, InClient, fr
<1> QED BY <1>1, <1>2, <1>3, EnterStep DEF BeginLoad, Phases

LEMMA BeginUnloadStep == IInv /\ BeginUnload => IInv'
<1> DEFINE fr == [op |-> "run", pc |-> "once", f |-> NoCallback]
<1>1. fr \in Frame /\ fr.op = "run" /\ fr.pc = "once"
  BY DEF Frame, Ops, Pcs
<1> HIDE DEF fr
<1>2. SUFFICES ASSUME IInv, BeginUnload PROVE IInv'
  OBVIOUS
<1>3. Enter(Main, fr) /\ Main \in Threads /\ InClient(Main)
  BY <1>2, MainAssumption DEF BeginUnload, InClient, fr
<1> QED BY <1>1, <1>2, <1>3, EnterStep DEF BeginUnload, Phases

LEMMA BeginAddStep ==
  ASSUME NEW t \in Threads, NEW c \in Callbacks
  PROVE  IInv /\ BeginAdd(t, c) => IInv'
<1> DEFINE fr == [op |-> "add", pc |-> "once", f |-> c]
<1>1. fr \in Frame /\ fr.op = "add" /\ fr.pc = "once" /\ fr.f = c
  BY DEF Frame, Ops, Pcs
<1> HIDE DEF fr
<1>2. SUFFICES ASSUME IInv, BeginAdd(t, c) PROVE IInv'
  OBVIOUS
<1>3. Enter(t, fr) /\ InClient(t) /\ phase \in Phases
  BY <1>2 DEF BeginAdd, fr, IInv, TypeOK
<1> QED BY <1>1, <1>2, <1>3, EnterStep DEF BeginAdd, Phases

LEMMA SynchroniseStep ==
  ASSUME NEW t \in Threads
  PROVE  IInv /\ Synchronise(t) => IInv'
<1> SUFFICES ASSUME IInv, Synchronise(t) PROVE IInv'
  OBVIOUS
<1>1. /\ stack[t] # << >>
      /\ stack \in [Threads -> Seq(Frame)]
      /\ Top(t) \in Frame
      /\ \/ Goto(t, "init") \/ Goto(t, "lock") \/ Goto(t, "locked")
         \/ Leave(t)
  BY ActiveFrame
  DEF Synchronise, OnceEnter, InitLock, OncePass, AfterOnce, Lock, At, IInv, ControlInv, ControlTypeOK
<1>2. ControlInv'
  BY SynchroniseKeepsControl DEF Synchronise, IInv
<1>3. TypeOK'
  BY <1>2 DEF IInv, TypeOK, ControlInv, Synchronise, array, ghosts
<1>4. MemoryOK'
  BY DEF IInv, MemoryOK, Synchronise, array
<1>5. EarlyInv'
  <2>1. SUFFICES ASSUME phase' \in {"loading", "live"} PROVE EarlyInv'
    BY DEF EarlyInv
  <2>2. Top(t).op # "run"
    BY <1>1, <2>1, TopLemma DEF Synchronise, IInv, EarlyInv
  <2>3. ASSUME NEW u \in Threads, NEW i \in DOMAIN stack'[u]
        PROVE  stack'[u][i].op # "run" /\ stack'[u][i].pc \notin {"call", "calling"}
    <3>1. CASE Leave(t)
      <4>1. i \in DOMAIN stack[u] /\ stack'[u][i] = stack[u][i]
        BY <1>1, <3>1, LeaveLemma, TopLemma
      <4> QED BY <2>1, <4>1 DEF Synchronise, IInv, EarlyInv
    <3>2. ASSUME NEW pc \in {"init", "lock", "locked"}, Goto(t, pc)
          PROVE  stack'[u][i].op # "run" /\ stack'[u][i].pc \notin {"call", "calling"}
      <4> DEFINE fr == [Top(t) EXCEPT !.pc = pc]
      <4>1. fr \in Frame /\ fr.op = Top(t).op /\ fr.pc = pc
        BY <1>1 DEF Frame, Pcs
      <4>2. Become(t, fr)
        BY <3>2 DEF Goto
      <4> HIDE DEF fr
      <4>3. CASE u = t /\ i = Len(stack[t])
        BY <1>1, <2>2, <4>1, <4>2, <4>3, BecomeLemma
      <4>4. CASE u # t \/ i # Len(stack[t])
        <5>1. i \in DOMAIN stack[u] /\ stack'[u][i] = stack[u][i]
          BY <1>1, <4>1, <4>2, <4>4, BecomeLemma
        <5> QED BY <2>1, <5>1 DEF Synchronise, IInv, EarlyInv
      <4> QED BY <4>3, <4>4
    <3> QED BY <1>1, <3>1, <3>2
  <2> QED BY <2>1, <2>3 DEF IInv, EarlyInv, Synchronise, array, ghosts
<1> QED BY <1>2, <1>3, <1>4, <1>5 DEF IInv

\* In a live process that is not being unloaded, no registration is late,
\* nobody drains and nobody executes a callback.
LEMMA NothingRunsEarly ==
  ASSUME IInv, NEW t \in Threads, stack[t] # << >>,
         \/ Top(t).op = "run"
         \/ Top(t).pc \in {"call", "calling"}
         \/ Late
  PROVE  phase \notin {"loading", "live"}
  BY TopLemma DEF IInv, ControlInv, ControlTypeOK, EarlyInv, Late

LEMMA RedirectStep ==
  ASSUME NEW t \in Threads
  PROVE  IInv /\ Redirect(t) => IInv'
<1> SUFFICES ASSUME IInv, Redirect(t) PROVE IInv'
  OBVIOUS
<1> DEFINE fr == [Top(t) EXCEPT !.pc = "call"]
<1>1. /\ stack[t] # << >> /\ Top(t).pc = "locked" /\ Top(t).op = "add"
      /\ Become(t, fr) /\ lock' = NoThread /\ once' = once
      /\ UNCHANGED <<array, phase, ghosts>>
      /\ Late
  BY DEF Redirect, At, Unlock, Goto
<1>2. Top(t) \in Frame /\ FrameOK(Top(t), once)
  BY <1>1, ActiveFrame DEF IInv
<1>3. fr \in Frame /\ FrameOK(fr, once) /\ fr.pc = "call"
  BY <1>1, <1>2 DEF FrameOK, Frame, Pcs
<1> HIDE DEF fr
<1>4. ControlInv'
  BY <1>1, <1>3, BecomeKeepsControl DEF IInv, ControlInv, ControlTypeOK
<1>5. TypeOK' /\ MemoryOK'
  BY <1>1, <1>4 DEF IInv, TypeOK, ControlInv, MemoryOK, array, ghosts
<1>6. EarlyInv'
  BY <1>1, NothingRunsEarly DEF EarlyInv
<1> QED BY <1>4, <1>5, <1>6 DEF IInv

LEMMA PushStep ==
  ASSUME NEW t \in Threads
  PROVE  IInv /\ Push(t) => IInv'
<1> SUFFICES ASSUME IInv, Push(t) PROVE IInv'
  OBVIOUS
<1>1. /\ stack[t] # << >> /\ Top(t).pc = "locked" /\ Top(t).op = "add"
      /\ Leave(t) /\ lock' = NoThread /\ once' = once
      /\ phase' = phase /\ phase # "aborted"
      /\ runs' = runs /\ done' = done
      /\ n' = n + 1
      /\ clock' = clock + 1
      /\ stamp' = [stamp EXCEPT ![Top(t).f] = clock + 1]
  BY DEF Push, At, Unlock, Alive
<1>2. Top(t) \in Frame /\ Top(t).f \in Callbacks
  BY <1>1, ActiveFrame DEF IInv, FrameOK
<1>3. ControlInv'
  BY <1>1, LeaveKeepsControl DEF IInv, ControlInv, ControlTypeOK
<1>4. /\ n \in Nat /\ size # Ran /\ size \in Capacities \cup {0} /\ n <= size
      /\ DOMAIN fs = 0..(size - 1)
      /\ \A i \in 0..(n - 1) : fs[i] \in Callbacks
  BY <1>1, CapacityRange DEF IInv, TypeOK, MemoryOK, Push, Late, Ran
<1>5. /\ size' \in Capacities /\ size' \in Nat \ {0} /\ size' # Ran /\ n' <= size'
      /\ DOMAIN fs' = 0..(size' - 1)
      /\ \A i \in 0..n : fs'[i] \in Callbacks
      /\ fs' \in [DOMAIN fs' -> Callbacks \cup {NoCallback}]
  <2>1. CASE Full
    <3>1. size' = NextSize /\ NextSize # 0
      BY <2>1 DEF Push
    <3>2. size' \in Capacities /\ size' > size
      BY <1>4, <3>1, NextSizeGrows
    <3>3. size' \in Nat \ {0} /\ size' # Ran /\ n' <= size' /\ n = size
      BY <1>1, <1>4, <2>1, <3>2, CapacityRange DEF Full
    <3>4. fs' = [Realloc(fs, size') EXCEPT ![n] = Top(t).f]
      BY <2>1, <3>1 DEF Push
    <3>5. /\ DOMAIN fs' = 0..(size' - 1)
          /\ fs' \in [0..(size' - 1) -> Callbacks \cup {NoCallback}]
          /\ fs'[n] = Top(t).f
          /\ \A i \in 0..(n - 1) : fs'[i] = fs[i]
      BY <1>2, <1>4, <3>2, <3>3, <3>4 DEF Realloc, IInv, TypeOK
    <3>6. \A i \in 0..n : i = n \/ i \in 0..(n - 1)
      BY <1>4
    <3>7. \A i \in 0..n : fs'[i] \in Callbacks
      BY <1>2, <1>4, <3>5, <3>6
    <3> QED BY <3>2, <3>3, <3>5, <3>7
  <2>2. CASE ~ Full
    <3>1. size' = size /\ fs' = [fs EXCEPT ![n] = Top(t).f] /\ n < size
      BY <1>4, <2>2, CapacityRange DEF Push, Full
    <3>2. size \in Capacities /\ size \in Nat \ {0} /\ n' <= size
      BY <1>1, <1>4, <3>1, CapacityRange
    <3> QED BY <1>2, <1>4, <3>1, <3>2 DEF IInv, TypeOK
  <2> QED BY <2>1, <2>2
<1>6. TypeOK'
  BY <1>1, <1>2, <1>3, <1>5 DEF IInv, TypeOK, ControlInv
<1>7. MemoryOK'
  <2>1. n' - 1 = n /\ n \in Nat
    BY <1>1, <1>4
  <2> QED BY <1>1, <1>4, <1>5, <2>1 DEF MemoryOK, Ran
<1>8. EarlyInv'
  <2>1. n' # 0
    BY <1>1, <1>4
  <2>2. \A u \in Threads : \A i \in DOMAIN stack'[u] :
          i \in DOMAIN stack[u] /\ stack'[u][i] = stack[u][i]
    <3>1. stack \in [Threads -> Seq(Frame)]
      BY DEF IInv, ControlInv, ControlTypeOK
    <3> TAKE u \in Threads
    <3> TAKE i \in DOMAIN stack'[u]
    <3>2. CASE u = t
      BY <1>1, <3>1, <3>2, LeaveLemma, TopLemma
    <3>3. CASE u # t
      BY <1>1, <3>1, <3>3, LeaveLemma
    <3> QED BY <3>2, <3>3
  <2> QED BY <1>1, <2>1, <2>2 DEF IInv, EarlyInv
<1> QED BY <1>3, <1>6, <1>7, <1>8 DEF IInv

LEMMA AbortOnReallocStep ==
  ASSUME NEW t \in Threads
  PROVE  IInv /\ AbortOnRealloc(t) => IInv'
<1> SUFFICES ASSUME IInv, AbortOnRealloc(t) PROVE IInv'
  OBVIOUS
<1>1. ControlInv'
  BY DEF AbortOnRealloc, IInv, ControlInv, ControlTypeOK, FramesOK, LockDiscipline, At, Top
<1>2. size \in Capacities \cup {0}
  BY CapacityRange DEF AbortOnRealloc, IInv, TypeOK, MemoryOK, Late, Alive, Ran
<1>3. size' \in Capacities \cup {0}
  BY <1>2, NextSizeGrows DEF AbortOnRealloc
<1>4. TypeOK'
  BY <1>1, <1>3 DEF AbortOnRealloc, IInv, TypeOK, ControlInv, Phases, Null, ghosts
<1> QED BY <1>1, <1>4 DEF AbortOnRealloc, IInv, MemoryOK, EarlyInv

LEMMA PopStep ==
  ASSUME NEW t \in Threads
  PROVE  IInv /\ Pop(t) => IInv'
<1> SUFFICES ASSUME IInv, Pop(t) PROVE IInv'
  OBVIOUS
<1> DEFINE fr == [op |-> "run", pc |-> "call", f |-> Youngest]
<1>1. /\ stack[t] # << >> /\ Top(t).pc = "locked" /\ Top(t).op = "run"
      /\ Become(t, fr) /\ lock' = NoThread /\ once' = once
      /\ UNCHANGED <<size, fs, phase, ghosts>>
      /\ phase # "aborted" /\ n > 0 /\ n' = n - 1
  BY DEF Pop, At, Unlock, Alive, SomeLeft
<1>2. n \in Nat /\ Youngest \in Callbacks
  <2>1. n \in Nat /\ n - 1 \in 0..(n - 1)
    BY <1>1 DEF IInv, TypeOK
  <2> QED BY <1>1, <2>1 DEF IInv, MemoryOK, Youngest
<1>3. Top(t) \in Frame /\ FrameOK(Top(t), once)
  BY <1>1, ActiveFrame DEF IInv
<1>4. fr \in Frame /\ FrameOK(fr, once) /\ fr.pc = "call"
  BY <1>1, <1>2, <1>3 DEF FrameOK, Frame, Pcs, Ops
<1> HIDE DEF fr
<1>5. ControlInv'
  BY <1>1, <1>4, BecomeKeepsControl DEF IInv, ControlInv, ControlTypeOK
<1>6. TypeOK'
  BY <1>1, <1>2, <1>5 DEF IInv, TypeOK, ControlInv, ghosts
<1>7. MemoryOK'
  BY <1>1, <1>2, CapacityRange DEF IInv, TypeOK, MemoryOK, Ran
<1>8. EarlyInv'
  BY <1>1, NothingRunsEarly DEF EarlyInv
<1> QED BY <1>5, <1>6, <1>7, <1>8 DEF IInv

LEMMA DrainedStep ==
  ASSUME NEW t \in Threads
  PROVE  IInv /\ Drained(t) => IInv'
<1> SUFFICES ASSUME IInv, Drained(t) PROVE IInv'
  OBVIOUS
<1>1. /\ stack[t] # << >> /\ Top(t).pc = "locked"
      /\ Leave(t) /\ lock' = NoThread /\ once' = once
      /\ phase' = "unloaded" /\ n' = 0 /\ size' = Ran /\ fs' = Null
      /\ UNCHANGED ghosts
  BY DEF Drained, At, Unlock
<1>2. ControlInv'
  BY <1>1, LeaveKeepsControl DEF IInv, ControlInv, ControlTypeOK
<1>3. TypeOK'
  BY <1>1, <1>2 DEF IInv, TypeOK, ControlInv, Phases, Null, Ran, ghosts
<1>4. MemoryOK'
  BY <1>1 DEF MemoryOK, Ran, Null
<1>5. EarlyInv'
  BY <1>1 DEF EarlyInv
<1> QED BY <1>2, <1>3, <1>4, <1>5 DEF IInv

LEMMA CallStep ==
  ASSUME NEW t \in Threads
  PROVE  IInv /\ Call(t) => IInv'
<1> SUFFICES ASSUME IInv, Call(t) PROVE IInv'
  OBVIOUS
<1> DEFINE fr == [Top(t) EXCEPT !.pc = "calling"]
<1>1. /\ stack[t] # << >> /\ Top(t).pc = "call"
      /\ Become(t, fr)
      /\ runs' = [runs EXCEPT ![Top(t).f] = @ + 1]
      /\ UNCHANGED <<lock, once, array, phase, clock, stamp, done>>
  BY DEF Call, At, Goto
<1>2. Top(t) \in Frame /\ FrameOK(Top(t), once) /\ Top(t).f \in Callbacks
  BY <1>1, ActiveFrame DEF IInv, FrameOK
<1>3. fr \in Frame /\ FrameOK(fr, once) /\ fr.pc = "calling"
  BY <1>1, <1>2 DEF FrameOK, Frame, Pcs
<1> HIDE DEF fr
<1>4. ControlInv'
  BY <1>1, <1>3, BecomeKeepsControl DEF IInv, ControlInv, ControlTypeOK
<1>5. TypeOK' /\ MemoryOK'
  BY <1>1, <1>2, <1>4 DEF IInv, TypeOK, ControlInv, MemoryOK, array
<1>6. EarlyInv'
  BY <1>1, NothingRunsEarly DEF EarlyInv
<1> QED BY <1>4, <1>5, <1>6 DEF IInv

LEMMA ReturnStep ==
  ASSUME NEW t \in Threads
  PROVE  IInv /\ Return(t) => IInv'
<1> SUFFICES ASSUME IInv, Return(t) PROVE IInv'
  OBVIOUS
<1>1. /\ stack[t] # << >> /\ Top(t).pc = "calling"
      /\ done' = done \cup {Top(t).f}
      /\ UNCHANGED <<lock, once, array, phase, clock, stamp, runs>>
  BY DEF Return, At
<1>2. Top(t) \in Frame /\ FrameOK(Top(t), once)
  BY <1>1, ActiveFrame DEF IInv
<1>3. ControlInv'
  <2>1. CASE Top(t).op = "run"
    <3> DEFINE fr == [op |-> "run", pc |-> "lock", f |-> NoCallback]
    <3>1. fr \in Frame /\ FrameOK(fr, once) /\ fr.pc = "lock"
      BY <1>1, <1>2 DEF FrameOK, Frame, Pcs, Ops
    <3>2. Become(t, fr)
      BY <2>1 DEF Return
    <3> HIDE DEF fr
    <3> QED BY <1>1, <3>1, <3>2, BecomeKeepsControl DEF IInv, ControlInv, ControlTypeOK
  <2>2. CASE Top(t).op # "run"
    BY <1>1, <2>2, LeaveKeepsControl DEF Return, IInv, ControlInv, ControlTypeOK
  <2> QED BY <2>1, <2>2
<1>4. TypeOK' /\ MemoryOK'
  BY <1>1, <1>2, <1>3 DEF IInv, TypeOK, ControlInv, MemoryOK, array, FrameOK
<1>5. EarlyInv'
  BY <1>1, NothingRunsEarly DEF EarlyInv
<1> QED BY <1>3, <1>4, <1>5 DEF IInv

LEMMA ExitStep == IInv /\ Exit => IInv'
<1> SUFFICES ASSUME IInv, Exit PROVE IInv'
  OBVIOUS
<1>1. ControlInv'
  BY DEF Exit, IInv, ControlInv, ControlTypeOK, FramesOK, LockDiscipline, At, Top
<1>2. TypeOK' /\ MemoryOK' /\ EarlyInv'
  BY <1>1 DEF Exit, IInv, TypeOK, ControlInv, MemoryOK, EarlyInv, Phases, array, ghosts
<1> QED BY <1>1, <1>2 DEF IInv

LEMMA StutterStep == IInv /\ UNCHANGED vars => IInv'
<1> SUFFICES ASSUME IInv, UNCHANGED vars PROVE IInv'
  OBVIOUS
<1>1. ControlInv'
  BY DEF vars, IInv, ControlInv, ControlTypeOK, FramesOK, LockDiscipline, At, Top
<1>2. TypeOK' /\ MemoryOK' /\ EarlyInv'
  BY <1>1 DEF vars, array, ghosts, IInv, TypeOK, ControlInv, MemoryOK, EarlyInv
<1> QED BY <1>1, <1>2 DEF IInv

\* No step of the library breaks the invariant.
LEMMA NextIInv == IInv /\ [Next]_vars => IInv'
<1> SUFFICES ASSUME IInv, [Next]_vars PROVE IInv'
  OBVIOUS
<1>1. CASE BeginLoad
  BY <1>1, BeginLoadStep
<1>2. CASE BeginUnload
  BY <1>2, BeginUnloadStep
<1>3. CASE Exit
  BY <1>3, ExitStep
<1>4. ASSUME NEW t \in Threads, NEW c \in Callbacks, BeginAdd(t, c) PROVE IInv'
  BY <1>4, BeginAddStep
<1>5. ASSUME NEW t \in Threads, Step(t) PROVE IInv'
  BY <1>5, SynchroniseStep, RedirectStep, PushStep, AbortOnReallocStep, PopStep,
     DrainedStep, CallStep, ReturnStep DEF Step
<1>6. CASE UNCHANGED vars
  BY <1>6, StutterStep
<1> QED BY <1>1, <1>2, <1>3, <1>4, <1>5, <1>6 DEF Next, Terminated

\* The invariant holds in every state of every behaviour.
THEOREM Invariance == Spec => []IInv
  BY InitIInv, NextIInv, PTL DEF Spec

\* The variables keep their types: in particular size is zero, a capacity that
\* doubling reaches without overflow, or the mark of a drained stack.
THEOREM TypeCorrect == Spec => []TypeOK
<1>1. IInv => TypeOK
  BY DEF IInv
<1> QED BY <1>1, Invariance, PTL

\* The mutex excludes, it is not used before it is initialised, and no body of
\* a callback is executed by a thread that holds it.
THEOREM MutexDiscipline == Spec => []LockDiscipline
<1>1. IInv => LockDiscipline
  BY DEF IInv, ControlInv
<1> QED BY <1>1, Invariance, PTL

\* No cell outside of the allocation is used, none is read uninitialised.
THEOREM MemorySafe == Spec => []MemoryOK
<1>1. IInv => MemoryOK
  BY DEF IInv
<1> QED BY <1>1, Invariance, PTL

\* Nothing is executed before the executable is unloaded.
THEOREM NothingEarly == Spec => []NeverEarly
<1>1. IInv => NeverEarly
  BY DEF IInv, EarlyInv, NeverEarly
<1> QED BY <1>1, Invariance, PTL

(***************************************************************************)
(* Who has a registration: a cell of the array, a frame of some thread, or *)
(* nobody, because its callback has returned.                              *)
(***************************************************************************)

\* What a frame holds is in no cell; its body has been entered if and only if
\* the frame says so.  Until it is pushed it has no stamp.
Owns(fr) ==
  /\ \A k \in 0..(n - 1) : fs[k] # fr.f
  /\ fr.f \notin done
  /\ runs[fr.f] = IF fr.pc = "calling" THEN 1 ELSE 0
  /\ fr.op # "run" => stamp[fr.f] = 0

HeldInv ==
  \A t \in Threads : \A i \in DOMAIN stack[t] :
    stack[t][i].f \in Callbacks => Owns(stack[t][i])

\* The drain is the outermost activation of Main, and has a callback only while
\* it executes it.
RunInv ==
  \A t \in Threads : \A i \in DOMAIN stack[t] : stack[t][i].op = "run" =>
    /\ t = Main /\ i = 1 /\ phase = "unloading"
    /\ stack[t][i].pc \notin {"call", "calling"} => stack[t][i].f = NoCallback

\* Nothing that waits was executed, and later registrations wait above earlier
\* ones.
CellInv ==
  \A k \in 0..(n - 1) :
    /\ stamp[fs[k]] \in 1..clock /\ runs[fs[k]] = 0 /\ fs[k] \notin done
    /\ \A m \in 0..(n - 1) : k < m => stamp[fs[k]] < stamp[fs[m]]

\* Whatever was pushed is somewhere.
KeptInv ==
  \A c \in Callbacks : stamp[c] # 0 =>
    \/ \E k \in 0..(n - 1) : fs[k] = c
    \/ \E t \in Threads : \E i \in DOMAIN stack[t] : stack[t][i].f = c
    \/ c \in done

RunsInv ==
  /\ \A c \in Callbacks : runs[c] \in {0, 1}
  /\ \A c \in done : runs[c] = 1

\* The inductive invariant; an aborted process has lost its array.
CustodyInv ==
  phase # "aborted" =>
    /\ UniqueInv /\ HeldInv /\ RunInv /\ CellInv /\ KeptInv /\ RunsInv
    /\ phase \in {"unloaded", "exited"} => size = Ran

(***************************************************************************)
(* The steps                                                               *)
(***************************************************************************)

\* What a live process has, in the form in which the steps use it.
LEMMA Unfolded ==
  ASSUME IInv, CustodyInv, phase # "aborted"
  PROVE  /\ stack \in [Threads -> Seq(Frame)]
         /\ n \in Nat /\ clock \in Nat
         /\ stamp \in [Callbacks -> Nat] /\ runs \in [Callbacks -> Nat]
         /\ UniqueInv /\ HeldInv /\ RunInv /\ CellInv /\ KeptInv /\ RunsInv
         /\ phase \in {"unloaded", "exited"} => size = Ran
         /\ \A k \in 0..(n - 1) : k \in DOMAIN fs /\ fs[k] \in Callbacks
         /\ size = Ran => n = 0
         /\ NoCallback \notin Callbacks
  BY SentinelAssumption DEF IInv, ControlInv, ControlTypeOK, TypeOK, CustodyInv, MemoryOK, Ran

\* A new activation holds nothing, or a registration that is nowhere else.
LEMMA EnterCustody ==
  ASSUME IInv, CustodyInv, phase # "aborted",
         NEW t \in Threads, NEW fr \in Frame, Enter(t, fr), fr.pc = "once",
         fr.f \in Callbacks => Fresh(fr.f) /\ fr.op # "run",
         fr.op = "run" => t = Main /\ stack[t] = << >> /\ phase' = "unloading" /\ fr.f = NoCallback,
         phase' = phase \/ (phase \in {"loading", "live"} /\ phase' \in {"live", "unloading"}),
         UNCHANGED <<array, ghosts>>
  PROVE  CustodyInv'
<1>1. /\ stack \in [Threads -> Seq(Frame)]
      /\ n' = n /\ fs' = fs /\ size' = size
      /\ clock' = clock /\ stamp' = stamp /\ runs' = runs /\ done' = done
  BY DEF IInv, ControlInv, ControlTypeOK, array, ghosts
<1>2. UniqueInv /\ HeldInv /\ RunInv /\ CellInv /\ KeptInv /\ RunsInv
  BY DEF CustodyInv
<1>3. UniqueInv'
  <2>1. SUFFICES ASSUME NEW u \in Threads, NEW i \in DOMAIN stack'[u], stack'[u][i].f \in Callbacks,
                        NEW v \in Threads, NEW j \in DOMAIN stack'[v], stack'[v][j].f = stack'[u][i].f
                 PROVE  v = u /\ j = i
    BY DEF UniqueInv
  <2>2. \/ u = t /\ i = Len(stack[t]) + 1 /\ stack'[u][i] = fr
        \/ i \in DOMAIN stack[u] /\ stack'[u][i] = stack[u][i]
    BY <1>1, EnterFrames
  <2>3. \/ v = t /\ j = Len(stack[t]) + 1 /\ stack'[v][j] = fr
        \/ j \in DOMAIN stack[v] /\ stack'[v][j] = stack[v][j]
    BY <1>1, EnterFrames
  <2> QED BY <1>2, <2>1, <2>2, <2>3 DEF UniqueInv, Fresh
<1>4. HeldInv'
  <2>1. SUFFICES ASSUME NEW u \in Threads, NEW i \in DOMAIN stack'[u], stack'[u][i].f \in Callbacks
                 PROVE  Owns(stack'[u][i])
    BY <1>1 DEF HeldInv, Owns
  <2>2. CASE u = t /\ i = Len(stack[t]) + 1 /\ stack'[u][i] = fr
    <3>1. Fresh(fr.f) /\ fr.op # "run" /\ fr.f \in Callbacks
      BY <2>1, <2>2
    <3>2. \A k \in 0..(n - 1) : fs[k] # fr.f
      BY <1>2, <3>1 DEF CellInv, Fresh
    <3>3. fr.f \notin done
      BY <1>2, <3>1 DEF RunsInv, Fresh
    <3> QED BY <2>2, <3>1, <3>2, <3>3 DEF Fresh, Owns
  <2>3. CASE i \in DOMAIN stack[u] /\ stack'[u][i] = stack[u][i]
    BY <1>2, <2>1, <2>3 DEF HeldInv
  <2> QED BY <1>1, <2>2, <2>3, EnterFrames
<1>5. RunInv'
  <2>1. SUFFICES ASSUME NEW u \in Threads, NEW i \in DOMAIN stack'[u], stack'[u][i].op = "run"
                 PROVE  /\ u = Main /\ i = 1 /\ phase' = "unloading"
                        /\ stack'[u][i].pc \notin {"call", "calling"} => stack'[u][i].f = NoCallback
    BY DEF RunInv
  <2>2. CASE u = t /\ i = Len(stack[t]) + 1 /\ stack'[u][i] = fr
    BY <2>1, <2>2
  <2>3. CASE i \in DOMAIN stack[u] /\ stack'[u][i] = stack[u][i]
    BY <1>2, <2>1, <2>3 DEF RunInv
  <2> QED BY <1>1, <2>2, <2>3, EnterFrames
<1>6. CellInv' /\ RunsInv'
  BY <1>1, <1>2 DEF CellInv, RunsInv
<1>7. KeptInv'
  <2> SUFFICES ASSUME NEW c \in Callbacks, stamp[c] # 0
               PROVE  \/ \E k \in 0..(n - 1) : fs[k] = c
                      \/ \E u \in Threads : \E i \in DOMAIN stack'[u] : stack'[u][i].f = c
                      \/ c \in done
    BY <1>1 DEF KeptInv
  <2> QED BY <1>1, <1>2, EnterKeepsFrames DEF KeptInv
<1>8. phase' \in {"unloaded", "exited"} => size' = Ran
  BY <1>1 DEF CustodyInv, Ran
<1> QED BY <1>3, <1>4, <1>5, <1>6, <1>7, <1>8 DEF CustodyInv, Ran

\* An activation that moves on, outside of a body, keeps what it holds.
LEMMA GotoCustody ==
  ASSUME IInv, CustodyInv, phase # "aborted",
         NEW t \in Threads, stack[t] # << >>, NEW pc \in Pcs, Goto(t, pc),
         Top(t).pc \notin {"call", "calling"}, pc # "calling",
         UNCHANGED <<array, phase, ghosts>>
  PROVE  CustodyInv'
<1> DEFINE fr == [Top(t) EXCEPT !.pc = pc]
<1>1. /\ stack \in [Threads -> Seq(Frame)]
      /\ n' = n /\ fs' = fs /\ size' = size /\ phase' = phase
      /\ clock' = clock /\ stamp' = stamp /\ runs' = runs /\ done' = done
  BY DEF IInv, ControlInv, ControlTypeOK, array, ghosts
<1>2. UniqueInv /\ HeldInv /\ RunInv /\ CellInv /\ KeptInv /\ RunsInv
  BY DEF CustodyInv
<1>3. Top(t) \in Frame
  BY <1>1, TopLemma
<1>4. fr \in Frame /\ fr.f = Top(t).f /\ fr.op = Top(t).op /\ fr.pc = pc /\ Become(t, fr)
  BY <1>3 DEF Frame, Goto
<1> HIDE DEF fr
<1>5. \A u \in Threads : DOMAIN stack'[u] = DOMAIN stack[u]
  BY <1>1, <1>4, BecomeFrames
<1>6. ASSUME NEW u \in Threads, NEW i \in DOMAIN stack[u]
      PROVE  /\ stack'[u][i].f = stack[u][i].f
             /\ stack'[u][i].op = stack[u][i].op
             /\ stack'[u][i].pc = "calling" <=> stack[u][i].pc = "calling"
             /\ stack[u][i].pc \in {"call", "calling"} => stack'[u][i].pc \in {"call", "calling"}
  BY <1>1, <1>3, <1>4, BecomeFrames
<1>7. UniqueInv'
  BY <1>2, <1>5, <1>6 DEF UniqueInv
<1>8. HeldInv'
  <2>1. SUFFICES ASSUME NEW u \in Threads, NEW i \in DOMAIN stack[u], stack'[u][i].f \in Callbacks
                 PROVE  Owns(stack'[u][i])
    BY <1>1, <1>5 DEF HeldInv, Owns
  <2> QED BY <1>2, <1>6, <2>1 DEF HeldInv, Owns
<1>9. RunInv'
  BY <1>1, <1>2, <1>5, <1>6 DEF RunInv
<1>10. CellInv' /\ RunsInv'
  BY <1>1, <1>2 DEF CellInv, RunsInv
<1>11. KeptInv'
  <2> SUFFICES ASSUME NEW c \in Callbacks, stamp[c] # 0
               PROVE  \/ \E k \in 0..(n - 1) : fs[k] = c
                      \/ \E u \in Threads : \E i \in DOMAIN stack'[u] : stack'[u][i].f = c
                      \/ c \in done
    BY <1>1 DEF KeptInv
  <2> QED BY <1>2, <1>5, <1>6 DEF KeptInv
<1> QED BY <1>1, <1>7, <1>8, <1>9, <1>10, <1>11 DEF CustodyInv, Ran

\* A registration that leaves, with its callback in a new cell of the array or
\* with a body that has returned, leaves all other custody alone.
LEMMA LeaveFrameInvs ==
  ASSUME IInv, CustodyInv, phase # "aborted",
         NEW t \in Threads, stack[t] # << >>, Leave(t),
         phase' = phase \/ Top(t).op = "run"
  PROVE  /\ UniqueInv'
         /\ \A u \in Threads : \A i \in DOMAIN stack'[u] : stack'[u][i].op = "run" =>
              /\ u = Main /\ i = 1 /\ phase = "unloading" /\ Top(t).op # "run"
              /\ stack'[u][i].pc \notin {"call", "calling"} => stack'[u][i].f = NoCallback
         /\ \A u \in Threads : \A i \in DOMAIN stack'[u] : stack'[u][i].f \in Callbacks =>
              /\ Owns(stack'[u][i])
              /\ stack'[u][i].f # Top(t).f
         /\ \A c \in Callbacks : stamp[c] # 0 =>
              \/ \E k \in 0..(n - 1) : fs[k] = c
              \/ \E u \in Threads : \E i \in DOMAIN stack'[u] : stack'[u][i].f = c
              \/ c = Top(t).f
              \/ c \in done
<1>1. /\ stack \in [Threads -> Seq(Frame)]
      /\ UniqueInv /\ HeldInv /\ RunInv /\ KeptInv
  BY Unfolded
<1>2. /\ Len(stack[t]) \in DOMAIN stack[t]
      /\ Top(t) = stack[t][Len(stack[t])]
      /\ \A u \in Threads : \A i \in DOMAIN stack'[u] :
           /\ i \in DOMAIN stack[u] /\ stack'[u][i] = stack[u][i]
           /\ ~ (u = t /\ i = Len(stack[t]))
      /\ \A u \in Threads : \A i \in DOMAIN stack[u] :
           \/ u = t /\ i = Len(stack[t])
           \/ i \in DOMAIN stack'[u] /\ stack'[u][i] = stack[u][i]
  BY <1>1, LeaveFrames
<1>3. UniqueInv'
  BY <1>1, <1>2 DEF UniqueInv
<1>4. ASSUME NEW u \in Threads, NEW i \in DOMAIN stack'[u], stack'[u][i].op = "run"
      PROVE  /\ u = Main /\ i = 1 /\ phase = "unloading" /\ Top(t).op # "run"
             /\ stack'[u][i].pc \notin {"call", "calling"} => stack'[u][i].f = NoCallback
  BY <1>1, <1>2, <1>4 DEF RunInv
<1>5. ASSUME NEW u \in Threads, NEW i \in DOMAIN stack'[u], stack'[u][i].f \in Callbacks
      PROVE  Owns(stack'[u][i]) /\ stack'[u][i].f # Top(t).f
  <2>1. Owns(stack'[u][i])
    BY <1>1, <1>2, <1>5 DEF HeldInv
  <2>2. stack'[u][i].f # Top(t).f
    BY <1>1, <1>2, <1>5 DEF UniqueInv
  <2> QED BY <2>1, <2>2
<1>6. ASSUME NEW c \in Callbacks, stamp[c] # 0
      PROVE  \/ \E k \in 0..(n - 1) : fs[k] = c
             \/ \E u \in Threads : \E i \in DOMAIN stack'[u] : stack'[u][i].f = c
             \/ c = Top(t).f
             \/ c \in done
  BY <1>1, <1>2, <1>6 DEF KeptInv
<1> QED BY <1>3, <1>4, <1>5, <1>6

\* The constructor has nothing that could be lost when it returns.
LEMMA LeaveCustody ==
  ASSUME IInv, CustodyInv, phase # "aborted",
         NEW t \in Threads, stack[t] # << >>, Leave(t), Top(t).op = "load",
         UNCHANGED <<array, phase, ghosts>>
  PROVE  CustodyInv'
<1>1. /\ n' = n /\ fs' = fs /\ size' = size /\ phase' = phase
      /\ clock' = clock /\ stamp' = stamp /\ runs' = runs /\ done' = done
  BY DEF array, ghosts
<1>2. /\ UniqueInv /\ HeldInv /\ RunInv /\ CellInv /\ KeptInv /\ RunsInv
      /\ stack \in [Threads -> Seq(Frame)]
      /\ phase \in {"unloaded", "exited"} => size = Ran
  BY Unfolded
<1>3. HeldInv'
  BY <1>1, LeaveFrameInvs DEF HeldInv, Owns
<1>4. RunInv'
  BY <1>1, LeaveFrameInvs DEF RunInv
<1>5. CellInv' /\ RunsInv'
  BY <1>1, <1>2 DEF CellInv, RunsInv
<1>6. KeptInv'
  <2>1. Top(t).f \in Callbacks => stamp[Top(t).f] = 0
    BY <1>2, TopLemma DEF HeldInv, Owns
  <2> QED BY <1>1, <2>1, LeaveFrameInvs DEF KeptInv
<1> QED BY <1>1, <1>2, <1>3, <1>4, <1>5, <1>6, LeaveFrameInvs DEF CustodyInv, Ran

LEMMA SynchroniseCustody ==
  ASSUME NEW t \in Threads
  PROVE  IInv /\ CustodyInv /\ Synchronise(t) => CustodyInv'
<1> SUFFICES ASSUME IInv, CustodyInv, Synchronise(t) PROVE CustodyInv'
  OBVIOUS
<1>1. /\ phase # "aborted" /\ stack[t] # << >>
      /\ Top(t).pc \in {"once", "init", "lock"}
      /\ UNCHANGED <<array, phase, ghosts>>
      /\ \/ Goto(t, "init") \/ Goto(t, "lock") \/ Goto(t, "locked")
         \/ Leave(t) /\ Top(t).op = "load"
  BY DEF Synchronise, Alive, OnceEnter, InitLock, OncePass, Lock, AfterOnce, At
<1>2. CASE Leave(t) /\ Top(t).op = "load"
  BY <1>1, <1>2, LeaveCustody
<1>3. ASSUME NEW pc \in {"init", "lock", "locked"}, Goto(t, pc) PROVE CustodyInv'
  BY <1>1, <1>3, GotoCustody DEF Pcs
<1> QED BY <1>1, <1>2, <1>3

LEMMA RedirectCustody ==
  ASSUME NEW t \in Threads
  PROVE  IInv /\ CustodyInv /\ Redirect(t) => CustodyInv'
  BY GotoCustody DEF Redirect, Alive, At, Pcs

\* Growing keeps the cells in use, and the new callback is above them.
LEMMA PushCells ==
  ASSUME IInv, NEW t \in Threads, Push(t)
  PROVE  fs'[n] = Top(t).f /\ \A k \in 0..(n - 1) : fs'[k] = fs[k]
<1>1. /\ n \in Nat /\ size # Ran /\ size \in Capacities \cup {0} /\ n <= size
      /\ DOMAIN fs = 0..(size - 1)
      /\ fs \in [DOMAIN fs -> Callbacks \cup {NoCallback}]
  BY CapacityRange DEF IInv, TypeOK, MemoryOK, Push, Late, Ran, Alive
<1>2. CASE Full
  <2>1. NextSize \in Capacities /\ NextSize > size /\ n = size /\ NextSize \in Nat /\ size \in Nat
    BY <1>1, <1>2, NextSizeGrows, CapacityRange DEF Push, Full
  <2>2. fs' = [Realloc(fs, NextSize) EXCEPT ![n] = Top(t).f]
    BY <1>2 DEF Push
  <2> QED BY <1>1, <2>1, <2>2 DEF Realloc
<1>3. CASE ~ Full
  <2>1. fs' = [fs EXCEPT ![n] = Top(t).f] /\ n < size
    BY <1>1, <1>3, CapacityRange DEF Push, Full
  <2> QED BY <1>1, <2>1, CapacityRange
<1> QED BY <1>2, <1>3

\* A registration passes from a frame to the topmost cell.
LEMMA PushCustody ==
  ASSUME NEW t \in Threads
  PROVE  IInv /\ CustodyInv /\ Push(t) => CustodyInv'
<1> SUFFICES ASSUME IInv, CustodyInv, Push(t) PROVE CustodyInv'
  OBVIOUS
<1> DEFINE c == Top(t).f
<1>1. /\ stack[t] # << >> /\ Top(t).pc = "locked" /\ Top(t).op = "add"
      /\ Leave(t) /\ phase' = phase /\ phase # "aborted"
      /\ runs' = runs /\ done' = done
      /\ n' = n + 1 /\ clock' = clock + 1
      /\ stamp' = [stamp EXCEPT ![c] = clock + 1]
  BY DEF Push, At, Alive
<1>2. /\ stack \in [Threads -> Seq(Frame)]
      /\ n \in Nat /\ clock \in Nat /\ stamp \in [Callbacks -> Nat]
      /\ UniqueInv /\ HeldInv /\ RunInv /\ CellInv /\ KeptInv /\ RunsInv
      /\ \A k \in 0..(n - 1) : k \in DOMAIN fs /\ fs[k] \in Callbacks
      /\ phase \in {"unloaded", "exited"} => size = Ran
  BY <1>1, Unfolded
<1>3. c \in Callbacks /\ stamp[c] = 0 /\ Owns(Top(t)) /\ runs[c] = 0 /\ c \notin done
  BY <1>1, <1>2, ActiveFrame, TopLemma DEF IInv, FrameOK, HeldInv, Owns
<1>4. fs'[n] = c /\ \A k \in 0..(n - 1) : fs'[k] = fs[k]
  BY PushCells, <1>1
<1>5. 0..(n' - 1) = 0..(n - 1) \cup {n} /\ n \notin 0..(n - 1)
  BY <1>1, <1>2
<1>6. stamp'[c] = clock + 1 /\ \A d \in Callbacks : d # c => stamp'[d] = stamp[d]
  BY <1>1, <1>2, <1>3
<1>7. \A k \in 0..(n - 1) : fs[k] # c
  BY <1>3 DEF Owns
<1>8. UniqueInv'
  BY <1>1, LeaveFrameInvs
<1>9. HeldInv'
  <2> SUFFICES ASSUME NEW u \in Threads, NEW i \in DOMAIN stack'[u], stack'[u][i].f \in Callbacks
               PROVE  Owns(stack[u][i])'
    BY DEF HeldInv
  <2>1. Owns(stack'[u][i]) /\ stack'[u][i].f # c
    BY <1>1, LeaveFrameInvs
  <2> QED BY <1>1, <1>4, <1>5, <1>6, <2>1 DEF Owns
<1>10. RunInv'
  BY <1>1, LeaveFrameInvs DEF RunInv
<1>11. CellInv'
  <2>1. ASSUME NEW k \in 0..n
        PROVE  stamp'[fs'[k]] \in 1..clock' /\ runs'[fs'[k]] = 0 /\ fs'[k] \notin done'
    <3>1. CASE k = n
      BY <1>1, <1>2, <1>3, <1>4, <1>6, <3>1
    <3>2. CASE k \in 0..(n - 1)
      BY <1>1, <1>2, <1>4, <1>6, <1>7, <3>2 DEF CellInv
    <3> QED BY <1>2, <3>1, <3>2
  <2>2. ASSUME NEW k \in 0..n, NEW m \in 0..n, k < m
        PROVE  stamp'[fs'[k]] < stamp'[fs'[m]]
    <3>1. k \in 0..(n - 1)
      BY <1>2, <2>2
    <3>2. stamp'[fs'[k]] = stamp[fs[k]] /\ stamp[fs[k]] \in 1..clock
      BY <1>2, <1>4, <1>6, <1>7, <3>1 DEF CellInv
    <3>3. CASE m = n
      BY <1>2, <1>4, <1>6, <3>2, <3>3
    <3>4. CASE m \in 0..(n - 1)
      <4>1. stamp'[fs'[m]] = stamp[fs[m]]
        BY <1>2, <1>4, <1>6, <1>7, <3>4
      <4> QED BY <1>2, <2>2, <3>1, <3>2, <3>4, <4>1 DEF CellInv
    <3> QED BY <1>2, <3>3, <3>4
  <2> QED BY <1>1, <1>2, <2>1, <2>2 DEF CellInv
<1>12. KeptInv'
  <2> SUFFICES ASSUME NEW d \in Callbacks, stamp'[d] # 0
               PROVE  \/ \E k \in 0..(n' - 1) : fs'[k] = d
                      \/ \E u \in Threads : \E i \in DOMAIN stack'[u] : stack'[u][i].f = d
                      \/ d \in done'
    BY DEF KeptInv
  <2>1. CASE d = c
    BY <1>4, <1>5, <2>1
  <2>2. CASE d # c
    <3>1. stamp[d] # 0
      BY <1>6, <2>2
    <3>2. \/ \E k \in 0..(n - 1) : fs[k] = d
          \/ \E u \in Threads : \E i \in DOMAIN stack'[u] : stack'[u][i].f = d
          \/ d \in done
      BY <1>1, <2>2, <3>1, LeaveFrameInvs
    <3>3. ASSUME NEW k \in 0..(n - 1), fs[k] = d
          PROVE  \E j \in 0..(n' - 1) : fs'[j] = d
      BY <1>4, <1>5, <3>3
    <3> QED BY <1>1, <3>2, <3>3
  <2> QED BY <2>1, <2>2
<1>13. RunsInv'
  BY <1>1, <1>2 DEF RunsInv
<1>14. phase' \notin {"unloaded", "exited"}
  <2>1. ~ Late /\ n = 0 => size = 0
    BY DEF Late
  <2>2. size = Ran => n = 0
    BY <1>1, Unfolded
  <2> QED BY <1>1, <1>2, <2>1, <2>2, CapacityRange DEF Push
<1> QED BY <1>8, <1>9, <1>10, <1>11, <1>12, <1>13, <1>14 DEF CustodyInv

\* A registration passes from the topmost cell to the frame of the drain.
LEMMA PopCustody ==
  ASSUME NEW t \in Threads
  PROVE  IInv /\ CustodyInv /\ Pop(t) => CustodyInv'
<1> SUFFICES ASSUME IInv, CustodyInv, Pop(t) PROVE CustodyInv'
  OBVIOUS
<1> DEFINE fr == [op |-> "run", pc |-> "call", f |-> Youngest]
<1>1. /\ stack[t] # << >> /\ Top(t).pc = "locked" /\ Top(t).op = "run"
      /\ Become(t, fr) /\ n > 0 /\ n' = n - 1
      /\ phase # "aborted" /\ phase' = phase /\ size' = size /\ fs' = fs
      /\ clock' = clock /\ stamp' = stamp /\ runs' = runs /\ done' = done
  BY DEF Pop, At, Alive, SomeLeft, ghosts
<1>2. /\ stack \in [Threads -> Seq(Frame)] /\ n \in Nat
      /\ UniqueInv /\ HeldInv /\ RunInv /\ CellInv /\ KeptInv /\ RunsInv
      /\ \A k \in 0..(n - 1) : k \in DOMAIN fs /\ fs[k] \in Callbacks
      /\ phase \in {"unloaded", "exited"} => size = Ran
      /\ NoCallback \notin Callbacks
  BY <1>1, Unfolded
<1>3. /\ n - 1 \in 0..(n - 1)
      /\ 0..(n - 1) = 0..(n' - 1) \cup {n - 1}
      /\ n - 1 \notin 0..(n' - 1)
      /\ \A k \in 0..(n' - 1) : k < n - 1
  BY <1>1, <1>2
<1>4. Youngest \in Callbacks
  BY <1>2, <1>3 DEF Youngest
<1>5. fr \in Frame /\ fr.op = "run" /\ fr.pc = "call" /\ fr.f = Youngest
  BY <1>4 DEF Frame, Ops, Pcs
<1> HIDE DEF fr
<1>6. /\ Len(stack[t]) \in DOMAIN stack[t]
      /\ Top(t) = stack[t][Len(stack[t])]
      /\ \A u \in Threads : DOMAIN stack'[u] = DOMAIN stack[u]
      /\ \A u \in Threads : \A i \in DOMAIN stack[u] :
           stack'[u][i] = IF u = t /\ i = Len(stack[t]) THEN fr ELSE stack[u][i]
  BY <1>1, <1>2, <1>5, BecomeFrames
<1>7. Top(t).f = NoCallback /\ t = Main /\ Len(stack[t]) = 1 /\ phase = "unloading"
  BY <1>1, <1>2, <1>6 DEF RunInv
<1>8. \A k \in 0..(n' - 1) : stamp[fs[k]] < stamp[Youngest] /\ stamp[Youngest] \in Nat /\ stamp[fs[k]] \in Nat
  BY <1>1, <1>2, <1>3, Unfolded DEF CellInv, Youngest
<1>9. \A k \in 0..(n' - 1) : fs[k] # Youngest
  BY <1>8
<1>10. ASSUME NEW u \in Threads, NEW i \in DOMAIN stack[u], stack[u][i].f \in Callbacks
       PROVE  stack[u][i].f # Youngest
  BY <1>2, <1>3, <1>10 DEF HeldInv, Owns, Youngest
<1>11. UniqueInv'
  <2> SUFFICES ASSUME NEW u \in Threads, NEW i \in DOMAIN stack[u], stack'[u][i].f \in Callbacks,
                      NEW v \in Threads, NEW j \in DOMAIN stack[v], stack'[v][j].f = stack'[u][i].f
               PROVE  v = u /\ j = i
    BY <1>6 DEF UniqueInv
  <2> QED BY <1>2, <1>5, <1>6, <1>10 DEF UniqueInv
<1>12. HeldInv'
  <2>1. SUFFICES ASSUME NEW u \in Threads, NEW i \in DOMAIN stack[u], stack'[u][i].f \in Callbacks
                 PROVE  Owns(stack[u][i])'
    BY <1>6 DEF HeldInv
  <2>2. CASE u = t /\ i = Len(stack[t])
    <3>1. stack'[u][i] = fr
      BY <1>6, <2>2
    <3>2. Youngest \notin done /\ runs[Youngest] = 0
      BY <1>2, <1>3 DEF CellInv, Youngest
    <3> QED BY <1>1, <1>5, <1>9, <3>1, <3>2 DEF Owns
  <2>3. CASE ~ (u = t /\ i = Len(stack[t]))
    <3>1. stack'[u][i] = stack[u][i] /\ Owns(stack[u][i])
      BY <1>2, <1>6, <2>1, <2>3 DEF HeldInv
    <3> QED BY <1>1, <1>3, <3>1 DEF Owns
  <2> QED BY <2>2, <2>3
<1>13. RunInv'
  <2> SUFFICES ASSUME NEW u \in Threads, NEW i \in DOMAIN stack[u], stack'[u][i].op = "run"
               PROVE  /\ u = Main /\ i = 1 /\ phase' = "unloading"
                      /\ stack'[u][i].pc \notin {"call", "calling"} => stack'[u][i].f = NoCallback
    BY <1>6 DEF RunInv
  <2> QED BY <1>1, <1>2, <1>5, <1>6, <1>7 DEF RunInv
<1>14. CellInv' /\ RunsInv'
  BY <1>1, <1>2, <1>3 DEF CellInv, RunsInv
<1>15. KeptInv'
  <2>1. SUFFICES ASSUME NEW d \in Callbacks, stamp[d] # 0
                 PROVE  \/ \E k \in 0..(n' - 1) : fs[k] = d
                        \/ \E u \in Threads : \E i \in DOMAIN stack'[u] : stack'[u][i].f = d
                        \/ d \in done
    BY <1>1 DEF KeptInv
  <2>2. CASE d = Youngest
    BY <1>5, <1>6, <2>2
  <2>3. CASE \E k \in 0..(n - 1) : fs[k] = d /\ d # Youngest
    BY <1>3, <2>3 DEF Youngest
  <2>4. ASSUME NEW u \in Threads, NEW i \in DOMAIN stack[u], stack[u][i].f = d
        PROVE  i \in DOMAIN stack'[u] /\ stack'[u][i].f = d
    BY <1>2, <1>6, <1>7, <2>4
  <2> QED BY <1>2, <2>1, <2>2, <2>3, <2>4 DEF KeptInv
<1> QED BY <1>1, <1>2, <1>11, <1>12, <1>13, <1>14, <1>15 DEF CustodyInv, Ran

\* The drain ends with nothing in the array and nothing in its frame.
LEMMA DrainedCustody ==
  ASSUME NEW t \in Threads
  PROVE  IInv /\ CustodyInv /\ Drained(t) => CustodyInv'
<1> SUFFICES ASSUME IInv, CustodyInv, Drained(t) PROVE CustodyInv'
  OBVIOUS
<1>1. /\ stack[t] # << >> /\ Top(t).pc = "locked" /\ Top(t).op = "run"
      /\ Leave(t) /\ ~ (n > 0) /\ n' = 0 /\ size' = Ran
      /\ phase # "aborted" /\ phase' = "unloaded"
      /\ clock' = clock /\ stamp' = stamp /\ runs' = runs /\ done' = done
  BY DEF Drained, At, Alive, SomeLeft, ghosts
<1>2. /\ stack \in [Threads -> Seq(Frame)] /\ n \in Nat
      /\ UniqueInv /\ HeldInv /\ RunInv /\ RunsInv
      /\ NoCallback \notin Callbacks
  BY <1>1, Unfolded
<1>3. n = 0 /\ 0..(n' - 1) = {} /\ 0..(n - 1) = {}
  BY <1>1, <1>2
<1>4. Top(t).f = NoCallback
  BY <1>1, <1>2, TopLemma DEF RunInv
<1>5. HeldInv'
  BY <1>1, <1>3, LeaveFrameInvs DEF HeldInv, Owns
<1>6. RunInv'
  BY <1>1, LeaveFrameInvs DEF RunInv
<1>7. CellInv'
  BY <1>3 DEF CellInv
<1>8. KeptInv'
  BY <1>1, <1>2, <1>3, <1>4, LeaveFrameInvs DEF KeptInv
<1>9. RunsInv'
  BY <1>1, <1>2 DEF RunsInv
<1>10. UniqueInv'
  BY <1>1, LeaveFrameInvs
<1>11. size' = Ran'
  BY <1>1 DEF Ran
<1> QED BY <1>5, <1>6, <1>7, <1>8, <1>9, <1>10, <1>11 DEF CustodyInv

\* The body of what a frame holds is entered: the frame says so from then on.
LEMMA CallCustody ==
  ASSUME NEW t \in Threads
  PROVE  IInv /\ CustodyInv /\ Call(t) => CustodyInv'
<1> SUFFICES ASSUME IInv, CustodyInv, Call(t) PROVE CustodyInv'
  OBVIOUS
<1> DEFINE fr == [Top(t) EXCEPT !.pc = "calling"]
<1>1. /\ stack[t] # << >> /\ Top(t).pc = "call"
      /\ Become(t, fr)
      /\ phase # "aborted" /\ phase' = phase
      /\ n' = n /\ size' = size /\ fs' = fs
      /\ runs' = [runs EXCEPT ![Top(t).f] = @ + 1]
      /\ clock' = clock /\ stamp' = stamp /\ done' = done
  BY DEF Call, At, Goto, Alive, array
<1>2. /\ stack \in [Threads -> Seq(Frame)] /\ runs \in [Callbacks -> Nat]
      /\ UniqueInv /\ HeldInv /\ RunInv /\ CellInv /\ KeptInv /\ RunsInv
      /\ \A k \in 0..(n - 1) : fs[k] \in Callbacks
      /\ phase \in {"unloaded", "exited"} => size = Ran
  BY <1>1, Unfolded
<1>3. Top(t) \in Frame /\ Top(t).f \in Callbacks
  BY <1>1, ActiveFrame DEF IInv, FrameOK
<1>4. fr \in Frame /\ fr.f = Top(t).f /\ fr.op = Top(t).op /\ fr.pc = "calling"
  BY <1>3 DEF Frame, Pcs
<1> HIDE DEF fr
<1>5. /\ Len(stack[t]) \in DOMAIN stack[t]
      /\ Top(t) = stack[t][Len(stack[t])]
      /\ \A u \in Threads : DOMAIN stack'[u] = DOMAIN stack[u]
      /\ \A u \in Threads : \A i \in DOMAIN stack[u] :
           stack'[u][i] = IF u = t /\ i = Len(stack[t]) THEN fr ELSE stack[u][i]
  BY <1>1, <1>2, <1>4, BecomeFrames
<1>6. Owns(Top(t)) /\ runs[Top(t).f] = 0
  BY <1>1, <1>2, <1>3, <1>5 DEF HeldInv, Owns
<1>7. runs'[Top(t).f] = 1 /\ \A d \in Callbacks : d # Top(t).f => runs'[d] = runs[d]
  BY <1>1, <1>2, <1>3, <1>6
<1>8. ASSUME NEW u \in Threads, NEW i \in DOMAIN stack[u]
      PROVE  stack'[u][i].f = stack[u][i].f /\ stack'[u][i].op = stack[u][i].op
  BY <1>4, <1>5
<1>9. UniqueInv'
  <2> SUFFICES ASSUME NEW u \in Threads, NEW i \in DOMAIN stack[u], stack'[u][i].f \in Callbacks,
                      NEW v \in Threads, NEW j \in DOMAIN stack[v], stack'[v][j].f = stack'[u][i].f
               PROVE  v = u /\ j = i
    BY <1>5 DEF UniqueInv
  <2>1. stack[u][i].f \in Callbacks /\ stack[v][j].f = stack[u][i].f
    BY <1>8
  <2> QED BY <1>2, <2>1 DEF UniqueInv
<1>10. HeldInv'
  <2>1. SUFFICES ASSUME NEW u \in Threads, NEW i \in DOMAIN stack[u], stack'[u][i].f \in Callbacks
                 PROVE  Owns(stack[u][i])'
    BY <1>5 DEF HeldInv
  <2>2. CASE u = t /\ i = Len(stack[t])
    BY <1>1, <1>4, <1>5, <1>6, <1>7, <2>2 DEF Owns
  <2>3. CASE ~ (u = t /\ i = Len(stack[t]))
    <3>1. stack'[u][i] = stack[u][i] /\ Owns(stack[u][i])
      BY <1>2, <1>5, <2>1, <2>3 DEF HeldInv
    <3>2. stack[u][i].f # Top(t).f
      BY <1>2, <1>3, <1>5, <2>3 DEF UniqueInv
    <3> QED BY <1>1, <1>7, <2>1, <3>1, <3>2 DEF Owns
  <2> QED BY <2>2, <2>3
<1>11. RunInv'
  <2> SUFFICES ASSUME NEW u \in Threads, NEW i \in DOMAIN stack[u], stack'[u][i].op = "run"
               PROVE  /\ u = Main /\ i = 1 /\ phase' = "unloading"
                      /\ stack'[u][i].pc \notin {"call", "calling"} => stack'[u][i].f = NoCallback
    BY <1>5 DEF RunInv
  <2> QED BY <1>1, <1>2, <1>4, <1>5 DEF RunInv
<1>12. CellInv'
  <2>1. \A k \in 0..(n - 1) : runs'[fs[k]] = runs[fs[k]]
    BY <1>2, <1>6, <1>7 DEF Owns
  <2> QED BY <1>1, <1>2, <2>1 DEF CellInv
<1>13. KeptInv'
  <2>1. SUFFICES ASSUME NEW d \in Callbacks, stamp[d] # 0
                 PROVE  \/ \E k \in 0..(n - 1) : fs[k] = d
                        \/ \E u \in Threads : \E i \in DOMAIN stack'[u] : stack'[u][i].f = d
                        \/ d \in done
    BY <1>1 DEF KeptInv
  <2>2. ASSUME NEW u \in Threads, NEW i \in DOMAIN stack[u], stack[u][i].f = d
        PROVE  i \in DOMAIN stack'[u] /\ stack'[u][i].f = d
    BY <1>5, <1>8, <2>2
  <2> QED BY <1>2, <2>1, <2>2 DEF KeptInv
<1>14. RunsInv'
  <2>1. Top(t).f \notin done
    BY <1>6 DEF Owns
  <2>2. done \subseteq Callbacks
    BY DEF IInv, TypeOK
  <2> QED BY <1>1, <1>2, <1>7, <2>1, <2>2 DEF RunsInv
<1> QED BY <1>1, <1>2, <1>9, <1>10, <1>11, <1>12, <1>13, <1>14 DEF CustodyInv, Ran

\* The drain has returned from a body, and gives up what it held.
LEMMA ReturnToDrainCustody ==
  ASSUME NEW t \in Threads, IInv, CustodyInv, Return(t), Top(t).op = "run"
  PROVE  CustodyInv'
<1> DEFINE fr == [op |-> "run", pc |-> "lock", f |-> NoCallback]
<1>1. /\ stack[t] # << >> /\ Top(t).pc = "calling"
      /\ Become(t, fr)
      /\ phase # "aborted" /\ phase' = phase
      /\ n' = n /\ size' = size /\ fs' = fs
      /\ done' = done \cup {Top(t).f}
      /\ clock' = clock /\ stamp' = stamp /\ runs' = runs
  BY DEF Return, At, Alive, array
<1>2. /\ stack \in [Threads -> Seq(Frame)]
      /\ UniqueInv /\ HeldInv /\ RunInv /\ CellInv /\ KeptInv /\ RunsInv
      /\ phase \in {"unloaded", "exited"} => size = Ran
      /\ NoCallback \notin Callbacks
  BY <1>1, Unfolded
<1>3. Top(t) \in Frame /\ Top(t).f \in Callbacks
  BY <1>1, ActiveFrame DEF IInv, FrameOK
<1>4. fr \in Frame /\ fr.f = NoCallback /\ fr.op = "run" /\ fr.pc = "lock"
  BY DEF Frame, Ops, Pcs
<1> HIDE DEF fr
<1>5. /\ Len(stack[t]) \in DOMAIN stack[t]
      /\ Top(t) = stack[t][Len(stack[t])]
      /\ \A u \in Threads : DOMAIN stack'[u] = DOMAIN stack[u]
      /\ \A u \in Threads : \A i \in DOMAIN stack[u] :
           stack'[u][i] = IF u = t /\ i = Len(stack[t]) THEN fr ELSE stack[u][i]
  BY <1>1, <1>2, <1>4, BecomeFrames
<1>6. Owns(Top(t)) /\ runs[Top(t).f] = 1
  BY <1>1, <1>2, <1>3, <1>5 DEF HeldInv, Owns
<1>7. UniqueInv'
  <2> SUFFICES ASSUME NEW u \in Threads, NEW i \in DOMAIN stack[u], stack'[u][i].f \in Callbacks,
                      NEW v \in Threads, NEW j \in DOMAIN stack[v], stack'[v][j].f = stack'[u][i].f
               PROVE  v = u /\ j = i
    BY <1>5 DEF UniqueInv
  <2> QED BY <1>2, <1>4, <1>5 DEF UniqueInv
<1>8. HeldInv'
  <2>1. SUFFICES ASSUME NEW u \in Threads, NEW i \in DOMAIN stack[u], stack'[u][i].f \in Callbacks
                 PROVE  Owns(stack[u][i])'
    BY <1>5 DEF HeldInv
  <2>2. ~ (u = t /\ i = Len(stack[t]))
    BY <1>2, <1>4, <1>5, <2>1
  <2>3. stack'[u][i] = stack[u][i] /\ Owns(stack[u][i])
    BY <1>2, <1>5, <2>1, <2>2 DEF HeldInv
  <2>4. stack[u][i].f # Top(t).f
    BY <1>2, <1>3, <1>5, <2>2 DEF UniqueInv
  <2> QED BY <1>1, <2>3, <2>4 DEF Owns
<1>9. RunInv'
  <2> SUFFICES ASSUME NEW u \in Threads, NEW i \in DOMAIN stack[u], stack'[u][i].op = "run"
               PROVE  /\ u = Main /\ i = 1 /\ phase' = "unloading"
                      /\ stack'[u][i].pc \notin {"call", "calling"} => stack'[u][i].f = NoCallback
    BY <1>5 DEF RunInv
  <2> QED BY <1>1, <1>2, <1>4, <1>5 DEF RunInv
<1>10. CellInv'
  BY <1>1, <1>2, <1>6 DEF CellInv, Owns
<1>11. KeptInv'
  <2>1. SUFFICES ASSUME NEW d \in Callbacks, stamp[d] # 0
                 PROVE  \/ \E k \in 0..(n - 1) : fs[k] = d
                        \/ \E u \in Threads : \E i \in DOMAIN stack'[u] : stack'[u][i].f = d
                        \/ d \in done'
    BY <1>1 DEF KeptInv
  <2>2. ASSUME NEW u \in Threads, NEW i \in DOMAIN stack[u], stack[u][i].f = d
        PROVE  i \in DOMAIN stack'[u] /\ (stack'[u][i].f = d \/ d \in done')
    BY <1>1, <1>5, <2>2
  <2> QED BY <1>1, <1>2, <2>1, <2>2 DEF KeptInv
<1>12. RunsInv'
  BY <1>1, <1>2, <1>6 DEF RunsInv
<1> QED BY <1>1, <1>2, <1>7, <1>8, <1>9, <1>10, <1>11, <1>12 DEF CustodyInv, Ran

\* A late registration returns when the body of its callback has.
LEMMA ReturnToClientCustody ==
  ASSUME NEW t \in Threads, IInv, CustodyInv, Return(t), Top(t).op # "run"
  PROVE  CustodyInv'
<1>1. /\ stack[t] # << >> /\ Top(t).pc = "calling"
      /\ Leave(t)
      /\ phase # "aborted" /\ phase' = phase
      /\ n' = n /\ size' = size /\ fs' = fs
      /\ done' = done \cup {Top(t).f}
      /\ clock' = clock /\ stamp' = stamp /\ runs' = runs
  BY DEF Return, At, Alive, array
<1>2. /\ stack \in [Threads -> Seq(Frame)]
      /\ HeldInv /\ CellInv /\ RunsInv
      /\ phase \in {"unloaded", "exited"} => size = Ran
  BY <1>1, Unfolded
<1>3. Top(t).f \in Callbacks
  BY <1>1, ActiveFrame DEF IInv, FrameOK
<1>4. Owns(Top(t)) /\ runs[Top(t).f] = 1
  BY <1>1, <1>2, <1>3, TopLemma DEF HeldInv, Owns
<1>5. HeldInv'
  <2> SUFFICES ASSUME NEW u \in Threads, NEW i \in DOMAIN stack'[u], stack'[u][i].f \in Callbacks
               PROVE  Owns(stack[u][i])'
    BY DEF HeldInv
  <2>1. Owns(stack'[u][i]) /\ stack'[u][i].f # Top(t).f
    BY <1>1, LeaveFrameInvs
  <2> QED BY <1>1, <2>1 DEF Owns
<1>6. UniqueInv'
  BY <1>1, LeaveFrameInvs
<1>7. RunInv'
  BY <1>1, LeaveFrameInvs DEF RunInv
<1>8. CellInv'
  BY <1>1, <1>2, <1>4 DEF CellInv, Owns
<1>9. KeptInv'
  <2> SUFFICES ASSUME NEW d \in Callbacks, stamp[d] # 0
               PROVE  \/ \E k \in 0..(n - 1) : fs[k] = d
                      \/ \E u \in Threads : \E i \in DOMAIN stack'[u] : stack'[u][i].f = d
                      \/ d \in done'
    BY <1>1 DEF KeptInv
  <2> QED BY <1>1, LeaveFrameInvs
<1>10. RunsInv'
  BY <1>1, <1>2, <1>4 DEF RunsInv
<1> QED BY <1>1, <1>2, <1>5, <1>6, <1>7, <1>8, <1>9, <1>10 DEF CustodyInv, Ran

\* Loading, registering and unloading start with a frame that is new.
LEMMA BeginCustody ==
  ASSUME IInv, CustodyInv, BeginLoad \/ BeginUnload \/ \E t \in Threads, c \in Callbacks : BeginAdd(t, c)
  PROVE  CustodyInv'
<1>1. CASE BeginLoad
  <2> DEFINE fr == [op |-> "load", pc |-> "once", f |-> NoCallback]
  <2>1. fr \in Frame /\ fr.op = "load" /\ fr.pc = "once" /\ fr.f \notin Callbacks
    BY SentinelAssumption DEF Frame, Ops, Pcs
  <2>2. Enter(Main, fr) /\ Main \in Threads
    BY <1>1, MainAssumption DEF BeginLoad
  <2> HIDE DEF fr
  <2> QED BY <1>1, <2>1, <2>2, EnterCustody DEF BeginLoad
<1>2. CASE BeginUnload
  <2> DEFINE fr == [op |-> "run", pc |-> "once", f |-> NoCallback]
  <2>1. fr \in Frame /\ fr.op = "run" /\ fr.pc = "once" /\ fr.f = NoCallback /\ fr.f \notin Callbacks
    BY SentinelAssumption DEF Frame, Ops, Pcs
  <2>2. Enter(Main, fr) /\ Main \in Threads
    BY <1>2, MainAssumption DEF BeginUnload
  <2> HIDE DEF fr
  <2> QED BY <1>2, <2>1, <2>2, EnterCustody DEF BeginUnload
<1>3. ASSUME NEW t \in Threads, NEW c \in Callbacks, BeginAdd(t, c) PROVE CustodyInv'
  <2> DEFINE fr == [op |-> "add", pc |-> "once", f |-> c]
  <2>1. fr \in Frame /\ fr.op = "add" /\ fr.pc = "once" /\ fr.f = c
    BY DEF Frame, Ops, Pcs
  <2>2. Enter(t, fr)
    BY <1>3 DEF BeginAdd
  <2> HIDE DEF fr
  <2> QED BY <1>3, <2>1, <2>2, EnterCustody DEF BeginAdd, Alive
<1> QED BY <1>1, <1>2, <1>3

\* A step that leaves the stacks, the array and the ghosts alone.
LEMMA UnchangedCustody ==
  ASSUME CustodyInv, UNCHANGED <<stack, array, ghosts>>,
         phase' = phase \/ (phase = "unloaded" /\ phase' = "exited")
  PROVE  CustodyInv'
  BY DEF CustodyInv, UniqueInv, HeldInv, Owns, RunInv, CellInv, KeptInv, RunsInv, Ran, array, ghosts

LEMMA InitCustody == Init => CustodyInv
<1> SUFFICES ASSUME Init PROVE CustodyInv
  OBVIOUS
<1>1. /\ \A t \in Threads : stack[t] = << >>
      /\ n = 0 /\ phase = "loading" /\ done = {}
      /\ \A c \in Callbacks : stamp[c] = 0 /\ runs[c] = 0
  BY DEF Init, ControlInit
<1>2. 0..(n - 1) = {}
  BY <1>1
<1> QED BY <1>1, <1>2 DEF CustodyInv, UniqueInv, HeldInv, RunInv, CellInv, KeptInv, RunsInv

LEMMA NextCustody == IInv /\ CustodyInv /\ [Next]_vars => CustodyInv'
<1> SUFFICES ASSUME IInv, CustodyInv, [Next]_vars PROVE CustodyInv'
  OBVIOUS
<1>1. CASE BeginLoad \/ BeginUnload \/ \E t \in Threads, c \in Callbacks : BeginAdd(t, c)
  BY <1>1, BeginCustody
<1>2. CASE Exit
  BY <1>2, UnchangedCustody DEF Exit
<1>3. ASSUME NEW t \in Threads, Step(t) PROVE CustodyInv'
  <2>1. CASE AbortOnRealloc(t)
    BY <2>1 DEF AbortOnRealloc, CustodyInv
  <2>2. CASE Return(t)
    BY <2>2, ReturnToDrainCustody, ReturnToClientCustody
  <2> QED BY <1>3, <2>1, <2>2, SynchroniseCustody, RedirectCustody, PushCustody,
             PopCustody, DrainedCustody, CallCustody DEF Step
<1>4. CASE UNCHANGED vars
  BY <1>4, UnchangedCustody DEF vars
<1> QED BY <1>1, <1>2, <1>3, <1>4 DEF Next, Terminated

\* In every state, whatever was pushed is in one cell, in one frame, or done.
THEOREM Custody == Spec => [](IInv /\ CustodyInv)
<1>1. Init => IInv /\ CustodyInv
  BY InitIInv, InitCustody
<1>2. (IInv /\ CustodyInv) /\ [Next]_vars => (IInv /\ CustodyInv)'
  BY NextIInv, NextCustody
<1> QED BY <1>1, <1>2, PTL DEF Spec

(***************************************************************************)
(* What follows                                                            *)
(***************************************************************************)

LEMMA CustodyIsOnce == IInv /\ CustodyInv => ExactlyOnce
<1> SUFFICES ASSUME IInv, CustodyInv, phase # "aborted", NEW c \in Callbacks
             PROVE  /\ runs[c] <= 1
                    /\ c \in done => runs[c] = 1 /\ c \notin Queued /\ ~ InFlight(c)
                    /\ c \in Queued => ~ InFlight(c) /\ runs[c] = 0
                    /\ \A p, q \in Holders(c) : p = q
                    /\ \A i, j \in 0..(n - 1) : fs[i] = c /\ fs[j] = c => i = j
                    /\ stamp[c] # 0 => c \in Queued \/ InFlight(c) \/ c \in done
  BY DEF ExactlyOnce
<1>1. /\ n \in Nat /\ clock \in Nat
      /\ UniqueInv /\ HeldInv /\ RunInv /\ CellInv /\ KeptInv /\ RunsInv
  BY Unfolded
<1>2. \A p \in Holders(c) : \E t \in Threads : \E i \in DOMAIN stack[t] :
        p = <<t, i>> /\ stack[t][i].f = c
  BY DEF Holders, Frames, FrameAt
<1>3. InFlight(c) <=> \E t \in Threads : \E i \in DOMAIN stack[t] : stack[t][i].f = c
  <2>1. ASSUME NEW t \in Threads, NEW i \in DOMAIN stack[t], stack[t][i].f = c
        PROVE  <<t, i>> \in Holders(c)
    BY <2>1 DEF Holders, Frames, FrameAt
  <2> QED BY <1>2, <2>1 DEF InFlight
<1>4. c \in Queued <=> \E k \in 0..(n - 1) : fs[k] = c
  BY DEF Queued
<1>5. runs[c] <= 1
  BY <1>1 DEF RunsInv
<1>6. c \in done => runs[c] = 1 /\ c \notin Queued /\ ~ InFlight(c)
  BY <1>1, <1>3, <1>4 DEF RunsInv, CellInv, HeldInv, Owns
<1>7. c \in Queued => ~ InFlight(c) /\ runs[c] = 0
  BY <1>1, <1>3, <1>4 DEF CellInv, HeldInv, Owns
<1>8. \A p, q \in Holders(c) : p = q
  BY <1>1, <1>2 DEF UniqueInv
<1>9. ASSUME NEW i \in 0..(n - 1), NEW j \in 0..(n - 1), fs[i] = c, fs[j] = c
      PROVE  i = j
  <2>1. stamp[c] \in Nat /\ ~ (stamp[c] < stamp[c])
    BY <1>1, <1>9 DEF CellInv
  <2>2. ~ (i < j) /\ ~ (j < i)
    BY <1>1, <1>9, <2>1 DEF CellInv
  <2> QED BY <1>1, <2>2
<1>10. stamp[c] # 0 => c \in Queued \/ InFlight(c) \/ c \in done
  BY <1>1, <1>3, <1>4 DEF KeptInv
<1> QED BY <1>5, <1>6, <1>7, <1>8, <1>9, <1>10

\* No registration is lost, and no callback is executed twice.
THEOREM NeitherLostNorTwice == Spec => []ExactlyOnce
  BY Custody, CustodyIsOnce, PTL

\* When the destructor has returned, everything that was pushed has been
\* executed to its end.
THEOREM DrainComplete == Spec => []NoneStranded
<1>1. IInv /\ CustodyInv => NoneStranded
  <2> SUFFICES ASSUME IInv, CustodyInv, phase \in {"unloaded", "exited"}
               PROVE  n = 0 /\ \A c \in Callbacks : stamp[c] # 0 => c \in done
    BY DEF NoneStranded
  <2>1. n = 0 /\ HeldInv /\ RunInv /\ KeptInv
    BY Unfolded
  <2>2. 0..(n - 1) = {}
    BY <2>1
  <2>3. ASSUME NEW t \in Threads, NEW i \in DOMAIN stack[t], stack[t][i].f \in Callbacks
        PROVE  stamp[stack[t][i].f] = 0
    BY <2>1, <2>3 DEF HeldInv, Owns, RunInv
  <2> QED BY <2>1, <2>2, <2>3 DEF KeptInv
<1> QED BY <1>1, Custody, PTL

\* Only a pop leads from the critical section of the drain to a call.
LEMMA OnlyPopCalls ==
  ASSUME IInv, Next, NEW t \in Threads,
         At(t, "locked"), Top(t).op = "run", At(t, "call")'
  PROVE  Pop(t)
<1>1. /\ stack \in [Threads -> Seq(Frame)]
      /\ stack[t] # << >> /\ Top(t).pc = "locked" /\ Top(t) = stack[t][Len(stack[t])]
      /\ stack'[t] # << >> /\ stack'[t][Len(stack'[t])].pc = "call"
      /\ \A i \in DOMAIN stack[t] : i < Len(stack[t]) => stack[t][i].pc = "calling"
  BY DEF IInv, ControlInv, ControlTypeOK, LockDiscipline, At, Top
<1>2. stack'[t] # stack[t]
  BY <1>1
<1>3. ASSUME NEW u \in Threads, NEW fr, Enter(u, fr), InClient(u) PROVE FALSE
  BY <1>1, <1>2, <1>3 DEF Enter, InClient, At
<1>4. ~ BeginLoad /\ ~ BeginUnload
  BY <1>1, <1>2 DEF BeginLoad, BeginUnload, Enter
<1>5. \A u \in Threads, c \in Callbacks : ~ BeginAdd(u, c)
  BY <1>3 DEF BeginAdd
<1>6. ~ Exit /\ ~ Terminated
  BY <1>2 DEF Exit, Terminated, vars
<1>7. PICK u \in Threads : Step(u)
  BY <1>4, <1>5, <1>6 DEF Next
<1>8. u = t
  BY <1>1, <1>2, <1>7
  DEF Step, Synchronise, OnceEnter, InitLock, OncePass, AfterOnce, Lock, Redirect, Push,
      AbortOnRealloc, Pop, Drained, Call, Return, Goto, Become, Leave
<1>9. ~ Synchronise(t) /\ ~ Redirect(t) /\ ~ Push(t) /\ ~ Call(t) /\ ~ Return(t)
  BY <1>1 DEF Synchronise, OnceEnter, InitLock, OncePass, Lock, Redirect, Push, Call, Return, At
<1>10. ~ AbortOnRealloc(t)
  BY <1>2 DEF AbortOnRealloc
<1>11. ~ Drained(t)
  <2> SUFFICES ASSUME Drained(t) PROVE FALSE
    OBVIOUS
  <2>1. /\ Len(stack'[t]) = Len(stack[t]) - 1
        /\ DOMAIN stack'[t] = 1..(Len(stack[t]) - 1)
        /\ \A i \in DOMAIN stack'[t] : stack'[t][i] = stack[t][i]
        /\ Len(stack[t]) \in Nat \ {0}
        /\ stack' \in [Threads -> Seq(Frame)]
    BY <1>1, LeaveLemma DEF Drained
  <2>2. Len(stack'[t]) \in DOMAIN stack'[t]
    BY <1>1, <2>1
  <2>3. /\ Len(stack'[t]) \in DOMAIN stack[t]
        /\ Len(stack'[t]) < Len(stack[t])
        /\ stack'[t][Len(stack'[t])] = stack[t][Len(stack'[t])]
    <3>1. DOMAIN stack[t] = 1..Len(stack[t])
      BY <1>1, TopLemma
    <3>2. stack'[t][Len(stack'[t])] = stack[t][Len(stack'[t])]
      BY <2>1, <2>2
    <3>3. Len(stack'[t]) \in 1..(Len(stack[t]) - 1)
      BY <2>1, <2>2
    <3> QED BY <2>1, <3>1, <3>2, <3>3
  <2> QED BY <1>1, <2>3
<1> QED BY <1>7, <1>8, <1>9, <1>10, <1>11 DEF Step

\* The drain takes the callback that was registered last.
THEOREM LastRegisteredFirst == Spec => LastInFirstOut
<1>1. ASSUME IInv, CustodyInv, Next, NEW t \in Threads,
             At(t, "locked"), Top(t).op = "run", At(t, "call")', NEW c \in Queued
      PROVE  stamp[c] <= stamp[Top(t)'.f]
  <2>1. Pop(t)
    BY <1>1, OnlyPopCalls
  <2> DEFINE fr == [op |-> "run", pc |-> "call", f |-> Youngest]
  <2>2. /\ stack[t] # << >> /\ n > 0 /\ Become(t, fr) /\ phase # "aborted"
        /\ stack \in [Threads -> Seq(Frame)]
        /\ n \in Nat /\ CellInv /\ clock \in Nat
        /\ \A k \in 0..(n - 1) : fs[k] \in Callbacks
    BY <1>1, <2>1, Unfolded DEF Pop, At, SomeLeft, Alive
  <2>3. n - 1 \in 0..(n - 1) /\ Youngest \in Callbacks
    BY <2>2 DEF Youngest
  <2>4. fr \in Frame /\ fr.f = Youngest
    BY <2>3 DEF Frame, Ops, Pcs
  <2> HIDE DEF fr
  <2>5. Top(t)'.f = Youngest
    BY <2>2, <2>4, BecomeLemma DEF Top
  <2>6. PICK k \in 0..(n - 1) : fs[k] = c
    BY DEF Queued
  <2>7. CASE k = n - 1
    BY <2>2, <2>3, <2>5, <2>6, <2>7 DEF CellInv, Youngest
  <2>8. CASE k < n - 1
    <3>1. stamp[fs[k]] < stamp[fs[n - 1]] /\ stamp[fs[k]] \in Nat /\ stamp[fs[n - 1]] \in Nat
      BY <2>2, <2>3, <2>8 DEF CellInv
    <3> QED BY <2>5, <2>6, <3>1 DEF Youngest
  <2> QED BY <2>2, <2>7, <2>8
<1>2. IInv /\ CustodyInv /\ [Next]_vars
        => [\A t \in Threads :
              At(t, "locked") /\ Top(t).op = "run" /\ At(t, "call")'
                => \A c \in Queued : stamp[c] <= stamp[Top(t)'.f]]_vars
  BY <1>1
<1> QED BY <1>2, Custody, PTL DEF Spec, LastInFirstOut

(***************************************************************************)
(* A client sees a stack                                                   *)
(***************************************************************************)

\* What a thread is about to push or to execute is new to the stack.
LEMMA NotKnown ==
  ASSUME IInv, CustodyInv, phase # "aborted", NEW t \in Threads, stack[t] # << >>,
         Top(t).op = "add", Top(t).f \in Callbacks, ~ Executes(Top(t))
  PROVE  Top(t).f \notin Abstract!Known
<1> DEFINE c == Top(t).f
<1>1. /\ stack \in [Threads -> Seq(Frame)] /\ n \in Nat
      /\ UniqueInv /\ HeldInv /\ RunsInv
  BY Unfolded
<1>2. Owns(Top(t)) /\ runs[c] = 0
  BY <1>1, TopLemma DEF HeldInv, Owns, Executes
<1>3. \A i \in DOMAIN Waiting : Waiting[i] # c
  <2>1. Waiting = [i \in 1..n |-> fs[i - 1]]
    BY DEF Waiting
  <2>2. ASSUME NEW i \in 1..n PROVE fs[i - 1] # c
    <3>1. i - 1 \in 0..(n - 1)
      BY <1>1
    <3> QED BY <1>2, <3>1 DEF Owns
  <2> QED BY <2>1, <2>2
<1>4. c \notin Direct /\ c # Current(Main)
  BY <1>1, ShownOnce, MainAssumption
<1>5. c \notin Begun
  BY <1>2 DEF Begun
<1> QED BY <1>3, <1>4, <1>5 DEF Abstract!Known, Abstract!Waiting

\* What the stack is made of.
LEMMA SameWaiting ==
  ASSUME UNCHANGED <<array, phase, runs>>
  PROVE  Waiting' = Waiting /\ Begun' = Begun /\ Mode' = Mode
  BY DEF array, Waiting, Begun, Mode

\* An activation that starts, or that moves to the mutex, is not seen.
LEMMA EnterUnseen ==
  ASSUME IInv, NEW t \in Threads, NEW fr \in Frame, Enter(t, fr), fr.pc = "once",
         fr.op = "run" => fr.f = NoCallback
  PROVE  Current(Main)' = Current(Main) /\ Direct' = Direct
  BY EnterShown, MainAssumption DEF IInv, ControlInv, ControlTypeOK

LEMMA BeginAddUnseen ==
  ASSUME IInv, NEW t \in Threads, NEW c \in Callbacks, BeginAdd(t, c)
  PROVE  UNCHANGED Abstract!vars
<1> DEFINE fr == [op |-> "add", pc |-> "once", f |-> c]
<1>1. fr \in Frame /\ fr.op = "add" /\ fr.pc = "once"
  BY DEF Frame, Ops, Pcs
<1>2. Enter(t, fr) /\ UNCHANGED <<array, phase, ghosts>>
  BY DEF BeginAdd
<1> HIDE DEF fr
<1> QED BY <1>1, <1>2, EnterUnseen, SameWaiting DEF Abstract!vars, ghosts

LEMMA BeginLoadUnseen ==
  ASSUME IInv, BeginLoad
  PROVE  UNCHANGED Abstract!vars
<1> DEFINE fr == [op |-> "load", pc |-> "once", f |-> NoCallback]
<1>1. fr \in Frame /\ fr.op = "load" /\ fr.pc = "once"
  BY DEF Frame, Ops, Pcs
<1>2. /\ Enter(Main, fr) /\ UNCHANGED <<array, ghosts>>
      /\ phase = "loading" /\ phase' = "live"
  BY DEF BeginLoad
<1> HIDE DEF fr
<1>3. Waiting' = Waiting /\ Begun' = Begun /\ Mode' = Mode
  BY <1>2 DEF array, ghosts, Waiting, Begun, Mode
<1> QED BY <1>1, <1>2, <1>3, EnterUnseen, MainAssumption DEF Abstract!vars, ghosts

\* The destructor starts the drain, and does not rearrange anything.
LEMMA BeginUnloadStarts ==
  ASSUME IInv, BeginUnload
  PROVE  Abstract!StartDrain
<1> DEFINE fr == [op |-> "run", pc |-> "once", f |-> NoCallback]
<1>1. fr \in Frame /\ fr.op = "run" /\ fr.pc = "once" /\ fr.f = NoCallback
  BY DEF Frame, Ops, Pcs
<1>2. /\ Enter(Main, fr) /\ UNCHANGED <<array, ghosts>>
      /\ phase = "live" /\ phase' = "unloading"
  BY DEF BeginUnload
<1> HIDE DEF fr
<1>3. /\ Waiting' = AsRegistered(Waiting) /\ Begun' = Begun /\ done' = done
      /\ Mode = "collect" /\ Mode' = "drain"
  BY <1>2 DEF array, ghosts, Waiting, Begun, Mode, AsRegistered
<1> QED BY <1>1, <1>2, <1>3, EnterUnseen, MainAssumption DEF Abstract!StartDrain

LEMMA SynchroniseUnseen ==
  ASSUME IInv, CustodyInv, NEW t \in Threads, Synchronise(t)
  PROVE  UNCHANGED Abstract!vars
<1>1. /\ phase # "aborted" /\ stack[t] # << >>
      /\ Top(t).pc \in {"once", "init", "lock"}
      /\ UNCHANGED <<array, phase, ghosts>>
      /\ \/ \E pc \in {"init", "lock", "locked"} : Goto(t, pc)
         \/ Leave(t) /\ Top(t).op = "load"
  BY DEF Synchronise, Alive, OnceEnter, InitLock, OncePass, Lock, AfterOnce, At
<1>2. stack \in [Threads -> Seq(Frame)] /\ UniqueInv
  BY <1>1, Unfolded
<1>3. ~ Executes(Top(t))
  BY <1>1 DEF Executes
<1>4. CASE Leave(t) /\ Top(t).op = "load"
  <2>1. Current(Main)' = Current(Main) /\ Direct' = Direct
    BY <1>1, <1>2, <1>3, <1>4, LeaveShown, MainAssumption
  <2> QED BY <1>1, <2>1, SameWaiting DEF Abstract!vars, ghosts
<1>5. ASSUME NEW pc \in {"init", "lock", "locked"}, Goto(t, pc)
      PROVE  UNCHANGED Abstract!vars
  <2> DEFINE fr == [Top(t) EXCEPT !.pc = pc]
  <2>1. Top(t) \in Frame
    BY <1>1, <1>2, TopLemma
  <2>2. fr \in Frame /\ fr.op = Top(t).op /\ fr.f = Top(t).f /\ fr.pc = pc /\ Become(t, fr)
    BY <1>5, <2>1 DEF Frame, Pcs, Goto
  <2>3. ~ Executes(fr)
    BY <1>5, <2>2 DEF Executes
  <2> HIDE DEF fr
  <2>4. Current(Main)' = Current(Main) /\ Direct' = Direct
    BY <1>1, <1>2, <1>3, <2>2, <2>3, MoveShown, MainAssumption
  <2> QED BY <1>1, <2>4, SameWaiting DEF Abstract!vars, ghosts
<1> QED BY <1>1, <1>4, <1>5

\* A late registration is diverted.
LEMMA RedirectDiverts ==
  ASSUME IInv, CustodyInv, NEW t \in Threads, Redirect(t)
  PROVE  \E c \in Callbacks : Abstract!Divert(c)
<1> DEFINE c == Top(t).f
           fr == [Top(t) EXCEPT !.pc = "call"]
<1>1. /\ phase # "aborted" /\ phase # "exited" /\ stack[t] # << >>
      /\ Top(t).pc = "locked" /\ Top(t).op = "add"
      /\ Late /\ Become(t, fr) /\ UNCHANGED <<array, phase, ghosts>>
  BY DEF Redirect, Alive, At, Goto
<1>2. stack \in [Threads -> Seq(Frame)] /\ UniqueInv
  BY <1>1, Unfolded
<1>3. Top(t) \in Frame /\ c \in Callbacks
  BY <1>1, ActiveFrame DEF IInv, FrameOK
<1>4. /\ fr \in Frame /\ fr.op = "add" /\ fr.f = c
      /\ Executes(fr) /\ ~ Executes(Top(t))
  BY <1>1, <1>3 DEF Frame, Pcs, Executes
<1> HIDE DEF fr
<1>5. Current(Main)' = Current(Main) /\ Direct' = Direct \cup {c}
  BY <1>1, <1>2, <1>4, MoveShown, MainAssumption
<1>6. c \notin Abstract!Known
  BY <1>1, <1>3, <1>4, NotKnown
<1>7. Mode \in {"drain", "drained"}
  <2>1. phase \notin {"loading", "live"}
    BY <1>1, NothingRunsEarly
  <2>2. phase \in {"unloading", "unloaded"}
    BY <1>1, <2>1 DEF IInv, TypeOK, Phases
  <2> QED BY <2>2 DEF Mode
<1>8. Waiting = << >>
  BY <1>1 DEF Late, Waiting
<1>9. Waiting' = Waiting /\ Begun' = Begun /\ Mode' = Mode /\ done' = done
  BY <1>1, SameWaiting DEF ghosts
<1>10. Abstract!Divert(c)
  BY <1>5, <1>6, <1>7, <1>8, <1>9 DEF Abstract!Divert
<1> QED BY <1>3, <1>10

\* A push registers.
LEMMA PushRegisters ==
  ASSUME IInv, CustodyInv, NEW t \in Threads, Push(t)
  PROVE  \E c \in Callbacks : Abstract!Register(c)
<1> DEFINE c == Top(t).f
<1>1. /\ phase # "aborted" /\ phase # "exited" /\ stack[t] # << >>
      /\ Top(t).pc = "locked" /\ Top(t).op = "add" /\ ~ Late
      /\ Leave(t) /\ n' = n + 1 /\ phase' = phase /\ runs' = runs /\ done' = done
  BY DEF Push, Alive, At
<1>2. /\ stack \in [Threads -> Seq(Frame)] /\ UniqueInv /\ n \in Nat
      /\ phase \in {"unloaded", "exited"} => size = Ran
      /\ size = Ran => n = 0
  BY <1>1, Unfolded
<1>3. Top(t) \in Frame /\ c \in Callbacks
  BY <1>1, ActiveFrame DEF IInv, FrameOK
<1>4. ~ Executes(Top(t))
  BY <1>1 DEF Executes
<1>5. Current(Main)' = Current(Main) /\ Direct' = Direct
  BY <1>1, <1>2, <1>4, LeaveShown, MainAssumption
<1>6. c \notin Abstract!Known
  BY <1>1, <1>3, <1>4, NotKnown
<1>7. Mode \in {"collect", "drain"} /\ Mode' = Mode /\ Begun' = Begun
  <2>1. phase \notin {"unloaded", "exited"}
    BY <1>1, <1>2, CapacityRange DEF Late
  <2>2. phase \in {"loading", "live", "unloading"}
    BY <1>1, <2>1 DEF IInv, TypeOK, Phases
  <2> QED BY <1>1, <2>2 DEF Mode, Begun
<1>8. Waiting' = Append(Waiting, c)
  <2>1. Waiting = [i \in 1..n |-> fs[i - 1]] /\ Waiting' = [i \in 1..(n + 1) |-> fs'[i - 1]]
    BY <1>1 DEF Waiting
  <2>2. fs'[n] = c /\ \A k \in 0..(n - 1) : fs'[k] = fs[k]
    BY PushCells
  <2>3. ASSUME NEW i \in 1..(n + 1)
        PROVE  fs'[i - 1] = IF i = n + 1 THEN c ELSE fs[i - 1]
    <3>1. i = n + 1 \/ i - 1 \in 0..(n - 1)
      BY <1>2
    <3> QED BY <1>2, <2>2, <3>1
  <2>4. Waiting \in Seq(Callbacks) /\ Len(Waiting) = n
    <3>1. \A i \in 1..n : fs[i - 1] \in Callbacks
      <4> TAKE i \in 1..n
      <4>1. i - 1 \in 0..(n - 1)
        BY <1>2
      <4> QED BY <1>1, <4>1, Unfolded
    <3> QED BY <1>2, <2>1, <3>1
  <2>5. Append(Waiting, c) = [i \in 1..(n + 1) |-> IF i = n + 1 THEN c ELSE fs[i - 1]]
    <3>1. ASSUME NEW i \in 1..(n + 1), i # n + 1 PROVE Waiting[i] = fs[i - 1]
      <4>1. i \in 1..n
        BY <1>2, <3>1
      <4> QED BY <2>1, <4>1
    <3>2. Append(Waiting, c) = [i \in 1..(n + 1) |-> IF i = n + 1 THEN c ELSE Waiting[i]]
      BY <1>3, <2>4, AppendIsFunction
    <3> QED BY <3>1, <3>2
  <2> QED BY <2>1, <2>3, <2>5
<1>9. Abstract!Register(c)
  BY <1>1, <1>5, <1>6, <1>7, <1>8 DEF Abstract!Register
<1> QED BY <1>3, <1>9

\* Out of memory, the stack fails.
LEMMA AbortFails ==
  ASSUME IInv, CustodyInv, NEW t \in Threads, AbortOnRealloc(t)
  PROVE  Abstract!Fail
<1>1. /\ phase \notin {"aborted", "exited"} /\ ~ Late
      /\ phase' = "aborted" /\ stack' = stack /\ runs' = runs /\ done' = done
  BY DEF AbortOnRealloc, Alive, ghosts
<1>2. Current(Main)' = Current(Main) /\ Direct' = Direct
  BY <1>1 DEF Current, Direct, Frames, FrameAt
<1>3. phase # "unloaded"
  BY <1>1, Unfolded, CapacityRange DEF Late
<1>4. phase \in {"loading", "live", "unloading"}
  BY <1>1, <1>3 DEF IInv, TypeOK, Phases
<1>5. /\ Mode \in {"collect", "drain"} /\ Mode' = "failed"
      /\ Waiting' = << >> /\ Begun' = Begun
  BY <1>1, <1>4 DEF Mode, Waiting, Begun
<1> QED BY <1>1, <1>2, <1>5 DEF Abstract!Fail

\* The activation that drains is what the stack shows of the drain.
LEMMA DrainFrame ==
  ASSUME IInv, CustodyInv, phase # "aborted", NEW t \in Threads, stack[t] # << >>,
         Top(t).op = "run"
  PROVE  /\ t = Main /\ Len(stack[t]) = 1
         /\ phase = "unloading" /\ Mode = "drain"
         /\ Current(Main) = Top(t).f
         /\ Top(t).pc \notin {"call", "calling"} => Top(t).f = NoCallback
<1>1. stack \in [Threads -> Seq(Frame)] /\ RunInv
  BY Unfolded
<1>2. Len(stack[t]) \in DOMAIN stack[t] /\ Top(t) = stack[t][Len(stack[t])]
  BY <1>1, TopLemma
<1>3. /\ t = Main /\ Len(stack[t]) = 1 /\ phase = "unloading"
      /\ Top(t).pc \notin {"call", "calling"} => Top(t).f = NoCallback
  BY <1>1, <1>2 DEF RunInv
<1>4. Mode = "drain"
  BY <1>3 DEF Mode
<1>5. Current(Main) = Top(t).f
  BY <1>2, <1>3 DEF Current
<1> QED BY <1>3, <1>4, <1>5

LEMMA PopTakes ==
  ASSUME IInv, CustodyInv, NEW t \in Threads, Pop(t)
  PROVE  Abstract!Take
<1> DEFINE fr == [op |-> "run", pc |-> "call", f |-> Youngest]
<1>1. /\ stack[t] # << >> /\ Top(t).pc = "locked" /\ Top(t).op = "run"
      /\ Become(t, fr) /\ n > 0 /\ n' = n - 1
      /\ phase # "aborted" /\ phase' = phase /\ fs' = fs
      /\ runs' = runs /\ done' = done
  BY DEF Pop, At, Alive, SomeLeft, ghosts
<1>2. /\ stack \in [Threads -> Seq(Frame)] /\ n \in Nat
      /\ \A k \in 0..(n - 1) : fs[k] \in Callbacks
  BY <1>1, Unfolded
<1>3. n - 1 \in 0..(n - 1) /\ Youngest \in Callbacks
  BY <1>1, <1>2 DEF Youngest
<1>4. fr \in Frame /\ fr.op = "run" /\ fr.f = Youngest
  BY <1>3 DEF Frame, Ops, Pcs
<1> HIDE DEF fr
<1>5. /\ t = Main /\ Len(stack[t]) = 1 /\ Mode = "drain"
      /\ Current(Main) = NoCallback
  BY <1>1, DrainFrame
<1>6. Current(Main)' = Youngest /\ Direct' = Direct
  BY <1>1, <1>2, <1>4, <1>5, RunShown
<1>7. Waiting = [i \in 1..n |-> fs[i - 1]] /\ Waiting' = [i \in 1..(n - 1) |-> fs[i - 1]]
  BY <1>1 DEF Waiting
<1>8. Waiting \in Seq(Callbacks) /\ Len(Waiting) = n
  <2>1. \A i \in 1..n : fs[i - 1] \in Callbacks
    <3> TAKE i \in 1..n
    <3>1. i - 1 \in 0..(n - 1)
      BY <1>2
    <3> QED BY <1>2, <3>1
  <2> QED BY <1>2, <1>7, <2>1
<1>9. Waiting # << >> /\ Waiting[Len(Waiting)] = Youngest
  <2>1. n \in 1..n
    BY <1>1, <1>2
  <2>2. Waiting[n] = Youngest
    BY <1>7, <2>1 DEF Youngest
  <2>3. Waiting # << >>
    BY <1>1, <1>8
  <2> QED BY <1>8, <2>2, <2>3
<1>10. Waiting' = SubSeq(Waiting, 1, Len(Waiting) - 1)
  <2>1. SubSeq(Waiting, 1, Len(Waiting) - 1) = [i \in 1..(n - 1) |-> Waiting[i]]
    BY <1>1, <1>8, FrontIsFunction
  <2>2. \A i \in 1..(n - 1) : Waiting[i] = fs[i - 1]
    BY <1>2, <1>7
  <2> QED BY <1>7, <2>1, <2>2
<1>11. Begun' = Begun /\ Mode' = Mode
  BY <1>1 DEF Begun, Mode
<1> QED BY <1>1, <1>5, <1>6, <1>9, <1>10, <1>11 DEF Abstract!Take

LEMMA DrainedStops ==
  ASSUME IInv, CustodyInv, NEW t \in Threads, Drained(t)
  PROVE  Abstract!StopDrain
<1>1. /\ stack[t] # << >> /\ Top(t).pc = "locked" /\ Top(t).op = "run"
      /\ Leave(t) /\ ~ (n > 0) /\ n' = 0 /\ phase # "aborted" /\ phase' = "unloaded"
      /\ runs' = runs /\ done' = done
  BY DEF Drained, At, Alive, SomeLeft, ghosts
<1>2. /\ stack \in [Threads -> Seq(Frame)] /\ n \in Nat /\ UniqueInv
  BY <1>1, Unfolded
<1>3. Mode = "drain" /\ Current(Main) = NoCallback /\ Top(t).f = NoCallback /\ phase = "unloading"
  BY <1>1, DrainFrame
<1>4. ~ Executes(Top(t))
  BY <1>1 DEF Executes
<1>5. Current(Main)' = Current(Main) /\ Direct' = Direct
  BY <1>1, <1>2, <1>3, <1>4, LeaveShown, MainAssumption
<1>6. n = 0 /\ Waiting = << >> /\ Waiting' = << >>
  BY <1>1, <1>2, <1>3 DEF Waiting
<1>7. Begun' = Begun /\ Mode' = "drained"
  BY <1>1 DEF Begun, Mode
<1> QED BY <1>1, <1>3, <1>5, <1>6, <1>7 DEF Abstract!StopDrain

\* Bodies are entered only when the drain has started.
LEMMA ActiveMode ==
  ASSUME IInv, NEW t \in Threads, stack[t] # << >>, Top(t).pc \in {"call", "calling"},
         phase \notin {"aborted", "exited"}
  PROVE  Mode \in {"drain", "drained"}
<1>1. phase \notin {"loading", "live"}
  BY NothingRunsEarly
<1>2. phase \in {"unloading", "unloaded"}
  BY <1>1 DEF IInv, TypeOK, Phases
<1> QED BY <1>2 DEF Mode

LEMMA CallBegins ==
  ASSUME IInv, CustodyInv, NEW t \in Threads, Call(t)
  PROVE  \E c \in Callbacks : Abstract!Begin(c)
<1> DEFINE c == Top(t).f
           fr == [Top(t) EXCEPT !.pc = "calling"]
<1>1. /\ stack[t] # << >> /\ Top(t).pc = "call"
      /\ Become(t, fr)
      /\ phase \notin {"aborted", "exited"} /\ UNCHANGED <<array, phase>>
      /\ runs' = [runs EXCEPT ![c] = @ + 1] /\ done' = done
  BY DEF Call, At, Goto, Alive
<1>2. /\ stack \in [Threads -> Seq(Frame)] /\ runs \in [Callbacks -> Nat]
      /\ UniqueInv /\ HeldInv /\ NoCallback \notin Callbacks
  BY <1>1, Unfolded
<1>3. Top(t) \in Frame /\ c \in Callbacks /\ Top(t).op # "load"
  BY <1>1, ActiveFrame DEF IInv, FrameOK
<1>4. fr \in Frame /\ fr.f = c /\ fr.op = Top(t).op /\ fr.pc = "calling"
  BY <1>3 DEF Frame, Pcs
<1> HIDE DEF fr
<1>5. runs[c] = 0
  <2>1. Owns(Top(t))
    BY <1>2, <1>1, <1>3, TopLemma DEF HeldInv
  <2> QED BY <1>1, <2>1 DEF Owns
<1>6. c \notin Begun /\ Begun' = Begun \cup {c}
  BY <1>1, <1>2, <1>3, <1>5 DEF Begun
<1>7. /\ c \in Direct \cup {Current(Main)}
      /\ Current(Main)' = Current(Main) /\ Direct' = Direct
  <2>1. Executes(Top(t)) => Executes(fr) /\ c \in Direct
    BY <1>1, <1>2, <1>3, <1>4, ShownOnce, MainAssumption DEF Executes
  <2>2. /\ Current(Main)' = Current(Main)
        /\ Direct' = Direct \cup IF Executes(fr) THEN {c} ELSE {}
    BY <1>1, <1>2, <1>4, <2>1, MoveShown, MainAssumption
  <2>3. CASE Top(t).op = "run"
    <3>1. Current(Main) = c
      BY <1>1, <2>3, DrainFrame
    <3>2. ~ Executes(fr)
      BY <1>4, <2>3 DEF Executes
    <3> QED BY <2>2, <3>1, <3>2
  <2>4. CASE Top(t).op = "add"
    <3>1. Executes(Top(t))
      BY <1>1, <2>4 DEF Executes
    <3> QED BY <2>1, <2>2, <3>1
  <2> QED BY <1>3, <2>3, <2>4 DEF Frame, Ops
<1>8. Mode \in {"drain", "drained"}
  BY <1>1, ActiveMode
<1>9. Waiting' = Waiting /\ Mode' = Mode
  BY <1>1 DEF array, Waiting, Mode
<1>10. Abstract!Begin(c)
  BY <1>1, <1>2, <1>3, <1>6, <1>7, <1>8, <1>9 DEF Abstract!Begin
<1> QED BY <1>3, <1>10

LEMMA ReturnEnds ==
  ASSUME IInv, CustodyInv, NEW t \in Threads, Return(t)
  PROVE  \E c \in Callbacks : Abstract!End(c)
<1> DEFINE c == Top(t).f
           fr == [op |-> "run", pc |-> "lock", f |-> NoCallback]
<1>1. /\ stack[t] # << >> /\ Top(t).pc = "calling"
      /\ phase \notin {"aborted", "exited"} /\ UNCHANGED <<array, phase>>
      /\ runs' = runs /\ done' = done \cup {c}
      /\ Top(t).op = "run" => Become(t, fr)
      /\ Top(t).op # "run" => Leave(t)
  BY DEF Return, At, Alive
<1>2. /\ stack \in [Threads -> Seq(Frame)] /\ runs \in [Callbacks -> Nat]
      /\ UniqueInv /\ HeldInv /\ NoCallback \notin Callbacks
  BY <1>1, Unfolded
<1>3. Top(t) \in Frame /\ c \in Callbacks /\ Top(t).op # "load"
  BY <1>1, ActiveFrame DEF IInv, FrameOK
<1>4. fr \in Frame /\ fr.f = NoCallback /\ fr.op = "run"
  BY DEF Frame, Ops, Pcs
<1> HIDE DEF fr
<1>5. c \in Begun \ done
  <2>1. Owns(Top(t))
    BY <1>2, <1>1, <1>3, TopLemma DEF HeldInv
  <2> QED BY <1>1, <1>3, <2>1 DEF Owns, Begun
<1>6. /\ Current(Main)' = IF c = Current(Main) THEN NoCallback ELSE Current(Main)
      /\ Direct' = Direct \ {c}
  <2>1. CASE Top(t).op = "run"
    <3>1. t = Main /\ Len(stack[t]) = 1 /\ Current(Main) = c
      BY <1>1, <2>1, DrainFrame
    <3>2. Current(Main)' = NoCallback /\ Direct' = Direct
      BY <1>1, <1>2, <1>4, <2>1, <3>1, RunShown
    <3>3. c \notin Direct
      BY <1>1, <1>2, <1>3, <2>1, ShownOnce, MainAssumption DEF Executes
    <3> QED BY <3>1, <3>2, <3>3
  <2>2. CASE Top(t).op = "add"
    <3>1. Executes(Top(t)) /\ Top(t).op # "run"
      BY <1>1, <2>2 DEF Executes
    <3>2. Current(Main)' = Current(Main) /\ Direct' = Direct \ {c}
      BY <1>1, <1>2, <1>3, <3>1, LeaveShown, MainAssumption
    <3>3. Current(Main) # c
      BY <1>1, <1>2, <1>3, <3>1, ShownOnce, MainAssumption
    <3> QED BY <3>2, <3>3
  <2> QED BY <1>3, <2>1, <2>2 DEF Frame, Ops
<1>7. Mode \in {"drain", "drained"}
  BY <1>1, ActiveMode
<1>8. Waiting' = Waiting /\ Mode' = Mode /\ Begun' = Begun
  BY <1>1, SameWaiting
<1>9. Abstract!End(c)
  BY <1>1, <1>5, <1>6, <1>7, <1>8 DEF Abstract!End
<1> QED BY <1>3, <1>9

LEMMA ExitQuits ==
  ASSUME IInv, Exit
  PROVE  Abstract!Quit
<1>1. phase = "unloaded" /\ phase' = "exited" /\ UNCHANGED <<stack, array, ghosts>>
  BY DEF Exit
<1>2. Current(Main)' = Current(Main) /\ Direct' = Direct
  BY <1>1 DEF Current, Direct, Frames, FrameAt
<1>3. /\ Waiting' = Waiting /\ Begun' = Begun /\ done' = done
      /\ Mode = "drained" /\ Mode' = "gone"
  BY <1>1 DEF array, ghosts, Waiting, Begun, Mode
<1> QED BY <1>2, <1>3 DEF Abstract!Quit

LEMMA StutterUnseen ==
  ASSUME UNCHANGED vars
  PROVE  UNCHANGED Abstract!vars
<1>1. Current(Main)' = Current(Main) /\ Direct' = Direct
  BY DEF vars, Current, Direct, Frames, FrameAt
<1> QED BY <1>1, SameWaiting DEF vars, ghosts, Abstract!vars

LEMMA InitShown == Init => Abstract!Init
<1> SUFFICES ASSUME Init PROVE Abstract!Init
  OBVIOUS
<1>1. \A t \in Threads : stack[t] = << >>
  BY DEF Init, ControlInit
<1>2. Current(Main) = NoCallback
  BY <1>1, MainAssumption DEF Current
<1>3. Direct = {}
  BY <1>1, DirectHasMembers DEF DirectMembers
<1>4. Waiting = << >> /\ Begun = {} /\ done = {} /\ Mode = "collect"
  BY DEF Init, Waiting, Begun, Mode
<1> QED BY <1>2, <1>3, <1>4 DEF Abstract!Init

\* Every step of the library is a step of the stack, or is not seen.
LEMMA NextShown ==
  ASSUME IInv, CustodyInv, [Next]_vars
  PROVE  [Abstract!Next]_(Abstract!vars)
<1>1. CASE BeginLoad
  BY <1>1, BeginLoadUnseen
<1>2. CASE BeginUnload
  BY <1>2, BeginUnloadStarts DEF Abstract!Next
<1>3. CASE Exit
  BY <1>3, ExitQuits DEF Abstract!Next
<1>4. ASSUME NEW t \in Threads, NEW c \in Callbacks, BeginAdd(t, c)
      PROVE  UNCHANGED Abstract!vars
  BY <1>4, BeginAddUnseen
<1>5. ASSUME NEW t \in Threads, Step(t)
      PROVE  [Abstract!Next]_(Abstract!vars)
  <2>1. CASE Synchronise(t)
    BY <2>1, SynchroniseUnseen
  <2>2. CASE Redirect(t)
    BY <2>2, RedirectDiverts DEF Abstract!Next
  <2>3. CASE Push(t)
    BY <2>3, PushRegisters DEF Abstract!Next
  <2>4. CASE AbortOnRealloc(t)
    BY <2>4, AbortFails DEF Abstract!Next
  <2>5. CASE Pop(t)
    BY <2>5, PopTakes DEF Abstract!Next, Abstract!Drain
  <2>6. CASE Drained(t)
    BY <2>6, DrainedStops DEF Abstract!Next, Abstract!Drain
  <2>7. CASE Call(t)
    BY <2>7, CallBegins DEF Abstract!Next
  <2>8. CASE Return(t)
    BY <2>8, ReturnEnds DEF Abstract!Next
  <2> QED BY <1>5, <2>1, <2>2, <2>3, <2>4, <2>5, <2>6, <2>7, <2>8 DEF Step
<1>6. CASE Terminated \/ UNCHANGED vars
  BY <1>6, StutterUnseen DEF Terminated
<1> QED BY <1>1, <1>2, <1>3, <1>4, <1>5, <1>6 DEF Next

\* Whatever the interleaving, a client sees the stack of CallbackStack.
THEOREM ShowsStack == Spec => Abstract!Safety
<1>1. IInv /\ CustodyInv /\ [Next]_vars => [Abstract!Next]_(Abstract!vars)
  BY NextShown
<1> QED BY <1>1, InitShown, Custody, PTL DEF Spec, Abstract!Safety

=============================================================================
