--------------------------- MODULE ActivationsProofs ---------------------------
(***************************************************************************)
(* What the operations on call stacks do, position by position, and the    *)
(* steps of the synchronisation primitives as invariant-preserving steps.  *)
(***************************************************************************)
EXTENDS Activations, SequenceTheorems, TLAPS

\* What holds of every single frame, when o is the state of `once`: a
\* registration has a callback, so has an activation that executes one, and
\* nobody is past the once block early.
FrameOK(fr, o) ==
  /\ fr.op = "load" => fr.pc \in {"once", "init"}
  /\ fr.op = "add" => fr.f \in Callbacks
  /\ fr.pc \in {"call", "calling"} => fr.f \in Callbacks
  /\ fr.pc \notin {"once", "init"} => o = "done"

FramesOK == \A t \in Threads : \A i \in DOMAIN stack[t] : FrameOK(stack[t][i], once)

\* The strengthening under which LockDiscipline is inductive.
ControlInv == ControlTypeOK /\ FramesOK /\ LockDiscipline

\* Calling pushes a frame and leaves all others as they are.
LEMMA EnterLemma ==
  ASSUME stack \in [Threads -> Seq(Frame)], NEW t \in Threads, NEW fr \in Frame, Enter(t, fr)
  PROVE  /\ stack' \in [Threads -> Seq(Frame)]
         /\ Len(stack'[t]) = Len(stack[t]) + 1
         /\ DOMAIN stack'[t] = 1..(Len(stack[t]) + 1)
         /\ stack'[t][Len(stack[t]) + 1] = fr
         /\ \A i \in DOMAIN stack[t] : stack'[t][i] = stack[t][i]
         /\ \A u \in Threads \ {t} : stack'[u] = stack[u]
  BY DEF Enter

\* Progress of the active frame replaces it and leaves all others as they are.
LEMMA BecomeLemma ==
  ASSUME stack \in [Threads -> Seq(Frame)], NEW t \in Threads, NEW fr \in Frame,
         stack[t] # << >>, Become(t, fr)
  PROVE  /\ stack' \in [Threads -> Seq(Frame)]
         /\ Len(stack[t]) \in Nat \ {0}
         /\ Len(stack'[t]) = Len(stack[t])
         /\ DOMAIN stack'[t] = DOMAIN stack[t]
         /\ stack'[t][Len(stack[t])] = fr
         /\ \A i \in DOMAIN stack[t] : i # Len(stack[t]) => stack'[t][i] = stack[t][i]
         /\ \A u \in Threads \ {t} : stack'[u] = stack[u]
  BY DEF Become

\* Returning pops the active frame and leaves all others as they are.
LEMMA LeaveLemma ==
  ASSUME stack \in [Threads -> Seq(Frame)], NEW t \in Threads, stack[t] # << >>, Leave(t)
  PROVE  /\ stack' \in [Threads -> Seq(Frame)]
         /\ Len(stack[t]) \in Nat \ {0}
         /\ Len(stack'[t]) = Len(stack[t]) - 1
         /\ DOMAIN stack'[t] = 1..(Len(stack[t]) - 1)
         /\ \A i \in DOMAIN stack'[t] : stack'[t][i] = stack[t][i]
         /\ \A u \in Threads \ {t} : stack'[u] = stack[u]
<1> DEFINE s == stack[t]
<1>1. s \in Seq(Frame) /\ Len(s) \in Nat \ {0} /\ DOMAIN s = 1..Len(s)
  OBVIOUS
<1>2. \A i \in 1..(Len(s) - 1) : s[i] \in Frame
  BY <1>1
<1>3. /\ SubSeq(s, 1, Len(s) - 1) \in Seq(Frame)
      /\ Len(SubSeq(s, 1, Len(s) - 1)) = Len(s) - 1
      /\ \A i \in 1..(Len(s) - 1) : SubSeq(s, 1, Len(s) - 1)[i] = s[i]
  BY <1>1, <1>2, SubSeqProperties
<1>4. stack' = [stack EXCEPT ![t] = SubSeq(s, 1, Len(s) - 1)]
  BY DEF Leave
<1>5. stack'[t] = SubSeq(s, 1, Len(s) - 1) /\ \A u \in Threads \ {t} : stack'[u] = stack[u]
  BY <1>4
<1>6. stack' \in [Threads -> Seq(Frame)]
  BY <1>3, <1>4
<1> HIDE DEF s
<1>7. DOMAIN stack'[t] = 1..(Len(s) - 1)
  BY <1>1, <1>3, <1>5
<1> QED BY <1>1, <1>3, <1>5, <1>6, <1>7 DEF s

\* The active frame is a frame.
LEMMA TopLemma ==
  ASSUME stack \in [Threads -> Seq(Frame)], NEW t \in Threads, stack[t] # << >>
  PROVE  /\ Len(stack[t]) \in Nat \ {0}
         /\ Len(stack[t]) \in DOMAIN stack[t]
         /\ DOMAIN stack[t] = 1..Len(stack[t])
         /\ Top(t) = stack[t][Len(stack[t])]
         /\ Top(t) \in Frame
  BY DEF Top

(***************************************************************************)
(* The frames of all threads, after a change of one call stack             *)
(***************************************************************************)

LEMMA EnterFrames ==
  ASSUME stack \in [Threads -> Seq(Frame)], NEW t \in Threads, NEW fr \in Frame, Enter(t, fr)
  PROVE  \A u \in Threads : \A i \in DOMAIN stack'[u] :
           \/ u = t /\ i = Len(stack[t]) + 1 /\ stack'[u][i] = fr
           \/ i \in DOMAIN stack[u] /\ stack'[u][i] = stack[u][i]
  BY EnterLemma

LEMMA EnterKeepsFrames ==
  ASSUME stack \in [Threads -> Seq(Frame)], NEW t \in Threads, NEW fr \in Frame, Enter(t, fr)
  PROVE  \A u \in Threads : \A i \in DOMAIN stack[u] :
           i \in DOMAIN stack'[u] /\ stack'[u][i] = stack[u][i]
<1> TAKE u \in Threads
<1>1. CASE u = t
  BY <1>1, EnterLemma
<1>2. CASE u # t
  BY <1>2, EnterLemma
<1> QED BY <1>1, <1>2

LEMMA BecomeFrames ==
  ASSUME stack \in [Threads -> Seq(Frame)], NEW t \in Threads, NEW fr \in Frame,
         stack[t] # << >>, Become(t, fr)
  PROVE  /\ Len(stack[t]) \in DOMAIN stack[t]
         /\ Top(t) = stack[t][Len(stack[t])]
         /\ \A u \in Threads : DOMAIN stack'[u] = DOMAIN stack[u]
         /\ \A u \in Threads : \A i \in DOMAIN stack[u] :
              stack'[u][i] = IF u = t /\ i = Len(stack[t]) THEN fr ELSE stack[u][i]
<1>1. Len(stack[t]) \in DOMAIN stack[t] /\ Top(t) = stack[t][Len(stack[t])]
  BY TopLemma
<1>2. \A u \in Threads : DOMAIN stack'[u] = DOMAIN stack[u]
  BY BecomeLemma
<1>3. ASSUME NEW u \in Threads, NEW i \in DOMAIN stack[u]
      PROVE  stack'[u][i] = IF u = t /\ i = Len(stack[t]) THEN fr ELSE stack[u][i]
  BY BecomeLemma
<1> QED BY <1>1, <1>2, <1>3

LEMMA LeaveFrames ==
  ASSUME stack \in [Threads -> Seq(Frame)], NEW t \in Threads, stack[t] # << >>, Leave(t)
  PROVE  /\ Len(stack[t]) \in DOMAIN stack[t]
         /\ Top(t) = stack[t][Len(stack[t])]
         /\ \A u \in Threads : \A i \in DOMAIN stack'[u] :
              /\ i \in DOMAIN stack[u] /\ stack'[u][i] = stack[u][i]
              /\ ~ (u = t /\ i = Len(stack[t]))
         /\ \A u \in Threads : \A i \in DOMAIN stack[u] :
              \/ u = t /\ i = Len(stack[t])
              \/ i \in DOMAIN stack'[u] /\ stack'[u][i] = stack[u][i]
<1>1. /\ Len(stack[t]) \in DOMAIN stack[t]
      /\ DOMAIN stack[t] = 1..Len(stack[t])
      /\ Len(stack[t]) \in Nat
      /\ Top(t) = stack[t][Len(stack[t])]
  BY TopLemma
<1>2. ASSUME NEW u \in Threads, NEW i \in DOMAIN stack'[u]
      PROVE  /\ i \in DOMAIN stack[u] /\ stack'[u][i] = stack[u][i]
             /\ ~ (u = t /\ i = Len(stack[t]))
  <2>1. CASE u = t
    BY <1>1, <2>1, LeaveLemma
  <2>2. CASE u # t
    BY <2>2, LeaveLemma
  <2> QED BY <2>1, <2>2
<1>3. ASSUME NEW u \in Threads, NEW i \in DOMAIN stack[u]
      PROVE  \/ u = t /\ i = Len(stack[t])
             \/ i \in DOMAIN stack'[u] /\ stack'[u][i] = stack[u][i]
  <2>1. CASE u = t /\ i # Len(stack[t])
    BY <1>1, <2>1, LeaveLemma
  <2>2. CASE u # t
    BY <2>2, LeaveLemma
  <2> QED BY <2>1, <2>2
<1> QED BY <1>1, <1>2, <1>3

(***************************************************************************)
(* What keeps the invariant                                                *)
(***************************************************************************)

\* Client code may call the library: the new frame starts at the once block.
LEMMA EnterKeepsControl ==
  ASSUME ControlInv, NEW t \in Threads, NEW fr \in Frame,
         InClient(t), Enter(t, fr), fr.pc = "once", FrameOK(fr, once),
         UNCHANGED <<lock, once>>
  PROVE  ControlInv'
<1>1. /\ stack \in [Threads -> Seq(Frame)]
      /\ lock \in Threads \cup {NoThread}
      /\ once \in {"new", "busy", "done"}
  BY DEF ControlInv, ControlTypeOK
<1>2. /\ stack' \in [Threads -> Seq(Frame)]
      /\ Len(stack'[t]) = Len(stack[t]) + 1
      /\ DOMAIN stack'[t] = 1..(Len(stack[t]) + 1)
      /\ stack'[t][Len(stack[t]) + 1] = fr
      /\ \A i \in DOMAIN stack[t] : stack'[t][i] = stack[t][i]
      /\ \A u \in Threads \ {t} : stack'[u] = stack[u]
  BY <1>1, EnterLemma
<1>3. /\ Len(stack[t]) \in Nat
      /\ DOMAIN stack[t] = 1..Len(stack[t])
      /\ Len(stack[t]) # 0 => stack[t][Len(stack[t])].pc = "calling"
  BY <1>1 DEF InClient, At, Top
<1>4. ControlTypeOK'
  BY <1>1, <1>2 DEF ControlTypeOK
<1>5. ASSUME NEW u \in Threads, NEW i \in DOMAIN stack'[u]
      PROVE  /\ FrameOK(stack'[u][i], once')
             /\ i < Len(stack'[u]) => stack'[u][i].pc = "calling"
             /\ stack'[u][i].pc = "locked" => lock' = u
  <2>1. CASE u = t /\ i = Len(stack[t]) + 1
    BY <1>2, <2>1 DEF FrameOK
  <2>2. CASE u = t /\ i # Len(stack[t]) + 1
    <3>1. i \in DOMAIN stack[t] /\ stack'[u][i] = stack[t][i]
      BY <1>2, <1>3, <2>2
    <3>2. stack[t][i].pc = "calling"
      BY <1>3, <3>1 DEF ControlInv, LockDiscipline
    <3> QED BY <3>1, <3>2 DEF ControlInv, FramesOK, FrameOK
  <2>3. CASE u # t
    BY <1>2, <2>3 DEF ControlInv, FramesOK, FrameOK, LockDiscipline
  <2> QED BY <2>1, <2>2, <2>3
<1>6. ASSUME lock' # NoThread
      PROVE  At(lock, "locked")' /\ once' = "done"
  <2>1. At(lock, "locked") /\ lock \in Threads /\ once = "done"
    BY <1>1, <1>6 DEF ControlInv, LockDiscipline
  <2>2. lock # t
    BY <1>3, <2>1 DEF InClient, At, Top
  <2> QED BY <1>2, <2>1, <2>2 DEF At, Top
<1> QED BY <1>4, <1>5, <1>6 DEF ControlInv, FramesOK, LockDiscipline

\* The active frame moves on.  It takes the mutex, gives it back, or neither.
LEMMA BecomeKeepsControl ==
  ASSUME ControlInv, NEW t \in Threads, NEW fr \in Frame,
         stack[t] # << >>, Become(t, fr), FrameOK(fr, once'),
         once' \in {"new", "busy", "done"}, once = "done" => once' = "done",
         \/ lock' = lock /\ Top(t).pc # "locked" /\ fr.pc # "locked"
         \/ lock = NoThread /\ lock' = t /\ fr.pc = "locked"
         \/ lock' = NoThread /\ Top(t).pc = "locked" /\ fr.pc # "locked"
  PROVE  ControlInv'
<1>1. /\ stack \in [Threads -> Seq(Frame)]
      /\ lock \in Threads \cup {NoThread}
      /\ NoThread \notin Threads
  BY SentinelAssumption DEF ControlInv, ControlTypeOK
<1> DEFINE last == Len(stack[t])
<1>2. /\ stack' \in [Threads -> Seq(Frame)]
      /\ last \in Nat \ {0}
      /\ Len(stack'[t]) = last
      /\ DOMAIN stack'[t] = DOMAIN stack[t]
      /\ stack'[t][last] = fr
      /\ \A i \in DOMAIN stack[t] : i # last => stack'[t][i] = stack[t][i]
      /\ \A u \in Threads \ {t} : stack'[u] = stack[u]
  BY <1>1, BecomeLemma
<1>3. /\ last \in DOMAIN stack[t]
      /\ DOMAIN stack[t] = 1..last
      /\ Top(t) = stack[t][last]
  BY <1>1, TopLemma
<1> HIDE DEF last
<1>4. ControlTypeOK'
  BY <1>1, <1>2 DEF ControlTypeOK
<1>5. fr.pc \notin {"once", "init"} => once' = "done"
  BY DEF FrameOK
<1>6. ASSUME NEW u \in Threads, NEW i \in DOMAIN stack'[u]
      PROVE  /\ FrameOK(stack'[u][i], once')
             /\ i < Len(stack'[u]) => stack'[u][i].pc = "calling"
             /\ stack'[u][i].pc = "locked" => lock' = u
  <2>1. CASE u = t /\ i = last
    BY <1>1, <1>2, <1>3, <2>1 DEF ControlInv, LockDiscipline
  <2>2. CASE u = t /\ i # last
    <3>1. i \in DOMAIN stack[t] /\ stack'[u][i] = stack[t][i] /\ i < Len(stack[t])
      BY <1>2, <1>3, <2>2 DEF last
    <3>2. stack[t][i].pc = "calling"
      BY <3>1 DEF ControlInv, LockDiscipline
    <3> QED BY <1>2, <3>1, <3>2 DEF ControlInv, FramesOK, FrameOK
  <2>3. CASE u # t
    <3>1. i \in DOMAIN stack[u] /\ stack'[u] = stack[u]
      BY <1>2, <2>3
    <3>2. stack[u][i].pc = "locked" => lock = u
      BY <3>1 DEF ControlInv, LockDiscipline
    <3>3. Top(t).pc = "locked" => lock = t
      BY <1>3 DEF ControlInv, LockDiscipline
    <3>4. stack[u][i].pc = "locked" => lock' = u
      BY <1>1, <2>3, <3>2, <3>3
    <3> QED BY <3>1, <3>4 DEF ControlInv, FramesOK, FrameOK, LockDiscipline
  <2> QED BY <2>1, <2>2, <2>3
<1>7. ASSUME lock' # NoThread
      PROVE  At(lock, "locked")' /\ once' = "done"
  <2>1. CASE lock' = t /\ fr.pc = "locked"
    <3>1. stack'[t] # << >> /\ Top(t)' = fr
      BY <1>2, <1>3 DEF Top
    <3> QED BY <1>5, <2>1, <3>1 DEF At, Top
  <2>2. CASE lock' = lock /\ Top(t).pc # "locked"
    <3>1. At(lock, "locked") /\ lock \in Threads /\ once = "done"
      BY <1>1, <1>7, <2>2 DEF ControlInv, LockDiscipline
    <3>2. lock # t
      BY <2>2, <3>1 DEF At
    <3> QED BY <1>2, <2>2, <3>1, <3>2 DEF At, Top
  <2> QED BY <1>7, <2>1, <2>2
<1> QED BY <1>4, <1>6, <1>7 DEF ControlInv, FramesOK, LockDiscipline

\* The active frame returns.  It gives the mutex back if it holds it.
LEMMA LeaveKeepsControl ==
  ASSUME ControlInv, NEW t \in Threads, stack[t] # << >>, Leave(t),
         once' \in {"new", "busy", "done"}, once = "done" => once' = "done",
         \/ lock' = lock /\ Top(t).pc # "locked"
         \/ lock' = NoThread /\ Top(t).pc = "locked"
  PROVE  ControlInv'
<1>1. /\ stack \in [Threads -> Seq(Frame)]
      /\ lock \in Threads \cup {NoThread}
      /\ NoThread \notin Threads
  BY SentinelAssumption DEF ControlInv, ControlTypeOK
<1> DEFINE last == Len(stack[t])
<1>2. /\ stack' \in [Threads -> Seq(Frame)]
      /\ last \in Nat \ {0}
      /\ Len(stack'[t]) = last - 1
      /\ DOMAIN stack'[t] = 1..(last - 1)
      /\ \A i \in DOMAIN stack'[t] : stack'[t][i] = stack[t][i]
      /\ \A u \in Threads \ {t} : stack'[u] = stack[u]
  BY <1>1, LeaveLemma
<1>3. /\ last \in DOMAIN stack[t]
      /\ DOMAIN stack[t] = 1..last
      /\ Top(t) = stack[t][last]
  BY <1>1, TopLemma
<1> HIDE DEF last
<1>4. ControlTypeOK'
  BY <1>1, <1>2 DEF ControlTypeOK
<1>5. ASSUME NEW u \in Threads, NEW i \in DOMAIN stack'[u]
      PROVE  /\ FrameOK(stack'[u][i], once')
             /\ i < Len(stack'[u]) => stack'[u][i].pc = "calling"
             /\ stack'[u][i].pc = "locked" => lock' = u
  <2>1. CASE u = t
    <3>1. i \in DOMAIN stack[t] /\ stack'[u][i] = stack[t][i] /\ i < Len(stack[t])
      BY <1>2, <1>3, <2>1 DEF last
    <3>2. stack[t][i].pc = "calling"
      BY <3>1 DEF ControlInv, LockDiscipline
    <3> QED BY <3>1, <3>2 DEF ControlInv, FramesOK, FrameOK
  <2>2. CASE u # t
    <3>1. i \in DOMAIN stack[u] /\ stack'[u] = stack[u]
      BY <1>2, <2>2
    <3>2. stack[u][i].pc = "locked" => lock = u
      BY <3>1 DEF ControlInv, LockDiscipline
    <3>3. Top(t).pc = "locked" => lock = t
      BY <1>3 DEF ControlInv, LockDiscipline
    <3>4. stack[u][i].pc = "locked" => lock' = u
      BY <1>1, <2>2, <3>2, <3>3
    <3> QED BY <3>1, <3>4 DEF ControlInv, FramesOK, FrameOK, LockDiscipline
  <2> QED BY <2>1, <2>2
<1>6. ASSUME lock' # NoThread
      PROVE  At(lock, "locked")' /\ once' = "done"
  <2>1. At(lock, "locked") /\ lock \in Threads /\ once = "done" /\ lock' = lock
    BY <1>1, <1>6 DEF ControlInv, LockDiscipline
  <2>2. lock # t
    BY <1>6, <2>1 DEF At
  <2> QED BY <1>2, <2>1, <2>2 DEF At, Top
<1> QED BY <1>4, <1>5, <1>6 DEF ControlInv, FramesOK, LockDiscipline

\* The active frame is a frame and obeys the rules for frames.
LEMMA ActiveFrame ==
  ASSUME ControlInv, NEW t \in Threads, stack[t] # << >>
  PROVE  Top(t) \in Frame /\ FrameOK(Top(t), once)
  BY TopLemma DEF ControlInv, ControlTypeOK, FramesOK

\* Passing the once block and acquiring the mutex keep the discipline.
LEMMA SynchroniseKeepsControl ==
  ASSUME ControlInv, NEW t \in Threads,
         OnceEnter(t) \/ InitLock(t) \/ OncePass(t) \/ Lock(t)
  PROVE  ControlInv'
<1>1. /\ stack[t] # << >>
      /\ once \in {"new", "busy", "done"}
      /\ Top(t) \in Frame /\ FrameOK(Top(t), once)
  BY ActiveFrame DEF OnceEnter, InitLock, OncePass, Lock, At, ControlInv, ControlTypeOK
<1>2. \A pc \in Pcs : [Top(t) EXCEPT !.pc = pc] \in Frame
  BY <1>1 DEF Frame
<1>3. CASE OnceEnter(t)
  <2> DEFINE fr == [Top(t) EXCEPT !.pc = "init"]
  <2>1. fr \in Frame /\ FrameOK(fr, once') /\ fr.pc = "init"
    BY <1>1, <1>2, <1>3 DEF OnceEnter, FrameOK, Pcs, Frame
  <2>2. /\ Become(t, fr) /\ once' = "busy" /\ once # "done"
        /\ lock' = lock /\ Top(t).pc = "once"
    BY <1>3 DEF OnceEnter, At, Goto
  <2> HIDE DEF fr
  <2> QED BY <1>1, <2>1, <2>2, BecomeKeepsControl
<1>4. CASE InitLock(t) \/ OncePass(t)
  <2>1. /\ once' = "done" /\ lock' = lock
        /\ Top(t).pc \in {"once", "init"}
        /\ AfterOnce(t)
    BY <1>4 DEF InitLock, OncePass, At
  <2>2. CASE Top(t).op = "load"
    BY <1>1, <2>1, <2>2, LeaveKeepsControl DEF AfterOnce
  <2>3. CASE Top(t).op # "load"
    <3> DEFINE fr == [Top(t) EXCEPT !.pc = "lock"]
    <3>1. fr \in Frame /\ FrameOK(fr, once') /\ fr.pc = "lock"
      BY <1>1, <1>2, <2>1, <2>3 DEF FrameOK, Pcs, Frame
    <3>2. Become(t, fr)
      BY <2>1, <2>3 DEF AfterOnce, Goto
    <3> HIDE DEF fr
    <3> QED BY <1>1, <2>1, <3>1, <3>2, BecomeKeepsControl
  <2> QED BY <2>2, <2>3
<1>5. CASE Lock(t)
  <2> DEFINE fr == [Top(t) EXCEPT !.pc = "locked"]
  <2>1. /\ Become(t, fr) /\ once' = once
        /\ lock = NoThread /\ lock' = t /\ Top(t).pc = "lock"
    BY <1>5 DEF Lock, At, Goto
  <2>2. fr \in Frame /\ FrameOK(fr, once') /\ fr.pc = "locked"
    BY <1>1, <1>2, <2>1 DEF FrameOK, Pcs, Frame
  <2> HIDE DEF fr
  <2> QED BY <1>1, <2>1, <2>2, BecomeKeepsControl
<1> QED BY <1>3, <1>4, <1>5

\* A longer and a shorter sequence, cell by cell.
LEMMA AppendIsFunction ==
  ASSUME NEW S, NEW s \in Seq(S), NEW e \in S
  PROVE  Append(s, e) = [i \in 1..(Len(s) + 1) |-> IF i = Len(s) + 1 THEN e ELSE s[i]]
<1> DEFINE a == Append(s, e)
           m == Len(s) + 1
<1>1. /\ a \in Seq(S) /\ Len(a) = m /\ Len(s) \in Nat
      /\ \A i \in 1..Len(s) : a[i] = s[i]
      /\ a[m] = e
  BY AppendProperties
<1>2. a = [i \in 1..m |-> a[i]]
  <2>1. DOMAIN a = 1..m /\ a \in [1..m -> S]
    BY <1>1, LenProperties
  <2> QED BY <2>1
<1> HIDE DEF a
<1>3. \A i \in 1..m : a[i] = IF i = m THEN e ELSE s[i]
  BY <1>1
<1> HIDE DEF m
<1>4. a = [i \in 1..m |-> IF i = m THEN e ELSE s[i]]
  BY <1>2, <1>3
<1> QED BY <1>4 DEF a, m

LEMMA FrontIsFunction ==
  ASSUME NEW S, NEW s \in Seq(S), Len(s) > 0
  PROVE  SubSeq(s, 1, Len(s) - 1) = [i \in 1..(Len(s) - 1) |-> s[i]]
<1> DEFINE a == SubSeq(s, 1, Len(s) - 1)
           m == Len(s) - 1
<1>0. Len(s) \in Nat /\ m \in Nat /\ DOMAIN s = 1..Len(s)
  OBVIOUS
<1>1. \A i \in 1..m : s[i] \in S
  BY <1>0
<1>2. a \in Seq(S) /\ Len(a) = m /\ \A i \in 1..m : a[i] = s[i]
  BY <1>0, <1>1, SubSeqProperties
<1>3. a = [i \in 1..m |-> a[i]]
  <2>1. DOMAIN a = 1..m /\ a \in [1..m -> S]
    BY <1>2, LenProperties
  <2> QED BY <2>1
<1> HIDE DEF a, m
<1>4. a = [i \in 1..m |-> s[i]]
  BY <1>2, <1>3
<1> QED BY <1>4 DEF a, m

(***************************************************************************)
(* Who has a registration, and what the frames show of it: the callback    *)
(* that the drain has taken, and those that are executed by the            *)
(* activations which registered them.                                      *)
(***************************************************************************)

\* A registration is held by one frame.
UniqueInv ==
  \A t \in Threads : \A i \in DOMAIN stack[t] : stack[t][i].f \in Callbacks =>
    \A u \in Threads : \A j \in DOMAIN stack[u] : stack[u][j].f = stack[t][i].f => u = t /\ j = i

DirectMembers ==
  \A c : c \in Direct <=>
    \E t \in Threads : \E i \in DOMAIN stack[t] : Executes(stack[t][i]) /\ stack[t][i].f = c

LEMMA DirectHasMembers == DirectMembers
<1>1. ASSUME NEW c \in Direct
      PROVE  \E t \in Threads : \E i \in DOMAIN stack[t] : Executes(stack[t][i]) /\ stack[t][i].f = c
  <2>1. PICK p \in Frames : Executes(FrameAt(p)) /\ FrameAt(p).f = c
    BY DEF Direct
  <2>2. PICK t \in Threads : \E i \in DOMAIN stack[t] : p = <<t, i>>
    BY DEF Frames
  <2> QED BY <2>1, <2>2 DEF FrameAt
<1>2. ASSUME NEW c, NEW t \in Threads, NEW i \in DOMAIN stack[t],
             Executes(stack[t][i]), stack[t][i].f = c
      PROVE  c \in Direct
  <2>1. <<t, i>> \in Frames /\ FrameAt(<<t, i>>) = stack[t][i]
    BY DEF Frames, FrameAt
  <2> QED BY <1>2, <2>1 DEF Direct
<1> QED BY <1>1, <1>2 DEF DirectMembers

\* What the executing frames of the next state have is Direct'.
LEMMA DirectNext ==
  ASSUME NEW X,
         \A t \in Threads : \A i \in DOMAIN stack'[t] : Executes(stack'[t][i]) => stack'[t][i].f \in X,
         \A c \in X : \E t \in Threads : \E i \in DOMAIN stack'[t] :
           Executes(stack'[t][i]) /\ stack'[t][i].f = c
  PROVE  Direct' = X
<1>1. DirectMembers'
  BY DirectHasMembers, PTL
<1>2. ASSUME NEW c \in Direct' PROVE c \in X
  BY <1>1 DEF DirectMembers
<1>3. ASSUME NEW c \in X PROVE c \in Direct'
  BY <1>1 DEF DirectMembers
<1> QED BY <1>2, <1>3

\* A new frame shows nothing.
LEMMA EnterShown ==
  ASSUME stack \in [Threads -> Seq(Frame)], NEW main \in Threads, NEW t \in Threads,
         NEW fr \in Frame, Enter(t, fr), fr.pc = "once", fr.op = "run" => fr.f = NoCallback
  PROVE  Current(main)' = Current(main) /\ Direct' = Direct
<1>1. /\ Len(stack'[t]) = Len(stack[t]) + 1 /\ Len(stack[t]) \in Nat
      /\ stack'[t][Len(stack[t]) + 1] = fr
      /\ \A i \in DOMAIN stack[t] : stack'[t][i] = stack[t][i]
      /\ \A u \in Threads \ {t} : stack'[u] = stack[u]
      /\ stack' \in [Threads -> Seq(Frame)]
      /\ DOMAIN stack[t] = 1..Len(stack[t])
  BY EnterLemma
<1>2. Current(main)' = Current(main)
  <2>1. CASE main # t
    BY <1>1, <2>1 DEF Current
  <2>2. CASE main = t /\ stack[t] # << >>
    <3>1. stack'[t] # << >> /\ 1 \in DOMAIN stack[t]
      BY <1>1, <2>2
    <3> QED BY <1>1, <2>2, <3>1 DEF Current
  <2>3. CASE main = t /\ stack[t] = << >>
    <3>1. Len(stack[t]) = 0
      BY <2>3
    <3>2. Len(stack'[t]) = 1 /\ stack'[t][1] = fr
      BY <1>1, <3>1
    <3>3. stack'[t] # << >>
      BY <3>2
    <3> QED BY <2>3, <3>2, <3>3 DEF Current
  <2> QED BY <2>1, <2>2, <2>3
<1>3. Direct' = Direct
  <2>1. ~ Executes(fr)
    BY DEF Executes
  <2>2. ASSUME NEW u \in Threads, NEW i \in DOMAIN stack'[u], Executes(stack'[u][i])
        PROVE  stack'[u][i].f \in Direct
    <3>1. i \in DOMAIN stack[u] /\ stack'[u][i] = stack[u][i]
      BY <2>1, <2>2, EnterFrames
    <3> QED BY <2>2, <3>1, DirectHasMembers DEF DirectMembers
  <2>3. ASSUME NEW c \in Direct
        PROVE  \E u \in Threads : \E i \in DOMAIN stack'[u] : Executes(stack'[u][i]) /\ stack'[u][i].f = c
    <3>1. PICK u \in Threads : \E i \in DOMAIN stack[u] : Executes(stack[u][i]) /\ stack[u][i].f = c
      BY DirectHasMembers DEF DirectMembers
    <3> QED BY <3>1, EnterKeepsFrames
  <2> QED BY <2>2, <2>3, DirectNext
<1> QED BY <1>2, <1>3

\* A frame that moves on shows the same, or what it starts to execute.
LEMMA MoveShown ==
  ASSUME stack \in [Threads -> Seq(Frame)], NEW main \in Threads, NEW t \in Threads,
         NEW fr \in Frame, stack[t] # << >>, Become(t, fr),
         fr.op = Top(t).op, fr.f = Top(t).f, Executes(Top(t)) => Executes(fr)
  PROVE  /\ Current(main)' = Current(main)
         /\ Direct' = Direct \cup IF Executes(fr) THEN {fr.f} ELSE {}
<1>1. /\ Len(stack[t]) \in DOMAIN stack[t]
      /\ Top(t) = stack[t][Len(stack[t])]
      /\ \A u \in Threads : DOMAIN stack'[u] = DOMAIN stack[u]
      /\ \A u \in Threads : \A i \in DOMAIN stack[u] :
           stack'[u][i] = IF u = t /\ i = Len(stack[t]) THEN fr ELSE stack[u][i]
  BY BecomeFrames
<1>2. Current(main)' = Current(main)
  <2>1. /\ stack[main] # << >> <=> 1 \in DOMAIN stack[main]
        /\ stack'[main] # << >> <=> 1 \in DOMAIN stack'[main]
    BY BecomeLemma
  <2> QED BY <1>1, <2>1 DEF Current
<1>3. Direct' = Direct \cup IF Executes(fr) THEN {fr.f} ELSE {}
  <2> DEFINE X == Direct \cup IF Executes(fr) THEN {fr.f} ELSE {}
  <2>1. ASSUME NEW u \in Threads, NEW i \in DOMAIN stack'[u], Executes(stack'[u][i])
        PROVE  stack'[u][i].f \in X
    <3>1. CASE u = t /\ i = Len(stack[t])
      BY <1>1, <2>1, <3>1
    <3>2. CASE ~ (u = t /\ i = Len(stack[t]))
      <4>1. i \in DOMAIN stack[u] /\ stack'[u][i] = stack[u][i]
        BY <1>1, <3>2
      <4> QED BY <2>1, <4>1, DirectHasMembers DEF DirectMembers
    <3> QED BY <3>1, <3>2
  <2>2. ASSUME NEW c \in X
        PROVE  \E u \in Threads : \E i \in DOMAIN stack'[u] : Executes(stack'[u][i]) /\ stack'[u][i].f = c
    <3>1. CASE c \in Direct
      <4>1. PICK u \in Threads : \E i \in DOMAIN stack[u] : Executes(stack[u][i]) /\ stack[u][i].f = c
        BY <3>1, DirectHasMembers DEF DirectMembers
      <4>2. PICK i \in DOMAIN stack[u] : Executes(stack[u][i]) /\ stack[u][i].f = c
        BY <4>1
      <4>3. i \in DOMAIN stack'[u] /\ Executes(stack'[u][i]) /\ stack'[u][i].f = c
        BY <1>1, <4>2
      <4> QED BY <4>3
    <3>2. CASE Executes(fr) /\ c = fr.f
      <4>1. Len(stack[t]) \in DOMAIN stack'[t] /\ stack'[t][Len(stack[t])] = fr
        BY <1>1
      <4> QED BY <3>2, <4>1
    <3> QED BY <3>1, <3>2
  <2> HIDE DEF X
  <2>3. Direct' = X
    BY <2>1, <2>2, DirectNext
  <2> QED BY <2>3 DEF X
<1> QED BY <1>2, <1>3

\* A frame that leaves takes what it executes with it.
LEMMA LeaveShown ==
  ASSUME stack \in [Threads -> Seq(Frame)], NEW main \in Threads, NEW t \in Threads,
         stack[t] # << >>, Leave(t), UniqueInv,
         Top(t).op = "run" => Top(t).f = NoCallback,
         Executes(Top(t)) => Top(t).f \in Callbacks
  PROVE  /\ Current(main)' = Current(main)
         /\ Direct' = Direct \ IF Executes(Top(t)) THEN {Top(t).f} ELSE {}
<1>1. /\ Len(stack[t]) \in DOMAIN stack[t]
      /\ Top(t) = stack[t][Len(stack[t])]
      /\ \A u \in Threads : \A i \in DOMAIN stack'[u] :
           /\ i \in DOMAIN stack[u] /\ stack'[u][i] = stack[u][i]
           /\ ~ (u = t /\ i = Len(stack[t]))
      /\ \A u \in Threads : \A i \in DOMAIN stack[u] :
           \/ u = t /\ i = Len(stack[t])
           \/ i \in DOMAIN stack'[u] /\ stack'[u][i] = stack[u][i]
  BY LeaveFrames
<1>2. Current(main)' = Current(main)
  <2>1. /\ stack[main] # << >> <=> 1 \in DOMAIN stack[main]
        /\ stack'[main] # << >> <=> 1 \in DOMAIN stack'[main]
    BY LeaveLemma
  <2>2. CASE 1 \in DOMAIN stack[main] /\ main = t /\ Len(stack[t]) = 1
    <3>1. 1 \notin DOMAIN stack'[main]
      BY <1>1, <2>2
    <3> QED BY <1>1, <2>1, <2>2, <3>1 DEF Current
  <2>3. CASE 1 \in DOMAIN stack[main] /\ ~ (main = t /\ Len(stack[t]) = 1)
    BY <1>1, <2>1, <2>3 DEF Current
  <2>4. CASE 1 \notin DOMAIN stack[main]
    BY <1>1, <2>1, <2>4 DEF Current
  <2> QED BY <2>2, <2>3, <2>4
<1>3. Direct' = Direct \ IF Executes(Top(t)) THEN {Top(t).f} ELSE {}
  <2> DEFINE X == Direct \ IF Executes(Top(t)) THEN {Top(t).f} ELSE {}
  <2>1. ASSUME NEW u \in Threads, NEW i \in DOMAIN stack'[u], Executes(stack'[u][i])
        PROVE  stack'[u][i].f \in X
    <3>1. /\ i \in DOMAIN stack[u] /\ stack'[u][i] = stack[u][i]
          /\ ~ (u = t /\ i = Len(stack[t]))
      BY <1>1
    <3>2. stack[u][i].f \in Direct
      BY <2>1, <3>1, DirectHasMembers DEF DirectMembers
    <3>3. Executes(Top(t)) => stack[u][i].f # Top(t).f
      BY <1>1, <3>1 DEF UniqueInv
    <3> QED BY <3>1, <3>2, <3>3
  <2>2. ASSUME NEW c \in X
        PROVE  \E u \in Threads : \E i \in DOMAIN stack'[u] : Executes(stack'[u][i]) /\ stack'[u][i].f = c
    <3>1. PICK u \in Threads : \E i \in DOMAIN stack[u] : Executes(stack[u][i]) /\ stack[u][i].f = c
      BY <2>2, DirectHasMembers DEF DirectMembers
    <3>2. PICK i \in DOMAIN stack[u] : Executes(stack[u][i]) /\ stack[u][i].f = c
      BY <3>1
    <3>3. ~ (u = t /\ i = Len(stack[t]))
      BY <1>1, <2>2, <3>2
    <3> QED BY <1>1, <3>2, <3>3
  <2> HIDE DEF X
  <2>3. Direct' = X
    BY <2>1, <2>2, DirectNext
  <2> QED BY <2>3 DEF X
<1> QED BY <1>2, <1>3

\* The frame of the drain takes a callback, or has none any more.
LEMMA RunShown ==
  ASSUME stack \in [Threads -> Seq(Frame)], NEW t \in Threads, NEW fr \in Frame,
         stack[t] # << >>, Become(t, fr), Len(stack[t]) = 1, Top(t).op = "run", fr.op = "run"
  PROVE  Current(t) = Top(t).f /\ Current(t)' = fr.f /\ Direct' = Direct
<1>1. /\ Len(stack[t]) \in DOMAIN stack[t]
      /\ Top(t) = stack[t][Len(stack[t])]
      /\ \A u \in Threads : DOMAIN stack'[u] = DOMAIN stack[u]
      /\ \A u \in Threads : \A i \in DOMAIN stack[u] :
           stack'[u][i] = IF u = t /\ i = Len(stack[t]) THEN fr ELSE stack[u][i]
  BY BecomeFrames
<1>2. stack'[t] # << >>
  BY BecomeLemma
<1>3. Direct' = Direct
  <2>1. ~ Executes(fr) /\ ~ Executes(Top(t))
    BY DEF Executes
  <2>2. ASSUME NEW u \in Threads, NEW i \in DOMAIN stack'[u], Executes(stack'[u][i])
        PROVE  stack'[u][i].f \in Direct
    <3>1. i \in DOMAIN stack[u] /\ stack'[u][i] = stack[u][i]
      BY <1>1, <2>1, <2>2
    <3> QED BY <2>2, <3>1, DirectHasMembers DEF DirectMembers
  <2>3. ASSUME NEW c \in Direct
        PROVE  \E u \in Threads : \E i \in DOMAIN stack'[u] : Executes(stack'[u][i]) /\ stack'[u][i].f = c
    <3>1. PICK u \in Threads : \E i \in DOMAIN stack[u] : Executes(stack[u][i]) /\ stack[u][i].f = c
      BY DirectHasMembers DEF DirectMembers
    <3>2. PICK i \in DOMAIN stack[u] : Executes(stack[u][i]) /\ stack[u][i].f = c
      BY <3>1
    <3>3. i \in DOMAIN stack'[u] /\ stack'[u][i] = stack[u][i]
      BY <1>1, <2>1, <3>2
    <3> QED BY <3>2, <3>3
  <2> QED BY <2>2, <2>3, DirectNext
<1> QED BY <1>1, <1>2, <1>3 DEF Current

\* What one frame has, no other one shows.
LEMMA ShownOnce ==
  ASSUME stack \in [Threads -> Seq(Frame)], UniqueInv, NEW main \in Threads,
         NEW t \in Threads, stack[t] # << >>, Top(t).f \in Callbacks
  PROVE  /\ Top(t).f \in Direct <=> Executes(Top(t))
         /\ Top(t).op # "run" => Current(main) # Top(t).f
<1>1. Len(stack[t]) \in DOMAIN stack[t] /\ Top(t) = stack[t][Len(stack[t])]
  BY TopLemma
<1>2. Executes(Top(t)) => Top(t).f \in Direct
  BY <1>1, DirectHasMembers DEF DirectMembers
<1>3. ASSUME Top(t).f \in Direct PROVE Executes(Top(t))
  <2>1. PICK u \in Threads : \E i \in DOMAIN stack[u] : Executes(stack[u][i]) /\ stack[u][i].f = Top(t).f
    BY <1>3, DirectHasMembers DEF DirectMembers
  <2> QED BY <1>1, <2>1 DEF UniqueInv
<1>4. ASSUME Top(t).op # "run", Current(main) = Top(t).f PROVE FALSE
  <2>1. stack[main] # << >> /\ stack[main][1].op = "run" /\ stack[main][1].f = Top(t).f
    BY <1>4, SentinelAssumption DEF Current
  <2>2. 1 \in DOMAIN stack[main]
    BY <2>1
  <2> QED BY <1>1, <1>4, <2>1, <2>2 DEF UniqueInv
<1> QED BY <1>2, <1>3, <1>4

=============================================================================
