------------------------------ MODULE Activations ------------------------------
(***************************************************************************)
(* The control state that mulle-atinit.c and mulle-atexit.c share: the C   *)
(* call stacks of the threads of one process, and the two primitives of    *)
(* mulle-thread the libraries use, mulle_thread_mutex_t and                *)
(* mulle_thread_once_do.  mulle-thread is not part of this repository; it  *)
(* is modelled from the way these two libraries call it.                   *)
(*                                                                         *)
(* A frame is one activation of a library function:                        *)
(*   op  which function is active ("add" registers, "run" drains, "load"   *)
(*       is a call with a NULL function that only passes the once block)   *)
(*   pc  where it is: "once", "init", "lock", "locked", "call" (the mutex  *)
(*       is released and the callback is about to be entered) or "calling" *)
(*       (the callback's body is executing)                                *)
(*   f   the callback it works on, or NoCallback                           *)
(* The body of a callback is client code.  It may call the library again,  *)
(* so frames nest: new ones are pushed on top of a "calling" frame.        *)
(***************************************************************************)
EXTENDS Integers, Sequences

CONSTANTS
  Threads,     \* the threads of the process
  Callbacks,   \* the registrations the clients make, each of them once
  NoThread,    \* the owner of a free mutex
  NoCallback   \* a NULL function pointer, or an uninitialised array cell

ASSUME SentinelAssumption == NoThread \notin Threads /\ NoCallback \notin Callbacks

VARIABLES
  stack,       \* stack[t]: the library frames of t, innermost last
  lock,        \* vars.lock: the thread that holds it, or NoThread
  once         \* the state of `once`: "new", "busy" or "done"

Ops   == {"load", "add", "run"}
Pcs   == {"once", "init", "lock", "locked", "call", "calling"}
Frame == [op : Ops, pc : Pcs, f : Callbacks \cup {NoCallback}]

ControlTypeOK ==
  /\ stack \in [Threads -> Seq(Frame)]
  /\ lock \in Threads \cup {NoThread}
  /\ once \in {"new", "busy", "done"}

ControlInit ==
  /\ stack = [t \in Threads |-> << >>]
  /\ lock = NoThread
  /\ once = "new"

Top(t)    == stack[t][Len(stack[t])]
At(t, pc) == stack[t] # << >> /\ Top(t).pc = pc

\* t executes client code: its own, or the body of a callback.
InClient(t) == stack[t] = << >> \/ At(t, "calling")

Enter(t, frame)   == stack' = [stack EXCEPT ![t] = Append(@, frame)]
Become(t, frame)  == stack' = [stack EXCEPT ![t] = [@ EXCEPT ![Len(@)] = frame]]
Leave(t)          == stack' = [stack EXCEPT ![t] = SubSeq(@, 1, Len(@) - 1)]
Goto(t, pc)       == Become(t, [Top(t) EXCEPT !.pc = pc])

\* The first thread to arrive executes the block of mulle_thread_once_do.
OnceEnter(t) ==
  /\ At(t, "once")
  /\ once = "new"
  /\ once' = "busy"
  /\ Goto(t, "init")
  /\ UNCHANGED lock

\* A call with a NULL function returns after the block, the others go on.
AfterOnce(t) == IF Top(t).op = "load" THEN Leave(t) ELSE Goto(t, "lock")

\* The block is init(): it initialises vars.lock.
InitLock(t) ==
  /\ At(t, "init")
  /\ once' = "done"
  /\ AfterOnce(t)
  /\ UNCHANGED lock

\* Every other thread passes the block only when it has been executed.
OncePass(t) ==
  /\ At(t, "once")
  /\ once = "done"
  /\ AfterOnce(t)
  /\ UNCHANGED <<lock, once>>

\* mulle_thread_mutex_lock: blocks while another thread holds the mutex.
Lock(t) ==
  /\ At(t, "lock")
  /\ lock = NoThread
  /\ lock' = t
  /\ Goto(t, "locked")
  /\ UNCHANGED once

\* mulle_thread_mutex_unlock.
Unlock == lock' = NoThread

\* Who has a callback, and what the bottom frame of the thread that drains has
\* taken.
Frames      == UNION {{<<t, i>> : i \in DOMAIN stack[t]} : t \in Threads}
FrameAt(p)  == stack[p[1]][p[2]]
Holders(c)  == {p \in Frames : FrameAt(p).f = c}
InFlight(c) == Holders(c) # {}

Current(main) ==
  IF stack[main] # << >> /\ stack[main][1].op = "run" THEN stack[main][1].f ELSE NoCallback

\* A late registration is executed by the activation that made it.
Executes(frame) == frame.op = "add" /\ frame.pc \in {"call", "calling"}

Direct == {FrameAt(p).f : p \in {q \in Frames : Executes(FrameAt(q))}}

\* What a frame may be doing when it is not the innermost of its thread, and
\* where the mutex is held.  The mutex is not recursive, so a callback body
\* that ran with it held could neither register nor return.
LockDiscipline ==
  /\ \A t \in Threads : \A i \in DOMAIN stack[t] :
       /\ i < Len(stack[t]) => stack[t][i].pc = "calling"
       /\ stack[t][i].pc = "locked" => lock = t
  /\ lock # NoThread => At(lock, "locked") /\ once = "done"
=============================================================================
