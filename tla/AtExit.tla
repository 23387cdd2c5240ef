--------------------------------- MODULE AtExit ---------------------------------
(***************************************************************************)
(* mulle-atexit: a stack of exit callbacks, kept in one static struct of   *)
(* the executable and drained by the destructor of the executable.         *)
(*                                                                         *)
(* Any thread may register at any time: before the constructor has run,    *)
(* while main runs, from the body of an exit callback and after the drain. *)
(* A critical section is one action that also releases the mutex: nobody   *)
(* else reads or writes vars while the mutex is held.                      *)
(***************************************************************************)
EXTENDS Activations

CONSTANTS
  Main,         \* the thread that loads the executable and calls exit()
  InitialSize,  \* 32 in the source
  UIntMax,      \* the largest unsigned int, 2^32 - 1
  Capacities    \* the sizes that doubling reaches: 32 * 2^k

\* 2 * vars.size, as an unsigned int computes it.
Double(s) == (2 * s) % (UIntMax + 1)

\* Doubling wraps to zero and to nothing else, and misses the value -1 that
\* marks a drained stack.  This is arithmetic when UIntMax + 1 is a power of 2
\* and InitialSize is a smaller one.
ASSUME SizeAssumption ==
  /\ UIntMax \in Nat
  /\ Capacities \subseteq 1..(UIntMax - 1)
  /\ InitialSize \in Capacities
  /\ \A s \in Capacities : Double(s) = 0 \/ (Double(s) = 2 * s /\ Double(s) \in Capacities)

ASSUME MainAssumption == Main \in Threads

VARIABLES
  n,        \* vars.n: the number of callbacks on the stack
  size,     \* vars.size: the cells allocated, or UIntMax (-1) once drained
  fs,       \* vars.fs: the allocated cells, 0..size-1, or Null
  phase,    \* the life of the process
  \* Ghosts, which no action reads to decide anything of the code:
  clock,    \* the number of callbacks that were ever pushed
  stamp,    \* stamp[c]: the value of clock when c was pushed, 0 if it never was
  runs,     \* runs[c]: how often the body of c has been entered
  done      \* the callbacks whose body has returned

ghosts == <<clock, stamp, runs, done>>
array  == <<n, size, fs>>
vars   == <<stack, lock, once, array, phase, ghosts>>

Null == [i \in {} |-> NoCallback]

Phases == {"loading", "live", "unloading", "unloaded", "exited", "aborted"}
Alive  == phase \notin {"exited", "aborted"}

TypeOK ==
  /\ ControlTypeOK
  /\ n \in Nat
  /\ size \in Capacities \cup {0, UIntMax}
  /\ fs \in [DOMAIN fs -> Callbacks \cup {NoCallback}]
  /\ phase \in Phases
  /\ clock \in Nat
  /\ stamp \in [Callbacks -> Nat]
  /\ runs \in [Callbacks -> Nat]
  /\ done \subseteq Callbacks

Init ==
  /\ ControlInit
  /\ n = 0
  /\ size = 0
  /\ fs = Null
  /\ phase = "loading"
  /\ clock = 0
  /\ stamp = [c \in Callbacks |-> 0]
  /\ runs = [c \in Callbacks |-> 0]
  /\ done = {}

(***************************************************************************)
(* Entering the library                                                    *)
(***************************************************************************)

\* No thread has submitted c so far.
Fresh(c) ==
  /\ stamp[c] = 0
  /\ runs[c] = 0
  /\ \A t \in Threads : \A i \in DOMAIN stack[t] : stack[t][i].f # c

\* The constructor mulle_atexit_load: _mulle_atexit( 0).
BeginLoad ==
  /\ phase = "loading"
  /\ stack[Main] = << >>
  /\ phase' = "live"
  /\ Enter(Main, [op |-> "load", pc |-> "once", f |-> NoCallback])
  /\ UNCHANGED <<lock, once, array, ghosts>>

\* A client, on any thread, calls mulle_atexit( c).
BeginAdd(t, c) ==
  /\ Alive
  /\ InClient(t)
  /\ Fresh(c)
  /\ Enter(t, [op |-> "add", pc |-> "once", f |-> c])
  /\ UNCHANGED <<lock, once, array, phase, ghosts>>

\* The destructor mulle_atexit_unload: _mulle_atexit( 0), run_exit_callbacks().
BeginUnload ==
  /\ phase = "live"
  /\ stack[Main] = << >>
  /\ phase' = "unloading"
  /\ Enter(Main, [op |-> "run", pc |-> "once", f |-> NoCallback])
  /\ UNCHANGED <<lock, once, array, ghosts>>

\* mulle_thread_once_do and mulle_thread_mutex_lock.
Synchronise(t) ==
  /\ Alive
  /\ OnceEnter(t) \/ InitLock(t) \/ OncePass(t) \/ Lock(t)
  /\ UNCHANGED <<array, phase, ghosts>>

(***************************************************************************)
(* _mulle_atexit, with the mutex held                                      *)
(***************************************************************************)

\* Fault: only the emptiness of the stack is looked at.
LateWhenEmpty == n = 0

\* Fault: only the use of the stack is looked at.
LateWhenUsed == size # 0

\* The stack is empty but was used: the code takes this for "everything ran".
Late == n = 0 /\ size # 0

\* Fault: the mutex is released after the call.
RedirectLocked(t) ==
  /\ Alive
  /\ At(t, "locked") /\ Top(t).op = "add"
  /\ Late
  /\ Goto(t, "call")
  /\ UNCHANGED <<lock, once, array, phase, ghosts>>

\* The late callback is executed by the thread that registers it.
Redirect(t) ==
  /\ Alive
  /\ At(t, "locked") /\ Top(t).op = "add"
  /\ Late
  /\ Unlock
  /\ Goto(t, "call")
  /\ UNCHANGED <<once, array, phase, ghosts>>

\* Fault: the array grows by a single cell.
NextSizeByOne == size + 1

\* vars.size ? 2 * vars.size : 32
NextSize == IF size # 0 THEN Double(size) ELSE InitialSize

\* realloc keeps the old cells and leaves the new ones uninitialised.
Realloc(cells, m) ==
  [i \in 0..(m - 1) |-> IF i \in DOMAIN cells THEN cells[i] ELSE NoCallback]

\* Fault: off by one.
FullTooLate == n > size

Full == n >= size

\* The callback is pushed.  realloc to zero bytes frees and returns NULL.
Push(t) ==
  /\ Alive
  /\ At(t, "locked") /\ Top(t).op = "add"
  /\ ~ Late
  /\ Full => NextSize # 0
  /\ size' = IF Full THEN NextSize ELSE size
  /\ fs' = [(IF Full THEN Realloc(fs, NextSize) ELSE fs) EXCEPT ![n] = Top(t).f]
  /\ n' = n + 1
  /\ clock' = clock + 1
  /\ stamp' = [stamp EXCEPT ![Top(t).f] = clock + 1]
  /\ Unlock
  /\ Leave(t)
  /\ UNCHANGED <<once, phase, runs, done>>

\* realloc fails, or is asked for zero bytes: abort(), with the mutex held.
AbortOnRealloc(t) ==
  /\ Alive
  /\ At(t, "locked") /\ Top(t).op = "add"
  /\ ~ Late
  /\ Full
  /\ size' = NextSize
  /\ fs' = Null
  /\ phase' = "aborted"
  /\ UNCHANGED <<stack, lock, once, n, ghosts>>

(***************************************************************************)
(* run_exit_callbacks                                                      *)
(***************************************************************************)

\* Fault: the callback that was registered first stays behind.
SomeLeftButOne == n > 1

SomeLeft == n > 0

\* Fault: callbacks are taken in the order of their registration.
Oldest == fs[0]

\* The cell that the decrement of vars.n uncovers.
Youngest == fs[n - 1]

\* Fault: the decrement is forgotten.
PopAndKeep(t) ==
  /\ Alive
  /\ At(t, "locked") /\ Top(t).op = "run"
  /\ SomeLeft
  /\ Unlock
  /\ Become(t, [op |-> "run", pc |-> "call", f |-> Youngest])
  /\ UNCHANGED <<once, array, phase, ghosts>>

\* With the mutex held, the youngest callback is popped.
Pop(t) ==
  /\ Alive
  /\ At(t, "locked") /\ Top(t).op = "run"
  /\ SomeLeft
  /\ n' = n - 1
  /\ Unlock
  /\ Become(t, [op |-> "run", pc |-> "call", f |-> Youngest])
  /\ UNCHANGED <<once, size, fs, phase, ghosts>>

\* Fault: size is reset like the rest of the struct.
RanForgotten == 0

\* vars.size = -1: "keep size alive though as an indicator that we ran".
Ran == UIntMax

\* Fault: the jump back to the loop is taken without a callback, too.
DrainedAgain(t) ==
  /\ Alive
  /\ At(t, "locked") /\ Top(t).op = "run"
  /\ ~ SomeLeft
  /\ fs' = Null
  /\ size' = Ran
  /\ n' = 0
  /\ Unlock
  /\ Goto(t, "lock")
  /\ UNCHANGED <<once, phase, ghosts>>

\* With the mutex held, none is left: the array is freed, the drain is over.
Drained(t) ==
  /\ Alive
  /\ At(t, "locked") /\ Top(t).op = "run"
  /\ ~ SomeLeft
  /\ fs' = Null
  /\ size' = Ran
  /\ n' = 0
  /\ phase' = "unloaded"
  /\ Unlock
  /\ Leave(t)
  /\ UNCHANGED <<once, ghosts>>

(***************************************************************************)
(* The callbacks themselves                                                *)
(***************************************************************************)

\* (*f)(), without the mutex.
Call(t) ==
  /\ Alive
  /\ At(t, "call")
  /\ runs' = [runs EXCEPT ![Top(t).f] = @ + 1]
  /\ Goto(t, "calling")
  /\ UNCHANGED <<lock, once, array, phase, clock, stamp, done>>

\* The body returns: a drain goes on with the next one, a registration ends.
Return(t) ==
  /\ Alive
  /\ At(t, "calling")
  /\ done' = done \cup {Top(t).f}
  /\ IF Top(t).op = "run"
     THEN Become(t, [op |-> "run", pc |-> "lock", f |-> NoCallback])
     ELSE Leave(t)
  /\ UNCHANGED <<lock, once, array, phase, clock, stamp, runs>>

\* The process ends when Main has run all destructors; other threads just stop.
Exit ==
  /\ phase = "unloaded"
  /\ stack[Main] = << >>
  /\ phase' = "exited"
  /\ UNCHANGED <<stack, lock, once, array, ghosts>>

Terminated == ~ Alive /\ UNCHANGED vars

Step(t) ==
  \/ Synchronise(t)
  \/ Redirect(t)
  \/ Push(t)
  \/ AbortOnRealloc(t)
  \/ Pop(t)
  \/ Drained(t)
  \/ Call(t)
  \/ Return(t)

Next ==
  \/ BeginLoad
  \/ BeginUnload
  \/ Exit
  \/ \E t \in Threads, c \in Callbacks : BeginAdd(t, c)
  \/ \E t \in Threads : Step(t)
  \/ Terminated

Spec == Init /\ [][Next]_vars

\* Every thread is scheduled, the body of a callback returns, and nobody waits
\* for the mutex forever while finitely many registrations compete for it.
FairSpec == Spec /\ \A t \in Threads : WF_vars(Step(t))

(***************************************************************************)
(* What makes the library correct                                          *)
(***************************************************************************)

Queued == {fs[i] : i \in 0..(n - 1)}

\* The array holds what n and size say it holds, in every state in which a
\* thread can look: no cell is read or written outside of the allocation,
\* none is popped before it was written, and a drained stack owns no memory.
MemoryOK ==
  phase # "aborted" =>
    /\ \A i \in 0..(n - 1) : i \in DOMAIN fs /\ fs[i] \in Callbacks
    /\ IF size = Ran
       THEN n = 0 /\ fs = Null
       ELSE n <= size /\ DOMAIN fs = 0..(size - 1)

\* No callback is executed before the executable is being unloaded, however
\* early, late and on whatever thread it was registered.
NeverEarly ==
  phase \in {"loading", "live"} => \A c \in Callbacks : runs[c] = 0

\* A registration is never lost or duplicated: from the moment it is made its
\* callback waits in one cell, is held by one activation, or has returned, and
\* its body is entered once at most.
ExactlyOnce ==
  phase # "aborted" =>
    \A c \in Callbacks :
      /\ runs[c] <= 1
      /\ c \in done => runs[c] = 1 /\ c \notin Queued /\ ~ InFlight(c)
      /\ c \in Queued => ~ InFlight(c) /\ runs[c] = 0
      /\ \A p, q \in Holders(c) : p = q
      /\ \A i, j \in 0..(n - 1) : fs[i] = c /\ fs[j] = c => i = j
      /\ stamp[c] # 0 => c \in Queued \/ InFlight(c) \/ c \in done

\* When the destructor has returned, the body of every callback that was ever
\* pushed has returned, and none can be pushed any more: a registration that
\* races with the end of the drain is not stranded in the array.
NoneStranded ==
  phase \in {"unloaded", "exited"} =>
    /\ n = 0
    /\ \A c \in Callbacks : stamp[c] # 0 => c \in done

\* The drain always takes the callback that was registered last among those
\* that wait, also when bodies and other threads register during the drain.
LastInFirstOut ==
  [][\A t \in Threads :
       At(t, "locked") /\ Top(t).op = "run" /\ At(t, "call")'
         => \A c \in Queued : stamp[c] <= stamp[Top(t)'.f]]_vars

\* Every callback that waits when the executable is unloaded is executed, and
\* its body returns, unless the process runs out of memory.
EveryCallbackRuns ==
  \A c \in Callbacks :
    (phase = "unloading" /\ c \in Queued) ~> (c \in done \/ phase = "aborted")

\* Nobody stays in the library forever: a registration returns, also one that
\* executes its callback, and so does the destructor.
CallsReturn ==
  \A t \in Threads : stack[t] # << >> ~> (stack[t] = << >> \/ ~ Alive)

\* What index.md says of the library: "Deterministic LIFO execution of registered
\* callbacks (matches standard atexit semantics)".  With atexit, a
\* function that is registered by an exit handler is called after the handler
\* has returned, so that no two bodies are active on one thread while the
\* destructor drains.  What happens after the drain is no concern of this one.
BodiesNeverNest ==
  phase = "unloading" =>
    \A t \in Threads : \A i, j \in DOMAIN stack[t] :
      stack[t][i].pc = "calling" /\ stack[t][j].pc = "calling" => i = j

(***************************************************************************)
(* The promise: a stack that is drained once, from the top                 *)
(***************************************************************************)

\* An aborted process has lost what waited.
Waiting == IF phase = "aborted" THEN << >> ELSE [i \in 1..n |-> fs[i - 1]]
Begun   == {c \in Callbacks : runs[c] > 0}
Mode    ==
  [loading |-> "collect", live |-> "collect", unloading |-> "drain", unloaded |-> "drained",
   exited |-> "gone", aborted |-> "failed"][phase]

AsRegistered(s) == s

Abstract == INSTANCE CallbackStack WITH
  Arrange <- AsRegistered,
  stack   <- Waiting,
  current <- Current(Main),
  direct  <- Direct,
  begun   <- Begun,
  ended   <- done,
  mode    <- Mode

\* Whatever the interleaving, a client sees a stack that is drained once, from
\* the top, one callback at a time, and that is drained to the end.
ImplementsStack == Abstract!Spec
=============================================================================
