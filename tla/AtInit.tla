--------------------------------- MODULE AtInit ---------------------------------
(***************************************************************************)
(* mulle-atinit: the init callbacks of an executable and of the libraries  *)
(* it is linked with.  The constructors of the libraries register them in  *)
(* one static struct of the executable, whose own constructor, the last to *)
(* run, sorts them by priority and executes them, before main().           *)
(*                                                                         *)
(* Any thread may register at any time: a constructor may start one, main  *)
(* and its threads may, and so may the body of a callback.  A critical     *)
(* section is one action that also releases the mutex, but for the sort.   *)
(***************************************************************************)
EXTENDS Activations, MergeSort

CONSTANTS
  Main,         \* the thread that loads the executable
  Priority,     \* Priority[c]: the priority c is registered with
  InitialSize,  \* 32 in the source
  UIntMax,      \* the largest unsigned int, 2^32 - 1
  Capacities    \* the sizes that doubling reaches: 32 * 2^k

\* 2 * vars.size, as an unsigned int computes it.
Double(s) == (2 * s) % (UIntMax + 1)

\* See AtExit: this is arithmetic when UIntMax + 1 is a power of 2.
ASSUME SizeAssumption ==
  /\ UIntMax \in Nat
  /\ Capacities \subseteq 1..(UIntMax - 1)
  /\ InitialSize \in Capacities
  /\ \A s \in Capacities : Double(s) = 0 \/ (Double(s) = 2 * s /\ Double(s) \in Capacities)

ASSUME MainAssumption == Main \in Threads /\ Priority \in [Callbacks -> Int]

VARIABLES
  n,        \* vars.n: the number of calls in the array
  size,     \* vars.size: the cells allocated, or UIntMax (-1) once drained
  calls,    \* vars.calls: the allocated cells, 0..size-1, or Null
  phase,    \* the life of the process; from "draining" on, calls was sorted
  \* Ghosts, which no action reads to decide anything of the code:
  clock,    \* the number of callbacks that were ever added
  stamp,    \* stamp[c]: the value of clock when c was added, 0 if it never was
  sortedAt, \* the value of clock when calls was sorted
  runs,     \* runs[c]: how often the body of c has been entered
  done      \* the callbacks whose body has returned

ghosts == <<clock, stamp, sortedAt, runs, done>>
array  == <<n, size, calls>>
vars   == <<stack, lock, once, array, phase, ghosts>>

Null == [i \in {} |-> NoCallback]

Phases == {"loading", "constructor", "draining", "main", "exited", "aborted"}
Alive  == phase \notin {"exited", "aborted"}

TypeOK ==
  /\ ControlTypeOK
  /\ n \in Nat
  /\ size \in Capacities \cup {0, UIntMax}
  /\ calls \in [DOMAIN calls -> Callbacks \cup {NoCallback}]
  /\ phase \in Phases
  /\ clock \in Nat
  /\ stamp \in [Callbacks -> Nat]
  /\ sortedAt \in Nat
  /\ runs \in [Callbacks -> Nat]
  /\ done \subseteq Callbacks

Init ==
  /\ ControlInit
  /\ n = 0
  /\ size = 0
  /\ calls = Null
  /\ phase = "loading"
  /\ clock = 0
  /\ stamp = [c \in Callbacks |-> 0]
  /\ sortedAt = 0
  /\ runs = [c \in Callbacks |-> 0]
  /\ done = {}

(***************************************************************************)
(* Entering the library                                                    *)
(***************************************************************************)

\* No thread has submitted c so far.
Fresh(c) ==
  /\ stamp[c] = 0
  /\ runs[c] = 0
  /\ \A t \in Threads : \A i \in DOMAIN stack[t] : stack[t][i].f # c

\* A client, on any thread, calls mulle_atinit( c, ...).
BeginAdd(t, c) ==
  /\ Alive
  /\ InClient(t)
  /\ Fresh(c)
  /\ Enter(t, [op |-> "add", pc |-> "once", f |-> c])
  /\ UNCHANGED <<lock, once, array, phase, ghosts>>

\* The constructor mulle_atinit_load: _mulle_atinit( 0, ...), then the drain.
BeginLoad ==
  /\ phase = "loading"
  /\ stack[Main] = << >>
  /\ phase' = "constructor"
  /\ Enter(Main, [op |-> "run", pc |-> "once", f |-> NoCallback])
  /\ UNCHANGED <<lock, once, array, ghosts>>

\* mulle_thread_once_do and mulle_thread_mutex_lock.
Synchronise(t) ==
  /\ Alive
  /\ OnceEnter(t) \/ InitLock(t) \/ OncePass(t) \/ Lock(t)
  /\ UNCHANGED <<array, phase, ghosts>>

(***************************************************************************)
(* _mulle_atinit, with the mutex held                                      *)
(***************************************************************************)

\* Fault: only the emptiness of the array is looked at.
LateWhenEmpty == n = 0

\* Fault: only the use of the array is looked at.
LateWhenUsed == size # 0

\* The array is empty but was used: the code takes this for "everything ran".
Late == n = 0 /\ size # 0

\* Fault: the mutex is released after the call.
RedirectLocked(t) ==
  /\ Alive
  /\ At(t, "locked") /\ Top(t).op = "add"
  /\ Late
  /\ Goto(t, "call")
  /\ UNCHANGED <<lock, once, array, phase, ghosts>>

\* The late callback is executed by the thread that registers it.
Redirect(t) ==
  /\ Alive
  /\ At(t, "locked") /\ Top(t).op = "add"
  /\ Late
  /\ Unlock
  /\ Goto(t, "call")
  /\ UNCHANGED <<once, array, phase, ghosts>>

\* Fault: the array grows by a single cell.
NextSizeByOne == size + 1

\* vars.size ? 2 * vars.size : 32
NextSize == IF size # 0 THEN Double(size) ELSE InitialSize

\* realloc keeps the old cells and leaves the new ones uninitialised.
Realloc(cells, m) ==
  [i \in 0..(m - 1) |-> IF i \in DOMAIN cells THEN cells[i] ELSE NoCallback]

\* Fault: off by one.
FullTooLate == n > size

Full == n >= size

\* mulle_atinit_add_callback: the call goes to the end of the array, whatever
\* its priority.
AddCallback(t) ==
  /\ Alive
  /\ At(t, "locked") /\ Top(t).op = "add"
  /\ ~ Late
  /\ Full => NextSize # 0
  /\ size' = IF Full THEN NextSize ELSE size
  /\ calls' = [(IF Full THEN Realloc(calls, NextSize) ELSE calls) EXCEPT ![n] = Top(t).f]
  /\ n' = n + 1
  /\ clock' = clock + 1
  /\ stamp' = [stamp EXCEPT ![Top(t).f] = clock + 1]
  /\ Unlock
  /\ Leave(t)
  /\ UNCHANGED <<once, phase, sortedAt, runs, done>>

\* realloc fails, or is asked for zero bytes: abort(), with the mutex held.
AbortOnRealloc(t) ==
  /\ Alive
  /\ At(t, "locked") /\ Top(t).op = "add"
  /\ ~ Late
  /\ Full
  /\ size' = NextSize
  /\ calls' = Null
  /\ phase' = "aborted"
  /\ UNCHANGED <<stack, lock, once, n, ghosts>>

(***************************************************************************)
(* mulle_atinit_run_callbacks                                              *)
(***************************************************************************)

\* The first time that the mutex is held, the array is sorted.
Sort(t) ==
  /\ phase = "constructor"
  /\ At(t, "locked") /\ Top(t).op = "run"
  /\ calls' = Mergesort(calls, Priority, n)
  /\ phase' = "draining"
  /\ sortedAt' = clock
  /\ UNCHANGED <<stack, lock, once, n, size, clock, stamp, runs, done>>

\* malloc fails in the sort, which needs memory for two cells and more.
AbortOnMalloc(t) ==
  /\ phase = "constructor"
  /\ At(t, "locked") /\ Top(t).op = "run"
  /\ n > 1
  /\ phase' = "aborted"
  /\ UNCHANGED <<stack, lock, once, array, ghosts>>

\* Fault: the callback that was arranged to run last stays behind.
SomeLeftButOne == n > 1

SomeLeft == n > 0

\* Fault: the next cell, as if vars.n had not been decremented yet.
LastButOne == IF n > 1 THEN calls[n - 2] ELSE calls[0]

\* The cell that the decrement of vars.n uncovers.
Last == calls[n - 1]

\* With the mutex held, the last call is taken.
Pop(t) ==
  /\ Alive /\ phase # "constructor"
  /\ At(t, "locked") /\ Top(t).op = "run"
  /\ SomeLeft
  /\ n' = n - 1
  /\ Unlock
  /\ Become(t, [op |-> "run", pc |-> "call", f |-> Last])
  /\ UNCHANGED <<once, size, calls, phase, ghosts>>

\* Fault: size is reset like the rest of the struct.
RanForgotten == 0

\* vars.size = -1: "keep size alive though as an indicator that we ran".
Ran == UIntMax

\* Fault: the jump back to the loop is taken without a callback, too.
DrainedAgain(t) ==
  /\ Alive /\ phase # "constructor"
  /\ At(t, "locked") /\ Top(t).op = "run"
  /\ ~ SomeLeft
  /\ calls' = Null
  /\ size' = Ran
  /\ n' = 0
  /\ Unlock
  /\ Goto(t, "lock")
  /\ UNCHANGED <<once, phase, ghosts>>

\* With the mutex held, none is left: the array is freed, and main() starts.
Drained(t) ==
  /\ Alive /\ phase # "constructor"
  /\ At(t, "locked") /\ Top(t).op = "run"
  /\ ~ SomeLeft
  /\ calls' = Null
  /\ size' = Ran
  /\ n' = 0
  /\ phase' = "main"
  /\ Unlock
  /\ Leave(t)
  /\ UNCHANGED <<once, ghosts>>

(***************************************************************************)
(* The callbacks themselves                                                *)
(***************************************************************************)

\* (*f)( userinfo), without the mutex.
Call(t) ==
  /\ Alive
  /\ At(t, "call")
  /\ runs' = [runs EXCEPT ![Top(t).f] = @ + 1]
  /\ Goto(t, "calling")
  /\ UNCHANGED <<lock, once, array, phase, clock, stamp, sortedAt, done>>

\* The body returns: the drain goes on with the next one, a registration ends.
Return(t) ==
  /\ Alive
  /\ At(t, "calling")
  /\ done' = done \cup {Top(t).f}
  /\ IF Top(t).op = "run"
     THEN Become(t, [op |-> "run", pc |-> "lock", f |-> NoCallback])
     ELSE Leave(t)
  /\ UNCHANGED <<lock, once, array, phase, clock, stamp, sortedAt, runs>>

\* main returns, and other threads just stop.
Exit ==
  /\ phase = "main"
  /\ stack[Main] = << >>
  /\ phase' = "exited"
  /\ UNCHANGED <<stack, lock, once, array, ghosts>>

Terminated == ~ Alive /\ UNCHANGED vars

Step(t) ==
  \/ Synchronise(t)
  \/ Redirect(t)
  \/ AddCallback(t)
  \/ AbortOnRealloc(t)
  \/ Sort(t)
  \/ AbortOnMalloc(t)
  \/ Pop(t)
  \/ Drained(t)
  \/ Call(t)
  \/ Return(t)

Next ==
  \/ BeginLoad
  \/ Exit
  \/ \E t \in Threads, c \in Callbacks : BeginAdd(t, c)
  \/ \E t \in Threads : Step(t)
  \/ Terminated

Spec == Init /\ [][Next]_vars

\* Every thread is scheduled, the body of a callback returns, and nobody waits
\* for the mutex forever while finitely many registrations compete for it.
FairSpec == Spec /\ \A t \in Threads : WF_vars(Step(t))

(***************************************************************************)
(* What makes the library correct                                          *)
(***************************************************************************)

Queued == {calls[i] : i \in 0..(n - 1)}

\* The array holds what n and size say it holds, in every state in which a
\* thread can look: no cell is read or written outside of the allocation,
\* none is sorted or taken before it was written, a drained array is freed.
MemoryOK ==
  phase # "aborted" =>
    /\ \A i \in 0..(n - 1) : i \in DOMAIN calls /\ calls[i] \in Callbacks
    /\ IF size = Ran
       THEN n = 0 /\ calls = Null
       ELSE n <= size /\ DOMAIN calls = 0..(size - 1)

\* No init callback is executed before the executable's own constructor has
\* collected and sorted those of all libraries.
NeverEarly ==
  phase \in {"loading", "constructor"} => \A c \in Callbacks : runs[c] = 0

\* A registration is never lost or duplicated, not by the sort either: from
\* the moment it is made its callback waits in one cell, is held by one
\* activation, or has returned, and its body is entered once at most.
ExactlyOnce ==
  phase # "aborted" =>
    \A c \in Callbacks :
      /\ runs[c] <= 1
      /\ c \in done => runs[c] = 1 /\ c \notin Queued /\ ~ InFlight(c)
      /\ c \in Queued => ~ InFlight(c) /\ runs[c] = 0
      /\ \A p, q \in Holders(c) : p = q
      /\ \A i, j \in 0..(n - 1) : calls[i] = c /\ calls[j] = c => i = j
      /\ stamp[c] # 0 => c \in Queued \/ InFlight(c) \/ c \in done

\* When main() starts, every callback that was ever queued has returned, and
\* none can be queued any more: one that races with the end of the drain is
\* executed either by the drain or by the thread that registers it.
InitialisedBeforeMain ==
  phase \in {"main", "exited"} =>
    /\ n = 0
    /\ \A c \in Callbacks : stamp[c] # 0 => c \in done

\* c has to be executed before d, if both wait: what was added during the
\* drain comes first, the last of it foremost; the rest comes by falling
\* priority and, with equal priorities, in the order of registration.
Precedes(c, d) ==
  \/ stamp[c] > sortedAt /\ stamp[c] > stamp[d]
  \/ /\ stamp[c] <= sortedAt /\ stamp[d] <= sortedAt
     /\ \/ Priority[c] > Priority[d]
        \/ Priority[c] = Priority[d] /\ stamp[c] < stamp[d]

\* The drain always takes the callback that precedes all others that wait.
RunOrder ==
  [][\A t \in Threads :
       At(t, "locked") /\ Top(t).op = "run" /\ At(t, "call")'
         => \A d \in Queued : d = Top(t)'.f \/ Precedes(Top(t)'.f, d)]_vars

\* Every callback that waits when the executable's constructor runs is
\* executed, and its body returns, unless the process runs out of memory.
EveryCallbackRuns ==
  \A c \in Callbacks :
    (phase = "draining" /\ c \in Queued) ~> (c \in done \/ phase = "aborted")

\* Nobody stays in the library forever: a registration returns, also one that
\* executes its callback, and so does the constructor.
CallsReturn ==
  \A t \in Threads : stack[t] # << >> ~> (stack[t] = << >> \/ ~ Alive)

(***************************************************************************)
(* The promise: a stack that is arranged by priority and drained once      *)
(***************************************************************************)

\* The top comes last in a sequence, like in the array.
ByPriority(s) ==
  LET cells == [k \in 0..(Len(s) - 1) |-> s[k + 1]]
  IN  [i \in 1..Len(s) |-> ByRank(cells, Priority, Len(s))[i - 1]]

\* An aborted process has lost what waited.
Waiting == IF phase = "aborted" THEN << >> ELSE [i \in 1..n |-> calls[i - 1]]
Begun   == {c \in Callbacks : runs[c] > 0}
Mode    ==
  [loading |-> "collect", constructor |-> "collect", draining |-> "drain", main |-> "drained",
   exited |-> "gone", aborted |-> "failed"][phase]

Abstract == INSTANCE CallbackStack WITH
  Arrange <- ByPriority,
  stack   <- Waiting,
  current <- Current(Main),
  direct  <- Direct,
  begun   <- Begun,
  ended   <- done,
  mode    <- Mode

\* Whatever the interleaving, a client sees a stack that is arranged by rank
\* when the executable's constructor runs, and then drained to the end.
ImplementsStack == Abstract!Spec
=============================================================================
