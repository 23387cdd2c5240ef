------------------------------ MODULE LoadDomains ------------------------------
(***************************************************************************)
(* mulle-atinit and mulle-atexit in a process of several images: the       *)
(* executable, the shared libraries it is linked with, and plugins that    *)
(* are opened and closed while it runs.  Every image may contain the two   *)
(* libraries, and has its own constructors, destructors and static vars    *)
(* then.  But _mulle_atinit and _mulle_atexit are global symbols, which    *)
(* resolve to the copies of the executable for everybody.                  *)
(*                                                                         *)
(* Loading, main() and exiting are the work of one thread; AtInit and      *)
(* AtExit have the threads.  The array of a registry is a sequence here,   *)
(* and size is "none" (0), "some" or "ran" (-1).                           *)
(***************************************************************************)
EXTENDS MergeSort

CONSTANTS
  Exe,            \* the image of the executable
  Linked,         \* the shared libraries that are loaded before it
  Plugins,        \* the shared libraries that are opened by client code
  InitCallbacks,  \* the registrations made with mulle_atinit, each of them once
  ExitCallbacks,  \* the registrations made with mulle_atexit
  NoCallback,
  Owner,          \* the image that contains, and registers, a callback
  Priority

Callbacks == InitCallbacks \cup ExitCallbacks
Libraries == Linked \cup Plugins
Images    == Libraries \cup {Exe}

ASSUME ImageAssumption == Exe \notin Libraries /\ Linked \cap Plugins = {}
ASSUME CallbackAssumption ==
  /\ InitCallbacks \cap ExitCallbacks = {} /\ NoCallback \notin Callbacks
  /\ Owner \in [Callbacks -> Images] /\ Priority \in [Callbacks -> Int]

\* A copy of a registry: <<"init", i>> is vars of mulle-atinit.c in the image i.
Kinds  == {"init", "exit"}
Copies == Kinds \X Images

Kind(c) == IF c \in InitCallbacks THEN "init" ELSE "exit"

VARIABLES
  process,  \* "loading", "main", "exiting", "exited", or "crashed"
  image,    \* image[i]: the life of the image i
  todo,     \* todo[i]: its constructors or destructors that have yet to run
  stack,    \* the activations of the thread, innermost last
  waiting,  \* waiting[k, i]: vars.calls or vars.fs of a copy, up to vars.n
  size,     \* size[k, i]: vars.size
  ready,    \* ready[k, i]: whether vars.lock was initialised
  \* Ghosts, which no action reads to decide anything of the code:
  order,    \* the callbacks in the order of their registration
  cut,      \* how many of them there were when the executable's sort began
  log,      \* the callbacks in the order in which their bodies were entered
  done,     \* the callbacks whose body has returned
  raw       \* the copies whose mutex was taken without being initialised

loader   == <<process, image, todo>>
registry == <<waiting, size, ready, raw>>
ghosts   == <<order, cut, log, done>>
vars     == <<loader, stack, registry, ghosts>>

\* An activation: the loader runs constructors or destructors of an image; one
\* of them is client code; a copy of a registry is drained, and f is the callback
\* that was taken from it; or f is a late registration that is executed at once.
Frame(op, kind, i, f) == [op |-> op, kind |-> kind, image |-> i, f |-> f]
Frames ==
  [op : {"load", "unload", "client", "drain", "late"}, kind : Kinds, image : Images,
   f : Callbacks \cup {NoCallback}]

TypeOK ==
  /\ process \in {"loading", "main", "exiting", "exited", "crashed"}
  /\ image \in [Images -> {"unloaded", "loading", "ready", "unloading", "closed", "gone"}]
  /\ todo \in [Images -> SUBSET {"client", "atinit", "atexit"}]
  /\ stack \in Seq(Frames)
  /\ waiting \in [Copies -> Seq(Callbacks)]
  /\ size \in [Copies -> {"none", "some", "ran"}]
  /\ ready \in [Copies -> BOOLEAN]
  /\ order \in Seq(Callbacks) /\ log \in Seq(Callbacks) /\ done \subseteq Callbacks
  /\ cut \in Nat \cup {-1} /\ raw \subseteq Copies
  /\ \A x \in Copies : size[x] # "some" => waiting[x] = << >>

Init ==
  /\ process = "loading"
  /\ image = [i \in Images |-> "unloaded"]
  /\ todo = [i \in Images |-> {}]
  /\ stack = << >>
  /\ waiting = [x \in Copies |-> << >>]
  /\ size = [x \in Copies |-> "none"]
  /\ ready = [x \in Copies |-> FALSE]
  /\ order = << >> /\ cut = -1 /\ log = << >> /\ done = {} /\ raw = {}

Elements(s) == {s[k] : k \in DOMAIN s}

Top        == stack[Len(stack)]
Idle       == stack = << >>
On(op)     == ~ Idle /\ Top.op = op
Push(frame) == stack' = Append(stack, frame)
Pop         == stack' = SubSeq(stack, 1, Len(stack) - 1)

\* Client code of the image i is executing: main or a function that it calls, a
\* constructor or destructor, or the body of a callback.
InClient(i) ==
  \/ Idle /\ process = "main" /\ image[i] = "ready"
  \/ On("client") /\ Top.image = i
  \/ ~ Idle /\ Top.f \in Elements(log) /\ Owner[Top.f] = i

(***************************************************************************)
(* Global symbols and static ones                                          *)
(***************************************************************************)

\* Fault: the reference is bound inside of the image that makes it.
ResolveToOwn(i) == i

\* The image whose _mulle_atinit or _mulle_atexit is called by the image i.
Resolve(i) == Exe

\* Fault: the function that drains is a global symbol, too.
DrainsTheGlobal(i) == Exe

\* The image whose vars the constructor or destructor of i drains: "this must
\* be static for technical reasons".
Drains(i) == i

\* Fault: the mutex is initialised by the constructor only.
OnceInConstructor(x) ==
  ready' = [ready EXCEPT ![x] = @ \/ On("load") \/ On("unload")]

\* The once block of _mulle_atinit and _mulle_atexit.
Once(x) == ready' = [ready EXCEPT ![x] = TRUE]

\* mulle_thread_mutex_lock( &vars.lock).
Lock(x) == raw' = IF ready'[x] THEN raw ELSE raw \cup {x}

(***************************************************************************)
(* Registration                                                            *)
(***************************************************************************)

Fresh(c) == c \notin Elements(order)

\* Fault: that everything ran is not remembered.
LateWhileDraining(x) == waiting[x] = << >> /\ size[x] = "some"

Late(x) == waiting[x] = << >> /\ size[x] # "none"

\* _mulle_atinit and _mulle_atexit in the copy x, with a callback: it is executed
\* at once if it is late, and goes to the end of the array otherwise.
Register(x, c) ==
  /\ Once(x)
  /\ Lock(x)
  /\ order' = Append(order, c)
  /\ IF Late(x)
     THEN /\ Push(Frame("late", x[1], x[2], c))
          /\ UNCHANGED <<waiting, size>>
     ELSE /\ waiting' = [waiting EXCEPT ![x] = Append(@, c)]
          /\ size' = [size EXCEPT ![x] = "some"]
          /\ UNCHANGED stack
  /\ UNCHANGED <<loader, cut, log, done>>

\* mulle_atinit: the wrapper that clients call.
RegisterInit(c) ==
  /\ InClient(Owner[c]) /\ Fresh(c)
  /\ Register(<<"init", Resolve(Owner[c])>>, c)

\* mulle_atexit.
RegisterExit(c) ==
  /\ InClient(Owner[c]) /\ Fresh(c)
  /\ Register(<<"exit", Resolve(Owner[c])>>, c)

(***************************************************************************)
(* Constructors and destructors, in any order within their image           *)
(***************************************************************************)

\* The loader calls the constructor or destructor what of the image i.
Calls(op, i, what) ==
  /\ On(op) /\ Top.image = i
  /\ what \in todo[i]
  /\ todo' = [todo EXCEPT ![i] = @ \ {what}]
  /\ UNCHANGED <<process, image>>

\* The array of s, and the sequence of an array of n cells.
Cells(s)    == [k \in 0..(Len(s) - 1) |-> s[k + 1]]
List(arr, n) == [k \in 1..n |-> arr[k - 1]]

Sorted(s) == List(Mergesort(Cells(s), Priority, Len(s)), Len(s))

\* mulle_atinit_load: the once block is that of the executable's copy, the lock
\* and the array are those of this image's.
AtinitLoad(i) ==
  LET x == <<"init", Drains(i)>> IN
  /\ Calls("load", i, "atinit")
  /\ Once(<<"init", Resolve(i)>>)
  /\ Lock(x)
  /\ waiting' = [waiting EXCEPT ![x] = Sorted(@)]
  /\ cut' = IF i = Exe THEN Len(order) ELSE cut
  /\ Push(Frame("drain", x[1], x[2], NoCallback))
  /\ UNCHANGED <<size, order, log, done>>

\* mulle_atexit_load
AtexitLoad(i) ==
  /\ Calls("load", i, "atexit")
  /\ Once(<<"exit", Resolve(i)>>)
  /\ UNCHANGED <<stack, waiting, size, raw, ghosts>>

\* mulle_atexit_unload
AtexitUnload(i) ==
  LET x == <<"exit", Drains(i)>> IN
  /\ Calls("unload", i, "atexit")
  /\ Once(<<"exit", Resolve(i)>>)
  /\ Lock(x)
  /\ Push(Frame("drain", x[1], x[2], NoCallback))
  /\ UNCHANGED <<waiting, size, ghosts>>

\* A constructor or destructor of the client begins, and ends.
ClientCode(i) ==
  /\ Calls("load", i, "client") \/ Calls("unload", i, "client")
  /\ Push(Frame("client", "init", i, NoCallback))
  /\ UNCHANGED <<registry, ghosts>>

EndClient ==
  /\ On("client")
  /\ Pop
  /\ UNCHANGED <<loader, registry, ghosts>>

(***************************************************************************)
(* The drain of a copy                                                     *)
(***************************************************************************)

Draining == On("drain") /\ Top.f = NoCallback

Copy(frame) == <<frame.kind, frame.image>>

\* Fault: the cell with the index 0 is forgotten.
SomeWaitButOne(x) == Len(waiting[x]) > 1

SomeWait(x) == waiting[x] # << >>

\* The lock was taken by the constructor, or on return from the callback before.
Take ==
  LET x == Copy(Top) s == waiting[x] IN
  /\ Draining /\ SomeWait(x)
  /\ waiting' = [waiting EXCEPT ![x] = SubSeq(s, 1, Len(s) - 1)]
  /\ stack' = [stack EXCEPT ![Len(stack)].f = s[Len(s)]]
  /\ UNCHANGED <<loader, size, ready, raw, ghosts>>

Drained ==
  /\ Draining /\ ~ SomeWait(Copy(Top))
  /\ size' = [size EXCEPT ![Copy(Top)] = "ran"]
  /\ Pop
  /\ UNCHANGED <<loader, waiting, ready, raw, ghosts>>

\* (*f)( userinfo): the code of a callback whose image was closed is not there
\* any more.
Call ==
  /\ process # "crashed"
  /\ ~ Idle /\ Top.f \notin Elements(log) \cup {NoCallback}
  /\ IF image[Owner[Top.f]] = "closed"
     THEN process' = "crashed" /\ UNCHANGED log
     ELSE log' = Append(log, Top.f) /\ UNCHANGED process
  /\ UNCHANGED <<image, todo, stack, registry, order, cut, done>>

Return ==
  /\ ~ Idle /\ Top.f \in Elements(log)
  /\ done' = done \cup {Top.f}
  /\ IF Top.op = "late" THEN Pop ELSE stack' = [stack EXCEPT ![Len(stack)].f = NoCallback]
  /\ UNCHANGED <<loader, registry, order, cut, log>>

(***************************************************************************)
(* The loader                                                              *)
(***************************************************************************)

\* The loader maps an image: those the program is linked with at its start, the
\* executable last, and a plugin whenever client code asks for it.
Load(i) ==
  /\ image[i] = "unloaded"
  /\ \/ process = "loading" /\ Idle /\ i \in Linked
     \/ process = "loading" /\ Idle /\ i = Exe /\ \A l \in Linked : image[l] = "ready"
     \/ i \in Plugins /\ process \in {"loading", "main"} /\ \E j \in Images : InClient(j)
  /\ image' = [image EXCEPT ![i] = "loading"]
  /\ todo' = [todo EXCEPT ![i] = {"client", "atinit", "atexit"}]
  /\ Push(Frame("load", "init", i, NoCallback))
  /\ UNCHANGED <<process, registry, ghosts>>

\* Its constructors are done; main() follows those of the executable.
Loaded ==
  /\ On("load") /\ todo[Top.image] = {}
  /\ image' = [image EXCEPT ![Top.image] = "ready"]
  /\ process' = IF Top.image = Exe THEN "main" ELSE process
  /\ Pop
  /\ UNCHANGED <<todo, registry, ghosts>>

\* main() returns.
Exit ==
  /\ process = "main" /\ Idle
  /\ process' = "exiting"
  /\ UNCHANGED <<image, todo, stack, registry, ghosts>>

\* dlclose() of a plugin by main(), between its calls of the libraries, or the end of
\* the process, which takes the images in an order that depends on the platform. That
\* a constructor or a callback closes a plugin, whose init callbacks may still wait
\* then, is not covered.
Unload(i) ==
  /\ Idle /\ image[i] = "ready"
  /\ \/ process = "exiting"
     \/ process = "main" /\ i \in Plugins
  /\ image' = [image EXCEPT ![i] = "unloading"]
  /\ todo' = [todo EXCEPT ![i] = {"client", "atexit"}]
  /\ Push(Frame("unload", "exit", i, NoCallback))
  /\ UNCHANGED <<process, registry, ghosts>>

\* Only dlclose() removes the code of the image from the process.
Unloaded ==
  LET gone == [image EXCEPT ![Top.image] = IF process = "main" THEN "closed" ELSE "gone"] IN
  /\ On("unload") /\ todo[Top.image] = {}
  /\ image' = gone
  /\ process' = IF process = "exiting" /\ \A j \in Images : gone[j] \in {"unloaded", "closed", "gone"}
                THEN "exited"
                ELSE process
  /\ Pop
  /\ UNCHANGED <<todo, registry, ghosts>>

Terminated == process \in {"exited", "crashed"} /\ UNCHANGED vars

(***************************************************************************)
(* The process                                                             *)
(***************************************************************************)

\* What the thread does without a decision of the client.
Proceed ==
  \/ Take \/ Drained \/ Call \/ Return \/ EndClient \/ Loaded \/ Unloaded
  \/ \E i \in Images : AtinitLoad(i) \/ AtexitLoad(i) \/ AtexitUnload(i) \/ ClientCode(i)

Next ==
  \/ Proceed
  \/ \E c \in InitCallbacks : RegisterInit(c)
  \/ \E c \in ExitCallbacks : RegisterExit(c)
  \/ \E i \in Images : Load(i) \/ Unload(i)
  \/ Exit
  \/ Terminated

Spec == Init /\ [][Next]_vars

\* Constructors, destructors and callbacks of the clients return, and a process
\* that exits gets rid of its images.
FairSpec ==
  /\ Spec
  /\ WF_vars(Proceed)
  /\ WF_vars(process = "exiting" /\ \E i \in Images : Unload(i))

(***************************************************************************)
(* Safety                                                                  *)
(***************************************************************************)

Position(s, c) == CHOOSE k \in DOMAIN s : s[k] = c

\* Before the constructor of the executable has begun, no init callback is
\* executed, no matter which constructors of which libraries have drained their
\* copies.  Those that were registered until then are executed by falling
\* priority, and those of one priority in the order of their registration, no
\* matter in which order their libraries were loaded; and main() follows them
\* (atinit.c:200, 366-396).
InitOrder ==
  LET early == {c \in InitCallbacks : c \in {order[k] : k \in 1..cut}}
      Before(a, b) == \/ Priority[a] > Priority[b]
                      \/ Priority[a] = Priority[b] /\ Position(order, a) < Position(order, b)
  IN  /\ cut = -1 => Elements(log) \cap InitCallbacks = {}
      /\ \A a, b \in early :
           Before(a, b) /\ b \in Elements(log) =>
             a \in Elements(log) /\ Position(log, a) < Position(log, b)
      /\ process \in {"main", "exiting", "exited"} => early \subseteq done

\* No exit callback is executed before main() has returned, though destructors
\* of mulle-atexit run whenever a plugin is closed (atexit.c:189-196).
ExitOnlyAtExit ==
  process \in {"loading", "main"} => Elements(log) \cap ExitCallbacks = {}

\* The constructor or destructor of a library locks the mutex of its own copy,
\* which the once block has not initialised, as that belongs to the executable
\* (atinit.c:405-406, atexit.c:213-214).  Never more than that: no client's
\* registration is stored in a copy with such a mutex.
OnlyEmptyUnguarded ==
  \A x \in Copies :
    /\ waiting[x] # << >> => ready[x]
    /\ x \in raw => x[2] # Exe /\ size[x] # "some"

\* When the process has exited, every registration was executed exactly once, and
\* has returned: by a drain, or by whoever made it.
AllExecuted ==
  process = "exited" =>
    /\ done = Elements(order)
    /\ Elements(log) = Elements(order) /\ Len(log) = Len(order)

\* "avoiding lost callbacks during shared-library unloads" (mulle-atexit/index.md):
\* the code of a callback is still there when its turn comes.
CallbackMapped == process # "crashed"

(***************************************************************************)
(* Refinement: all images share one stack of either kind                   *)
(***************************************************************************)

InDrain(x) == {k \in DOMAIN stack : stack[k].op = "drain" /\ Copy(stack[k]) = x}
Current(x) == IF InDrain(x) = {} THEN NoCallback ELSE stack[CHOOSE k \in InDrain(x) : TRUE].f
Direct(x)  == {stack[k].f : k \in {m \in DOMAIN stack : stack[m].op = "late" /\ Copy(stack[m]) = x}}
Mode(x)    == IF size[x] = "ran" THEN "drained" ELSE IF InDrain(x) # {} THEN "drain" ELSE "collect"

InitCopy == <<"init", Exe>>
ExitCopy == <<"exit", Exe>>

ByPriority(s) == List(ByRank(Cells(s), Priority, Len(s)), Len(s))

InitStack == INSTANCE CallbackStack WITH
  Callbacks <- InitCallbacks,
  Arrange   <- ByPriority,
  stack     <- waiting[InitCopy],
  current   <- Current(InitCopy),
  direct    <- Direct(InitCopy),
  begun     <- Elements(log) \cap InitCallbacks,
  ended     <- done \cap InitCallbacks,
  mode      <- Mode(InitCopy)

AsRegistered(s) == s

\* A process that crashes in the drain loses the callbacks that still wait.
ExitStack == INSTANCE CallbackStack WITH
  Callbacks <- ExitCallbacks,
  Arrange   <- AsRegistered,
  stack     <- IF process = "crashed" THEN << >> ELSE waiting[ExitCopy],
  current   <- Current(ExitCopy),
  direct    <- Direct(ExitCopy),
  begun     <- Elements(log) \cap ExitCallbacks,
  ended     <- done \cap ExitCallbacks,
  mode      <- IF process = "crashed" THEN "failed" ELSE Mode(ExitCopy)

\* Whichever image registers them, init callbacks go through one stack, arranged
\* by rank and drained once, before main().
OneInitStack == InitStack!Spec

\* And exit callbacks go through another one, drained once, last in first out.
OneExitStack == ExitStack!Spec
=============================================================================
