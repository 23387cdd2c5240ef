# Verification of mulle-core-all-load

mulle-core-all-load is the part of the mulle-core libraries that every
executable has to link completely ("all-load") and statically, because its
constructors, destructors and global symbols have to live in the executable.
It amalgamates three C libraries and some CMake glue. The TLA+ modules in this
directory model those libraries; TLC checks the models on small instances and
TLAPS proves theorems about them for all instances.

## 1. Inventory

| component | source | state | operations |
|---|---|---|---|
| mulle-atexit | `src/src/mulle-atexit` | one static struct: mutex, `n`, `size`, array of functions; a static `once` | `_mulle_atexit` registers, the constructor initialises, the destructor drains |
| mulle-atinit | `src/src/mulle-atinit` | one static struct: mutex, `n`, `size`, array of prioritized calls; a static `once` | `_mulle_atinit` registers, the constructor initialises, sorts and drains |
| mergesort of mulle-atinit | `mulle-atinit.c` | a temporary array | `merge`, `mergesort_internal`, `_prioritized_callback_mergesort` |
| mulle-stacktrace | `src/src/mulle-stacktrace` | a `struct mulle_stacktrace` of hooks and a default instance; libbacktrace's lazily created `global_state` | init, count frames, dump a trace in four formats; one of three backends (execinfo, libbacktrace, nop) |
| load domains | the same two sources, in every image of a process | a copy of the structs in each image, one of which the global functions use | constructors and destructors of each image, `dlopen`, `dlclose` |
| mulle-core-all-load | `src/src/mulle-core-all-load` | none | a version number |
| all-load build glue | `cmake/`, `mulle-generate-all-load-constructor` | none at run time | link options, a generated constructor that references symbols |

How they interact. mulle-atinit and mulle-atexit share no state. Each is called
by client code: by constructors of other libraries, by any thread while the
program runs, and by the callbacks themselves, because a callback may register
another one. Both use a mutex and a once block of mulle-thread, which is not
part of this repository. mulle-stacktrace is called by clients only; it calls
back into hooks that the client installs (symbolizer, trimming and filter
functions).

What is hard about them:

* *Who runs a late registration.* Both registries take "the array is empty but
  was allocated" for "everything ran already". That test is true as soon as the
  last callback has been popped, which is before it has been executed.
* *The gap between unlock and call.* A callback is popped with the mutex held
  and executed without it. In the gap another thread can register, and the
  body of the callback may itself register.
* *The end of the drain.* A registration that races with the last look at the
  array must be executed by one side or the other, and never by both.
* *Integers.* `size` is both a capacity and, as `-1`, the mark of a drained
  registry; it doubles without a check for overflow.
* *Order.* LIFO for mulle-atexit. mulle-atinit sorts by priority, once, with a
  mergesort that reverses the order of equal elements, and drains from the end;
  what is registered during the drain lands on top of what is left.
* *Which copy.* Every image of a process may contain the libraries. Global symbols
  lead to the copy of the executable, static ones to the image's own: a constructor
  or destructor uses both. Libraries are loaded in an order that nobody chooses,
  and plugins come and go while the program runs.
* *Lazily initialised statics without synchronisation* in mulle-stacktrace and
  in the trace function of mulle-atinit, and fields of a context that one
  function of the libbacktrace backend does not initialise.

What makes each part correct:

* **mulle-atexit**: every callback that was registered in time is executed
  exactly once, not before the unloading and not after the destructor has
  returned; the drain takes the youngest one that waits; no memory outside of
  the array is touched; no call blocks forever.
* **mulle-atinit**: the same before `main()` instead of after it, and in the
  order of priorities, with registration order among equals.
* **mergesort**: the array is sorted so that taking cells from its end yields
  that order; nothing is lost, duplicated or touched beyond the cells in use.
* **load domains**: all images share one stack of init callbacks and one of exit
  callbacks, drained once each, by the executable and not by a library that is
  loaded earlier or closed in between; priorities order the callbacks of all
  libraries, whatever the order of loading.
* **mulle-stacktrace**: a dump shows the frames past the offset, without those
  the filter hides, each of them once and in order, between the brackets of its
  format, with a text that names the frame; the symbolizer is used according to its protocol; a call never goes on
  without a libbacktrace state.

The hazards these properties are aimed at are listed in `PROJECT.json`, each
with its line.

## 2. The modules

| module | models | extends / uses |
|---|---|---|
| `Activations` | the C call stacks of the threads, `mulle_thread_once_do`, the mutex | |
| `AtExit` | mulle-atexit | `Activations`, instance of `CallbackStack` |
| `AtInit` | mulle-atinit | `Activations`, `MergeSort`, instance of `CallbackStack` |
| `MergeSort` | the sort of mulle-atinit | |
| `CallbackStack` | abstract specification: what both registries promise | |
| `LoadDomains` | both registries in a process of several images | `MergeSort`, two instances of `CallbackStack` |
| `StackDump` | mulle-stacktrace with execinfo | |
| `Backtrace` | mulle-stacktrace with libbacktrace | |
| `ActivationsProofs` | lemmas about activations, the once block and the mutex, for the next two | TLAPS |
| `AtExitProofs`, `AtInitProofs`, `LoadDomainsProofs` | theorems about the registries | TLAPS |
| `MergeSortProofs`, `MCMergeSortProofs` | theorems about the sort, and about the two properties of its run | TLAPS |
| `StackDumpProofs`, `BacktraceProofs` | theorems about the two backends of mulle-stacktrace | TLAPS |
| `MCAtExit`, `MCAtInit`, `MCMergeSort`, `MCLoadDomains`, `MCStackDump`, `MCBacktrace` | small instances for TLC | |

### 2.1 Activations

`stack[t]` is the sequence of library frames of thread `t`, innermost last. A
frame records the function that is active (`op`), where it is (`pc`) and the
callback it works on (`f`). A body of a callback is client code on top of a
`"calling"` frame, and may enter the library again, which pushes a frame.
`mulle_thread_once_do` has a `"busy"` state, in which other threads wait;
`mulle_thread_mutex_lock` waits for `lock = NoThread`. mulle-thread is not in
this repository: these actions are taken from the way it is called.

### 2.2 AtExit and AtInit

| state | code |
|---|---|
| `n`, `size`, `fs` / `calls` | `vars.n`, `vars.size`, `vars.fs` / `vars.calls` |
| `lock`, `once` | `vars.lock`, `once` |
| `stack` | the threads' program counters and locals `f` |
| `phase` | where the process is between loading and its end |
| `clock`, `stamp`, `sortedAt`, `runs`, `done` | ghosts: which registration was pushed when, executed how often, has returned |

| AtExit | AtInit | code |
|---|---|---|
| `BeginLoad` | | `mulle_atexit_load` |
| `BeginAdd` | `BeginAdd` | entry of `_mulle_atexit` / `_mulle_atinit` |
| `BeginUnload` | `BeginLoad` | `mulle_atexit_unload` / `mulle_atinit_load` |
| `Synchronise` | `Synchronise` | once block and mutex |
| `Redirect` | `Redirect` | the callback is late: unlock, then execute it |
| `Push`, `AbortOnRealloc` | `AddCallback`, `AbortOnRealloc` | the rest of the critical section |
| | `Sort`, `AbortOnMalloc` | `_prioritized_callback_mergesort` |
| `Pop`, `Drained` | `Pop`, `Drained` | the loop of `run_exit_callbacks` / `mulle_atinit_run_callbacks` |
| `Call`, `Return` | `Call`, `Return` | `(*f)()` and its return |
| `Exit` | `Exit` | the process ends; other threads just stop |

A critical section is one action, which also releases the mutex: `vars` is
accessed with the mutex held only, so that no other thread can see an
intermediate state. Taking the mutex is an action of its own, and so is every
step between an unlock and a call. (The sort is an action apart from the first
pop, but in the same critical section.)

`vars.size = -1` is `UIntMax`; doubling is computed modulo `UIntMax + 1`; a
`realloc` to zero bytes frees and returns NULL. On a 32-bit platform the product
`vars.size * sizeof` would wrap before `size` does; the modules describe the
64-bit one. The sort takes its last index as `(int) n - 1` (atinit.c:151), the array
would need 2^31 cells for that to differ from `n - 1`. A callback identifies a *registration*, so that each is made once;
registering the same function twice makes two of them. NULL functions are not
registered by clients: `_mulle_atexit( 0)` is the constructor's call.

`CallbackStack` has neither threads nor mutex nor array. It is a stack that is
arranged and then drained once, from the top, one callback at a time, and that
can grow meanwhile; a callback that comes when it is empty is executed by
whoever brings it. Its fairness says that a drain, once started, is finished.
`AtExit` implements it with `Arrange` the identity, `AtInit` with `Arrange` the
order by rank of `MergeSort`. The refinement mapping takes `n` and the array for
the stack, the frame of the drain for `current`, and the frames of late
registrations for `direct`.

### 2.3 MergeSort

`Merge` and `MergesortInternal` are recursive functions of the indices, not
RECURSIVE operators, so that modules with proofs can extend it. `ByRank`, their
reference, says where a cell belongs by counting the cells that precede it.

### 2.4 LoadDomains

`AtExit` and `AtInit` have threads and one image; `LoadDomains` has one thread and
many images, and composes the two registries. Of a registry it keeps what the
images can tell apart: the sequence of callbacks that wait, whether the size is 0,
a capacity or -1, and whether the mutex was initialised.

| state | code |
|---|---|
| `waiting`, `size`, `ready` | `vars.calls` / `vars.fs` up to `vars.n`, `vars.size`, `vars.lock`, for each kind of registry and each image |
| `stack` | the C call stack: the loader in an image, client code, a drain, a late registration |
| `process`, `image`, `todo` | the loader: how far the process and each image are, and which constructors or destructors are still to be called |
| `order`, `cut`, `log`, `done`, `raw` | ghosts |

`Resolve(i)` is the image whose global functions `i` calls, which is the executable
for everybody; `Drains(i)` is the image whose static struct the constructor or
destructor of `i` drains, which is `i`. `AtinitLoad` uses both: its once block is
the executable's and its lock and array are its own. The comment above
`mulle_atinit_load` (atinit.c:366-396) is the source for this. On Windows the
wrappers `mulle_atinit` and `mulle_atexit` look the function up in the executable,
which has the same effect.

The loader is external: libraries the program is linked with are loaded in any
order before the executable, constructors within an image run in any order,
plugins are opened by any client code before the process exits. They are closed by
`main()` only, when none of the libraries' functions is active: a constructor or a
callback that closes a plugin, whose init callbacks may wait in the stack of the
executable then, is not covered (`Unload`). At the end the destructors of the images run in any order. A callback
whose image was closed is gone: calling it is the end of the process (`"crashed"`).

### 2.5 StackDump and Backtrace

Text is abstracted to tokens such as `<<"delim", 0>>` and `<<"segment", 3>>`: a
kind and the frame it belongs to. In `Backtrace`, whose hooks cut the text, a token
also has the words of it: `Text`, `Belly` and `Arse` say what the callbacks and the
trimming hooks make of the address, the name and the symbolizer's answer. `StackDump` is one call of
`_mulle_stacktrace` with execinfo, for offsets that are not negative, although the
parameter is an int (a negative one lets the loop leave the buffer): `Header`, `DumpFrame` for one iteration of the
loop, and `Footer`. What dladdr and the symbolizer know of a frame is
enumerated. `Backtrace` is the same operation with libbacktrace, which shares
`global_state` among threads: checking it, creating it, looking at the result and
using it are four actions, and compiled code may reread the static variable or
use the value it has (`Reread`), since the accesses are not synchronised. The
uninitialised fields of the context in `mulle_stacktrace_count_frames` are chosen
nondeterministically, and a call through the uninitialised pointer either ends
the process or calls the hooks of an earlier call. Every call writes to a stream
of its own; lines of threads that share a stream may mix, as the documentation
says.

The two backends differ in more than names: execinfo shows the outermost frame
first and libbacktrace the innermost; execinfo puts a delimiter between frames
even if the earlier one was hidden, and between the symbol and the segment of
one frame; libbacktrace does not set up or tear down the symbolizer.

## 3. The runs

| run | asks | instance |
|---|---|---|
| `atexit_threads` | every safety property of mulle-atexit | 3 threads, 5 registrations |
| `atexit_fair` | every callback runs, every call returns, refinement of `CallbackStack` | 2 threads, 3 registrations |
| `atexit_nested` | does it match atexit, as documented? *violated* | 2 threads, 2 registrations |
| `mergesort` | order and permutation | all arrays of up to 6 cells, 3 priorities |
| `atinit_threads` | every safety property of mulle-atinit | 3 threads, 4 registrations, 3 priorities |
| `atinit_fair` | as `atexit_fair` | 2 threads, 3 registrations |
| `stackdump_calls` | frames, brackets, symbolizer protocol | up to 2 frames, 4 formats, offsets 0..3 |
| `load_domains` | who uses which copy; order, completeness, refinement of `CallbackStack` for both kinds | executable, 2 libraries, 1 plugin, 3 init and 2 exit callbacks |
| `load_domains_dlclose` | are exit callbacks of a closed plugin executed? *violated* | the same |
| `backtrace_calls` | frames and their text, delimiters, failing creation and retry, the race for the state | 2 threads, 1 and 2 calls, up to 3 frames |
| `backtrace_count` | does count_frames count? *violated* | 1 thread, 1 call |
| `backtrace_boring` | are boring frames removed in the trimmed format? *violated* | 1 thread, 1 call |

What the properties say is written above each of them. The ones that took most
thought:

* `ExactlyOnce` relates the array, the frames of all threads and the ghosts: a
  registration is in one cell, or held by one activation, or done.
* `NoneStranded` and `InitialisedBeforeMain`: a registration that races with the
  end of the drain is not left in an array that nobody will look at.
* `LastInFirstOut` and `RunOrder` compare the callback that is taken with all
  that wait at that moment, so that they speak about additions during the drain.
* `ImplementsStack` compares whole behaviours.
* `InitOrder`: before the executable's constructor begins no init callback is
  executed, and the callbacks of all images that were registered until then are
  executed by priority, however loading, `dlopen` and constructors interleave.
* `OnlyEmptyUnguarded`: libraries do lock mutexes that nobody has initialised; the
  property says that nothing is ever stored behind one.
* `OneInitStack`, `OneExitStack`: the registries of all images together implement
  the same `CallbackStack` that one registry with threads implements.
* `WalksWithState` and `OneStateEach`: what the missing lock may do,
  and what not. A race together with a failing creation is the only exception: the
  failure overwrites the pointer of the other thread with NULL (`overwritten`).
* `FramesNamed`: the text of a frame is the name in the debug information or the
  whole answer of the symbolizer. An answer of several words that is trimmed loses its
  first word, which may be the name (section 6), but no other word before an offset.
* `SymbolizerSession`: set-up first, tear-down last, and in between questions about
  frames, which never have the `max` of the tear-down. At the distance 1 a question
  has the `max` of the set-up, 0: only its address tells it from that.

### Bounds, and why they are enough

* Sizes: `InitialSize = 1` and `UIntMax = 7` instead of 32 and 2^32 - 1. Both are
  powers of two (less one), so that doubling goes 1, 2, 4 and then wraps to 0, as
  32, 64, ..., 2^31, 0 does. The fifth registration of `atexit_threads` sees the
  wrap, and `AbortOnRealloc` follows. Fewer registrations still grow the array
  twice. The theorems hold for all sizes.
* Threads: one that loads and unloads, and two others that race with it and with
  each other. Any two threads and a lock holder meet. Threads other than `Main` are
  interchangeable (symmetry, in the safety runs only), and so are registrations
  of equal priority.
* Registrations: each is made once, at any time and place. Two may nest in a body
  of a third while a fourth waits and a fifth is in flight.
* Priorities: a higher one, two equal ones and a lower one; ties, inversions and
  the lateness of any of them occur.
* Arrays to sort: all of up to six cells, where halves of 3+3, 2+1 and 1+1 cells
  are merged, with an additional cell that must stay untouched.
* Frames: two suffice for "the first one is hidden, the second one is not" and for
  offsets within and beyond the stack; three for a hidden frame between two shown.
  `Window` is 2 instead of 0x800, with addresses at, near and beyond it.
* Images: two libraries, so that they can be loaded in the order of their
  priorities or against it, and one plugin, which ties with one of them. It can be
  opened by a constructor of a library before the executable is there, by an init
  callback during the drain, or by `main()`.
* Calls in `Backtrace`: one thread calls once, with every input, and the other one
  twice, with one call stack. So the first can find no state, a state, or a creation
  under way, and the second can fail and try again. A dump and a count end, so that
  these runs stop: deadlock is not checked for them. The registries check it.

### Fairness

`FairSpec` has weak fairness for the steps of every thread. It stands for three
things: the operating system schedules every thread; bodies of callbacks return,
which the library cannot promise on behalf of its clients and which its
documentation presupposes; and a thread that waits for the mutex gets it in the
end. Weak fairness suffices for the latter, as finitely many registrations
compete. Nothing is assumed of clients: nobody has to register, load or unload.
In `LoadDomains` it is weak fairness for the one thread as long as it is in
constructors, destructors or callbacks, and for the unloading of the images of a
process that exits. An abort for want of memory is always possible where the code has one, and the
liveness properties except it.

## 4. What is proved

TLAPS checks every proof to its last leaf. The theorems hold for all values of the
constants that satisfy the assumptions at the end of this section: any threads,
callbacks, images, priorities, call stacks and sizes. Every state invariant and
action property that a passing run checks is also stated by a theorem.

| theorem | property | from |
|---|---|---|
| `AtExitProofs!TypeCorrect`, `MutexDiscipline`, `MemorySafe`, `NothingEarly` | `TypeOK`, `LockDiscipline`, `MemoryOK`, `NeverEarly` | `IInv` |
| `AtExitProofs!NeitherLostNorTwice`, `DrainComplete`, `LastRegisteredFirst` | `ExactlyOnce`, `NoneStranded`, `LastInFirstOut` | `IInv /\ CustodyInv` |
| `AtExitProofs!ShowsStack` | safety half of `ImplementsStack` | `IInv /\ CustodyInv` |
| `AtInitProofs!TypeCorrect`, `MutexDiscipline`, `MemorySafe`, `NothingEarly` | as above | `IInv` |
| `AtInitProofs!NeitherLostNorTwice`, `MainFindsAllDone`, `RanksAreKept` | `ExactlyOnce`, `InitialisedBeforeMain`, `RunOrder` | `IInv /\ CustodyInv`, `MergesortArranges` |
| `AtInitProofs!ShowsStack` | safety half of `ImplementsStack` | the same, `MergesortByRank` |
| `MergeSortProofs!MergesortArranges`, `MergesortByRank` | what the sort computes | induction |
| `MCMergeSortProofs!SortedByRank`, `OnlyPermutes` | `SortsByRank`, `Permutes` | the two above |
| `LoadDomainsProofs!NothingUnguarded` | `OnlyEmptyUnguarded` | `IInv` |
| `LoadDomainsProofs!TypeCorrect`, `NoExitBeforeExit` | `TypeOK`, `ExitOnlyAtExit` | `ControlInv` |
| `LoadDomainsProofs!NothingForgotten` | `AllExecuted` | `CustodyInv` |
| `LoadDomainsProofs!InitsInOrder` | `InitOrder` | `OrderInv` |
| `LoadDomainsProofs!ShowsInitStack`, `ShowsExitStack` | safety halves of `OneInitStack`, `OneExitStack` | `ShowInv` |
| `StackDumpProofs!TypeCorrect`, `ShowsWhatIsExpected`, `BracketsMatch`, `SymbolizerProtocol` | `TypeOK`, `FramesShown`, `Bracketed`, `SymbolizerSession` | `IInv` |
| `BacktraceProofs!NeverWithoutState`, `LeaksAreBounded` | `WalksWithState`, `OneStateEach` | `IInv` |
| `BacktraceProofs!TypeCorrect`, `ShowsWhatIsWanted`, `LinesOfFrames`, `NamesFrames` | `TypeOK`, `FramesShown`, `OneFramePerLine`, `FramesNamed` | `OutInv` |

### mulle-atexit and mulle-atinit

The argument has three layers, which are the same for both libraries.

**`IInv == TypeOK /\ ControlInv /\ MemoryOK /\ EarlyInv`** is inductive (`Invariance`).
None of its parts is inductive alone. `TypeOK` needs `MemoryOK`: a cell that is
popped holds a callback only if it was written, and `size` stays a capacity only
if the mark of a drained stack is never doubled; that in turn needs that a drained
stack is empty, so that a registration on it is late. `LockDiscipline` needs
`FramesOK`: a frame past the once block exists only when the mutex has been
initialised. `NeverEarly` needs `EarlyInv`: before the drain an array that was
allocated is never empty, so that no registration is taken for a late one.

**`CustodyInv`** says who has a registration, and is inductive relative to `IInv`
(`Custody`). `UniqueInv`: it is held by one frame. `HeldInv`: what a frame holds is
in no cell and has not returned, its body has been entered if and only if the frame
says so, and it has no stamp before it is pushed. `RunInv`: the drain is the
outermost activation of `Main` and holds nothing outside of a call, which is what
makes a drain that finds the array empty complete. `CellInv`: cells are in the order
of their stamps; this gives LIFO, and that no callback is in two cells. `KeptInv`:
what was pushed is somewhere. An aborted process is excepted, since its array is
gone. There is one lemma for each action; `OnlyPopCalls` says that no other action
leads from the drain's critical section to a call, so that `LastInFirstOut` speaks
about pops. In `AtInit` the order of the cells is a part of its own (`OrderInv`):
first the order of stamps, and from the sort on every cell is to be executed before
those below it. The
step `Sort` keeps the custody because the sort is a bijection on the cells in use,
and establishes the order because it arranges them; both are `MergesortArranges`.

**The refinement** (`ShowsStack`) maps states as the INSTANCE of `CallbackStack`
says: initial states to initial states, and each action to the abstract action it is
named for or to a stutter (`Synchronise`, growth, a pop that finds nothing). A
pop maps to the abstract drain's step because the youngest cell is the top of the
mapped stack; `AtInit`'s `Sort` maps to the beginning of the drain, as `Mergesort`
is `ByRank` (`MergesortByRank`). `Abstract!Safety` is the abstract specification
without its fairness.

`ActivationsProofs` has what does not depend on the library: how entering,
leaving and changing a frame affects the stacks, and that the once block and the
mutex keep the discipline.

### The sort

`merge` and `mergesort_internal` are recursive functions, and a recursive function is
a CHOOSE to TLAPS: before its equation may be used, such a function must be shown
to exist. The library's induction theorems take an operator as a parameter, which the
provers cannot instantiate. `MergeSortProofs` therefore states induction about *sets*
of numbers (`LeastNumber`, `EveryNumber`), and gets both existence and results from
it: by the number of cells still to be written for `merge`, by the width of the range
for the sort. `Arranges` is the inductive statement about a range: a bijection of
its positions carries the old cells to the new ones, outside of it nothing changes, and
the result is in order, by rising priority, with what stood later first on ties.
Two arrangements of the same cells are equal, as rank is a total order; hence
`MergesortByRank`.

### Images

`OnlyEmptyUnguarded` says that a mutex nobody has initialised is only ever taken for
an empty stack. `IInv` adds `Shape` and `LibraryCopyEmpty`: the copies of the struct in
libraries stay empty, since every registration goes to the image that the loader binds
the symbol to. The other theorems rest on a chain of invariants, each inductive
relative to the one before:

* `ControlInv`: which activations there can be while the process loads, runs `main()`
  and exits, and what they know of the images; of each kind one activation at most
  drains the executable's copy (`OneDrainInv`), and a copy that was drained stays
  empty (`ShutInv`). `ExitOnlyAtExit` follows: while `main()` runs, the exit copy of
  the executable cannot have been opened for a drain.
* `CustodyInv`: a registered callback waits in the one copy that is its home, is held
  by one activation, or is done. `AllExecuted` follows at the end, where nothing
  waits and nothing is held.
* `OrderInv`: what was registered before the sort and still waits is in falling
  order, and precedes nothing that was already taken.
* `RunInv`: the code of every activation that executes is there, but for an exit callback
  that a drain holds. It says where the abstract stack of exit callbacks fails. It rests
  on `main()` being the only one to close plugins, so that it is no result about code
  that closes them elsewhere.
* `ShowInv`: the mark of a drained copy is set at the end of its drain, which makes the
  mapped mode of the abstract stack well defined.

### mulle-stacktrace with execinfo

`IInv` of `StackDumpProofs` has one part for each thing that a call keeps. `LoopInv`:
`p` and `i` count the same frames from both ends. `CallsInv`: the protocol so far.
`OutInv`: what was written is about frames that were looked at, in order, and shows
those of them that are expected. `BracketInv`: where brackets are. The work is in the
lemmas about one iteration: a question lies within the window, below the distance of the
symbol, and so never at the value that means tear-down (`Questions`); the filter hides exactly what is not expected
(`BoringUnexpected`); and each of the forms a line can take is in order (`LineForms`).

### mulle-stacktrace with libbacktrace

`IInv == Shape /\ (~ overwritten => \A t \in Threads : Relies(t))`. `Relies` says what
a thread takes for granted between its look at `global_state` and its use: if it
has passed the look, there is a state, and it still is there. This is inductive because a creation
that succeeds never takes a state from anybody, and one that fails does only if
another thread has created one in between, which is what `overwritten` records. The
theorems thus say that this combination is the *only* way to walk without a state,
or to leak more than one state for each thread, for any number of threads and calls.

`OutInv == IInv /\ FailInv /\ CallInv` adds what each call has written. Between header
and trailer stands a sequence of tokens for which `Inner` holds: its length is twice
the number of frames shown less one (`Size`), frames are at the odd positions and
delimiters at the even ones (`Lined`), and it shows the frames that were wanted among
those the callback was called for, each with the text that `FramesNamed` wants
(`Tells`). The callback appends a frame, a delimiter and a frame, or nothing, and there is a lemma for
each (`ShowFirst`, `ShowNext`, `HideInner`). Three lemmas are about the text: what
`_trim_belly_fat` and `_trim_arse_fat` leave is a part of it (`TrimLeaves`), of a single
word all (`TrimWord`), and of several ones those between the first one and an offset
(`TrimKeepsRest`). `FailInv` says that without failing creations nobody gives up.

### What the proofs found in the models

* `FramesShown` of `Backtrace` used to say that a frame is hidden if its answer is the
  one word `"boring"`. The proof failed for answers of several words that begin so:
  the filter compares a prefix (lines 85-110), and no instance had such an answer.
  The property now speaks of the first word, and `MCBacktrace` has such a frame.
* `Mode` of `LoadDomains` was a CASE with arms that overlap. TLC takes the first one, the
  semantics leaves it open; it is an IF now.
* The types of `format` and of tokens in `Backtrace` were STRING; they are the four
  formats and the six kinds of tokens.

### Assumptions

* `SentinelAssumption`: `NoThread` and `NoCallback` are not threads or callbacks.
* `MainAssumption`: `Main` is a thread; in `AtInit` also that priorities are integers.
* `SizeAssumption`: doubling a capacity gives a capacity or 0, and no capacity is
  0 or `UIntMax`. With capacities 32 * 2^k below 2^32 this is arithmetic; the
  proofs need no more than that.
* `MaxLengthAssumption`, `PrioritiesAssumption`: the bound of the run is a number, and
  priorities are integers.
* `ImageAssumption`, `CallbackAssumption`: the executable, the libraries and the
  plugins are different images; a callback is of one kind and has an owner and a priority.
* `WindowAssumption`: the limit for distances (0x800) is positive, and distances are numbers.
* `BacktraceAssumption`: `NoState` is not a thread; the rest of it types the inputs.

TLC evaluates all of them in every run of the module.

## 5. Model-checked only

* **Liveness** (`EveryCallbackRuns`, `CallsReturn`) and the fairness half of the four
  refinements: TLAPS has no rules for fairness and ENABLED. The runs check the complete
  `ImplementsStack`, `OneInitStack` and `OneExitStack`.
* **The violations**: `BodiesNeverNest`, `CountIsFrameCount`, `UninterestingFiltered` and
  the exit callbacks of closed plugins are counterexamples, which TLC finds.
* **The mapping of memory to arithmetic**: that 32-bit sizes satisfy `SizeAssumption` is
  evaluated for the small width of the runs only.

## 6. Where documents and code disagree

The runs with expectation `violation` show these; `PROJECT.json` quotes the lines.

* **An exit callback inside of another one** (`atexit_nested`). Documented as LIFO
  like atexit. A callback that the *last* exit callback registers is executed
  inside of it, before it returns: the stack is empty, which reads as drained. If
  it registers two, they are executed in the order of registration. mulle-atinit has
  the same test and behaviour, while its document says that such callbacks are
  appended to the run.
* **Exit callbacks of a closed plugin** (`load_domains_dlclose`). The document
  promises that they are executed although shared libraries are unloaded. They stay
  in the stack of the executable, which calls them when their code is gone.
* **`mulle_stacktrace_count_frames`** (`backtrace_count`) reads two uninitialised
  fields with libbacktrace.
* **The filter of libbacktrace** (`backtrace_boring`) never matches without a
  symbolizer, so that the trimmed format shows boring frames.

More were met and have no run, as they are evident from single lines: the linefeed
format, "one frame per line", takes two lines per frame with execinfo (lines 413 and
428 write the delimiter twice); `_trim_belly_fat` of libbacktrace, which is to trim
"leading address or path" (line 50), drops the first word of whatever it gets, and line
225 gives it the symbolizer's answer without an address, so that `main + 12` is printed
as `+ 12`, and `-[Foo bar]` as `bar]` (`FramesNamed` says so); without dlfcn.h the execinfo backend does not
compile, as line 454 needs the `dummy` of line 268;
`asset/dox/api/toc/index.md:141` says that callbacks registered after the run has
started are never queued, but they are as long as others wait; `index.md:59` of
mulle-stacktrace calls the normal format full, but execinfo filters it
(line 410); `toc/index.md:271` says that 0 keeps the default of a hook, but it
installs the hook that keeps everything (execinfo line 535, `Filters`).

## 7. What is not modelled

* **The nop backend, version numbers, headers**: no behaviour.
* **`mulle_atinit_reset`, `mulle_atinit_test_run_callbacks`**: only in MULLE_TEST
  builds; `mulle_atinit_trace` only prints.
* **`_shabby_default_dump`** and the trimming hooks of execinfo, which only it calls:
  it is for toolchains without dlfcn.h, where the file does not compile.
* **Trouble in `LoadDomains` that `AtExit` and `AtInit` have**: threads, want of memory
  and the growth of arrays. A closed plugin is not opened again, and only an idle
  `main()` closes one. A lookup by
  `mulle_dlsym_exe` that fails, on Windows before the executable is there, prints
  and forgets the callback; the modules describe the ELF build.
* **CMake glue**: options for the linker, nothing at run time.
* **A call of exit() by a thread other than `Main`, or by a callback**: the C
  standard leaves a second exit() undefined.
* **Shared streams, signals and fork**: the code does not handle them.

## 8. Plan

1. (done) `Activations`, `AtExit`, `CallbackStack`: the core, with its runs, the
   inductive invariant and its proofs.
2. (done) `MergeSort`, `AtInit`.
3. (done) `StackDump`, `Backtrace`.
4. (done) `LoadDomains`: both registries in several images; hooks and text in
   `Backtrace`.
5. (done) Proofs about the sort, and about `AtInit` from them.
6. (done) The safety half of the refinements: `AtExit` and `AtInit` to `CallbackStack`.
7. (done) Proofs about `Backtrace`: the state, then frames and their text.
8. (done) Proofs about `LoadDomains`: control, custody, order, code, and the safety
   half of its refinements. Proofs about `StackDump`.
9. That the capacities 32 * 2^k satisfy `SizeAssumption`, for every width of
   `unsigned int`, as a lemma; it needs powers of two as a recursive function.
10. In `LoadDomains`: plugins that are closed by constructors and callbacks, so that
    init callbacks of a closed image can wait, with the invariants that rest on plugins
    being closed by an idle `main()` (`ControlInv` and `RunInv`) restated; and a library
    that is opened again after it was closed.
