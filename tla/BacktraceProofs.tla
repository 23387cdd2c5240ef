---------------------------- MODULE BacktraceProofs ----------------------------
(***************************************************************************)
(* Proofs about the libbacktrace backend, for any number of threads, calls *)
(* and call stacks: first the state that the calls share without a lock,   *)
(* then what each of them writes.                                          *)
(***************************************************************************)
EXTENDS Backtrace, SequenceTheorems, WellFoundedInduction, TLAPS

\* A record with all fields of a call, whatever they hold.
Whole(r) ==
  r = [pc |-> r.pc, count |-> r.count, stack |-> r.stack, offset |-> r.offset,
       format |-> r.format, hooks |-> r.hooks, state |-> r.state, at |-> r.at,
       frames_processed |-> r.frames_processed, frame_count |-> r.frame_count, out |-> r.out]

Shape ==
  /\ call = [t \in Threads |-> call[t]]
  /\ calls = [t \in Threads |-> calls[t]]
  /\ created \in [Threads -> Nat]
  /\ global_state \in Threads \cup {NoState}
  /\ overwritten \in BOOLEAN
  /\ \A t \in Threads : call[t].pc # "returned" => Whole(call[t])

\* What a thread relies on from its look at global_state to its use of it, as long
\* as no failing creation has overwritten a state.
Relies(t) ==
  /\ created[t] <= 1
  /\ created[t] > 0 => global_state # NoState
  /\ call[t].pc = "create" => created[t] = 0
  /\ call[t].pc = "recheck" /\ call[t].state # NoState => global_state # NoState
  /\ call[t].pc \in {"walk", "frames"} => call[t].state # NoState /\ global_state # NoState

\* The inductive invariant: once there is a state it stays, so that what a thread
\* relies on is not taken from it by others.
IInv == Shape /\ (~ overwritten => \A t \in Threads : Relies(t))

\* At the beginning nobody relies on anything.
LEMMA InitIInv == Init => IInv
<1> SUFFICES ASSUME Init PROVE IInv
  OBVIOUS
<1>1. Shape
  BY DEF Init, Shape
<1>2. \A t \in Threads : Relies(t)
  BY DEF Init, Relies
<1> QED BY <1>1, <1>2 DEF IInv

\* A step of t that leaves the shared variables alone.
LEMMA LocalStep ==
  ASSUME IInv, NEW t \in Threads, NEW new,
         call' = [call EXCEPT ![t] = new], UNCHANGED shared,
         calls' = [u \in Threads |-> calls'[u]],
         new.pc # "returned" => Whole(new),
         new.pc = "create" /\ ~ overwritten => created[t] = 0,
         new.pc # "recheck",
         new.pc \in {"walk", "frames"} /\ ~ overwritten => new.state # NoState /\ global_state # NoState
  PROVE  IInv'
<1>1. /\ call' = [u \in Threads |-> call'[u]]
      /\ call'[t] = new
      /\ \A u \in Threads \ {t} : call'[u] = call[u]
  BY DEF IInv, Shape
<1>2. \A u \in Threads : call'[u].pc # "returned" => Whole(call'[u])
  BY <1>1 DEF IInv, Shape
<1>3. Shape'
  BY <1>1, <1>2 DEF IInv, Shape, shared
<1>4. ASSUME ~ overwritten', NEW u \in Threads
      PROVE  Relies(u)'
  <2>1. CASE u = t
    BY <1>1, <1>4, <2>1 DEF IInv, Relies, shared
  <2>2. CASE u # t
    BY <1>1, <1>4, <2>2 DEF IInv, Relies, shared
  <2> QED BY <2>1, <2>2
<1> QED BY <1>3, <1>4 DEF IInv

\* A call begins before its look at global_state.
LEMMA BeginStep ==
  ASSUME IInv, NEW t \in Threads, BeginDump(t) \/ BeginCount(t)
  PROVE  IInv'
<1>1. PICK count, stack, offset, format, hooks, out :
        Begin(t, NewCall(count, stack, offset, format, hooks, out))
  BY DEF BeginDump, BeginCount
<1> DEFINE new == NewCall(count, stack, offset, format, hooks, out)
<1>2. new.pc = "check" /\ Whole(new)
  BY DEF NewCall, Whole
<1>3. call' = [call EXCEPT ![t] = new] /\ UNCHANGED shared /\ calls' = [calls EXCEPT ![t] = @ + 1]
  BY <1>1 DEF Begin
<1> HIDE DEF new
<1>4. calls' = [u \in Threads |-> calls'[u]]
  BY <1>3 DEF IInv, Shape
<1> QED BY <1>2, <1>3, <1>4, LocalStep

\* A thread that finds no state has created none; one that finds a state relies on it.
LEMMA CheckStep ==
  ASSUME IInv, NEW t \in Threads, Check(t)
  PROVE  IInv'
<1>new. PICK new : new = [call[t] EXCEPT !.pc = IF global_state = NoState THEN "create" ELSE "walk",
                                                !.state = global_state]
  OBVIOUS
<1>1. Whole(call[t])
  BY DEF IInv, Shape, Check
<1>2. call' = [call EXCEPT ![t] = new] /\ UNCHANGED <<shared, calls>>
  BY <1>new DEF Check
<1>3. /\ new.pc = IF global_state = NoState THEN "create" ELSE "walk"
      /\ new.state = global_state /\ Whole(new)
  BY <1>new, <1>1 DEF Whole
<1>4. global_state = NoState /\ ~ overwritten => created[t] = 0
  BY DEF IInv, Shape, Relies
<1>5. calls' = [u \in Threads |-> calls'[u]]
  BY <1>2 DEF IInv, Shape
<1> QED BY <1>2, <1>3, <1>4, <1>5, LocalStep

\* A creation that succeeds gives a state to everybody; one that fails takes a
\* state from nobody, unless it is overwritten.
LEMMA CreateStep ==
  ASSUME IInv, NEW t \in Threads, Create(t)
  PROVE  IInv'
<1>new. PICK new : new = [call[t] EXCEPT !.pc = "recheck", !.state = global_state']
  OBVIOUS
<1>1. Whole(call[t]) /\ call[t].pc = "create"
  BY DEF IInv, Shape, Create
<1>2. call' = [call EXCEPT ![t] = new] /\ UNCHANGED calls
  BY <1>new DEF Create
<1>3. new.pc = "recheck" /\ new.state = global_state' /\ Whole(new)
  BY <1>new, <1>1 DEF Whole
<1>4. /\ call' = [u \in Threads |-> call'[u]]
      /\ call'[t] = new
      /\ \A u \in Threads \ {t} : call'[u] = call[u]
  BY <1>2 DEF IInv, Shape
<1>5. \A u \in Threads : call'[u].pc # "returned" => Whole(call'[u])
  BY <1>3, <1>4 DEF IInv, Shape
<1>6. CASE global_state' = t /\ created' = [created EXCEPT ![t] = @ + 1] /\ UNCHANGED overwritten
  <2>1. Shape'
    BY <1>2, <1>4, <1>5, <1>6 DEF IInv, Shape
  <2>2. global_state' # NoState
    BY <1>6, BacktraceAssumption
  <2>3. ASSUME ~ overwritten', NEW u \in Threads
        PROVE  Relies(u)'
    <3>1. CASE u = t
      <4>1. created[t] = 0 /\ created'[t] = 1
        BY <1>1, <1>6, <2>3 DEF IInv, Shape, Relies
      <4> QED BY <1>3, <1>4, <2>2, <3>1, <4>1 DEF Relies
    <3>2. CASE u # t
      <4>1. created'[u] = created[u] /\ call'[u] = call[u] /\ Relies(u)
        BY <1>4, <1>6, <2>3, <3>2 DEF IInv, Shape
      <4>2. call[u].pc = "create" => created[u] = 0
        BY <4>1 DEF Relies
      <4> QED BY <2>2, <4>1, <4>2 DEF Relies
    <3> QED BY <3>1, <3>2
  <2> QED BY <2>1, <2>3 DEF IInv
<1>7. CASE /\ global_state' = NoState /\ UNCHANGED created
           /\ overwritten' = (overwritten \/ global_state # NoState)
  <2>1. Shape'
    BY <1>2, <1>4, <1>5, <1>7 DEF IInv, Shape
  <2>2. ASSUME ~ overwritten', NEW u \in Threads
        PROVE  Relies(u)'
    <3>1. global_state = NoState /\ ~ overwritten /\ Relies(u)
      BY <1>7, <2>2 DEF IInv
    <3>2. CASE u = t
      BY <1>3, <1>4, <1>7, <3>1, <3>2 DEF Relies
    <3>3. CASE u # t
      BY <1>4, <1>7, <3>1, <3>3 DEF Relies
    <3> QED BY <3>2, <3>3
  <2> QED BY <2>1, <2>2 DEF IInv
<1> QED BY <1>6, <1>7 DEF Create

\* Whatever a thread reads then, it reads a state if it has one.
LEMMA RecheckStep ==
  ASSUME IInv, NEW t \in Threads, Recheck(t)
  PROVE  IInv'
<1>1. PICK s \in Reread(t) :
        call' = [call EXCEPT ![t].pc = IF s = NoState THEN "returned" ELSE "walk", ![t].state = s]
  BY DEF Recheck
<1>new. PICK new : new = [call[t] EXCEPT !.pc = IF s = NoState THEN "returned" ELSE "walk", !.state = s]
  OBVIOUS
<1>2. Whole(call[t]) /\ call[t].pc = "recheck" /\ UNCHANGED <<shared, calls>>
  BY DEF IInv, Shape, Recheck
<1>3. call' = [call EXCEPT ![t] = new]
  BY <1>new, <1>1
<1>4. /\ new.pc = IF s = NoState THEN "returned" ELSE "walk"
      /\ new.state = s
      /\ Whole(new)
  BY <1>new, <1>2 DEF Whole
<1>5. s # NoState /\ ~ overwritten => global_state # NoState
  BY <1>2 DEF IInv, Relies, Reread
<1>6. calls' = [u \in Threads |-> calls'[u]]
  BY <1>2 DEF IInv, Shape
<1> QED BY <1>2, <1>3, <1>4, <1>5, <1>6, LocalStep

\* The second look finds the state of the first one, or another one.
LEMMA WalkStep ==
  ASSUME IInv, NEW t \in Threads, Walk(t)
  PROVE  IInv'
<1>read. PICK s \in Reread(t) :
        \E offset : call' = [call EXCEPT ![t].pc = "frames", ![t].state = s, ![t].offset = offset]
  BY DEF Walk
<1>1. PICK offset :
        call' = [call EXCEPT ![t].pc = "frames", ![t].state = s, ![t].offset = offset]
  BY <1>read
<1>new. PICK new : new = [call[t] EXCEPT !.pc = "frames", !.state = s, !.offset = offset]
  OBVIOUS
<1>2. Whole(call[t]) /\ call[t].pc = "walk" /\ UNCHANGED <<shared, calls>>
  BY DEF IInv, Shape, Walk
<1>3. call' = [call EXCEPT ![t] = new]
  BY <1>new, <1>1
<1>4. new.pc = "frames" /\ new.state = s /\ Whole(new)
  BY <1>new, <1>2 DEF Whole
<1>5. ~ overwritten => s # NoState /\ global_state # NoState
  BY <1>read, <1>2 DEF IInv, Relies, Reread
<1>6. calls' = [u \in Threads |-> calls'[u]]
  BY <1>2 DEF IInv, Shape
<1> QED BY <1>2, <1>3, <1>4, <1>5, <1>6, LocalStep

\* Callbacks and the end of a call do not touch what is shared.
LEMMA FrameStep ==
  ASSUME IInv, NEW t \in Threads,
         SkipFrame(t) \/ DumpFrame(t) \/ DumpRow(t) \/ CountFrame(t) \/ Footer(t)
  PROVE  IInv'
<1>1. call[t].pc = "frames" /\ Whole(call[t]) /\ UNCHANGED <<shared, calls>>
  BY DEF IInv, Shape, SkipFrame, DumpFrame, DumpRow, CountFrame, Footer, AtFrame
<1>2. CASE UNCHANGED call
  BY <1>1, <1>2 DEF IInv, Shape, Relies, shared
<1>3. ASSUME NEW new, call' = [call EXCEPT ![t] = new], new.pc \in {"frames", "returned"},
             new.state = call[t].state, Whole(new)
      PROVE  IInv'
  <2>1. ~ overwritten => new.state # NoState /\ global_state # NoState
    BY <1>1, <1>3 DEF IInv, Relies
  <2>2. calls' = [u \in Threads |-> calls'[u]]
    BY <1>1 DEF IInv, Shape
  <2> QED BY <1>1, <1>3, <2>1, <2>2, LocalStep
<1>4. CASE SkipFrame(t)
  <2>1. /\ call' = [call EXCEPT ![t] = Skip(t)]
        /\ Skip(t) = [call[t] EXCEPT !.at = @ + 1, !.frames_processed = @ + 1]
    BY <1>4 DEF SkipFrame, Skip
  <2> QED BY <1>1, <1>3, <2>1 DEF Whole
<1>5. ASSUME call' = [call EXCEPT ![t] = Hide(t)]
      PROVE  IInv'
  <2>1. Hide(t) = [call[t] EXCEPT !.at = @ + 1, !.frames_processed = @ + 1]
    BY DEF Hide
  <2> QED BY <1>1, <1>3, <1>5, <2>1 DEF Whole
<1>6. ASSUME NEW tokens, call' = [call EXCEPT ![t] = Show(t, tokens)]
      PROVE  IInv'
  <2>1. Show(t, tokens) =
          [call[t] EXCEPT !.at = @ + 1, !.frames_processed = @ + 1, !.frame_count = @ + 1,
                          !.out = @ \o tokens]
    BY DEF Show
  <2> QED BY <1>1, <1>3, <1>6, <2>1 DEF Whole
<1>7. CASE DumpFrame(t)
  BY <1>5, <1>6, <1>7 DEF DumpFrame
<1>8. CASE DumpRow(t)
  BY <1>5, <1>6, <1>8 DEF DumpRow
<1>9. CASE CountFrame(t)
  BY <1>2, <1>5, <1>6, <1>9 DEF CountFrame
<1>10. CASE Footer(t)
  <2>1. PICK out : call' = [call EXCEPT ![t].pc = "returned", ![t].out = out]
    BY <1>10 DEF Footer
  <2>2. PICK new : new = [call[t] EXCEPT !.pc = "returned", !.out = out]
    OBVIOUS
  <2>3. call' = [call EXCEPT ![t] = new]
    BY <2>1, <2>2
  <2>4. Whole(new) /\ new.pc = "returned" /\ new.state = call[t].state
    BY <1>1, <2>2 DEF Whole
  <2> QED BY <1>3, <2>3, <2>4
<1> QED BY <1>4, <1>7, <1>8, <1>9, <1>10

\* No step of any thread breaks the invariant.
LEMMA StepIInv == IInv /\ [Next]_vars => IInv'
<1> SUFFICES ASSUME IInv, [Next]_vars PROVE IInv'
  OBVIOUS
<1>1. CASE UNCHANGED vars
  BY <1>1 DEF vars, shared, IInv, Shape, Relies
<1>2. ASSUME NEW t \in Threads, Step(t)
      PROVE  IInv'
  BY <1>2, BeginStep, CheckStep, CreateStep, RecheckStep, WalkStep, FrameStep DEF Step
<1> QED BY <1>1, <1>2 DEF Next

\* The invariant holds in every reachable state.
LEMMA Invariance == Spec => []IInv
  BY InitIInv, StepIInv, PTL DEF Spec

\* WalksWithState: no thread gives NULL to libbacktrace, though nothing guards the
\* pointer, unless a creation failed while another thread had a state
\* (backtrace.c:398-417).
THEOREM NeverWithoutState == Spec => []WalksWithState
<1>1. IInv => WalksWithState
  BY DEF IInv, Relies, WalksWithState
<1> QED BY Invariance, <1>1, PTL

\* OneStateEach: with the same exception, a race leaks at most one state for each
\* thread, and never more (backtrace.c:400).
THEOREM LeaksAreBounded == Spec => []OneStateEach
<1>1. IInv => OneStateEach
  BY DEF IInv, Relies, OneStateEach
<1> QED BY Invariance, <1>1, PTL

(***************************************************************************)
(* What a dump writes                                                      *)
(***************************************************************************)

\* The text of a token names its frame, as FramesNamed has it.
NamesFrame(c, token) ==
  LET frame  == c.stack[token[2]]
      text   == token[3]
      name   == IF frame.function = "" /\ c.format # "csv" THEN "unknown" ELSE frame.function
      whole  == c.format \in {"linefeed", "csv"} \/ c.hooks = "keep"
  IN  IF frame.answer = NoAnswer \/ c.format = "csv"
      THEN text = IF whole THEN <<"address", name>> ELSE <<name>>
      ELSE IF whole \/ Len(frame.answer) = 1 THEN text = frame.answer
      ELSE KeepsRest(text, frame.answer)

\* How many tokens there are, and whether a frame or a delimiter is at k.
Size(c)    == IF c.frame_count = 0 THEN 0 ELSE 2 * c.frame_count - 1
Kind(c, k) == IF c.format = "csv" \/ k % 2 = 1 THEN "frame" ELSE "delim"

\* What the sequence s says that is written between header and trailer, when the
\* callback was called for the first n frames.
IsFrame(token) == token[1] = "frame"

Tells(c, n, s) ==
  /\ \A k \in DOMAIN s :
       IsFrame(s[k]) =>
         s[k][2] \in 1..n /\ s[k][2] \in DOMAIN c.stack /\ Wanted(c, s[k][2]) /\ NamesFrame(c, s[k])
  /\ \A q \in 1..n : Wanted(c, q) => \E k \in DOMAIN s : IsFrame(s[k]) /\ s[k][2] = q
  /\ \A k, m \in DOMAIN s : k < m /\ IsFrame(s[k]) /\ IsFrame(s[m]) => s[k][2] < s[m][2]

\* What stands where in it.
Lined(c, s) ==
  /\ c.format # "csv" => Len(s) = Size(c)
  /\ \A k \in DOMAIN s : s[k][1] = Kind(c, k)

Inner(c, s) == s \in Seq(Tokens) /\ Lined(c, s) /\ Tells(c, c.at, s)

\* What a dump has written, depending on where it is.
Written(c) ==
  /\ c.pc \in {"check", "create", "recheck", "walk"} =>
       c.out = Header(c.format) /\ c.at = 0 /\ c.frame_count = 0
  /\ c.pc = "frames" => \E s : Inner(c, s) /\ c.out = Header(c.format) \o s
  /\ c.pc = "returned" =>
       \/ MayFail /\ c.state = NoState /\ c.out = Header(c.format)
       \/ \E s : Inner(c, s) /\ c.at = Len(c.stack)
                 /\ c.out = Header(c.format) \o s \o Trailer(c.format)

\* A call that has begun.
GoodCall(c) ==
  /\ c \in Calls
  /\ c.frame_count <= c.frames_processed /\ c.frames_processed = c.at /\ c.at <= Len(c.stack)
  /\ ~ c.count => Written(c)

\* Without failing creations, whoever has tried to create a state has one.
FailInv ==
  ~ MayFail => ~ overwritten /\ \A t \in Threads : call[t].pc = "recheck" => call[t].state # NoState

CallInv ==
  /\ crashed \in BOOLEAN
  /\ \A t \in Threads :
       /\ calls[t] \in 0..MaxCalls[t]
       /\ calls[t] = 0 => call[t].pc = "returned"
       /\ calls[t] > 0 => GoodCall(call[t])

\* The second inductive invariant.
OutInv == IInv /\ FailInv /\ CallInv

\* The records of calls, field by field.
LEMMA CallFields ==
  ASSUME NEW c \in Calls
  PROVE  /\ c.pc \in {"check", "create", "recheck", "walk", "frames", "returned"}
         /\ c.count \in BOOLEAN
         /\ c.stack \in Seq(Frames) /\ c.offset \in Nat /\ c.format \in AllFormats /\ c.hooks \in Hooks
         /\ c.state \in Threads \cup {NoState}
         /\ c.at \in Nat /\ c.frames_processed \in Nat /\ c.frame_count \in Nat /\ c.out \in Seq(Tokens)
         /\ Whole(c)
BY DEF Calls, Whole

\* At the beginning there are no calls.
LEMMA InitOut == Init => OutInv
<1> SUFFICES ASSUME Init PROVE OutInv
  OBVIOUS
<1>1. FailInv
  <2>1. ASSUME NEW t \in Threads PROVE call[t].pc # "recheck"
    BY DEF Init
  <2> QED BY <2>1 DEF Init, FailInv
<1>2. CallInv
  <2>1. ASSUME NEW t \in Threads
        PROVE  calls[t] = 0 /\ call[t].pc = "returned" /\ MaxCalls[t] \in Nat
    BY BacktraceAssumption DEF Init
  <2>2. crashed \in BOOLEAN
    BY DEF Init
  <2> QED BY <2>1, <2>2 DEF CallInv
<1> QED BY <1>1, <1>2, InitIInv DEF OutInv

\* A thread has made a step in its call, and the other ones none.
LEMMA CallStep ==
  ASSUME OutInv, IInv', NEW t \in Threads, NEW new, GoodCall(new),
         call' = [call EXCEPT ![t] = new], overwritten' = overwritten \/ MayFail,
         \/ calls' = calls /\ calls[t] > 0
         \/ calls' = [calls EXCEPT ![t] = @ + 1] /\ calls[t] < MaxCalls[t],
         crashed' \in BOOLEAN,
         ~ MayFail => new.pc # "recheck" \/ new.state # NoState
  PROVE  OutInv'
<1>1. /\ call' = [u \in Threads |-> call'[u]]
      /\ call'[t] = new
      /\ \A u \in Threads \ {t} : call'[u] = call[u]
  BY DEF OutInv, IInv, Shape
<1>2. FailInv'
  BY <1>1 DEF OutInv, FailInv
<1>3. \A u \in Threads : MaxCalls[u] \in Nat
  BY BacktraceAssumption
<1>4. calls'[t] \in 1..MaxCalls[t] /\ \A u \in Threads \ {t} : calls'[u] = calls[u]
  <2>1. calls[t] \in 0..MaxCalls[t] /\ calls = [u \in Threads |-> calls[u]]
    BY DEF OutInv, CallInv, IInv, Shape
  <2>2. CASE calls' = calls /\ calls[t] > 0
    BY <1>3, <2>1, <2>2
  <2>3. CASE calls' = [calls EXCEPT ![t] = @ + 1] /\ calls[t] < MaxCalls[t]
    BY <1>3, <2>1, <2>3
  <2> QED BY <2>2, <2>3
<1>5. ASSUME NEW u \in Threads
      PROVE  /\ calls'[u] \in 0..MaxCalls[u]
             /\ calls'[u] = 0 => call'[u].pc = "returned"
             /\ calls'[u] > 0 => GoodCall(call'[u])
  <2>1. CASE u = t
    BY <1>1, <1>3, <1>4, <2>1
  <2>2. CASE u # t
    BY <1>1, <1>4, <2>2 DEF OutInv, CallInv
  <2> QED BY <2>1, <2>2
<1>6. CallInv'
  BY <1>5 DEF CallInv
<1> QED BY <1>2, <1>6 DEF OutInv

(***************************************************************************)
(* The sequence of tokens                                                  *)
(***************************************************************************)

\* A sequence of one element more.
LEMMA OneMore ==
  ASSUME NEW S, NEW s \in Seq(S), NEW e \in S
  PROVE  /\ s \o <<e>> \in Seq(S)
         /\ Len(s \o <<e>>) = Len(s) + 1 /\ Len(s) \in Nat
         /\ DOMAIN (s \o <<e>>) = 1..(Len(s) + 1) /\ DOMAIN s = 1..Len(s)
         /\ (s \o <<e>>)[Len(s) + 1] = e
         /\ \A k \in 1..Len(s) : (s \o <<e>>)[k] = s[k]
<1>1. <<e>> \in Seq(S) /\ Len(<<e>>) = 1 /\ <<e>>[1] = e
  OBVIOUS
<1>2. Len(s) \in Nat /\ DOMAIN s = 1..Len(s)
  OBVIOUS
<1>3. s \o <<e>> \in Seq(S) /\ Len(s \o <<e>>) = Len(s) + 1
  BY <1>1, ConcatProperties
<1>4. \A i \in 1..(Len(s) + 1) : (s \o <<e>>)[i] = IF i <= Len(s) THEN s[i] ELSE <<e>>[i - Len(s)]
  BY <1>1, ConcatProperties
<1> QED BY <1>1, <1>2, <1>3, <1>4

\* What a call never changes once it has looked for the state.
Same(c, d) ==
  /\ d.stack = c.stack /\ d.offset = c.offset /\ d.format = c.format /\ d.hooks = c.hooks
  /\ d.count = c.count

\* A frame that nobody wants is not missed.
LEMMA NoFrameMore ==
  ASSUME NEW c, NEW n \in Nat, NEW s \in Seq(Tokens), Tells(c, n, s), ~ Wanted(c, n + 1)
  PROVE  Tells(c, n + 1, s)
<1>1. \A q \in 1..(n + 1) : q \in 1..n \/ q = n + 1
  OBVIOUS
<1>2. \A q \in 1..n : q \in 1..(n + 1)
  OBVIOUS
<1> QED BY <1>1, <1>2 DEF Tells

\* A delimiter says nothing.
LEMMA DelimMore ==
  ASSUME NEW c, NEW n \in Nat, NEW s \in Seq(Tokens), Tells(c, n, s),
         NEW e \in Tokens, ~ IsFrame(e)
  PROVE  Tells(c, n, s \o <<e>>)
<1> DEFINE z == s \o <<e>>
<1>1. /\ Len(s) \in Nat /\ DOMAIN z = 1..(Len(s) + 1) /\ DOMAIN s = 1..Len(s)
      /\ z[Len(s) + 1] = e /\ \A k \in 1..Len(s) : z[k] = s[k]
  BY OneMore
<1> HIDE DEF z
<1>2. \A k \in DOMAIN z : IsFrame(z[k]) => k \in DOMAIN s /\ z[k] = s[k]
  BY <1>1
<1>3. \A k \in DOMAIN s : k \in DOMAIN z /\ z[k] = s[k]
  BY <1>1
<1>4. Tells(c, n, z)
  BY <1>2, <1>3 DEF Tells
<1> QED BY <1>4 DEF z

\* The next frame is shown, after those before it.
LEMMA FrameMore ==
  ASSUME NEW c, NEW n \in Nat, NEW s \in Seq(Tokens), Tells(c, n, s),
         NEW e \in Tokens, IsFrame(e), e[2] = n + 1, n + 1 \in DOMAIN c.stack,
         Wanted(c, n + 1), NamesFrame(c, e)
  PROVE  Tells(c, n + 1, s \o <<e>>)
<1> DEFINE z == s \o <<e>>
<1>1. /\ Len(s) \in Nat /\ DOMAIN z = 1..(Len(s) + 1) /\ DOMAIN s = 1..Len(s)
      /\ z[Len(s) + 1] = e /\ \A k \in 1..Len(s) : z[k] = s[k]
  BY OneMore
<1> HIDE DEF z
<1>2. \A k \in DOMAIN z : (k \in DOMAIN s /\ z[k] = s[k]) \/ (k = Len(s) + 1 /\ z[k] = e)
  BY <1>1
<1>3. \A k \in DOMAIN s : k \in DOMAIN z /\ z[k] = s[k]
  BY <1>1
<1>4. \A k \in DOMAIN z :
       IsFrame(z[k]) =>
         z[k][2] \in 1..(n + 1) /\ z[k][2] \in DOMAIN c.stack /\ Wanted(c, z[k][2]) /\ NamesFrame(c, z[k])
  <2>1. \A q \in 1..n : q \in 1..(n + 1)
    OBVIOUS
  <2>2. n + 1 \in 1..(n + 1)
    OBVIOUS
  <2> QED BY <1>2, <2>1, <2>2 DEF Tells
<1>5. \A q \in 1..(n + 1) : Wanted(c, q) => \E k \in DOMAIN z : IsFrame(z[k]) /\ z[k][2] = q
  <2> SUFFICES ASSUME NEW q \in 1..(n + 1), Wanted(c, q)
               PROVE  \E k \in DOMAIN z : IsFrame(z[k]) /\ z[k][2] = q
    OBVIOUS
  <2>1. CASE q = n + 1
    BY <1>1, <2>1
  <2>2. CASE q \in 1..n
    BY <1>3, <2>2 DEF Tells
  <2> QED BY <2>1, <2>2
<1>6. \A k, m \in DOMAIN z : k < m /\ IsFrame(z[k]) /\ IsFrame(z[m]) => z[k][2] < z[m][2]
  <2> SUFFICES ASSUME NEW k \in DOMAIN z, NEW m \in DOMAIN z, k < m, IsFrame(z[k]), IsFrame(z[m])
               PROVE  z[k][2] < z[m][2]
    OBVIOUS
  <2>1. k \in DOMAIN s /\ z[k] = s[k]
    BY <1>1, <1>2
  <2>2. CASE m \in DOMAIN s /\ z[m] = s[m]
    BY <2>1, <2>2 DEF Tells
  <2>3. CASE z[m] = e
    <3>1. z[k][2] \in 1..n
      BY <2>1 DEF Tells
    <3> QED BY <2>3, <3>1
  <2> QED BY <1>2, <2>2, <2>3
<1>7. Tells(c, n + 1, z)
  BY <1>4, <1>5, <1>6 DEF Tells
<1> QED BY <1>7 DEF z

\* Calls that agree in what they are given want the same.
LEMMA SameTells ==
  ASSUME NEW c, NEW d, Same(c, d), NEW n, NEW s, Tells(c, n, s)
  PROVE  Tells(d, n, s)
<1>1. \A q : Wanted(d, q) <=> Wanted(c, q)
  BY DEF Same, Wanted
<1>2. \A e : NamesFrame(d, e) <=> NamesFrame(c, e)
  BY DEF Same, NamesFrame
<1>3. DOMAIN d.stack = DOMAIN c.stack
  BY DEF Same
<1> QED BY <1>1, <1>2, <1>3 DEF Tells

(***************************************************************************)
(* The text of a frame                                                     *)
(***************************************************************************)

\* A set of natural numbers that is not empty has a least element.
LEMMA LeastNumber ==
  ASSUME NEW T, T \subseteq Nat, T # {}
  PROVE  \E x \in T : \A y \in T : x <= y
<1> DEFINE R == OpToRel(<, Nat)
<1>1. IsWellFoundedOn(R, Nat)
  BY NatLessThanWellFounded
<1>2. \A x, y \in Nat : x < y => <<x, y>> \in R
  BY DEF OpToRel
<1> HIDE DEF R
<1>3. PICK x \in T : \A y \in T : ~ (<<y, x>> \in R)
  BY <1>1, WFMin
<1>4. ASSUME NEW y \in T PROVE x <= y
  <2>1. x \in Nat /\ y \in Nat /\ ~ (y < x)
    BY <1>2, <1>3
  <2> QED BY <2>1
<1> QED BY <1>4

\* _trim_belly_fat leaves something.
LEMMA BellyLeaves ==
  ASSUME NEW S, NEW s \in Seq(S), s # << >>
  PROVE  \E i \in 1..Len(s) : Belly(s) = SubSeq(s, i, Len(s))
<1>1. Len(s) \in Nat \ {0}
  BY EmptySeq
<1>2. CASE Len(s) > 1
  <2>1. Belly(s) = SubSeq(s, 2, Len(s))
    BY <1>2, TailIsSubSeq DEF Belly
  <2> QED BY <1>1, <1>2, <2>1
<1>3. CASE ~ (Len(s) > 1)
  <2>1. Belly(s) = SubSeq(s, 1, Len(s))
    BY <1>3, SubSeqFull DEF Belly
  <2> QED BY <1>1, <2>1
<1> QED BY <1>2, <1>3

\* _trim_arse_fat leaves something.
LEMMA ArseLeaves ==
  ASSUME NEW S, NEW s \in Seq(S), s # << >>
  PROVE  \E j \in 1..Len(s) : Arse(s) = SubSeq(s, 1, j)
<1> DEFINE cuts == {k \in 2..Len(s) : s[k] = "+offset"}
<1>1. Len(s) \in Nat \ {0}
  BY EmptySeq
<1>2. CASE cuts = {}
  <2>1. Arse(s) = SubSeq(s, 1, Len(s))
    BY <1>2, SubSeqFull DEF Arse
  <2> QED BY <1>1, <2>1
<1>3. CASE cuts # {}
  <2>1. Arse(s) = SubSeq(s, 1, Min(cuts) - 1)
    BY <1>3 DEF Arse
  <2>2. cuts \subseteq 2..Len(s)
    OBVIOUS
  <2> HIDE DEF cuts
  <2>3. \E x \in cuts : \A y \in cuts : x <= y
    <3>1. cuts \subseteq Nat
      BY <1>1, <2>2
    <3> QED BY <1>3, <3>1, LeastNumber
  <2>4. Min(cuts) \in cuts
    BY <2>3, Zenon DEF Min
  <2>5. Min(cuts) \in 2..Len(s)
    BY <2>2, <2>4
  <2>6. Min(cuts) - 1 \in 1..Len(s)
    BY <1>1, <2>5
  <2> QED BY <2>1, <2>6
<1> QED BY <1>2, <1>3

\* What both leave of a text is a part of it.
LEMMA TrimLeaves ==
  ASSUME NEW S, NEW s \in Seq(S), s # << >>
  PROVE  \E i, j \in DOMAIN s : Arse(Belly(s)) = SubSeq(s, i, j)
<1>1. Len(s) \in Nat \ {0} /\ DOMAIN s = 1..Len(s)
  BY EmptySeq, LenProperties
<1>2. PICK i \in 1..Len(s) : Belly(s) = SubSeq(s, i, Len(s))
  BY BellyLeaves
<1> DEFINE b == Belly(s)
<1>3. \A k \in i..Len(s) : s[k] \in S
  BY <1>1, ElementOfSeq
<1>4. b \in Seq(S) /\ Len(b) = Len(s) - i + 1
  BY <1>1, <1>2, <1>3, SubSeqProperties
<1> HIDE DEF b
<1>5. Len(b) \in 1..Len(s) /\ b # << >>
  BY <1>1, <1>4, EmptySeq
<1>6. PICK m \in 1..Len(b) : Arse(b) = SubSeq(b, 1, m)
  BY <1>4, <1>5, ArseLeaves
<1>7. 1 \in 1..(Len(s) - i + 1) /\ m \in 1..(Len(s) - i + 1) /\ Len(s) \in 1..Len(s)
  BY <1>1, <1>4, <1>6
<1>8. SubSeq(SubSeq(s, i, Len(s)), 1, m) = SubSeq(s, i + 1 - 1, i + m - 1)
  BY <1>7, SubSeqOfSubSeq
<1>9. i + 1 - 1 = i /\ i + m - 1 \in 1..Len(s) /\ i + m - 1 >= i
  BY <1>1, <1>7
<1>10. Arse(b) = SubSeq(s, i, i + m - 1)
  BY <1>2, <1>6, <1>8, <1>9 DEF b
<1> QED BY <1>1, <1>9, <1>10 DEF b

\* Frames, field by field.
LEMMA FrameFields ==
  ASSUME NEW f \in Frames
  PROVE  /\ f.function \in Names /\ f.answer \in Seq(Words)
         /\ \A w \in Names \cup {"unknown", "address"} : w \in Words
BY DEF Frames, Answers, Names, Words

\* The text of the frame at hand, before the format looks at it.
LEMMA TextOf ==
  ASSUME NEW t, Frame(t) \in Frames
  PROVE  /\ Text(t) \in Seq(Words) /\ Text(t) # << >>
         /\ LET f    == Frame(t)
                name == IF f.function = "" THEN "unknown" ELSE f.function
            IN  Text(t) = IF f.answer = NoAnswer THEN <<"address", name>> ELSE f.answer
<1> DEFINE f == Frame(t)
           name == IF f.function = "" THEN "unknown" ELSE f.function
<1>1. f.function \in Names /\ f.answer \in Seq(Words) /\ name \in Words /\ "address" \in Words
  BY FrameFields DEF Words, Names
<1>2. Text(t) = IF f.answer = NoAnswer THEN <<"address", name>> ELSE f.answer
  BY DEF Text
<1> HIDE DEF f, name
<1>3. Text(t) \in Seq(Words) /\ Text(t) # << >>
  <2>1. CASE f.answer = NoAnswer
    <3>1. Text(t) = <<"address", name>>
      BY <1>2, <2>1
    <3> QED BY <1>1, <3>1
  <2>2. CASE f.answer # NoAnswer
    BY <1>1, <1>2, <2>2 DEF NoAnswer
  <2> QED BY <2>1, <2>2
<1> QED BY <1>2, <1>3 DEF f, name

\* A text of one word is not trimmed.
LEMMA TrimWord ==
  ASSUME NEW S, NEW s \in Seq(S), Len(s) = 1
  PROVE  Arse(Belly(s)) = s
<1>1. Belly(s) = s
  BY DEF Belly
<1>2. {k \in 2..Len(s) : s[k] = "+offset"} = {}
  OBVIOUS
<1> QED BY <1>1, <1>2 DEF Arse

\* Of several words, those behind the first one are left, up to an offset.
LEMMA TrimKeepsRest ==
  ASSUME NEW S, NEW s \in Seq(S), s # << >>, Len(s) # 1
  PROVE  KeepsRest(Arse(Belly(s)), s)
<1> DEFINE b == Tail(s)
           cuts == {j \in 2..Len(b) : b[j] = "+offset"}
<1>1. /\ Belly(s) = b /\ b \in Seq(S) /\ Len(b) = Len(s) - 1 /\ Len(s) \in Nat /\ DOMAIN b = 1..Len(b)
      /\ \A j \in 1..Len(b) : b[j] = s[j + 1]
  <2>1. Len(s) \in Nat /\ Len(s) # 0
    BY EmptySeq
  <2>2. Len(s) \in Nat /\ Len(s) > 1
    <3>1. \A n \in Nat : n # 0 /\ n # 1 => n > 1
      OBVIOUS
    <3> QED BY <2>1, <3>1
  <2>3. Belly(s) = b
    BY <2>2 DEF Belly
  <2>4. b \in Seq(S) /\ Len(b) = Len(s) - 1 /\ \A j \in 1..Len(b) : b[j] = s[j + 1]
    BY HeadTailProperties
  <2> QED BY <2>2, <2>3, <2>4
<1>2. Arse(b) = IF cuts = {} THEN b ELSE SubSeq(b, 1, Min(cuts) - 1)
  BY DEF Arse
<1>3. cuts \subseteq 2..Len(b) /\ \A j \in cuts : b[j] = "+offset"
  OBVIOUS
<1> HIDE DEF b, cuts
<1> SUFFICES ASSUME NEW k \in 2..Len(s), \A m \in 3..k : s[m] # "+offset"
             PROVE  k - 1 \in DOMAIN Arse(b) /\ Arse(b)[k - 1] = s[k]
  BY <1>1 DEF KeepsRest
<1>4. k \in Int /\ k - 1 \in 1..Len(b) /\ b[k - 1] = s[k]
  <2>1. k \in Int /\ k - 1 \in 1..Len(b) /\ (k - 1) + 1 = k
    BY <1>1
  <2> QED BY <1>1, <2>1
<1>5. CASE cuts = {}
  BY <1>1, <1>2, <1>4, <1>5
<1>6. CASE cuts # {}
  <2>1. \E x \in cuts : \A y \in cuts : x <= y
    <3>1. cuts \subseteq Nat
      BY <1>1, <1>3
    <3> QED BY <1>6, <3>1, LeastNumber
  <2>2. Min(cuts) \in cuts
    BY <2>1, Zenon DEF Min
  <2> DEFINE n == Min(cuts)
  <2>3. n \in 2..Len(b) /\ b[n] = "+offset"
    BY <1>3, <2>2
  <2> HIDE DEF n
  <2>4. k - 1 <= n - 1
    <3> SUFFICES ASSUME ~ (k - 1 <= n - 1)
                 PROVE  FALSE
      OBVIOUS
    <3>1. n + 1 \in 3..k /\ n \in 1..Len(b)
      BY <1>1, <1>4, <2>3
    <3>2. s[n + 1] = "+offset"
      BY <1>1, <2>3, <3>1
    <3> QED BY <3>1, <3>2
  <2>5. /\ \A j \in 1..(n - 1) : b[j] \in S
        /\ n - 1 \in Int /\ 1 <= n - 1
    <3>1. \A j \in 1..(n - 1) : j \in 1..Len(b)
      BY <1>1, <2>3
    <3> QED BY <1>1, <2>3, <3>1, ElementOfSeq
  <2>6. /\ Len(SubSeq(b, 1, n - 1)) = n - 1
        /\ DOMAIN SubSeq(b, 1, n - 1) = 1..(n - 1)
        /\ \A j \in 1..(n - 1) : SubSeq(b, 1, n - 1)[j] = b[j]
    <3>1. /\ SubSeq(b, 1, n - 1) \in Seq(S)
          /\ Len(SubSeq(b, 1, n - 1)) = IF 1 <= n - 1 THEN n - 1 - 1 + 1 ELSE 0
          /\ \A j \in 1..(n - 1 - 1 + 1) : SubSeq(b, 1, n - 1)[j] = b[1 + j - 1]
      BY <2>5, SubSeqProperties
    <3>2. Len(SubSeq(b, 1, n - 1)) = n - 1 /\ n - 1 - 1 + 1 = n - 1
      BY <2>5, <3>1
    <3>3. \A j \in 1..(n - 1) : 1 + j - 1 = j
      BY <2>5
    <3> QED BY <3>1, <3>2, <3>3, LenProperties
  <2>7. k - 1 \in 1..(n - 1)
    BY <1>1, <1>4, <2>3, <2>4
  <2>8. Arse(b) = SubSeq(b, 1, n - 1)
    BY <1>2, <1>6 DEF n
  <2> QED BY <1>4, <2>6, <2>7, <2>8
<1> QED BY <1>5, <1>6

\* What trimming leaves of the address and the name.
LEMMA TrimPair ==
  ASSUME NEW S, NEW a \in S, NEW b \in S
  PROVE  Arse(Belly(<<a, b>>)) = <<b>>
<1>1. Belly(<<a, b>>) = <<b>>
  <2>1. <<a, b>> \in Seq(S) /\ <<b>> \in Seq(S) /\ Len(<<a, b>>) = 2 /\ Len(<<b>>) = 1
    OBVIOUS
  <2>2. Belly(<<a, b>>) = Tail(<<a, b>>)
    BY <2>1 DEF Belly
  <2>3. /\ Tail(<<a, b>>) \in Seq(S) /\ Len(Tail(<<a, b>>)) = 1
        /\ Tail(<<a, b>>)[1] = b
    <3>1. <<a, b>> # << >>
      BY <2>1
    <3> QED BY <2>1, <3>1, HeadTailProperties
  <2>4. Tail(<<a, b>>) = <<b>>
    BY <2>1, <2>3, SeqEqual
  <2> QED BY <2>2, <2>4
<1>2. Arse(<<b>>) = <<b>>
  <2>1. Len(<<b>>) = 1
    OBVIOUS
  <2>2. {k \in 2..Len(<<b>>) : <<b>>[k] = "+offset"} = {}
    BY <2>1
  <2> QED BY <2>2 DEF Arse
<1> QED BY <1>1, <1>2

\* Every text that is shown names the frame.
LEMMA ShowsNames ==
  ASSUME NEW t, Frame(t) \in Frames, call[t].hooks \in Hooks,
         call[t].format \in AllFormats \ {"csv"}
  PROVE  Shows(t) \in Seq(Words) /\ NamesFrame(call[t], <<"frame", Position(t), Shows(t)>>)
<1> DEFINE c == call[t]
           f == Frame(t)
           name == IF f.function = "" THEN "unknown" ELSE f.function
           whole == c.format = "linefeed" \/ c.hooks = "keep"
           text == Text(t)
<1>1. text \in Seq(Words) /\ text # << >>
  BY TextOf
<1>2. text = IF f.answer = NoAnswer THEN <<"address", name>> ELSE f.answer
  BY TextOf
<1>3. Shows(t) = IF whole THEN text ELSE Arse(Belly(text))
  <2>1. CASE c.format = "linefeed"
    BY <2>1 DEF Shows
  <2>2. CASE c.format = "normal"
    BY <2>2 DEF Shows, NormalText, Keeps
  <2>3. CASE c.format = "trimmed"
    BY <2>3 DEF Shows, NormalText, TrimmedText, Keeps
  <2> QED BY <2>1, <2>2, <2>3 DEF AllFormats
<1>4. f = c.stack[Position(t)]
  BY DEF Frame
<1>5. "address" \in Words /\ name \in Words
  BY FrameFields DEF Words, Names
<1>6. c.format # "csv"
  OBVIOUS
<1>7. ASSUME NEW shown, shown \in Seq(Words),
             f.answer = NoAnswer => shown = IF whole THEN <<"address", name>> ELSE <<name>>,
             f.answer # NoAnswer =>
               IF whole \/ Len(f.answer) = 1 THEN shown = f.answer ELSE KeepsRest(shown, f.answer)
      PROVE  shown \in Seq(Words) /\ NamesFrame(c, <<"frame", Position(t), shown>>)
  <2> DEFINE token == <<"frame", Position(t), shown>>
  <2>1. token[2] = Position(t) /\ token[3] = shown
    OBVIOUS
  <2> HIDE DEF token
  <2>2. NamesFrame(c, token)
    BY <1>4, <1>6, <1>7, <2>1 DEF NamesFrame
  <2> QED BY <1>7, <2>2 DEF token
<1>8. f.answer \in Seq(Words)
  BY FrameFields
<1> HIDE DEF c, f, name, text
<1>9. CASE f.answer = NoAnswer
  <2>1. text = <<"address", name>>
    BY <1>2, <1>9
  <2>2. CASE whole
    <3>1. Shows(t) = <<"address", name>>
      BY <1>3, <2>1, <2>2
    <3> QED BY <1>1, <1>7, <1>9, <2>1, <2>2, <3>1 DEF c
  <2>3. CASE ~ whole
    <3>1. Shows(t) = <<name>>
      BY <1>3, <1>5, <2>1, <2>3, TrimPair
    <3>2. <<name>> \in Seq(Words)
      BY <1>5
    <3> QED BY <1>7, <1>9, <2>3, <3>1, <3>2 DEF c
  <2> QED BY <2>2, <2>3
<1>10. CASE f.answer # NoAnswer
  <2>1. text = f.answer
    BY <1>2, <1>10
  <2>2. CASE whole
    <3>1. Shows(t) = f.answer
      BY <1>3, <2>1, <2>2
    <3> QED BY <1>1, <1>7, <1>10, <2>1, <2>2, <3>1 DEF c
  <2>3. CASE ~ whole
    <3>1. Shows(t) = Arse(Belly(f.answer))
      BY <1>3, <2>1, <2>3
    <3>2. Len(f.answer) # 1 => KeepsRest(Shows(t), f.answer)
      <4>1. f.answer # << >>
        BY <1>10 DEF NoAnswer
      <4> QED BY <1>8, <3>1, <4>1, TrimKeepsRest
    <3>3. PICK i, j \in DOMAIN f.answer : Shows(t) = SubSeq(f.answer, i, j)
      BY <1>1, <2>1, <3>1, TrimLeaves
    <3>4. SubSeq(f.answer, i, j) \in Seq(Words)
      <4>1. i \in 1..Len(f.answer) /\ j \in 1..Len(f.answer) /\ Len(f.answer) \in Nat
        BY <1>8, <3>3
      <4>2. \A k \in i..j : f.answer[k] \in Words
        BY <1>8, <4>1, ElementOfSeq
      <4> QED BY <4>1, <4>2, SubSeqProperties
    <3>5. Len(f.answer) = 1 => Shows(t) = f.answer
      BY <1>8, <3>1, TrimWord
    <3> QED BY <1>7, <1>10, <2>3, <3>2, <3>3, <3>4, <3>5 DEF c
  <2> QED BY <2>2, <2>3
<1> QED BY <1>9, <1>10

\* So does every row.
LEMMA RowNames ==
  ASSUME NEW t, Frame(t) \in Frames, call[t].format = "csv"
  PROVE  Row(t) \in Seq(Words) /\ NamesFrame(call[t], <<"frame", Position(t), Row(t)>>)
<1> DEFINE token == <<"frame", Position(t), Row(t)>>
<1>1. token[2] = Position(t) /\ token[3] = Row(t)
  OBVIOUS
<1>2. Row(t) = <<"address", Frame(t).function>> /\ Frame(t) = call[t].stack[Position(t)]
  BY DEF Row, Frame
<1>3. Frame(t).function \in Words /\ "address" \in Words
  BY FrameFields DEF Words, Names
<1>4. Row(t) \in Seq(Words) /\ Row(t) # << >>
  BY <1>2, <1>3
<1> HIDE DEF token
<1>5. NamesFrame(call[t], token)
  BY <1>1, <1>2, <1>4 DEF NamesFrame
<1> QED BY <1>4, <1>5 DEF token

\* The filter hides the frames that nobody wants.
LEMMA BoringUnwanted ==
  ASSUME NEW t, Frame(t) \in Frames, call[t].hooks \in Hooks, Position(t) > call[t].offset
  PROVE  Wanted(call[t], Position(t)) <=> ~ Boring(t)
<1> DEFINE f == Frame(t)
           name == IF f.function = "" THEN "unknown" ELSE f.function
<1>1. Text(t) \in Seq(Words) /\ Text(t) # << >>
  BY TextOf
<1>2. Text(t) = IF f.answer = NoAnswer THEN <<"address", name>> ELSE f.answer
  BY TextOf
<1>3. Text(t) # <<"0x0">>
  <2>1. Text(t)[1] \in Words
    <3>1. Len(Text(t)) \in Nat \ {0}
      BY <1>1, EmptySeq
    <3>2. 1 \in 1..Len(Text(t))
      BY <3>1
    <3> QED BY <1>1, <3>2, ElementOfSeq
  <2>2. <<"0x0">>[1] = "0x0" /\ "0x0" \notin Words
    BY DEF Words
  <2> QED BY <2>1, <2>2
<1>4. Text(t)[1] = "boring" <=> f.answer # NoAnswer /\ f.answer[1] = "boring"
  <2>1. <<"address", name>>[1] = "address"
    OBVIOUS
  <2> QED BY <1>2, <2>1
<1>5. Keeps(t) <=> call[t].hooks # "default"
  BY DEF Keeps, Hooks
<1>6. f = call[t].stack[Position(t)]
  BY DEF Frame
<1> HIDE DEF f, name
<1> QED BY <1>3, <1>4, <1>5, <1>6 DEF Wanted, Boring

(***************************************************************************)
(* The callbacks                                                           *)
(***************************************************************************)

\* A frame that is shown without a delimiter.
LEMMA ShowFirst ==
  ASSUME NEW c \in Calls, NEW d, Same(c, d), d.at = c.at + 1, d.frame_count = c.frame_count + 1,
         NEW s, Inner(c, s), c.format = "csv" \/ c.frame_count = 0,
         c.at + 1 \in DOMAIN c.stack, Wanted(c, c.at + 1),
         NEW e \in Tokens, e[1] = "frame", e[2] = c.at + 1, NamesFrame(c, e)
  PROVE  Inner(d, s \o <<e>>)
<1> DEFINE z == s \o <<e>>
<1>1. s \in Seq(Tokens) /\ c.at \in Nat /\ c.frame_count \in Nat /\ IsFrame(e)
  BY CallFields DEF Inner, IsFrame
<1>2. Tells(c, c.at + 1, z)
  BY <1>1, FrameMore DEF Inner
<1>3. Tells(d, d.at, z)
  BY <1>2, SameTells
<1>4. /\ z \in Seq(Tokens) /\ Len(z) = Len(s) + 1 /\ Len(s) \in Nat
      /\ DOMAIN z = 1..(Len(s) + 1) /\ DOMAIN s = 1..Len(s)
      /\ z[Len(s) + 1] = e
      /\ \A k \in 1..Len(s) : z[k] = s[k]
  BY <1>1, OneMore
<1> HIDE DEF z
<1>5. d.format = c.format
  BY DEF Same
<1>6. \A k \in 1..Len(s) : s[k][1] = Kind(c, k)
  BY <1>4 DEF Inner, Lined
<1>7. Kind(c, Len(s) + 1) = "frame"
  <2>1. CASE c.format = "csv"
    BY <2>1 DEF Kind
  <2>2. CASE c.format # "csv" /\ c.frame_count = 0
    <3>1. Len(s) = 0
      BY <2>2 DEF Inner, Lined, Size
    <3>2. (Len(s) + 1) % 2 = 1
      BY <3>1
    <3> QED BY <3>2 DEF Kind
  <2> QED BY <2>1, <2>2
<1>8. \A k \in DOMAIN z : z[k][1] = Kind(c, k)
  <2> SUFFICES ASSUME NEW k \in DOMAIN z PROVE z[k][1] = Kind(c, k)
    OBVIOUS
  <2>1. CASE k = Len(s) + 1
    BY <1>4, <1>7, <2>1
  <2>2. CASE k \in 1..Len(s)
    BY <1>4, <1>6, <2>2
  <2> QED BY <1>4, <2>1, <2>2
<1>9. \A k : Kind(d, k) = Kind(c, k)
  BY <1>5 DEF Kind
<1>10. d.format # "csv" => Len(z) = Size(d)
  BY <1>1, <1>4, <1>5 DEF Inner, Lined, Size
<1>11. Lined(d, z)
  BY <1>8, <1>9, <1>10 DEF Lined
<1>12. Inner(d, z)
  BY <1>3, <1>4, <1>11 DEF Inner
<1> QED BY <1>12 DEF z

\* A frame that is shown after a delimiter.
LEMMA ShowNext ==
  ASSUME NEW c \in Calls, NEW d, Same(c, d), d.at = c.at + 1, d.frame_count = c.frame_count + 1,
         NEW s, Inner(c, s), c.format # "csv", c.frame_count # 0,
         c.at + 1 \in DOMAIN c.stack, Wanted(c, c.at + 1),
         NEW e \in Tokens, e[1] = "frame", e[2] = c.at + 1, NamesFrame(c, e)
  PROVE  Inner(d, s \o (Mark("delim") \o <<e>>))
<1> DEFINE delim == <<"delim", 0, << >> >>
           y == s \o <<delim>>
           z == y \o <<e>>
<1>1. s \in Seq(Tokens) /\ c.at \in Nat /\ c.frame_count \in Nat /\ IsFrame(e)
  BY CallFields DEF Inner, IsFrame
<1>2. delim \in Tokens /\ ~ IsFrame(delim) /\ delim[1] = "delim"
  <2>1. << >> \in Seq(Words) /\ 0 \in Nat
    BY EmptySeq
  <2>2. delim \in Tokens
    BY <2>1 DEF Tokens
  <2>3. delim[1] = "delim"
    OBVIOUS
  <2> HIDE DEF delim
  <2> QED BY <2>2, <2>3 DEF Tokens, IsFrame
<1>3. Mark("delim") = <<delim>>
  BY DEF Mark
<1> HIDE DEF delim
<1>4. /\ y \in Seq(Tokens) /\ Len(y) = Len(s) + 1 /\ Len(s) \in Nat
      /\ y[Len(s) + 1] = delim
      /\ \A k \in 1..Len(s) : y[k] = s[k]
      /\ DOMAIN s = 1..Len(s)
  BY <1>1, <1>2, OneMore
<1>5. Tells(c, c.at, y)
  BY <1>1, <1>2, DelimMore DEF Inner
<1> HIDE DEF y
<1>6. Tells(c, c.at + 1, z)
  BY <1>1, <1>4, <1>5, FrameMore
<1>7. /\ z \in Seq(Tokens) /\ Len(z) = Len(y) + 1 /\ DOMAIN z = 1..(Len(y) + 1)
      /\ z[Len(y) + 1] = e
      /\ \A k \in 1..Len(y) : z[k] = y[k]
  BY <1>4, OneMore
<1>8. s \o (Mark("delim") \o <<e>>) = z
  <2>1. <<delim>> \in Seq(Tokens) /\ <<e>> \in Seq(Tokens)
    BY <1>2
  <2>2. (s \o <<delim>>) \o <<e>> = s \o (<<delim>> \o <<e>>)
    BY <1>1, <2>1, ConcatAssociative
  <2> QED BY <1>3, <2>2 DEF y
<1> HIDE DEF z
<1>9. Tells(d, d.at, z)
  BY <1>6, SameTells
<1>10. d.format = c.format
  BY DEF Same
<1>11. Len(s) = 2 * c.frame_count - 1
  BY DEF Inner, Lined, Size
<1>12. Kind(c, Len(s) + 1) = "delim" /\ Kind(c, Len(s) + 2) = "frame"
  <2>1. \A n \in Nat : (2 * n) % 2 = 0 /\ (2 * n + 1) % 2 = 1
    OBVIOUS
  <2>2. Len(s) + 1 = 2 * c.frame_count /\ Len(s) + 2 = 2 * c.frame_count + 1
    BY <1>1, <1>4, <1>11
  <2>3. (Len(s) + 1) % 2 = 0 /\ (Len(s) + 2) % 2 = 1
    BY <1>1, <2>1, <2>2
  <2> QED BY <2>3 DEF Kind
<1>13. \A k \in DOMAIN z : z[k][1] = Kind(c, k)
  <2> SUFFICES ASSUME NEW k \in DOMAIN z PROVE z[k][1] = Kind(c, k)
    OBVIOUS
  <2>1. CASE k = Len(s) + 2
    BY <1>4, <1>7, <1>12, <2>1
  <2>2. CASE k = Len(s) + 1
    BY <1>2, <1>4, <1>7, <1>12, <2>2
  <2>3. CASE k \in 1..Len(s)
    <3>1. z[k] = s[k]
      BY <1>4, <1>7, <2>3
    <3> QED BY <1>4, <2>3, <3>1 DEF Inner, Lined
  <2> QED BY <1>4, <1>7, <2>1, <2>2, <2>3
<1>14. \A k : Kind(d, k) = Kind(c, k)
  BY <1>10 DEF Kind
<1>15. Len(z) = Size(d)
  <2>1. Size(d) = 2 * (c.frame_count + 1) - 1
    BY <1>1 DEF Size
  <2> QED BY <1>1, <1>4, <1>7, <1>11, <2>1
<1>16. Lined(d, z)
  BY <1>13, <1>14, <1>15 DEF Lined
<1>17. Inner(d, z)
  BY <1>7, <1>9, <1>16 DEF Inner
<1> QED BY <1>8, <1>17

\* A frame that is not shown.
LEMMA HideInner ==
  ASSUME NEW c \in Calls, NEW d, Same(c, d), d.at = c.at + 1, d.frame_count = c.frame_count,
         NEW s, Inner(c, s), ~ Wanted(c, c.at + 1)
  PROVE  Inner(d, s)
<1>1. s \in Seq(Tokens) /\ c.at \in Nat
  BY CallFields DEF Inner
<1>2. Tells(c, c.at + 1, s)
  BY <1>1, NoFrameMore DEF Inner
<1>3. Tells(d, d.at, s)
  BY <1>2, SameTells
<1>4. d.format = c.format
  BY DEF Same
<1>5. Lined(d, s)
  BY <1>4 DEF Inner, Lined, Size, Kind
<1> QED BY <1>1, <1>3, <1>5 DEF Inner

\* What the callback makes of a call, field by field.
LEMMA HideFields ==
  ASSUME NEW t, call[t] \in Calls
  PROVE  /\ Skip(t) = Hide(t) /\ Hide(t) \in Calls /\ Same(call[t], Hide(t))
         /\ Hide(t).pc = call[t].pc /\ Hide(t).state = call[t].state /\ Hide(t).out = call[t].out
         /\ Hide(t).at = call[t].at + 1 /\ Hide(t).frames_processed = call[t].frames_processed + 1
         /\ Hide(t).frame_count = call[t].frame_count
<1> DEFINE c == call[t]
<1>1. /\ c.pc \in {"check", "create", "recheck", "walk", "frames", "returned"}
      /\ c.count \in BOOLEAN
      /\ c.stack \in Seq(Frames) /\ c.offset \in Nat /\ c.format \in AllFormats /\ c.hooks \in Hooks
      /\ c.state \in Threads \cup {NoState}
      /\ c.at \in Nat /\ c.frames_processed \in Nat /\ c.frame_count \in Nat /\ c.out \in Seq(Tokens)
      /\ Whole(c)
  BY CallFields
<1>2. Skip(t) = Hide(t) /\ Hide(t) = [c EXCEPT !.at = @ + 1, !.frames_processed = @ + 1]
  BY DEF Skip, Hide
<1> HIDE DEF c
<1>3. Hide(t) = [pc |-> c.pc, count |-> c.count, stack |-> c.stack, offset |-> c.offset,
       format |-> c.format, hooks |-> c.hooks, state |-> c.state, at |-> c.at + 1,
       frames_processed |-> c.frames_processed + 1, frame_count |-> c.frame_count, out |-> c.out]
  BY <1>1, <1>2 DEF Whole
<1>4. c.at + 1 \in Nat /\ c.frames_processed + 1 \in Nat
  BY <1>1
<1>5. Hide(t) \in Calls
  BY <1>1, <1>3, <1>4 DEF Calls
<1> QED BY <1>2, <1>3, <1>5 DEF Same, c

LEMMA ShowFields ==
  ASSUME NEW t, call[t] \in Calls, NEW tokens \in Seq(Tokens)
  PROVE  LET d == Show(t, tokens)
         IN  /\ d \in Calls /\ Same(call[t], d)
             /\ d.pc = call[t].pc /\ d.state = call[t].state /\ d.out = call[t].out \o tokens
             /\ d.at = call[t].at + 1 /\ d.frames_processed = call[t].frames_processed + 1
             /\ d.frame_count = call[t].frame_count + 1
<1> DEFINE c == call[t]
<1>1. /\ c.pc \in {"check", "create", "recheck", "walk", "frames", "returned"}
      /\ c.count \in BOOLEAN
      /\ c.stack \in Seq(Frames) /\ c.offset \in Nat /\ c.format \in AllFormats /\ c.hooks \in Hooks
      /\ c.state \in Threads \cup {NoState}
      /\ c.at \in Nat /\ c.frames_processed \in Nat /\ c.frame_count \in Nat /\ c.out \in Seq(Tokens)
      /\ Whole(c)
  BY CallFields
<1>2. PICK out : out = c.out \o tokens
  OBVIOUS
<1>3. out \in Seq(Tokens)
  BY <1>1, <1>2, ConcatProperties
<1>4. Show(t, tokens) =
        [c EXCEPT !.at = @ + 1, !.frames_processed = @ + 1, !.frame_count = @ + 1, !.out = out]
  BY <1>2 DEF Show
<1> HIDE DEF c
<1>5. Show(t, tokens) =
        [pc |-> c.pc, count |-> c.count, stack |-> c.stack, offset |-> c.offset,
         format |-> c.format, hooks |-> c.hooks, state |-> c.state, at |-> c.at + 1,
         frames_processed |-> c.frames_processed + 1, frame_count |-> c.frame_count + 1, out |-> out]
  BY <1>1, <1>4 DEF Whole
<1>6. c.at + 1 \in Nat /\ c.frames_processed + 1 \in Nat /\ c.frame_count + 1 \in Nat
  BY <1>1
<1>7. Show(t, tokens) \in Calls
  BY <1>1, <1>3, <1>5, <1>6 DEF Calls
<1> DEFINE d == Show(t, tokens)
<1>8. /\ d \in Calls /\ Same(c, d)
      /\ d.pc = c.pc /\ d.state = c.state /\ d.out = out
      /\ d.at = c.at + 1 /\ d.frames_processed = c.frames_processed + 1
      /\ d.frame_count = c.frame_count + 1
  BY <1>5, <1>7 DEF Same
<1> HIDE DEF d
<1> QED BY <1>2, <1>8 DEF c, d

(***************************************************************************)
(* The steps                                                               *)
(***************************************************************************)

\* Header and trailer show no frame.
Silent(s) == s \in Seq(Tokens) /\ \A k \in DOMAIN s : s[k][1] \notin {"frame", "delim"}

LEMMA Margins ==
  ASSUME NEW format \in AllFormats
  PROVE  Silent(Header(format)) /\ Silent(Trailer(format))
<1>1. Silent(<< >>)
  BY EmptySeq DEF Silent
<1>2. ASSUME NEW kind \in {"open", "close", "newline", "titles"}
      PROVE  Silent(Mark(kind))
  <2> DEFINE token == <<kind, 0, << >> >>
  <2>1. << >> \in Seq(Words) /\ 0 \in Nat
    BY EmptySeq
  <2>2. token \in Tokens /\ token[1] \notin {"frame", "delim"}
    BY <2>1 DEF Tokens
  <2>3. Mark(kind) = <<token>>
    BY DEF Mark
  <2> HIDE DEF token
  <2>4. <<token>> \in Seq(Tokens) /\ DOMAIN <<token>> = {1} /\ <<token>>[1] = token
    BY <2>2 DEF Tokens
  <2> QED BY <2>2, <2>3, <2>4 DEF Silent
<1>3. CASE Brackets(format)
  <2>1. Header(format) = Mark("open") /\ Trailer(format) = Mark("close")
    BY <1>3 DEF Header, Trailer, Brackets
  <2> QED BY <1>2, <2>1
<1>4. CASE format = "linefeed"
  <2>1. Header(format) = << >> /\ Trailer(format) = Mark("newline")
    BY <1>4 DEF Header, Trailer, Brackets
  <2> QED BY <1>1, <1>2, <2>1
<1>5. CASE format = "csv"
  <2>1. Header(format) = Mark("titles") /\ Trailer(format) = << >>
    BY <1>5 DEF Header, Trailer, Brackets
  <2> QED BY <1>1, <1>2, <2>1
<1> QED BY <1>3, <1>4, <1>5 DEF AllFormats, Brackets

\* A call with some fields changed.
Rewrites(c, pc, state, offset, out, d) ==
  d = [c EXCEPT !.pc = pc, !.state = state, !.offset = offset, !.out = out]

LEMMA Rewritten ==
  ASSUME NEW c \in Calls, NEW pc \in {"check", "create", "recheck", "walk", "frames", "returned"},
         NEW state \in Threads \cup {NoState}, NEW offset \in Nat, NEW out \in Seq(Tokens),
         NEW d, Rewrites(c, pc, state, offset, out, d)
  PROVE  /\ d \in Calls
         /\ d.pc = pc /\ d.state = state /\ d.offset = offset /\ d.out = out
         /\ d.count = c.count /\ d.stack = c.stack /\ d.format = c.format /\ d.hooks = c.hooks
         /\ d.at = c.at /\ d.frames_processed = c.frames_processed /\ d.frame_count = c.frame_count
<1>1. /\ c.count \in BOOLEAN
      /\ c.stack \in Seq(Frames) /\ c.format \in AllFormats /\ c.hooks \in Hooks
      /\ c.at \in Nat /\ c.frames_processed \in Nat /\ c.frame_count \in Nat
      /\ Whole(c)
  BY CallFields
<1>2. d = [pc |-> pc, count |-> c.count, stack |-> c.stack, offset |-> offset,
           format |-> c.format, hooks |-> c.hooks, state |-> state, at |-> c.at,
           frames_processed |-> c.frames_processed, frame_count |-> c.frame_count, out |-> out]
  BY <1>1 DEF Whole, Rewrites
<1>3. d \in Calls
  BY <1>1, <1>2 DEF Calls
<1> QED BY <1>2, <1>3

\* A call that has begun, as long as its thread has not returned from it.
LEMMA Running ==
  ASSUME OutInv, NEW t \in Threads, call[t].pc # "returned"
  PROVE  calls[t] > 0 /\ GoodCall(call[t]) /\ call[t] \in Calls /\ IInv
<1>1. calls[t] \in 0..MaxCalls[t] /\ calls[t] # 0 /\ MaxCalls[t] \in Nat
  BY BacktraceAssumption DEF OutInv, CallInv
<1>2. calls[t] > 0
  BY <1>1
<1> QED BY <1>2 DEF OutInv, CallInv, GoodCall

\* A call begins with its header.
LEMMA BeginOut ==
  ASSUME OutInv, IInv', NEW t \in Threads, BeginDump(t) \/ BeginCount(t)
  PROVE  OutInv'
<1>1. PICK count \in BOOLEAN, stack \in Seq(Frames), offset \in Nat, format \in AllFormats,
           hooks \in Hooks, out \in Seq(Tokens) :
        /\ Begin(t, NewCall(count, stack, offset, format, hooks, out))
        /\ ~ count => out = Header(format)
  <2>1. Stacks[t] \subseteq Seq(Frames) /\ Offsets[t] \subseteq Nat /\ Formats[t] \subseteq AllFormats
    BY BacktraceAssumption DEF AllFormats
  <2>2. CASE BeginDump(t)
    <3>1. PICK stack \in Stacks[t], offset \in Offsets[t], format \in Formats[t], hooks \in Hooks :
            Begin(t, NewCall(FALSE, stack, offset, format, hooks, Header(format)))
      BY <2>2 DEF BeginDump
    <3>2. format \in AllFormats /\ Header(format) \in Seq(Tokens)
      BY <2>1, Margins DEF Silent
    <3> QED BY <2>1, <3>1, <3>2
  <2>3. CASE BeginCount(t)
    <3>1. PICK stack \in Stacks[t] : Begin(t, NewCall(TRUE, stack, 0, "normal", "keep", << >>))
      BY <2>3 DEF BeginCount
    <3>2. "normal" \in AllFormats /\ "keep" \in Hooks /\ << >> \in Seq(Tokens) /\ 0 \in Nat
      BY EmptySeq DEF AllFormats, Hooks
    <3> QED BY <2>1, <3>1, <3>2
  <2> QED BY <2>2, <2>3
<1> DEFINE new == NewCall(count, stack, offset, format, hooks, out)
<1>2. /\ call' = [call EXCEPT ![t] = new] /\ calls' = [calls EXCEPT ![t] = @ + 1]
      /\ overwritten' = overwritten /\ crashed' = crashed
      /\ calls[t] < MaxCalls[t]
  BY <1>1 DEF Begin, shared, BeginDump, BeginCount, MayBegin
<1>3. new = [pc |-> "check", count |-> count, stack |-> stack, offset |-> offset,
             format |-> format, hooks |-> hooks, state |-> NoState,
             at |-> 0, frames_processed |-> 0, frame_count |-> 0, out |-> out]
  BY DEF NewCall
<1> HIDE DEF new
<1>4. new \in Calls
  BY <1>3 DEF Calls
<1>5. GoodCall(new)
  <2>1. Len(stack) \in Nat
    OBVIOUS
  <2>2. ~ count => Written(new)
    BY <1>1, <1>3 DEF Written
  <2> QED BY <1>3, <1>4, <2>1, <2>2 DEF GoodCall
<1>6. new.pc # "recheck" /\ crashed' \in BOOLEAN
  BY <1>2, <1>3 DEF OutInv, CallInv
<1> QED BY <1>2, <1>5, <1>6, CallStep

\* The look at global_state writes nothing, nor does the creation.
LEMMA StateOut ==
  ASSUME OutInv, IInv', NEW t \in Threads, Check(t) \/ Create(t)
  PROVE  OutInv'
<1>1. PICK pc \in {"create", "recheck", "walk"}, state \in Threads \cup {NoState} :
        /\ call' = [call EXCEPT ![t].pc = pc, ![t].state = state]
        /\ pc = "recheck" /\ ~ MayFail => state # NoState
  <2>1. CASE Check(t)
    <3>1. global_state \in Threads \cup {NoState}
      BY DEF OutInv, IInv, Shape
    <3>2. PICK pc : pc = IF global_state = NoState THEN "create" ELSE "walk"
      OBVIOUS
    <3>3. call' = [call EXCEPT ![t].pc = pc, ![t].state = global_state]
      BY <2>1, <3>2 DEF Check
    <3> QED BY <3>1, <3>2, <3>3
  <2>2. CASE Create(t)
    <3>1. global_state' \in Threads \cup {NoState} /\ (~ MayFail => global_state' # NoState)
      BY <2>2, BacktraceAssumption DEF Create
    <3>2. call' = [call EXCEPT ![t].pc = "recheck", ![t].state = global_state']
      BY <2>2 DEF Create
    <3> QED BY <3>1, <3>2
  <2> QED BY <2>1, <2>2
<1>2. /\ call[t].pc \in {"check", "create"} /\ UNCHANGED <<calls, crashed>>
      /\ overwritten' = overwritten \/ MayFail
  BY DEF Check, Create, shared
<1>3. calls[t] > 0 /\ GoodCall(call[t]) /\ call[t] \in Calls
  BY <1>2, Running
<1> DEFINE c == call[t]
<1>4. c.offset \in Nat /\ c.out \in Seq(Tokens) /\ Whole(c)
  BY <1>3, CallFields
<1>5. PICK new : new = [c EXCEPT !.pc = pc, !.state = state]
  OBVIOUS
<1>6. call' = [call EXCEPT ![t] = new]
  BY <1>1, <1>5
<1> HIDE DEF c
<1>7. Rewrites(c, pc, state, c.offset, c.out, new)
  BY <1>4, <1>5 DEF Whole, Rewrites
<1>8. /\ new \in Calls
      /\ new.pc = pc /\ new.state = state /\ new.offset = c.offset /\ new.out = c.out
      /\ new.count = c.count /\ new.stack = c.stack /\ new.format = c.format /\ new.hooks = c.hooks
      /\ new.at = c.at /\ new.frames_processed = c.frames_processed /\ new.frame_count = c.frame_count
  <2>1. c \in Calls /\ pc \in {"check", "create", "recheck", "walk", "frames", "returned"}
    BY <1>3 DEF c
  <2> QED BY <1>4, <1>7, <2>1, Rewritten
<1>9. GoodCall(new)
  <2>1. ~ c.count => Written(c)
    BY <1>3 DEF GoodCall, c
  <2>2. ~ new.count => Written(new)
    BY <1>2, <1>8, <2>1 DEF Written, c
  <2> QED BY <1>3, <1>8, <2>2 DEF GoodCall, c
<1>10. crashed' \in BOOLEAN /\ (~ MayFail => new.pc # "recheck" \/ new.state # NoState)
  BY <1>1, <1>2, <1>8 DEF OutInv, CallInv
<1> QED BY <1>2, <1>3, <1>6, <1>9, <1>10, CallStep

\* Without a state a call gives up, which without failing creations does not happen.
LEMMA RecheckOut ==
  ASSUME OutInv, IInv', NEW t \in Threads, Recheck(t)
  PROVE  OutInv'
<1>1. PICK state \in Reread(t) :
        call' = [call EXCEPT ![t].pc = IF state = NoState THEN "returned" ELSE "walk", ![t].state = state]
  BY DEF Recheck
<1>2. /\ call[t].pc = "recheck" /\ UNCHANGED <<calls, crashed>> /\ overwritten' = overwritten
  BY DEF Recheck, shared
<1>3. calls[t] > 0 /\ GoodCall(call[t]) /\ call[t] \in Calls
  BY <1>2, Running
<1> DEFINE c == call[t]
<1>4. c.offset \in Nat /\ c.out \in Seq(Tokens) /\ c.state \in Threads \cup {NoState} /\ Whole(c)
  BY <1>3, CallFields
<1>5. state \in Threads \cup {NoState} /\ (state = NoState => MayFail)
  BY <1>2, <1>4 DEF Reread, OutInv, FailInv, IInv, Shape, Relies
<1>pc. PICK pc : pc = IF state = NoState THEN "returned" ELSE "walk"
  OBVIOUS
<1>6. PICK new : new = [c EXCEPT !.pc = pc, !.state = state]
  OBVIOUS
<1>7. call' = [call EXCEPT ![t] = new]
  BY <1>1, <1>pc, <1>6
<1> HIDE DEF c
<1>8. Rewrites(c, pc, state, c.offset, c.out, new)
  BY <1>4, <1>6 DEF Whole, Rewrites
<1>9. /\ new \in Calls
      /\ new.pc = pc /\ new.state = state /\ new.offset = c.offset /\ new.out = c.out
      /\ new.count = c.count /\ new.stack = c.stack /\ new.format = c.format /\ new.hooks = c.hooks
      /\ new.at = c.at /\ new.frames_processed = c.frames_processed /\ new.frame_count = c.frame_count
  <2>1. c \in Calls /\ pc \in {"check", "create", "recheck", "walk", "frames", "returned"}
    BY <1>3, <1>pc DEF c
  <2>2. state \in Threads \cup {NoState} /\ c.offset \in Nat /\ c.out \in Seq(Tokens)
    BY <1>4, <1>5
  <2> QED BY <1>8, <2>1, <2>2, Rewritten
<1>10. GoodCall(new)
  <2>1. ~ c.count => Written(c)
    BY <1>3 DEF GoodCall, c
  <2>2. ASSUME ~ new.count PROVE Written(new)
    <3>1. c.out = Header(c.format) /\ c.at = 0 /\ c.frame_count = 0
      BY <1>2, <1>9, <2>1, <2>2 DEF Written, c
    <3> QED BY <1>5, <1>pc, <1>9, <3>1 DEF Written
  <2> QED BY <1>3, <1>9, <2>2 DEF GoodCall, c
<1>11. crashed' \in BOOLEAN /\ new.pc # "recheck"
  BY <1>2, <1>pc, <1>9 DEF OutInv, CallInv
<1> QED BY <1>2, <1>3, <1>7, <1>10, <1>11, CallStep

\* Nothing is written before the first frame.
LEMMA WalkOut ==
  ASSUME OutInv, IInv', NEW t \in Threads, Walk(t)
  PROVE  OutInv'
<1>2. /\ call[t].pc = "walk" /\ UNCHANGED calls /\ overwritten' = overwritten
      /\ crashed' \in BOOLEAN
  BY DEF Walk, shared
<1>3. calls[t] > 0 /\ GoodCall(call[t]) /\ call[t] \in Calls
  BY <1>2, Running
<1> DEFINE c == call[t]
<1>4. /\ c.offset \in Nat /\ c.out \in Seq(Tokens) /\ c.state \in Threads \cup {NoState} /\ Whole(c)
      /\ c.stack \in Seq(Frames)
  BY <1>3, CallFields
<1>1. PICK state \in Threads \cup {NoState}, offset \in Nat :
        /\ call' = [call EXCEPT ![t].pc = "frames", ![t].state = state, ![t].offset = offset]
        /\ ~ c.count => offset = c.offset
  <2>1. PICK state \in Reread(t),
             offset \in IF c.count THEN {0, 1, Len(c.stack) + 1} ELSE {c.offset} :
          call' = [call EXCEPT ![t].pc = "frames", ![t].state = state, ![t].offset = offset]
    BY DEF Walk
  <2>2. state \in Threads \cup {NoState}
    BY <1>4 DEF Reread, OutInv, IInv, Shape
  <2>3. offset \in Nat /\ (~ c.count => offset = c.offset)
    <3>1. Len(c.stack) + 1 \in Nat
      BY <1>4
    <3>2. CASE c.count
      <4>1. offset \in {0, 1, Len(c.stack) + 1}
        BY <2>1, <3>2
      <4> QED BY <3>1, <3>2, <4>1
    <3>3. CASE ~ c.count
      <4>1. offset \in {c.offset}
        BY <2>1, <3>3
      <4> QED BY <1>4, <3>3, <4>1
    <3> QED BY <3>2, <3>3
  <2> QED BY <2>1, <2>2, <2>3
<1>5. PICK new : new = [c EXCEPT !.pc = "frames", !.state = state, !.offset = offset]
  OBVIOUS
<1>6. call' = [call EXCEPT ![t] = new]
  BY <1>1, <1>5
<1> HIDE DEF c
<1>7. Rewrites(c, "frames", state, offset, c.out, new)
  BY <1>4, <1>5 DEF Whole, Rewrites
<1>8. /\ new \in Calls
      /\ new.pc = "frames" /\ new.state = state /\ new.offset = offset /\ new.out = c.out
      /\ new.count = c.count /\ new.stack = c.stack /\ new.format = c.format /\ new.hooks = c.hooks
      /\ new.at = c.at /\ new.frames_processed = c.frames_processed /\ new.frame_count = c.frame_count
  <2>1. c \in Calls
    BY <1>3 DEF c
  <2> QED BY <1>4, <1>7, <2>1, Rewritten
<1>9. GoodCall(new)
  <2>1. ~ c.count => Written(c)
    BY <1>3 DEF GoodCall, c
  <2>2. ASSUME ~ new.count PROVE Written(new)
    <3>1. c.out = Header(c.format) /\ c.at = 0 /\ c.frame_count = 0
      BY <1>2, <1>8, <2>1, <2>2 DEF Written, c
    <3>2. << >> \in Seq(Tokens) /\ Len(<< >>) = 0 /\ DOMAIN << >> = {}
      BY EmptySeq
    <3>3. Inner(new, << >>)
      BY <1>8, <3>1, <3>2 DEF Inner, Lined, Size, Tells
    <3>4. c.out \o << >> = c.out
      BY <1>4, ConcatEmptySeq
    <3>5. new.out = Header(new.format) \o << >>
      BY <1>8, <3>1, <3>4
    <3> QED BY <1>8, <3>3, <3>5 DEF Written
  <2> QED BY <1>3, <1>8, <2>2 DEF GoodCall, c
<1>10. new.pc # "recheck"
  BY <1>8
<1> QED BY <1>2, <1>3, <1>6, <1>9, <1>10, CallStep

\* What a callback starts from.
LEMMA AtCallback ==
  ASSUME OutInv, NEW t \in Threads, call[t].pc = "frames", More(t)
  PROVE  /\ calls[t] > 0 /\ GoodCall(call[t]) /\ call[t] \in Calls /\ call[t].hooks \in Hooks
         /\ call[t].format \in AllFormats
         /\ Frame(t) \in Frames /\ Position(t) = call[t].at + 1 /\ Position(t) \in DOMAIN call[t].stack
         /\ call[t].frames_processed = call[t].at /\ call[t].offset \in Nat /\ call[t].at \in Nat
         /\ call[t].frame_count \in Nat /\ call[t].frame_count <= call[t].at
         /\ Len(call[t].stack) \in Nat /\ call[t].at + 1 <= Len(call[t].stack)
<1> DEFINE c == call[t]
<1>1. calls[t] > 0 /\ GoodCall(c) /\ c \in Calls
  BY Running
<1>2. /\ c.stack \in Seq(Frames) /\ c.offset \in Nat /\ c.format \in AllFormats /\ c.hooks \in Hooks
      /\ c.at \in Nat /\ c.frame_count \in Nat
  BY <1>1, CallFields
<1>3. c.frames_processed = c.at /\ c.frame_count <= c.at /\ c.at < Len(c.stack)
  BY <1>1 DEF GoodCall, More
<1>4. Position(t) = c.at + 1 /\ Frame(t) = c.stack[c.at + 1]
  BY DEF Position, Frame
<1> HIDE DEF c
<1>5. Len(c.stack) \in Nat /\ DOMAIN c.stack = 1..Len(c.stack)
  BY <1>2
<1>6. c.at + 1 \in 1..Len(c.stack)
  BY <1>2, <1>3, <1>5
<1>7. c.stack[c.at + 1] \in Frames
  BY <1>2, <1>6, ElementOfSeq
<1> QED BY <1>1, <1>2, <1>3, <1>4, <1>5, <1>6, <1>7 DEF c

\* A callback that writes nothing: the frame is skipped, hidden or only counted.
LEMMA HideOut ==
  ASSUME OutInv, IInv', NEW t \in Threads, call[t].pc = "frames", More(t),
         call' = [call EXCEPT ![t] = Hide(t)], UNCHANGED <<shared, crashed, calls>>,
         ~ call[t].count => ~ Wanted(call[t], Position(t))
  PROVE  OutInv'
<1> DEFINE c == call[t]
           d == Hide(t)
<1>1. /\ calls[t] > 0 /\ GoodCall(c) /\ c \in Calls
      /\ Position(t) = c.at + 1
      /\ c.frames_processed = c.at /\ c.at \in Nat
      /\ c.frame_count \in Nat /\ c.frame_count <= c.at
      /\ Len(c.stack) \in Nat /\ c.at + 1 <= Len(c.stack)
  BY AtCallback
<1>2. /\ d \in Calls /\ Same(c, d)
      /\ d.pc = c.pc /\ d.state = c.state /\ d.out = c.out
      /\ d.at = c.at + 1 /\ d.frames_processed = c.frames_processed + 1
      /\ d.frame_count = c.frame_count
  BY <1>1, HideFields
<1>3. c.pc = "frames" /\ (~ c.count => ~ Wanted(c, c.at + 1))
  BY <1>1
<1>4. call' = [call EXCEPT ![t] = d] /\ overwritten' = overwritten /\ crashed' \in BOOLEAN
  BY DEF shared, OutInv, CallInv
<1> HIDE DEF c, d
<1>5. ASSUME ~ d.count PROVE Written(d)
  <2>1. ~ c.count /\ d.format = c.format
    BY <1>2, <1>5 DEF Same
  <2>2. PICK s : Inner(c, s) /\ c.out = Header(c.format) \o s
    BY <1>1, <1>3, <2>1 DEF GoodCall, Written
  <2>3. Inner(d, s)
    BY <1>1, <1>2, <1>3, <2>1, <2>2, HideInner
  <2> QED BY <1>2, <1>3, <2>1, <2>2, <2>3 DEF Written
<1>6. GoodCall(d)
  <2>1. d.stack = c.stack
    BY <1>2 DEF Same
  <2> QED BY <1>1, <1>2, <1>5, <2>1 DEF GoodCall
<1>7. d.pc # "recheck"
  BY <1>2, <1>3
<1> QED BY <1>1, <1>4, <1>6, <1>7, CallStep

\* What is written for a frame in a dump: itself, after a delimiter where one is due.
FrameText(t, tokens) ==
  \E e \in Tokens :
    /\ e[1] = "frame" /\ e[2] = Position(t) /\ NamesFrame(call[t], e)
    /\ \/ tokens = <<e>> /\ (call[t].format = "csv" \/ call[t].frame_count = 0)
       \/ tokens = Mark("delim") \o <<e>> /\ call[t].format # "csv" /\ call[t].frame_count # 0

\* A callback that shows its frame.
LEMMA ShowOut ==
  ASSUME OutInv, IInv', NEW t \in Threads, call[t].pc = "frames", More(t),
         NEW tokens \in Seq(Tokens),
         call' = [call EXCEPT ![t] = Show(t, tokens)], UNCHANGED <<shared, crashed, calls>>,
         ~ call[t].count => Wanted(call[t], Position(t)) /\ FrameText(t, tokens)
  PROVE  OutInv'
<1> DEFINE c == call[t]
           d == Show(t, tokens)
<1>1. /\ calls[t] > 0 /\ GoodCall(c) /\ c \in Calls
      /\ Position(t) = c.at + 1 /\ c.at + 1 \in DOMAIN c.stack
      /\ c.frames_processed = c.at /\ c.at \in Nat /\ c.format \in AllFormats
      /\ c.frame_count \in Nat /\ c.frame_count <= c.at
      /\ Len(c.stack) \in Nat /\ c.at + 1 <= Len(c.stack)
  BY AtCallback
<1>2. /\ d \in Calls /\ Same(c, d)
      /\ d.pc = c.pc /\ d.state = c.state /\ d.out = c.out \o tokens
      /\ d.at = c.at + 1 /\ d.frames_processed = c.frames_processed + 1
      /\ d.frame_count = c.frame_count + 1
  BY <1>1, ShowFields
<1>3. c.pc = "frames" /\ (~ c.count => Wanted(c, c.at + 1) /\ FrameText(t, tokens))
  BY <1>1
<1>4. call' = [call EXCEPT ![t] = d] /\ overwritten' = overwritten /\ crashed' \in BOOLEAN
  BY DEF shared, OutInv, CallInv
<1>5. FrameText(t, tokens) =>
        \E e \in Tokens :
          /\ e[1] = "frame" /\ e[2] = c.at + 1 /\ NamesFrame(c, e)
          /\ \/ tokens = <<e>> /\ (c.format = "csv" \/ c.frame_count = 0)
             \/ tokens = Mark("delim") \o <<e>> /\ c.format # "csv" /\ c.frame_count # 0
  BY <1>1 DEF FrameText
<1> HIDE DEF c, d
<1>6. ASSUME ~ d.count PROVE Written(d)
  <2>1. ~ c.count /\ d.format = c.format
    BY <1>2, <1>6 DEF Same
  <2>2. PICK s : Inner(c, s) /\ c.out = Header(c.format) \o s
    BY <1>1, <1>3, <2>1 DEF GoodCall, Written
  <2>3. PICK e \in Tokens :
          /\ e[1] = "frame" /\ e[2] = c.at + 1 /\ NamesFrame(c, e)
          /\ \/ tokens = <<e>> /\ (c.format = "csv" \/ c.frame_count = 0)
             \/ tokens = Mark("delim") \o <<e>> /\ c.format # "csv" /\ c.frame_count # 0
    BY <1>3, <1>5, <2>1
  <2>4. Wanted(c, c.at + 1)
    BY <1>3, <2>1
  <2>5. Inner(d, s \o tokens)
    <3>1. CASE tokens = <<e>> /\ (c.format = "csv" \/ c.frame_count = 0)
      BY <1>1, <1>2, <2>2, <2>3, <2>4, <3>1, ShowFirst
    <3>2. CASE tokens = Mark("delim") \o <<e>> /\ c.format # "csv" /\ c.frame_count # 0
      BY <1>1, <1>2, <2>2, <2>3, <2>4, <3>2, ShowNext
    <3> QED BY <2>3, <3>1, <3>2
  <2>6. (Header(c.format) \o s) \o tokens = Header(c.format) \o (s \o tokens)
    <3>1. Header(c.format) \in Seq(Tokens) /\ s \in Seq(Tokens)
      BY <1>1, <2>2, Margins DEF Silent, Inner
    <3> QED BY <3>1, ConcatAssociative
  <2>7. d.out = Header(d.format) \o (s \o tokens)
    BY <1>2, <2>1, <2>2, <2>6
  <2> QED BY <1>2, <1>3, <2>5, <2>7 DEF Written
<1>7. GoodCall(d)
  <2>1. d.stack = c.stack
    BY <1>2 DEF Same
  <2> QED BY <1>1, <1>2, <1>6, <2>1 DEF GoodCall
<1>8. d.pc # "recheck"
  BY <1>2, <1>3
<1> QED BY <1>1, <1>4, <1>7, <1>8, CallStep

\* A frame before the offset is not wanted.
LEMMA SkipOut ==
  ASSUME OutInv, IInv', NEW t \in Threads, SkipFrame(t)
  PROVE  OutInv'
<1>1. /\ call[t].pc = "frames" /\ More(t) /\ call[t].frames_processed < call[t].offset
      /\ call' = [call EXCEPT ![t] = Skip(t)] /\ UNCHANGED <<shared, crashed, calls>>
  BY DEF SkipFrame, Skipped
<1>2. /\ Position(t) = call[t].at + 1 /\ call[t].frames_processed = call[t].at
      /\ call[t].offset \in Nat /\ call[t].at \in Nat /\ call[t] \in Calls
  BY <1>1, AtCallback
<1>3. ~ (Position(t) > call[t].offset)
  BY <1>1, <1>2
<1>4. ~ Wanted(call[t], Position(t))
  BY <1>3 DEF Wanted
<1>5. Skip(t) = Hide(t)
  BY DEF Skip, Hide
<1> QED BY <1>1, <1>4, <1>5, HideOut

\* A frame past the offset is shown exactly if it is wanted, in a line or in a row.
LEMMA DumpOut ==
  ASSUME OutInv, IInv', NEW t \in Threads, DumpFrame(t) \/ DumpRow(t)
  PROVE  OutInv'
<1>1. /\ call[t].pc = "frames" /\ More(t) /\ ~ call[t].count
      /\ ~ (call[t].frames_processed < call[t].offset)
      /\ UNCHANGED <<shared, crashed, calls>>
  BY DEF DumpFrame, DumpRow, AtFrame, Skipped
<1>2. /\ Position(t) = call[t].at + 1 /\ call[t].frames_processed = call[t].at
      /\ call[t].offset \in Nat /\ call[t].at \in Nat /\ call[t] \in Calls
      /\ Frame(t) \in Frames /\ call[t].hooks \in Hooks /\ call[t].format \in AllFormats
  BY <1>1, AtCallback
<1>3. Position(t) > call[t].offset /\ Position(t) \in Nat
  BY <1>1, <1>2
<1>4. Wanted(call[t], Position(t)) <=> ~ Boring(t)
  BY <1>2, <1>3, BoringUnwanted
<1>5. CASE Boring(t)
  <2>1. call' = [call EXCEPT ![t] = Hide(t)]
    BY <1>5 DEF DumpFrame, DumpRow
  <2> QED BY <1>1, <1>4, <1>5, <2>1, HideOut
<1>6. CASE ~ Boring(t)
  <2>1. ASSUME NEW text, text \in Seq(Words)
        PROVE  LET e == <<"frame", Position(t), text>>
               IN  e \in Tokens /\ e[1] = "frame" /\ e[2] = Position(t) /\ <<e>> \in Seq(Tokens)
    <3> DEFINE e == <<"frame", Position(t), text>>
    <3>1. e \in Tokens /\ e[1] = "frame" /\ e[2] = Position(t)
      BY <1>3, <2>1 DEF Tokens
    <3> HIDE DEF e
    <3>2. <<e>> \in Seq(Tokens)
      BY <3>1
    <3> QED BY <3>1, <3>2 DEF e
  <2>2. CASE DumpFrame(t)
    <3> DEFINE e == <<"frame", Position(t), Shows(t)>>
               tokens == Delim(t) \o <<e>>
    <3>1. call[t].format # "csv" /\ call' = [call EXCEPT ![t] = Show(t, tokens)]
      BY <1>6, <2>2 DEF DumpFrame
    <3>2. Shows(t) \in Seq(Words) /\ NamesFrame(call[t], e)
      BY <1>2, <3>1, ShowsNames
    <3>3. e \in Tokens /\ e[1] = "frame" /\ e[2] = Position(t) /\ <<e>> \in Seq(Tokens)
      BY <2>1, <3>2
    <3>tokens. tokens = Delim(t) \o <<e>>
      OBVIOUS
    <3> HIDE DEF e, tokens
    <3>4. tokens \in Seq(Tokens) /\ FrameText(t, tokens)
      <4>1. CASE call[t].frame_count = 0
        <5>1. tokens = << >> \o <<e>>
          BY <3>tokens, <4>1 DEF Delim
        <5>2. tokens = <<e>>
          BY <3>3, <5>1, ConcatEmptySeq
        <5> QED BY <3>2, <3>3, <4>1, <5>2 DEF FrameText
      <4>2. CASE call[t].frame_count # 0
        <5>1. tokens = Mark("delim") \o <<e>>
          BY <3>tokens, <4>2 DEF Delim
        <5>2. Mark("delim") \in Seq(Tokens)
          <6> DEFINE delim == <<"delim", 0, << >> >>
          <6>1. << >> \in Seq(Words)
            BY EmptySeq
          <6>2. delim \in Tokens
            BY <6>1 DEF Tokens
          <6>3. Mark("delim") = <<delim>>
            BY DEF Mark
          <6> HIDE DEF delim
          <6>4. <<delim>> \in Seq(Tokens)
            BY <6>2
          <6> QED BY <6>3, <6>4
        <5>3. tokens \in Seq(Tokens)
          BY <3>3, <5>1, <5>2, ConcatProperties
        <5> QED BY <3>1, <3>2, <3>3, <4>2, <5>1, <5>3 DEF FrameText
      <4> QED BY <4>1, <4>2
    <3> QED BY <1>1, <1>4, <1>6, <3>1, <3>4, ShowOut
  <2>3. CASE DumpRow(t)
    <3> DEFINE e == <<"frame", Position(t), Row(t)>>
               tokens == <<e>>
    <3>1. call[t].format = "csv" /\ call' = [call EXCEPT ![t] = Show(t, tokens)]
      BY <1>6, <2>3 DEF DumpRow
    <3>2. Row(t) \in Seq(Words) /\ NamesFrame(call[t], e)
      BY <1>2, <3>1, RowNames
    <3>3. e \in Tokens /\ e[1] = "frame" /\ e[2] = Position(t) /\ tokens \in Seq(Tokens)
      BY <2>1, <3>2
    <3>tokens. tokens = <<e>>
      OBVIOUS
    <3> HIDE DEF e, tokens
    <3>4. FrameText(t, tokens)
      BY <3>tokens, <3>1, <3>2, <3>3 DEF FrameText
    <3> QED BY <1>1, <1>4, <1>6, <3>1, <3>3, <3>4, ShowOut
  <2> QED BY <2>2, <2>3
<1> QED BY <1>5, <1>6

\* A frame that is only counted, or that ends the process.
LEMMA CountOut ==
  ASSUME OutInv, IInv', NEW t \in Threads, CountFrame(t)
  PROVE  OutInv'
<1>1. call[t].pc = "frames" /\ More(t) /\ call[t].count /\ UNCHANGED <<shared, calls>>
  BY DEF CountFrame, AtFrame
<1>2. CASE crashed' = TRUE /\ UNCHANGED call
  <2>1. FailInv'
    BY <1>1, <1>2 DEF OutInv, FailInv, shared
  <2>2. CallInv'
    BY <1>1, <1>2 DEF OutInv, CallInv
  <2> QED BY <2>1, <2>2 DEF OutInv
<1>3. CASE UNCHANGED crashed /\ call' = [call EXCEPT ![t] = Hide(t)]
  BY <1>1, <1>3, HideOut
<1>4. CASE UNCHANGED crashed /\ call' = [call EXCEPT ![t] = Show(t, << >>)]
  <2>1. << >> \in Seq(Tokens)
    BY EmptySeq
  <2> QED BY <1>1, <1>4, <2>1, ShowOut
<1> QED BY <1>2, <1>3, <1>4 DEF CountFrame

\* After the last frame the trailer is written.
LEMMA FooterOut ==
  ASSUME OutInv, IInv', NEW t \in Threads, Footer(t)
  PROVE  OutInv'
<1>1. /\ call[t].pc = "frames" /\ ~ (call[t].at < Len(call[t].stack))
      /\ UNCHANGED <<shared, crashed, calls>>
  BY DEF Footer, More
<1>2. calls[t] > 0 /\ GoodCall(call[t]) /\ call[t] \in Calls
  BY <1>1, Running
<1> DEFINE c == call[t]
<1>3. /\ c.offset \in Nat /\ c.out \in Seq(Tokens) /\ c.state \in Threads \cup {NoState} /\ Whole(c)
      /\ c.stack \in Seq(Frames) /\ c.format \in AllFormats /\ c.at \in Nat
  BY <1>2, CallFields
<1>4. PICK out : out = IF c.count THEN c.out ELSE c.out \o Trailer(c.format)
  OBVIOUS
<1>5. PICK new : new = [c EXCEPT !.pc = "returned", !.out = out]
  OBVIOUS
<1>6. call' = [call EXCEPT ![t] = new]
  BY <1>4, <1>5 DEF Footer
<1>7. c \in Calls /\ GoodCall(c)
  BY <1>2
<1> HIDE DEF c
<1>8. out \in Seq(Tokens)
  <2>1. Trailer(c.format) \in Seq(Tokens)
    BY <1>3, Margins DEF Silent
  <2>2. c.out \o Trailer(c.format) \in Seq(Tokens)
    BY <1>3, <2>1, ConcatProperties
  <2> QED BY <1>3, <1>4, <2>2
<1>9. Rewrites(c, "returned", c.state, c.offset, out, new)
  BY <1>3, <1>5 DEF Whole, Rewrites
<1>10. /\ new \in Calls
       /\ new.pc = "returned" /\ new.state = c.state /\ new.offset = c.offset /\ new.out = out
       /\ new.count = c.count /\ new.stack = c.stack /\ new.format = c.format /\ new.hooks = c.hooks
       /\ new.at = c.at /\ new.frames_processed = c.frames_processed /\ new.frame_count = c.frame_count
  BY <1>3, <1>7, <1>8, <1>9, Rewritten
<1>11. ASSUME ~ new.count PROVE Written(new)
  <2>1. PICK s : Inner(c, s) /\ c.out = Header(c.format) \o s
    BY <1>1, <1>7, <1>10, <1>11 DEF GoodCall, Written, c
  <2>2. new.out = Header(new.format) \o s \o Trailer(new.format)
    BY <1>4, <1>10, <1>11, <2>1
  <2>3. new.at = Len(new.stack)
    <3>1. Len(c.stack) \in Nat /\ c.at <= Len(c.stack) /\ ~ (c.at < Len(c.stack))
      BY <1>1, <1>3, <1>7 DEF GoodCall, c
    <3> QED BY <1>3, <1>10, <3>1
  <2>4. Inner(new, s)
    <3>1. Same(c, new)
      BY <1>10 DEF Same
    <3>2. Tells(new, new.at, s)
      BY <1>10, <2>1, <3>1, SameTells DEF Inner
    <3>3. Lined(new, s)
      BY <1>10, <2>1 DEF Inner, Lined, Size, Kind
    <3> QED BY <2>1, <3>2, <3>3 DEF Inner
  <2> QED BY <1>10, <2>2, <2>3, <2>4 DEF Written
<1>12. GoodCall(new)
  BY <1>7, <1>10, <1>11 DEF GoodCall
<1>13. new.pc # "recheck" /\ overwritten' = overwritten /\ crashed' \in BOOLEAN
  BY <1>1, <1>10 DEF shared, OutInv, CallInv
<1> QED BY <1>1, <1>2, <1>6, <1>12, <1>13, CallStep

\* No step of any thread breaks the second invariant.
LEMMA StepOut == OutInv /\ [Next]_vars => OutInv'
<1> SUFFICES ASSUME OutInv, [Next]_vars PROVE OutInv'
  OBVIOUS
<1>1. IInv'
  BY StepIInv DEF OutInv
<1>2. CASE UNCHANGED vars
  <2>1. UNCHANGED <<overwritten, crashed, calls, call>>
    BY <1>2 DEF vars, shared
  <2>2. FailInv' /\ CallInv'
    BY <2>1 DEF OutInv, FailInv, CallInv
  <2> QED BY <1>1, <2>2 DEF OutInv
<1>3. ASSUME NEW t \in Threads, Step(t)
      PROVE  OutInv'
  BY <1>1, <1>3, BeginOut, StateOut, RecheckOut, WalkOut, SkipOut, DumpOut, CountOut, FooterOut DEF Step
<1> QED BY <1>2, <1>3 DEF Next

\* The second invariant holds in every reachable state.
LEMMA OutInvariance == Spec => []OutInv
  BY InitOut, StepOut, PTL DEF Spec

(***************************************************************************)
(* What a dump shows                                                       *)
(***************************************************************************)

\* TypeOK: every call keeps its arguments and its counters, and the callback is
\* never called for more frames than there are (backtrace.c:255-281).
THEOREM TypeCorrect == Spec => []TypeOK
<1>1. OutInv => TypeOK
  <2> SUFFICES ASSUME OutInv PROVE TypeOK
    OBVIOUS
  <2>1. /\ global_state \in Threads \cup {NoState} /\ created \in [Threads -> Nat]
        /\ overwritten \in BOOLEAN /\ crashed \in BOOLEAN
    BY DEF OutInv, IInv, Shape, CallInv
  <2>2. ASSUME NEW t \in Threads PROVE calls[t] \in 0..MaxCalls[t]
    BY DEF OutInv, CallInv
  <2>3. ASSUME NEW t \in Threads, calls[t] > 0
        PROVE  /\ call[t] \in Calls
               /\ call[t].frame_count <= call[t].frames_processed
               /\ call[t].frames_processed = call[t].at
               /\ call[t].at <= Len(call[t].stack)
    BY <2>3 DEF OutInv, CallInv, GoodCall
  <2> QED BY <2>1, <2>2, <2>3 DEF TypeOK
<1> QED BY OutInvariance, <1>1, PTL

\* A dump that has returned has given up or is complete.
LEMMA DumpEnds ==
  ASSUME OutInv, NEW t \in Threads, Dumped(t), ~ GaveUp(t)
  PROVE  \E s : /\ Inner(call[t], s) /\ call[t].at = Len(call[t].stack)
                /\ call[t].out = Header(call[t].format) \o s \o Trailer(call[t].format)
                /\ call[t] \in Calls
BY DEF OutInv, CallInv, GoodCall, Written, Dumped, GaveUp

\* A sequence between two others.
Between(h, s, z, out) ==
  /\ Len(h) \in Nat /\ Len(s) \in Nat /\ Len(z) \in Nat
  /\ Len(out) = Len(h) + Len(s) + Len(z) /\ DOMAIN out = 1..Len(out)
  /\ DOMAIN h = 1..Len(h) /\ DOMAIN s = 1..Len(s) /\ DOMAIN z = 1..Len(z)
  /\ \A k \in 1..Len(h) : out[k] = h[k]
  /\ \A k \in 1..Len(s) : out[Len(h) + k] = s[k]
  /\ \A k \in 1..Len(z) : out[Len(h) + Len(s) + k] = z[k]

LEMMA Placed ==
  ASSUME NEW S, NEW h \in Seq(S), NEW s \in Seq(S), NEW z \in Seq(S)
  PROVE  Between(h, s, z, h \o s \o z)
<1> DEFINE y == h \o s
           out == y \o z
<1>1. /\ Len(h) \in Nat /\ Len(s) \in Nat /\ Len(z) \in Nat
      /\ DOMAIN h = 1..Len(h) /\ DOMAIN s = 1..Len(s) /\ DOMAIN z = 1..Len(z)
  BY LenProperties
<1>2. y \in Seq(S) /\ Len(y) = Len(h) + Len(s)
  BY ConcatProperties
<1>3. \A i \in 1..(Len(h) + Len(s)) : y[i] = IF i <= Len(h) THEN h[i] ELSE s[i - Len(h)]
  BY ConcatProperties
<1> HIDE DEF y
<1>4. out \in Seq(S) /\ Len(out) = Len(y) + Len(z)
  BY <1>2, ConcatProperties
<1>5. \A i \in 1..(Len(y) + Len(z)) : out[i] = IF i <= Len(y) THEN y[i] ELSE z[i - Len(y)]
  BY <1>2, ConcatProperties
<1>6. DOMAIN out = 1..Len(out)
  BY <1>4, LenProperties
<1> HIDE DEF out
<1>7. ASSUME NEW k \in 1..Len(h) PROVE out[k] = h[k]
  <2>1. k \in 1..(Len(h) + Len(s)) /\ k \in 1..(Len(y) + Len(z)) /\ k <= Len(h) /\ k <= Len(y)
    BY <1>1, <1>2
  <2> QED BY <1>3, <1>5, <2>1
<1>8. ASSUME NEW k \in 1..Len(s) PROVE out[Len(h) + k] = s[k]
  <2> DEFINE i == Len(h) + k
  <2>1. /\ i \in 1..(Len(h) + Len(s)) /\ i \in 1..(Len(y) + Len(z)) /\ ~ (i <= Len(h)) /\ i <= Len(y)
        /\ i - Len(h) = k
    BY <1>1, <1>2
  <2> HIDE DEF i
  <2>2. out[i] = s[k]
    BY <1>3, <1>5, <2>1
  <2> QED BY <2>2 DEF i
<1>9. ASSUME NEW k \in 1..Len(z) PROVE out[Len(h) + Len(s) + k] = z[k]
  <2> DEFINE i == Len(h) + Len(s) + k
  <2>1. i \in 1..(Len(y) + Len(z)) /\ ~ (i <= Len(y)) /\ i - Len(y) = k
    BY <1>1, <1>2
  <2> HIDE DEF i
  <2>2. out[i] = z[k]
    BY <1>5, <2>1
  <2> QED BY <2>2 DEF i
<1>10. Len(out) = Len(h) + Len(s) + Len(z)
  BY <1>1, <1>2, <1>4
<1>11. Between(h, s, z, out)
  BY <1>1, <1>6, <1>7, <1>8, <1>9, <1>10 DEF Between
<1> QED BY <1>11 DEF out, y

\* The tokens of frames stand between header and trailer.
LEMMA FramesBetween ==
  ASSUME NEW h, NEW s, NEW z, NEW out, Between(h, s, z, out), Silent(h), Silent(z)
  PROVE  /\ \A k \in DOMAIN out : out[k][1] = "frame" => k - Len(h) \in DOMAIN s /\ out[k] = s[k - Len(h)]
         /\ \A k \in DOMAIN s : Len(h) + k \in DOMAIN out /\ out[Len(h) + k] = s[k]
<1>1. ASSUME NEW k \in DOMAIN out, out[k][1] = "frame"
      PROVE  k - Len(h) \in DOMAIN s /\ out[k] = s[k - Len(h)]
  <2>1. k \in 1..(Len(h) + Len(s) + Len(z)) /\ Len(h) \in Nat /\ Len(s) \in Nat /\ Len(z) \in Nat
    BY DEF Between
  <2>2. ~ (k \in 1..Len(h))
    BY <1>1 DEF Between, Silent
  <2>3. ~ (k - (Len(h) + Len(s)) \in 1..Len(z))
    <3> SUFFICES ASSUME k - (Len(h) + Len(s)) \in 1..Len(z) PROVE FALSE
      OBVIOUS
    <3> DEFINE j == k - (Len(h) + Len(s))
    <3>1. j \in 1..Len(z) /\ k = Len(h) + Len(s) + j
      BY <2>1
    <3> HIDE DEF j
    <3>2. out[k] = z[j] /\ j \in DOMAIN z
      BY <3>1 DEF Between
    <3> QED BY <1>1, <3>2 DEF Silent
  <2> DEFINE i == k - Len(h)
  <2>4. i \in 1..Len(s) /\ k = Len(h) + i
    BY <2>1, <2>2, <2>3
  <2> HIDE DEF i
  <2>5. i \in DOMAIN s /\ out[k] = s[i]
    BY <2>4 DEF Between
  <2> QED BY <2>5 DEF i
<1>2. ASSUME NEW k \in DOMAIN s
      PROVE  Len(h) + k \in DOMAIN out /\ out[Len(h) + k] = s[k]
  <2>1. /\ k \in 1..Len(s) /\ Len(h) \in Nat /\ Len(s) \in Nat /\ Len(z) \in Nat
        /\ DOMAIN out = 1..(Len(h) + Len(s) + Len(z))
    BY DEF Between
  <2>2. Len(h) + k \in DOMAIN out
    BY <2>1
  <2> QED BY <2>1, <2>2 DEF Between
<1> QED BY <1>1, <1>2

\* What a dump that is complete has written, and where.
LEMMA DumpParts ==
  ASSUME OutInv, NEW t \in Threads, Dumped(t), ~ GaveUp(t)
  PROVE  LET c == call[t]
         IN  \E s : /\ Inner(c, s) /\ c.at = Len(c.stack) /\ c \in Calls
                    /\ c.out = Header(c.format) \o s \o Trailer(c.format)
                    /\ Between(Header(c.format), s, Trailer(c.format), c.out)
                    /\ Silent(Header(c.format)) /\ Silent(Trailer(c.format))
<1> DEFINE c == call[t]
<1>1. PICK s : /\ Inner(c, s) /\ c.at = Len(c.stack)
               /\ c.out = Header(c.format) \o s \o Trailer(c.format)
               /\ c \in Calls
  BY DumpEnds
<1> HIDE DEF c
<1>2. Silent(Header(c.format)) /\ Silent(Trailer(c.format))
  BY <1>1, CallFields, Margins
<1>3. Header(c.format) \in Seq(Tokens) /\ s \in Seq(Tokens) /\ Trailer(c.format) \in Seq(Tokens)
  BY <1>1, <1>2 DEF Inner, Silent
<1>4. Between(Header(c.format), s, Trailer(c.format), c.out)
  BY <1>1, <1>3, Placed
<1> QED BY <1>1, <1>2, <1>4 DEF c

\* FramesShown: a dump that does not give up shows every frame past the offset that
\* is not called boring, and no other one, innermost first, for call stacks of any
\* length (backtrace.c:255-307).
THEOREM ShowsWhatIsWanted == Spec => []FramesShown
<1>1. OutInv => FramesShown
  <2> SUFFICES ASSUME OutInv, NEW t \in Threads, Dumped(t), ~ GaveUp(t)
               PROVE  LET c == call[t]
                      IN  /\ {c.out[k][2] : k \in FrameTokens(c)} = {q \in DOMAIN c.stack : Wanted(c, q)}
                          /\ \A k, m \in FrameTokens(c) : k < m => c.out[k][2] < c.out[m][2]
    BY DEF FramesShown
  <2> DEFINE c == call[t]
  <2>1. PICK s : /\ Inner(c, s) /\ c.at = Len(c.stack) /\ c \in Calls
                 /\ Between(Header(c.format), s, Trailer(c.format), c.out)
                 /\ Silent(Header(c.format)) /\ Silent(Trailer(c.format))
    BY DumpParts
  <2> HIDE DEF c
  <2>n. PICK n : n = Len(Header(c.format))
    OBVIOUS
  <2>2. /\ \A k \in DOMAIN c.out : c.out[k][1] = "frame" => k - n \in DOMAIN s /\ c.out[k] = s[k - n]
        /\ \A k \in DOMAIN s : n + k \in DOMAIN c.out /\ c.out[n + k] = s[k]
    BY <2>1, <2>n, FramesBetween
  <2>3. DOMAIN c.stack = 1..c.at
    BY <2>1, CallFields, LenProperties
  <2>4. Tells(c, c.at, s)
    BY <2>1 DEF Inner
  <2>5. n \in Nat /\ DOMAIN c.out = 1..Len(c.out) /\ Len(c.out) \in Nat
    BY <2>1, <2>n, CallFields, LenProperties DEF Between
  <2>6. ASSUME NEW k \in FrameTokens(c)
        PROVE  k \in DOMAIN c.out /\ k \in Int /\ k - n \in DOMAIN s /\ c.out[k] = s[k - n] /\ IsFrame(s[k - n])
    BY <2>2, <2>5 DEF FrameTokens, IsFrame
  <2>7. \A k \in FrameTokens(c) : c.out[k][2] \in DOMAIN c.stack /\ Wanted(c, c.out[k][2])
    BY <2>4, <2>6 DEF Tells
  <2>8. ASSUME NEW q \in DOMAIN c.stack, Wanted(c, q)
        PROVE  \E k \in FrameTokens(c) : c.out[k][2] = q
    <3>1. PICK k \in DOMAIN s : IsFrame(s[k]) /\ s[k][2] = q
      BY <2>3, <2>4, <2>8 DEF Tells
    <3>2. n + k \in FrameTokens(c) /\ c.out[n + k][2] = q
      BY <2>2, <3>1 DEF FrameTokens, IsFrame
    <3> QED BY <3>2
  <2>9. ASSUME NEW k \in FrameTokens(c), NEW m \in FrameTokens(c), k < m
        PROVE  c.out[k][2] < c.out[m][2]
    <3>1. /\ k - n \in DOMAIN s /\ c.out[k] = s[k - n] /\ IsFrame(s[k - n]) /\ k \in Int
          /\ m - n \in DOMAIN s /\ c.out[m] = s[m - n] /\ IsFrame(s[m - n]) /\ m \in Int
      BY <2>6
    <3>2. k - n < m - n
      BY <2>5, <2>9, <3>1
    <3>3. s[k - n][2] < s[m - n][2]
      BY <2>4, <3>1, <3>2 DEF Tells
    <3> QED BY <3>1, <3>3
  <2>10. {c.out[k][2] : k \in FrameTokens(c)} = {q \in DOMAIN c.stack : Wanted(c, q)}
    BY <2>7, <2>8
  <2> QED BY <2>9, <2>10 DEF c
<1> QED BY OutInvariance, <1>1, PTL

\* OneFramePerLine: delimiters stand between the frames and nowhere else, and the
\* format opens and closes around them once (backtrace.c:233, 303, 385-389, 419-420).
THEOREM LinesOfFrames == Spec => []OneFramePerLine
<1>1. OutInv => OneFramePerLine
  <2> SUFFICES ASSUME OutInv, NEW t \in Threads, Dumped(t), ~ GaveUp(t)
               PROVE  LET c     == call[t]
                          inner == SubSeq(c.out, Len(Header(c.format)) + 1, Len(c.out) - Len(Trailer(c.format)))
                      IN  /\ c.out = Header(c.format) \o inner \o Trailer(c.format)
                          /\ \A k \in DOMAIN inner :
                               inner[k][1] = IF c.format = "csv" \/ k % 2 = 1 THEN "frame" ELSE "delim"
                          /\ c.format # "csv" /\ inner # << >> => Len(inner) % 2 = 1
    BY DEF OneFramePerLine
  <2> DEFINE c == call[t]
             h == Header(c.format)
             z == Trailer(c.format)
             inner == SubSeq(c.out, Len(h) + 1, Len(c.out) - Len(z))
  <2>1. PICK s : /\ Inner(c, s) /\ c \in Calls
                 /\ c.out = h \o s \o z
                 /\ Between(h, s, z, c.out)
    BY DumpParts
  <2> HIDE DEF c, h, z
  <2>2. /\ Len(h) \in Nat /\ Len(s) \in Nat /\ Len(z) \in Nat
        /\ Len(c.out) - Len(z) = Len(h) + Len(s)
    BY <2>1 DEF Between
  <2>3. s \in Seq(Tokens) /\ DOMAIN s = 1..Len(s)
    BY <2>1 DEF Inner, Between
  <2>4. \A k \in 1..Len(s) : c.out[Len(h) + k] = s[k]
    BY <2>1 DEF Between
  <2>5. inner = s
    <3>1. ASSUME NEW k \in (Len(h) + 1)..(Len(h) + Len(s)) PROVE c.out[k] \in Tokens
      <4> DEFINE i == k - Len(h)
      <4>1. i \in 1..Len(s) /\ k = Len(h) + i
        BY <2>2
      <4> HIDE DEF i
      <4> QED BY <2>3, <2>4, <4>1, ElementOfSeq
    <3>2. inner = SubSeq(c.out, Len(h) + 1, Len(h) + Len(s))
      BY <2>2
    <3> DEFINE a == Len(h) + 1
               b == Len(h) + Len(s)
    <3>3. a \in Int /\ b \in Int /\ b - a + 1 = Len(s) /\ (a <= b \/ Len(s) = 0) /\ (a <= b <=> Len(s) # 0)
      BY <2>2
    <3>4. /\ SubSeq(c.out, a, b) \in Seq(Tokens)
          /\ Len(SubSeq(c.out, a, b)) = IF a <= b THEN b - a + 1 ELSE 0
          /\ \A i \in 1..(b - a + 1) : SubSeq(c.out, a, b)[i] = c.out[a + i - 1]
      BY <3>1, <3>3, SubSeqProperties
    <3>5. Len(SubSeq(c.out, a, b)) = Len(s)
      BY <2>2, <3>3, <3>4
    <3>6. \A i \in 1..Len(s) : SubSeq(c.out, a, b)[i] = s[i]
      <4> SUFFICES ASSUME NEW i \in 1..Len(s) PROVE SubSeq(c.out, a, b)[i] = s[i]
        OBVIOUS
      <4>1. a + i - 1 = Len(h) + i /\ i \in 1..(b - a + 1)
        BY <2>2, <3>3
      <4> QED BY <2>4, <3>4, <4>1
    <3>7. SubSeq(c.out, a, b) = s
      <4> HIDE DEF a, b
      <4> QED BY <2>3, <3>4, <3>5, <3>6, SeqEqual
    <3> QED BY <3>2, <3>7
  <2> HIDE DEF inner
  <2>6. \A k \in DOMAIN s : s[k][1] = IF c.format = "csv" \/ k % 2 = 1 THEN "frame" ELSE "delim"
    BY <2>1 DEF Inner, Lined, Kind
  <2>7. ASSUME c.format # "csv", s # << >> PROVE Len(s) % 2 = 1
    <3>1. Len(s) = Size(c) /\ c.frame_count \in Nat
      BY <2>1, <2>7, CallFields DEF Inner, Lined
    <3>2. Len(s) # 0
      BY <2>3, <2>7, EmptySeq
    <3>3. Len(s) = 2 * c.frame_count - 1 /\ c.frame_count # 0
      BY <3>1, <3>2 DEF Size
    <3>4. \A n \in Nat \ {0} : (2 * n - 1) % 2 = 1
      OBVIOUS
    <3> QED BY <3>1, <3>3, <3>4
  <2>8. /\ c.out = h \o inner \o z
        /\ \A k \in DOMAIN inner : inner[k][1] = IF c.format = "csv" \/ k % 2 = 1 THEN "frame" ELSE "delim"
        /\ c.format # "csv" /\ inner # << >> => Len(inner) % 2 = 1
    BY <2>1, <2>5, <2>6, <2>7
  <2> QED BY <2>8 DEF c, h, z, inner
<1> QED BY OutInvariance, <1>1, PTL

\* FramesNamed: the text of every frame that is shown is its name, or the answer of the
\* symbolizer; trimming an answer loses its first word, if there are others, and what
\* begins with an offset, and nothing else (backtrace.c:50-78, 225-227, 291, 344).
THEOREM NamesFrames == Spec => []FramesNamed
<1>1. OutInv => FramesNamed
  <2> SUFFICES ASSUME OutInv, NEW t \in Threads, Dumped(t),
                      NEW k \in DOMAIN call[t].out, call[t].out[k][1] = "frame"
               PROVE  NamesFrame(call[t], call[t].out[k])
    BY DEF FramesNamed, FrameTokens, NamesFrame
  <2> DEFINE c == call[t]
  <2>1. CASE GaveUp(t)
    <3>1. c.out = Header(c.format) /\ c \in Calls
      BY <2>1 DEF GaveUp, OutInv, CallInv, GoodCall, Dumped
    <3>2. c.out[k][1] # "frame"
      BY <3>1, CallFields, Margins DEF Silent
    <3> QED BY <3>2
  <2>2. CASE ~ GaveUp(t)
    <3>1. PICK s : /\ Inner(c, s)
                   /\ Between(Header(c.format), s, Trailer(c.format), c.out)
                   /\ Silent(Header(c.format)) /\ Silent(Trailer(c.format))
      BY <2>2, DumpParts
    <3>2. k \in DOMAIN c.out /\ c.out[k][1] = "frame"
      OBVIOUS
    <3> HIDE DEF c
    <3>3. PICK i \in DOMAIN s : c.out[k] = s[i]
      BY <3>1, <3>2, FramesBetween
    <3>4. NamesFrame(c, s[i])
      BY <3>1, <3>2, <3>3 DEF Inner, Tells, IsFrame
    <3> QED BY <3>3, <3>4 DEF c
  <2> QED BY <2>1, <2>2
<1> QED BY OutInvariance, <1>1, PTL
=============================================================================
