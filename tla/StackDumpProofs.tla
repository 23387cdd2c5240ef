---------------------------- MODULE StackDumpProofs ----------------------------
(***************************************************************************)
(* Proofs about a dump of the execinfo backend, for call stacks of any     *)
(* length, whatever dladdr, the symbolizer and the filter say of a frame.  *)
(***************************************************************************)
EXTENDS StackDump, SequenceTheorems, TLAPS

\* What a call is given.
InputInv ==
  /\ callstack \in Seq(Frames)
  /\ offset \in Nat /\ format \in Formats /\ hooks \in Hooks
  /\ Len(callstack) \in Nat /\ DOMAIN callstack = 1..Len(callstack)
  /\ \A q \in 1..Len(callstack) : callstack[q] \in Frames

\* Where the loop is: p and i count the same frames from both ends, and the loop
\* never goes below the offset, unless it has no frame to look at.
LoopInv ==
  /\ pc \in {"header", "frames", "returned"}
  /\ pc = "header" => p = 0 /\ i = 0 /\ out = << >> /\ calls = << >>
  /\ pc # "header" =>
       /\ p \in 0..Len(callstack) /\ i = Len(callstack) - p
       /\ p < offset => p = Len(callstack)
  /\ pc = "returned" => p <= offset

\* What the questions to the symbolizer look like; they are about frames that the
\* loop has passed.
CallsInv ==
  /\ calls \in Seq((0..Len(callstack)) \X Int)
  /\ pc # "header" => calls # << >>
  /\ \A k \in DOMAIN calls : calls[k][1] # 0 => calls[k][1] > p
  /\ SymbolizerSession

\* A sequence of one element more.
LEMMA Appended ==
  ASSUME NEW S, NEW s \in Seq(S), NEW e \in S
  PROVE  /\ Append(s, e) \in Seq(S)
         /\ Len(Append(s, e)) = Len(s) + 1 /\ Len(s) \in Nat
         /\ DOMAIN Append(s, e) = 1..(Len(s) + 1) /\ DOMAIN s = 1..Len(s)
         /\ Append(s, e)[Len(s) + 1] = e
         /\ \A k \in 1..Len(s) : Append(s, e)[k] = s[k]
OBVIOUS

\* The arguments of the call that the runs enumerate are call stacks.
LEMMA InitInput == Init => InputInv
<1> SUFFICES ASSUME Init PROVE InputInv
  OBVIOUS
<1>1. PICK m \in 0..MaxFrames : callstack \in [1..m -> Frames]
  BY DEF Init, BoundedSeq, SeqOf
<1>2. m \in Nat
  BY <1>1, WindowAssumption
<1>3. callstack \in Seq(Frames)
  BY <1>1, <1>2
<1>4. Len(callstack) \in Nat /\ DOMAIN callstack = 1..Len(callstack)
  BY <1>3
<1>5. \A q \in 1..Len(callstack) : callstack[q] \in Frames
  BY <1>3, <1>4
<1>6. offset \in Nat /\ format \in Formats /\ hooks \in Hooks
  BY WindowAssumption DEF Init
<1> QED BY <1>3, <1>4, <1>5, <1>6 DEF InputInv

\* They do not change.
LEMMA NextInput ==
  ASSUME InputInv, [Next]_vars
  PROVE  InputInv' /\ UNCHANGED input
<1>1. UNCHANGED input
  BY DEF Next, Header, DumpFrame, Footer, vars
<1> QED BY <1>1 DEF InputInv, input

\* The loop keeps its bounds.
LEMMA NextLoop ==
  ASSUME InputInv, LoopInv, [Next]_vars
  PROVE  LoopInv'
<1>1. UNCHANGED <<callstack, offset>> /\ Len(callstack) \in Nat /\ offset \in Nat
  BY NextInput DEF input, InputInv
<1>2. CASE Header
  BY <1>1, <1>2 DEF Header, LoopInv, EndOfFrames
<1>3. CASE DumpFrame
  BY <1>1, <1>3 DEF DumpFrame, More, LoopInv
<1>4. CASE Footer
  BY <1>1, <1>4 DEF Footer, More, LoopInv
<1>5. CASE UNCHANGED vars
  BY <1>1, <1>5 DEF LoopInv, vars, input
<1> QED BY <1>2, <1>3, <1>4, <1>5 DEF Next

(***************************************************************************)
(* The symbolizer                                                          *)
(***************************************************************************)

\* A symbol has a distance.
LEMMA FrameDistance ==
  ASSUME NEW f \in Frames
  PROVE  f.distance \in Nat
<1>1. CASE f \in [dl : {TRUE}, name : Names, distance : Distances, answer : Names \cup {NoAnswer}]
  BY <1>1, WindowAssumption
<1>2. CASE f \in [dl : {FALSE}, name : {""}, distance : {0}, answer : Names \cup {NoAnswer}]
  <2>1. f.distance \in {0}
    BY <1>2
  <2> QED BY <2>1
<1>3. CASE f \in [dl : {TRUE}, name : {""}, distance : {0}, answer : Names \cup {NoAnswer}]
  <2>1. f.distance \in {0}
    BY <1>3
  <2> QED BY <2>1
<1> QED BY <1>1, <1>2, <1>3 DEF Frames

\* What the symbolizer is asked of a frame lies in the window, so that it is not the
\* value for tear-down, and is less than what dladdr knows.
LEMMA Questions ==
  ASSUME NEW f \in Frames, Asks(f)
  PROVE  Reach(f) - 1 \in 0..(Window - 1) /\ (f.name # "" => Reach(f) - 1 < f.distance)
<1>1. f.distance \in Nat
  BY FrameDistance
<1>2. Reach(f) # 0 /\ Window \in Nat \ {0}
  BY WindowAssumption DEF Asks
<1>3. Reach(f) - 1 \in 0..(Window - 1) /\ (f.name # "" => Reach(f) - 1 < f.distance)
  <2>1. ASSUME NEW d \in Nat, NEW w \in Nat \ {0}, NEW r, r # 0,
               \/ d < w /\ r = d
               \/ ~ (d < w) /\ r = w
        PROVE  r - 1 \in 0..(w - 1) /\ r - 1 < d
    <3>1. r \in Nat /\ r # 0 /\ r <= w /\ r <= d
      BY <2>1
    <3> QED BY <3>1
  <2>2. ASSUME NEW w \in Nat \ {0}
        PROVE  w - 1 \in 0..(w - 1)
    OBVIOUS
  <2>3. CASE f.name = ""
    <3>1. Reach(f) = Window
      BY <2>3 DEF Reach
    <3> QED BY <1>2, <2>2, <2>3, <3>1
  <2>4. CASE f.name # ""
    <3>1. \/ f.distance < Window /\ Reach(f) = f.distance
          \/ ~ (f.distance < Window) /\ Reach(f) = Window
      BY <2>4 DEF Reach
    <3> QED BY <1>1, <1>2, <2>1, <3>1
  <2> QED BY <2>3, <2>4
<1> QED BY <1>3

\* A question that can be put of a frame.
Sound(question) ==
  LET f == callstack[question[1]]
  IN  question[2] \in 0..(Window - 1) /\ (f.name # "" => question[2] < f.distance)

\* The calls of a session that are questions come in the order of the walk.
Falling(s) ==
  \A k, m \in DOMAIN s : k < m /\ s[k][1] # 0 /\ s[m][1] # 0 => s[k][1] > s[m][1]

\* One call more to the symbolizer, which is a question or the end of the session.
LEMMA OneCallMore ==
  ASSUME InputInv, CallsInv, pc = "frames", UNCHANGED callstack, p \in Int,
         NEW q \in 0..Len(callstack), NEW max \in Int, calls' = Append(calls, <<q, max>>),
         \/ pc' = "returned" /\ q = 0 /\ max = TearDown /\ p' = p
         \/ pc' = "frames" /\ q # 0 /\ Sound(<<q, max>>) /\ q = p /\ p' = p - 1
  PROVE  CallsInv'
<1> DEFINE C == (0..Len(callstack)) \X Int
<1>1. calls \in Seq(C) /\ <<q, max>> \in C
  BY DEF CallsInv
<1> HIDE DEF C
<1>2. /\ calls' \in Seq(C) /\ Len(calls') = Len(calls) + 1 /\ Len(calls) \in Nat \ {0}
      /\ DOMAIN calls' = 1..(Len(calls) + 1) /\ DOMAIN calls = 1..Len(calls)
      /\ calls'[Len(calls) + 1] = <<q, max>>
      /\ \A k \in 1..Len(calls) : calls'[k] = calls[k]
  BY <1>1, Appended DEF CallsInv
<1>3. \A k \in 1..Len(calls) :
        /\ calls[k] = <<0, SetUp>> <=> k = 1
        /\ calls[k][2] # TearDown
        /\ calls[k][1] = 0 <=> k = 1
        /\ calls[k][1] # 0 => Sound(calls[k])
  BY <1>2 DEF CallsInv, SymbolizerSession, Closing, Sound
<1>4. \A k \in 1..Len(calls) : calls[k][1] # 0 => calls[k][1] > p /\ calls[k][1] \in 0..Len(callstack)
  <2>1. \A k \in 1..Len(calls) : calls[k] \in C
    BY <1>1, <1>2
  <2> QED BY <1>2, <2>1 DEF CallsInv, C
<1>5. /\ max = TearDown <=> pc' = "returned"
      /\ q = 0 <=> pc' = "returned"
      /\ <<q, max>> # <<0, SetUp>>
      /\ q # 0 => Sound(<<q, max>>)
  <2>1. CASE pc' = "returned" /\ q = 0 /\ max = TearDown
    BY <2>1 DEF TearDown, SetUp
  <2>2. CASE pc' = "frames" /\ q # 0 /\ Sound(<<q, max>>)
    <3>1. max \in 0..(Window - 1)
      BY <2>2 DEF Sound
    <3>2. max # TearDown
      BY <3>1, WindowAssumption DEF TearDown
    <3> QED BY <2>2, <3>2
  <2> QED BY <2>1, <2>2
<1>6. ASSUME NEW k \in 1..(Len(calls) + 1)
      PROVE  /\ calls'[k] = <<0, SetUp>> <=> k = 1
             /\ calls'[k][2] = TearDown <=> Closing(k)'
             /\ calls'[k][1] = 0 <=> (k = 1 \/ Closing(k)')
             /\ calls'[k][1] # 0 => Sound(calls'[k])
  <2>1. CASE k = Len(calls) + 1
    <3>1. calls'[k] = <<q, max>> /\ k # 1 /\ (Closing(k)' <=> pc' = "returned")
      BY <1>2, <2>1 DEF Closing
    <3> QED BY <1>5, <3>1
  <2>2. CASE k \in 1..Len(calls)
    <3>1. calls'[k] = calls[k] /\ ~ Closing(k)'
      BY <1>2, <2>2 DEF Closing
    <3> QED BY <1>3, <2>2, <3>1
  <2> QED BY <1>2, <2>1, <2>2
<1>7. Falling(calls')
  <2> SUFFICES ASSUME NEW k \in 1..(Len(calls) + 1), NEW m \in 1..(Len(calls) + 1), k < m,
                      calls'[k][1] # 0, calls'[m][1] # 0
               PROVE  calls'[k][1] > calls'[m][1]
    BY <1>2 DEF Falling
  <2>1. k \in 1..Len(calls) /\ calls'[k] = calls[k]
    BY <1>2
  <2>2. CASE m = Len(calls) + 1
    <3>1. calls'[m][1] = q /\ q = p
      BY <1>2, <2>2
    <3> QED BY <1>4, <2>1, <3>1
  <2>3. CASE m \in 1..Len(calls)
    <3>1. calls'[m] = calls[m]
      BY <1>2, <2>3
    <3> QED BY <1>2, <2>1, <2>3, <3>1 DEF CallsInv, SymbolizerSession
  <2> QED BY <1>2, <2>2, <2>3
<1>8. SymbolizerSession'
  BY <1>2, <1>6, <1>7 DEF SymbolizerSession, Sound, Falling
<1>9. \A k \in 1..(Len(calls) + 1) : calls'[k][1] # 0 => calls'[k][1] > p'
  <2> SUFFICES ASSUME NEW k \in 1..(Len(calls) + 1), calls'[k][1] # 0
               PROVE  calls'[k][1] > p'
    OBVIOUS
  <2>1. CASE k = Len(calls) + 1
    BY <1>2, <2>1
  <2>2. CASE k \in 1..Len(calls)
    <3>1. calls'[k] = calls[k] /\ calls[k][1] \in 0..Len(callstack) /\ calls[k][1] > p
      BY <1>2, <1>4, <2>2
    <3>2. \A x \in 0..Len(callstack) : x > p => x > p'
      BY DEF InputInv
    <3> QED BY <3>1, <3>2
  <2> QED BY <1>2, <2>1, <2>2
<1>10. calls' # << >>
  BY <1>2
<1> QED BY <1>2, <1>8, <1>9, <1>10 DEF CallsInv, C

\* Every step keeps the protocol.
LEMMA NextCalls ==
  ASSUME InputInv, LoopInv, CallsInv, [Next]_vars
  PROVE  CallsInv'
<1>1. UNCHANGED callstack /\ Len(callstack) \in Nat /\ offset \in Nat
  BY NextInput DEF input, InputInv
<1>2. CASE Header
  <2>1. calls' = <<<<0, SetUp>>>> /\ pc' = "frames"
    BY <1>2 DEF Header
  <2>2. /\ calls' \in Seq((0..Len(callstack)) \X Int) /\ DOMAIN calls' = {1}
        /\ calls'[1] = <<0, 0>>
    BY <1>1, <2>1 DEF SetUp
  <2>3. SymbolizerSession'
    <3>1. calls'[1] = <<0, SetUp>> /\ calls'[1][2] # TearDown /\ calls'[1][1] = 0
      BY <2>2 DEF SetUp, TearDown
    <3> QED BY <2>1, <2>2, <3>1 DEF SymbolizerSession, Closing
  <2>4. \A k \in DOMAIN calls' : calls'[k][1] = 0
    BY <2>2
  <2> QED BY <1>1, <2>1, <2>2, <2>3, <2>4 DEF CallsInv
<1>3. CASE DumpFrame
  <2>1. /\ pc = "frames" /\ pc' = "frames" /\ p \in 1..Len(callstack) /\ p' = p - 1
        /\ calls' = IF Asks(callstack[p]) THEN Append(calls, <<p, Reach(callstack[p]) - 1>>) ELSE calls
    BY <1>1, <1>3 DEF DumpFrame, More, LoopInv
  <2>2. CASE Asks(callstack[p])
    <3>1. callstack[p] \in Frames
      BY <2>1 DEF InputInv
    <3> DEFINE max == Reach(callstack[p]) - 1
    <3>2. max \in 0..(Window - 1) /\ (callstack[p].name # "" => max < callstack[p].distance)
      BY <2>2, <3>1, Questions
    <3>3. calls' = Append(calls, <<p, max>>)
      BY <2>1, <2>2
    <3>4. Sound(<<p, max>>)
      BY <3>2 DEF Sound
    <3>5. max \in Int
      <4>1. \A x \in 0..(Window - 1) : x \in Int
        BY WindowAssumption
      <4> HIDE DEF max
      <4> QED BY <3>2, <4>1
    <3>6. p \in 0..Len(callstack) /\ p # 0 /\ p \in Int
      BY <1>1, <2>1
    <3> HIDE DEF max
    <3> QED BY <1>1, <2>1, <3>3, <3>4, <3>5, <3>6, OneCallMore
  <2>3. CASE ~ Asks(callstack[p])
    <3>1. calls' = calls
      BY <2>1, <2>3
    <3>2. SymbolizerSession'
      BY <1>1, <2>1, <3>1 DEF CallsInv, SymbolizerSession, Closing
    <3>3. \A k \in DOMAIN calls : calls[k][1] # 0 => calls[k][1] > p'
      <4> SUFFICES ASSUME NEW k \in DOMAIN calls, calls[k][1] # 0
                   PROVE  calls[k][1] > p'
        OBVIOUS
      <4>1. calls[k] \in (0..Len(callstack)) \X Int
        BY DEF CallsInv
      <4>2. calls[k][1] \in 0..Len(callstack) /\ calls[k][1] > p
        BY <4>1 DEF CallsInv
      <4> QED BY <1>1, <2>1, <4>2
    <3> QED BY <1>1, <2>1, <3>1, <3>2, <3>3 DEF CallsInv
  <2> QED BY <2>2, <2>3
<1>4. CASE Footer
  <2>1. /\ pc = "frames" /\ pc' = "returned" /\ calls' = Append(calls, <<0, TearDown>>)
        /\ TearDown \in Int /\ 0 \in 0..Len(callstack) /\ p' = p /\ p \in Int
    BY <1>1, <1>4 DEF Footer, TearDown, LoopInv
  <2> QED BY <1>1, <2>1, OneCallMore
<1>5. CASE UNCHANGED vars
  BY <1>1, <1>5 DEF CallsInv, SymbolizerSession, Closing, vars, input
<1> QED BY <1>2, <1>3, <1>4, <1>5 DEF Next

(***************************************************************************)
(* The frames                                                              *)
(***************************************************************************)

\* Of two tokens, the first one belongs to an outer frame, or they are the symbol and
\* the segment of the same frame; tokens without a frame stand anywhere.
InOrder(a, b) ==
  a[2] # 0 /\ b[2] # 0 => a[2] > b[2] \/ (a = <<"symbol", b[2]>> /\ b[1] = "segment")

\* What can be written.
Tokens == Token \X (0..Len(callstack))

\* What was written is about frames that were looked at, and shows those of them that
\* are expected.
OutInv ==
  /\ out \in Seq(Tokens)
  /\ pc # "header" =>
       /\ \A k \in DOMAIN out : out[k][2] # 0 => out[k][2] > p
       /\ \A q \in (p + 1)..Len(callstack) : Shows(q) <=> Expected(q)
       /\ \A k, m \in DOMAIN out : k < m => InOrder(out[k], out[m])

\* Where the brackets are.
BracketInv ==
  Brackets =>
    /\ pc = "frames" =>
         /\ Len(out) >= 1
         /\ \A k \in DOMAIN out : (Kind(k) = "open" <=> k = 1) /\ Kind(k) # "close"
    /\ Bracketed

\* The inductive invariant.
IInv == InputInv /\ LoopInv /\ CallsInv /\ OutInv /\ BracketInv

\* The symbolizer is asked for what has no symbol, or one before the address.
LEMMA WhatIsAsked ==
  ASSUME NEW f \in Frames
  PROVE  Asks(f) <=> f.name = "" \/ f.distance > 0
<1>1. f.distance \in Nat /\ Window \in Nat \ {0}
  BY FrameDistance, WindowAssumption
<1>2. CASE f.name = ""
  <2>1. Reach(f) = Window
    BY <1>2 DEF Reach
  <2>2. Asks(f)
    BY <1>1, <2>1 DEF Asks
  <2> QED BY <1>2, <2>2
<1>3. CASE f.name # ""
  <2>1. CASE f.distance < Window
    <3>1. Reach(f) = f.distance
      BY <1>3, <2>1 DEF Reach
    <3>2. f.distance # 0 <=> f.distance > 0
      BY <1>1
    <3>3. Asks(f) <=> f.distance # 0
      BY <3>1 DEF Asks
    <3> QED BY <1>3, <3>2, <3>3
  <2>2. CASE ~ (f.distance < Window)
    <3>1. Reach(f) = Window
      BY <1>3, <2>2 DEF Reach
    <3>2. f.distance > 0 /\ Window # 0
      BY <1>1, <2>2
    <3> QED BY <1>3, <3>1, <3>2 DEF Asks
  <2> QED BY <2>1, <2>2
<1> QED BY <1>2, <1>3

\* The filter hides those frames past the offset that nobody expects.
LEMMA BoringUnexpected ==
  ASSUME InputInv, NEW q \in 1..Len(callstack), q > offset
  PROVE  Expected(q) <=> ~ Boring(callstack[q])
<1> DEFINE f == callstack[q]
<1>1. f \in Frames /\ q \in (offset + 1)..Len(callstack)
  BY DEF InputInv
<1>2. Asks(f) <=> f.name = "" \/ f.distance > 0
  BY <1>1, WhatIsAsked
<1>3. Expected(q) <=>
        \/ ~ Filters \/ format = "csv" \/ ~ f.dl
        \/ IF f.answer # NoAnswer /\ Asks(f) THEN f.answer # "boring" ELSE f.name # "boring"
  BY <1>1, <1>2 DEF Expected
<1> HIDE DEF f
<1>4. Expected(q) <=> ~ Boring(f)
  BY <1>3 DEF Boring, ShownName
<1> QED BY <1>4 DEF f

\* What is written of the frame p.
GoodLine(line) ==
  /\ line \in Seq(Tokens)
  /\ \A k \in DOMAIN line : line[k][1] \notin {"open", "close"} /\ line[k][2] \in {0, p}
  /\ \A k, m \in DOMAIN line : k < m => InOrder(line[k], line[m])
  /\ (\E k \in DOMAIN line : line[k][2] = p) <=> ~ Boring(callstack[p])

\* Sequences of tokens, one after the other.
LEMMA JoinedTwo ==
  ASSUME NEW a, NEW b
  PROVE  <<a>> \o <<b>> = <<a, b>>
<1> DEFINE S == {a, b}
           s == <<a>> \o <<b>>
           u == <<a, b>>
<1>1. <<a>> \in Seq(S) /\ <<b>> \in Seq(S)
  OBVIOUS
<1>2. u \in Seq(S) /\ Len(u) = 2 /\ u[1] = a /\ u[2] = b
  OBVIOUS
<1> HIDE DEF S
<1>3. s \in Seq(S) /\ Len(s) = 2 /\ s[1] = a /\ s[2] = b
  BY <1>1, ConcatProperties
<1> HIDE DEF s, u
<1>4. \A k \in 1..2 : s[k] = u[k]
  BY <1>2, <1>3
<1>5. s = u
  BY <1>2, <1>3, <1>4, SeqEqual
<1> QED BY <1>5 DEF s, u

\* The same with a third token,
LEMMA JoinedThree ==
  ASSUME NEW a, NEW b, NEW c
  PROVE  <<a, b>> \o <<c>> = <<a, b, c>>
<1> DEFINE S == {a, b, c}
           s == <<a, b>> \o <<c>>
           u == <<a, b, c>>
<1>1. <<a, b>> \in Seq(S) /\ <<c>> \in Seq(S)
  OBVIOUS
<1>2. u \in Seq(S) /\ Len(u) = 3 /\ u[1] = a /\ u[2] = b /\ u[3] = c
  OBVIOUS
<1> HIDE DEF S
<1>3. s \in Seq(S) /\ Len(s) = 3 /\ s[1] = a /\ s[2] = b /\ s[3] = c
  BY <1>1, ConcatProperties
<1> HIDE DEF s, u
<1>4. \A k \in 1..3 : s[k] = u[k]
  BY <1>2, <1>3
<1>5. s = u
  BY <1>2, <1>3, <1>4, SeqEqual
<1> QED BY <1>5 DEF s, u

\* and with a fourth.
LEMMA JoinedFour ==
  ASSUME NEW a, NEW b, NEW c, NEW d
  PROVE  <<a, b, c>> \o <<d>> = <<a, b, c, d>>
<1> DEFINE S == {a, b, c, d}
           s == <<a, b, c>> \o <<d>>
           u == <<a, b, c, d>>
<1>1. <<a, b, c>> \in Seq(S) /\ <<d>> \in Seq(S)
  OBVIOUS
<1>2. u \in Seq(S) /\ Len(u) = 4 /\ u[1] = a /\ u[2] = b /\ u[3] = c /\ u[4] = d
  OBVIOUS
<1> HIDE DEF S
<1>3. s \in Seq(S) /\ Len(s) = 4 /\ s[1] = a /\ s[2] = b /\ s[3] = c /\ s[4] = d
  BY <1>1, ConcatProperties
<1> HIDE DEF s, u
<1>4. \A k \in 1..4 : s[k] = u[k]
  BY <1>2, <1>3
<1>5. s = u
  BY <1>2, <1>3, <1>4, SeqEqual
<1> QED BY <1>5 DEF s, u

\* A line has one of six forms.
LEMMA LineForms ==
  ASSUME NEW f
  PROVE  \/ Boring(f) /\ Line(f) = << >>
         \/ ~ Boring(f) /\ Line(f) = <<<<"row", p>>>>
         \/ ~ Boring(f) /\ Line(f) = <<<<"symbol", p>>, <<"segment", p>>>>
         \/ ~ Boring(f) /\ Line(f) = <<<<"delim", 0>>, <<"symbol", p>>, <<"delim", 0>>, <<"segment", p>>>>
         \/ ~ Boring(f) /\ Line(f) = <<<<"address", p>>>>
         \/ ~ Boring(f) /\ Line(f) = <<<<"delim", 0>>, <<"address", p>>>>
<1>1. CASE Boring(f)
  <2>1. format # "csv"
    BY <1>1 DEF Boring
  <2> QED BY <1>1, <2>1 DEF Line
<1>2. CASE format = "csv"
  BY <1>2 DEF Boring, Line
<1>3. CASE ~ Boring(f) /\ format # "csv"
  <2>1. CASE f.dl
    <3>1. Line(f) = Delim \o <<<<"symbol", p>>>> \o Delim \o <<<<"segment", p>>>>
      BY <1>3, <2>1 DEF Line
    <3>2. CASE i = 0
      <4>1. Delim = << >>
        BY <3>2 DEF Delim
      <4>2. << >> \o <<<<"symbol", p>>>> \o << >> \o <<<<"segment", p>>>> = <<<<"symbol", p>>, <<"segment", p>>>>
        <5> DEFINE s == <<"symbol", p>>
                   g == <<"segment", p>>
        <5> HIDE DEF s, g
        <5>1. /\ << >> \o <<s>> = <<s>> /\ <<s>> \o << >> = <<s>>
              /\ <<s>> \o <<g>> = <<s, g>>
          BY JoinedTwo, ConcatEmptySeq, <<s>> \in Seq({s})
        <5>2. << >> \o <<s>> \o << >> \o <<g>> = <<s, g>>
          BY <5>1
        <5> QED BY <5>2 DEF s, g
      <4> QED BY <1>3, <3>1, <4>1, <4>2
    <3>3. CASE i # 0
      <4>1. Delim = <<<<"delim", 0>>>>
        BY <3>3 DEF Delim
      <4>2. <<<<"delim", 0>>>> \o <<<<"symbol", p>>>> \o <<<<"delim", 0>>>> \o <<<<"segment", p>>>>
              = <<<<"delim", 0>>, <<"symbol", p>>, <<"delim", 0>>, <<"segment", p>>>>
        <5> DEFINE d == <<"delim", 0>>
                   s == <<"symbol", p>>
                   g == <<"segment", p>>
        <5> HIDE DEF d, s, g
        <5>1. /\ <<d>> \o <<s>> = <<d, s>>
              /\ <<d, s>> \o <<d>> = <<d, s, d>>
              /\ <<d, s, d>> \o <<g>> = <<d, s, d, g>>
          <6>1. <<d>> \o <<s>> = <<d, s>>
            BY JoinedTwo
          <6>2. <<d, s>> \o <<d>> = <<d, s, d>>
            BY JoinedThree
          <6>3. <<d, s, d>> \o <<g>> = <<d, s, d, g>>
            BY JoinedFour
          <6> QED BY <6>1, <6>2, <6>3
        <5>2. <<d>> \o <<s>> \o <<d>> \o <<g>> = <<d, s, d, g>>
          <6>1. <<d>> \o <<s>> \o <<d>> = <<d, s, d>>
            BY <5>1
          <6> QED BY <5>1, <6>1
        <5> QED BY <5>2 DEF d, s, g
      <4> QED BY <1>3, <3>1, <4>1, <4>2
    <3> QED BY <3>2, <3>3
  <2>2. CASE ~ f.dl
    <3>1. Line(f) = Delim \o <<<<"address", p>>>>
      BY <1>3, <2>2 DEF Line
    <3>2. CASE i = 0
      <4>1. Delim = << >>
        BY <3>2 DEF Delim
      <4>2. << >> \o <<<<"address", p>>>> = <<<<"address", p>>>>
        OBVIOUS
      <4> QED BY <1>3, <3>1, <4>1, <4>2
    <3>3. CASE i # 0
      <4>1. Delim = <<<<"delim", 0>>>>
        BY <3>3 DEF Delim
      <4>2. <<<<"delim", 0>>>> \o <<<<"address", p>>>> = <<<<"delim", 0>>, <<"address", p>>>>
        BY JoinedTwo
      <4> QED BY <1>3, <3>1, <4>1, <4>2
    <3> QED BY <3>2, <3>3
  <2> QED BY <2>1, <2>2
<1> QED BY <1>1, <1>2, <1>3

\* What is written of a frame is good.
LEMMA LinesAreGood ==
  ASSUME InputInv, p \in 1..Len(callstack)
  PROVE  GoodLine(Line(callstack[p]))
<1> DEFINE f == callstack[p]
           s == <<"symbol", p>>
           g == <<"segment", p>>
           d == <<"delim", 0>>
           r == <<"row", p>>
           a == <<"address", p>>
<1>1. /\ s \in Tokens /\ g \in Tokens /\ d \in Tokens /\ r \in Tokens /\ a \in Tokens
      /\ s[2] = p /\ g[2] = p /\ d[2] = 0 /\ r[2] = p /\ a[2] = p
      /\ s[1] = "symbol" /\ g[1] = "segment" /\ d[1] = "delim" /\ r[1] = "row" /\ a[1] = "address"
      /\ p # 0 /\ s = <<"symbol", p>>
  BY DEF Tokens, Token, InputInv
<1>2. InOrder(s, g) /\ \A t : InOrder(d, t) /\ InOrder(t, d)
  BY <1>1 DEF InOrder
<1>3. \/ Boring(f) /\ Line(f) = << >>
      \/ ~ Boring(f) /\ Line(f) = <<r>>
      \/ ~ Boring(f) /\ Line(f) = <<s, g>>
      \/ ~ Boring(f) /\ Line(f) = <<d, s, d, g>>
      \/ ~ Boring(f) /\ Line(f) = <<a>>
      \/ ~ Boring(f) /\ Line(f) = <<d, a>>
  BY LineForms
<1> DEFINE T == Tokens
<1>t. T = Tokens
  OBVIOUS
<1> HIDE DEF f, s, g, d, r, a, T
<1>4. CASE Boring(f) /\ Line(f) = << >>
  <2>1. << >> \in Seq(T) /\ DOMAIN << >> = {}
    OBVIOUS
  <2> QED BY <1>4, <1>t, <2>1 DEF GoodLine, f
<1>5. ASSUME NEW b, b = r \/ b = a, ~ Boring(f), Line(f) = <<b>>
      PROVE  GoodLine(Line(f))
  <2>1. b \in T /\ b[2] = p /\ b[1] \notin {"open", "close"}
    BY <1>1, <1>5, <1>t
  <2>2. <<b>> \in Seq(T) /\ DOMAIN <<b>> = {1} /\ <<b>>[1] = b
    BY <2>1
  <2> QED BY <1>5, <1>t, <2>1, <2>2 DEF GoodLine, f
<1>6. CASE ~ Boring(f) /\ Line(f) = <<s, g>>
  <2>1. /\ <<s, g>> \in Seq(T) /\ DOMAIN <<s, g>> = {1, 2} /\ <<s, g>>[1] = s /\ <<s, g>>[2] = g
    BY <1>1, <1>t
  <2> DEFINE line == <<s, g>>
  <2> HIDE DEF line
  <2>2. /\ line \in Seq(T) /\ DOMAIN line = {1, 2} /\ line[1] = s /\ line[2] = g
    BY <2>1 DEF line
  <2>3. \A k, m \in DOMAIN line : k < m => InOrder(line[k], line[m])
    BY <1>2, <2>2
  <2>4. \A k \in DOMAIN line : line[k][1] \notin {"open", "close"} /\ line[k][2] = p
    BY <1>1, <2>2
  <2>5. GoodLine(line)
    BY <1>6, <1>t, <2>2, <2>3, <2>4 DEF GoodLine, f
  <2>7. Line(f) = line
    BY <1>6 DEF line
  <2> QED BY <2>5, <2>7 DEF f
<1>7. CASE ~ Boring(f) /\ Line(f) = <<d, s, d, g>>
  <2> DEFINE line == <<d, s, d, g>>
  <2>1. line \in Seq(T)
    BY <1>1, <1>t
  <2>2. DOMAIN line = {1, 2, 3, 4} /\ line[1] = d /\ line[2] = s /\ line[3] = d /\ line[4] = g
    OBVIOUS
  <2> HIDE DEF line
  <2>3. \A k, m \in DOMAIN line : k < m => InOrder(line[k], line[m])
    <3>1. ASSUME NEW k \in {1, 2, 3, 4}, NEW m \in {1, 2, 3, 4}, k < m
          PROVE  k = 1 \/ k = 3 \/ m = 3 \/ (k = 2 /\ m = 4)
      BY <3>1
    <3>2. ASSUME NEW k \in {1, 2, 3, 4}, NEW m \in {1, 2, 3, 4}, k < m
          PROVE  InOrder(line[k], line[m])
      BY <1>2, <2>2, <3>1, <3>2
    <3> QED BY <2>2, <3>2
  <2>4. \A k \in DOMAIN line : line[k][1] \notin {"open", "close"} /\ line[k][2] \in {0, p}
    BY <1>1, <2>2
  <2>5. line[2][2] = p /\ 2 \in DOMAIN line
    BY <1>1, <2>2
  <2>6. GoodLine(line)
    BY <1>7, <1>t, <2>1, <2>3, <2>4, <2>5 DEF GoodLine, f
  <2>7. Line(f) = line
    BY <1>7 DEF line
  <2> QED BY <2>6, <2>7 DEF f
<1>8. CASE ~ Boring(f) /\ Line(f) = <<d, a>>
  <2> DEFINE line == <<d, a>>
  <2>1. line \in Seq(T)
    BY <1>1, <1>t
  <2>2. DOMAIN line = {1, 2} /\ line[1] = d /\ line[2] = a
    OBVIOUS
  <2> HIDE DEF line
  <2>3. \A k, m \in DOMAIN line : k < m => InOrder(line[k], line[m])
    BY <1>2, <2>2
  <2>4. \A k \in DOMAIN line : line[k][1] \notin {"open", "close"} /\ line[k][2] \in {0, p}
    BY <1>1, <2>2
  <2>5. line[2][2] = p /\ 2 \in DOMAIN line
    BY <1>1, <2>2
  <2>6. GoodLine(line)
    BY <1>8, <1>t, <2>1, <2>3, <2>4, <2>5 DEF GoodLine, f
  <2>7. Line(f) = line
    BY <1>8 DEF line
  <2> QED BY <2>6, <2>7 DEF f
<1> QED BY <1>3, <1>4, <1>5, <1>6, <1>7, <1>8 DEF f

\* Where the tokens of an output are that has become longer.
LEMMA Extended ==
  ASSUME NEW S, NEW s \in Seq(S), NEW e \in Seq(S)
  PROVE  /\ s \o e \in Seq(S) /\ Len(s \o e) = Len(s) + Len(e)
         /\ DOMAIN s = 1..Len(s) /\ DOMAIN e = 1..Len(e) /\ Len(s) \in Nat /\ Len(e) \in Nat
         /\ DOMAIN (s \o e) = 1..(Len(s) + Len(e))
         /\ \A k \in DOMAIN s : k \in DOMAIN (s \o e) /\ (s \o e)[k] = s[k]
         /\ \A k \in DOMAIN e : Len(s) + k \in DOMAIN (s \o e) /\ (s \o e)[Len(s) + k] = e[k]
         /\ \A k \in DOMAIN (s \o e) \ DOMAIN s :
              k - Len(s) \in DOMAIN e /\ (s \o e)[k] = e[k - Len(s)]
<1> DEFINE u == s \o e
           n == Len(s)
           m == Len(e)
<1>1. u \in Seq(S) /\ Len(u) = n + m
  BY ConcatProperties
<1>2. \A k \in 1..(n + m) : u[k] = IF k <= n THEN s[k] ELSE e[k - n]
  BY ConcatProperties
<1>3. DOMAIN s = 1..n /\ DOMAIN e = 1..m /\ n \in Nat /\ m \in Nat
  OBVIOUS
<1>4. DOMAIN u = 1..(n + m)
  BY <1>1
<1> HIDE DEF u, n, m
<1>5. \A k \in DOMAIN s : k \in DOMAIN u /\ u[k] = s[k]
  <2>1. ASSUME NEW k \in 1..n PROVE k \in 1..(n + m) /\ k <= n
    BY <1>3
  <2> QED BY <1>2, <1>3, <1>4, <2>1
<1>6. \A k \in DOMAIN e : n + k \in DOMAIN u /\ u[n + k] = e[k]
  <2>1. ASSUME NEW k \in 1..m PROVE n + k \in 1..(n + m) /\ ~ (n + k <= n) /\ (n + k) - n = k
    BY <1>3
  <2> QED BY <1>2, <1>3, <1>4, <2>1
<1>7. \A k \in DOMAIN u \ DOMAIN s : k - n \in DOMAIN e /\ u[k] = e[k - n]
  <2>1. ASSUME NEW k \in (1..(n + m)) \ (1..n) PROVE k - n \in 1..m /\ ~ (k <= n)
    BY <1>3
  <2> QED BY <1>2, <1>3, <1>4, <2>1
<1> QED BY <1>1, <1>3, <1>4, <1>5, <1>6, <1>7 DEF u, n, m

\* The steps of the dump do not change what is expected.
LEMMA SameExpectation ==
  ASSUME InputInv, [Next]_vars
  PROVE  /\ \A q : Expected(q)' <=> Expected(q)
         /\ Tokens' = Tokens /\ Brackets' = Brackets
<1>1. UNCHANGED <<callstack, offset, format, hooks>>
  BY NextInput DEF input
<1> QED BY <1>1 DEF Expected, Filters, Tokens, Brackets

\* A frame is looked at, and shown if it is expected.
LEMMA FrameOut ==
  ASSUME InputInv, LoopInv, OutInv, DumpFrame
  PROVE  OutInv'
<1> DEFINE line == Line(callstack[p])
           n == Len(out)
<1>0. /\ pc = "frames" /\ pc' = "frames" /\ p > offset /\ p' = p - 1 /\ out' = out \o line
      /\ [Next]_vars
  BY DEF DumpFrame, More, Next
<1>1. /\ p \in 1..Len(callstack) /\ Len(callstack) \in Nat /\ offset \in Nat
      /\ UNCHANGED callstack
  BY <1>0, NextInput DEF LoopInv, InputInv, input
<1>2. GoodLine(line)
  BY <1>1, LinesAreGood
<1>3. Expected(p) <=> ~ Boring(callstack[p])
  BY <1>0, <1>1, BoringUnexpected
<1>4. /\ \A q : Expected(q)' <=> Expected(q)
      /\ Tokens' = Tokens
  BY <1>0, SameExpectation
<1>5. out \in Seq(Tokens) /\ line \in Seq(Tokens)
  BY <1>2 DEF OutInv, GoodLine
<1> HIDE DEF line
<1>6. /\ out' \in Seq(Tokens)
      /\ DOMAIN out = 1..n /\ n \in Nat /\ Len(line) \in Nat /\ DOMAIN line = 1..Len(line)
      /\ DOMAIN out' = 1..(n + Len(line))
      /\ \A k \in DOMAIN out : k \in DOMAIN out' /\ out'[k] = out[k]
      /\ \A k \in DOMAIN line : n + k \in DOMAIN out' /\ out'[n + k] = line[k]
      /\ \A k \in DOMAIN out' \ DOMAIN out : k - n \in DOMAIN line /\ out'[k] = line[k - n]
  BY <1>0, <1>5, Extended
<1>7. /\ \A k \in DOMAIN out : out[k][2] # 0 => out[k][2] > p
      /\ \A k \in DOMAIN line : line[k][2] \in {0, p}
      /\ \A k \in DOMAIN out : out[k][2] \in Nat
  <2>1. \A k \in DOMAIN out : out[k] \in Tokens
    BY <1>5
  <2>2. \A t \in Tokens : t[2] \in Nat
    BY <1>1 DEF Tokens
  <2> QED BY <1>0, <1>2, <2>1, <2>2 DEF OutInv, GoodLine
<1> HIDE DEF n
<1>8. ASSUME NEW k \in DOMAIN out', out'[k][2] # 0
      PROVE  out'[k][2] > p - 1
  <2>1. CASE k \in DOMAIN out
    <3>1. out'[k] = out[k] /\ out[k][2] > p /\ out[k][2] \in Nat
      BY <1>6, <1>7, <1>8, <2>1
    <3> QED BY <1>1, <3>1
  <2>2. CASE k \notin DOMAIN out
    <3>1. out'[k][2] = p
      BY <1>6, <1>7, <1>8, <2>2
    <3> QED BY <1>1, <3>1
  <2> QED BY <2>1, <2>2
<1>9. ASSUME NEW q \in p..Len(callstack)
      PROVE  Shows(q)' <=> Expected(q)
  <2>1. CASE q = p
    <3>1. \A k \in DOMAIN out : out[k][2] # p
      BY <1>1, <1>7
    <3>2. (\E k \in DOMAIN line : line[k][2] = p) <=> ~ Boring(callstack[p])
      BY <1>2 DEF GoodLine
    <3>3. (\E k \in DOMAIN out' : out'[k][2] = p) <=> \E k \in DOMAIN line : line[k][2] = p
      BY <1>6, <3>1
    <3> QED BY <1>3, <2>1, <3>2, <3>3 DEF Shows
  <2>2. CASE q \in (p + 1)..Len(callstack)
    <3>1. q # p /\ q # 0
      BY <1>1, <2>2
    <3>2. Shows(q) <=> Expected(q)
      BY <1>0, <2>2 DEF OutInv
    <3>3. \A k \in DOMAIN line : line[k][2] # q
      BY <1>7, <3>1
    <3>4. (\E k \in DOMAIN out' : out'[k][2] = q) <=> \E k \in DOMAIN out : out[k][2] = q
      BY <1>6, <3>3
    <3> QED BY <3>2, <3>4 DEF Shows
  <2> QED BY <1>1, <2>1, <2>2
<1>10. ASSUME NEW k \in DOMAIN out', NEW m \in DOMAIN out', k < m
       PROVE  InOrder(out'[k], out'[m])
  <2>1. CASE k \in DOMAIN out /\ m \in DOMAIN out
    BY <1>0, <1>6, <1>10, <2>1 DEF OutInv
  <2>2. CASE k \in DOMAIN out /\ m \notin DOMAIN out
    <3>1. /\ out'[k] = out[k] /\ (out[k][2] # 0 => out[k][2] > p)
          /\ m - n \in DOMAIN line /\ out'[m] = line[m - n]
      BY <1>6, <1>7, <1>10, <2>2
    <3>2. out'[m][2] \in {0, p}
      BY <1>7, <3>1
    <3> QED BY <3>1, <3>2 DEF InOrder
  <2>3. CASE k \notin DOMAIN out
    <3>1. m \notin DOMAIN out
      BY <1>6, <1>10, <2>3
    <3>2. k - n \in DOMAIN line /\ m - n \in DOMAIN line /\ out'[k] = line[k - n] /\ out'[m] = line[m - n]
      BY <1>6, <1>10, <2>3, <3>1
    <3>3. k - n < m - n
      BY <1>6, <1>10
    <3> QED BY <1>2, <3>2, <3>3 DEF GoodLine
  <2> QED BY <2>1, <2>2, <2>3
<1>11. (p' + 1)..Len(callstack') = p..Len(callstack)
  BY <1>0, <1>1
<1> QED BY <1>0, <1>1, <1>4, <1>6, <1>8, <1>9, <1>10, <1>11 DEF OutInv

\* Something without a frame is appended, or nothing.
LEMMA OneTokenMore ==
  ASSUME InputInv, OutInv, [Next]_vars, p \in Nat, pc = "frames", pc' = "returned",
         UNCHANGED <<p, callstack>>,
         out' = out \/ \E kind \in Token : out' = Append(out, <<kind, 0>>)
  PROVE  OutInv'
<1>1. /\ \A q : Expected(q)' <=> Expected(q)
      /\ Tokens' = Tokens
  BY SameExpectation
<1>2. CASE out' = out
  BY <1>1, <1>2 DEF OutInv, Shows
<1>3. ASSUME NEW kind \in Token, out' = Append(out, <<kind, 0>>)
      PROVE  OutInv'
  <2> DEFINE t == <<kind, 0>>
             n == Len(out)
  <2>1. t \in Tokens /\ t[2] = 0
    BY DEF Tokens, InputInv
  <2> HIDE DEF t
  <2>2. out \in Seq(Tokens) /\ out' = Append(out, t)
    BY <1>3 DEF OutInv, t
  <2>3. /\ out' \in Seq(Tokens) /\ n \in Nat /\ DOMAIN out = 1..n /\ DOMAIN out' = 1..(n + 1)
        /\ out'[n + 1] = t /\ \A k \in 1..n : out'[k] = out[k]
    BY <2>1, <2>2, Appended
  <2> HIDE DEF n
  <2>4. \A k \in DOMAIN out' : (k \in DOMAIN out /\ out'[k] = out[k]) \/ (k = n + 1 /\ out'[k] = t)
    BY <2>3
  <2>5. \A k \in DOMAIN out : k \in DOMAIN out'
    BY <2>3
  <2>6. \A k \in DOMAIN out' : out'[k][2] # 0 => out'[k][2] > p
    BY <2>1, <2>4 DEF OutInv
  <2>7. ASSUME NEW q \in (p + 1)..Len(callstack)
        PROVE  Shows(q)' <=> Expected(q)
    <3>1. q # 0
      BY <2>7
    <3>2. (\E k \in DOMAIN out' : out'[k][2] = q) <=> \E k \in DOMAIN out : out[k][2] = q
      BY <2>1, <2>4, <2>5, <2>3, <3>1
    <3> QED BY <2>7, <3>2 DEF Shows, OutInv
  <2>8. \A a : InOrder(a, t)
    BY <2>1 DEF InOrder
  <2>9. ASSUME NEW k \in DOMAIN out', NEW m \in DOMAIN out', k < m
        PROVE  InOrder(out'[k], out'[m])
    <3>1. CASE m \in DOMAIN out
      <4>1. k \in DOMAIN out
        BY <2>3, <2>9, <3>1
      <4> QED BY <2>3, <2>9, <3>1, <4>1 DEF OutInv
    <3>2. CASE m \notin DOMAIN out
      BY <2>4, <2>8, <3>2
    <3> QED BY <3>1, <3>2
  <2> QED BY <1>1, <2>3, <2>6, <2>7, <2>9 DEF OutInv
<1> QED BY <1>2, <1>3

\* Nothing is written before the header, which is not about frames.
LEMMA HeaderOut ==
  ASSUME InputInv, LoopInv, Header
  PROVE  OutInv'
<1>1. /\ p' = Len(callstack) /\ UNCHANGED callstack /\ Len(callstack) \in Nat
      /\ pc' = "frames"
  BY DEF Header, EndOfFrames, input, InputInv
<1>2. out' = << >> \/ \E kind \in Token : out' = <<<<kind, 0>>>>
  <2>1. CASE Brackets
    BY <2>1 DEF Header, Brackets, Token
  <2>2. CASE format = "linefeed"
    BY <2>2 DEF Header, Brackets
  <2>3. CASE format = "csv"
    BY <2>3 DEF Header, Brackets, Token
  <2> QED BY <2>1, <2>2, <2>3 DEF InputInv, Formats, Brackets
<1>3. out' \in Seq(Tokens')
  <2>1. \A kind \in Token : <<kind, 0>> \in Tokens'
    BY <1>1 DEF Tokens
  <2>2. \A T : \A t \in T : <<t>> \in Seq(T)
    OBVIOUS
  <2>3. \A T : << >> \in Seq(T)
    OBVIOUS
  <2> QED BY <1>2, <2>1, <2>2, <2>3
<1>4. \A k \in DOMAIN out' : k = 1 /\ out'[k][2] = 0
  BY <1>2
<1>5. (p' + 1)..Len(callstack') = {}
  BY <1>1
<1>6. \A k, m \in DOMAIN out' : ~ (k < m)
  BY <1>4
<1> QED BY <1>3, <1>4, <1>5, <1>6 DEF OutInv

\* Nor is the footer.
LEMMA FooterOut ==
  ASSUME InputInv, LoopInv, OutInv, Footer
  PROVE  OutInv'
<1>1. pc = "frames" /\ pc' = "returned" /\ UNCHANGED <<p, callstack>> /\ p \in Nat
  BY DEF Footer, LoopInv, input, InputInv
<1>2. out' = out \/ \E kind \in Token : out' = Append(out, <<kind, 0>>)
  <2>1. CASE Brackets
    BY <2>1 DEF Footer, Brackets, Token
  <2>2. CASE format = "linefeed"
    BY <2>2 DEF Footer, Brackets, Token
  <2>3. CASE format = "csv"
    BY <2>3 DEF Footer, Brackets
  <2> QED BY <2>1, <2>2, <2>3 DEF InputInv, Formats, Brackets
<1> QED BY <1>1, <1>2, OneTokenMore DEF Next

\* Every step writes what is expected.
LEMMA NextOut ==
  ASSUME InputInv, LoopInv, OutInv, [Next]_vars
  PROVE  OutInv'
<1>1. CASE UNCHANGED vars
  BY <1>1, SameExpectation DEF OutInv, Shows, vars, input
<1> QED BY <1>1, HeaderOut, FooterOut, FrameOut DEF Next

(***************************************************************************)
(* The brackets                                                            *)
(***************************************************************************)

\* Every step keeps the brackets.
LEMMA NextBrackets ==
  ASSUME InputInv, LoopInv, OutInv, BracketInv, [Next]_vars
  PROVE  BracketInv'
<1>1. Brackets' = Brackets /\ UNCHANGED callstack
  BY SameExpectation, NextInput DEF input
<1> SUFFICES ASSUME Brackets
             PROVE  /\ pc' = "frames" =>
                         /\ Len(out') >= 1
                         /\ \A k \in DOMAIN out' : (out'[k][1] = "open" <=> k = 1) /\ out'[k][1] # "close"
                    /\ pc' = "returned" =>
                         /\ Len(out') >= 2
                         /\ \A k \in DOMAIN out' :
                              /\ out'[k][1] = "open" <=> k = 1
                              /\ out'[k][1] = "close" <=> k = Len(out')
  BY <1>1 DEF BracketInv, Bracketed, Kind
<1>2. CASE Header
  <2>1. out' = <<<<"open", 0>>>> /\ pc' = "frames"
    BY <1>2 DEF Header, Brackets
  <2>2. Len(out') = 1 /\ DOMAIN out' = {1} /\ out'[1][1] = "open"
    BY <2>1
  <2> QED BY <2>1, <2>2
<1>3. CASE DumpFrame
  <2> DEFINE line == Line(callstack[p])
             n == Len(out)
  <2>1. /\ pc = "frames" /\ pc' = "frames" /\ out' = out \o line /\ p \in 1..Len(callstack)
    BY <1>3 DEF DumpFrame, More, LoopInv, InputInv
  <2>2. GoodLine(line)
    BY <2>1, LinesAreGood
  <2>3. out \in Seq(Tokens) /\ line \in Seq(Tokens)
    BY <2>2 DEF OutInv, GoodLine
  <2> HIDE DEF line
  <2>4. /\ Len(out') = n + Len(line) /\ n \in Nat /\ Len(line) \in Nat
        /\ DOMAIN out = 1..n /\ DOMAIN line = 1..Len(line)
        /\ \A k \in DOMAIN out : k \in DOMAIN out' /\ out'[k] = out[k]
        /\ \A k \in DOMAIN out' \ DOMAIN out : k - n \in DOMAIN line /\ out'[k] = line[k - n]
    BY <2>1, <2>3, Extended
  <2>5. n >= 1 /\ \A k \in DOMAIN out : (out[k][1] = "open" <=> k = 1) /\ out[k][1] # "close"
    BY <2>1 DEF BracketInv, Kind
  <2> HIDE DEF n
  <2>6. Len(out') >= 1 /\ 1 \in DOMAIN out
    BY <2>4, <2>5
  <2>7. ASSUME NEW k \in DOMAIN out'
        PROVE  (out'[k][1] = "open" <=> k = 1) /\ out'[k][1] # "close"
    <3>1. CASE k \in DOMAIN out
      BY <2>4, <2>5, <3>1
    <3>2. CASE k \notin DOMAIN out
      <4>1. out'[k][1] \notin {"open", "close"}
        BY <2>2, <2>4, <2>7, <3>2 DEF GoodLine
      <4> QED BY <2>6, <3>2, <4>1
    <3> QED BY <3>1, <3>2
  <2> QED BY <2>1, <2>6, <2>7
<1>4. CASE Footer
  <2> DEFINE n == Len(out)
             t == <<"close", 0>>
  <2>1. pc = "frames" /\ pc' = "returned" /\ out' = Append(out, t)
    BY <1>4 DEF Footer, Brackets
  <2>2. out \in Seq(Tokens) /\ t \in Tokens /\ t[1] = "close"
    BY DEF OutInv, Tokens, Token, InputInv
  <2> HIDE DEF t
  <2>3. /\ Len(out') = n + 1 /\ n \in Nat /\ DOMAIN out = 1..n /\ DOMAIN out' = 1..(n + 1)
        /\ out'[n + 1] = t /\ \A k \in 1..n : out'[k] = out[k]
    BY <2>1, <2>2, Appended
  <2>4. n >= 1 /\ \A k \in DOMAIN out : (out[k][1] = "open" <=> k = 1) /\ out[k][1] # "close"
    BY <2>1 DEF BracketInv, Kind
  <2> HIDE DEF n
  <2>5. ASSUME NEW k \in DOMAIN out'
        PROVE  (out'[k][1] = "open" <=> k = 1) /\ (out'[k][1] = "close" <=> k = Len(out'))
    <3>1. CASE k = n + 1
      BY <2>2, <2>3, <2>4, <3>1
    <3>2. CASE k \in 1..n
      BY <2>3, <2>4, <3>2
    <3> QED BY <2>3, <3>1, <3>2
  <2>6. Len(out') >= 2
    BY <2>3, <2>4
  <2> QED BY <2>1, <2>5, <2>6
<1>5. CASE UNCHANGED vars
  BY <1>5 DEF BracketInv, Bracketed, Kind, vars
<1> QED BY <1>2, <1>3, <1>4, <1>5 DEF Next

(***************************************************************************)
(* The theorems                                                            *)
(***************************************************************************)

\* At the start nothing was written or asked.
LEMMA InitIInv == Init => IInv
<1> SUFFICES ASSUME Init PROVE IInv
  OBVIOUS
<1>1. pc = "header" /\ p = 0 /\ i = 0 /\ out = << >> /\ calls = << >>
  BY DEF Init
<1>2. LoopInv /\ BracketInv
  BY <1>1 DEF LoopInv, BracketInv, Bracketed
<1>3. \A T : << >> \in Seq(T)
  OBVIOUS
<1>4. CallsInv /\ OutInv
  BY <1>1, <1>3 DEF CallsInv, SymbolizerSession, OutInv
<1> QED BY <1>2, <1>4, InitInput DEF IInv

\* At every time the loop, the output and the calls of the symbolizer agree.
THEOREM Invariance == Spec => []IInv
<1>1. IInv /\ [Next]_vars => IInv'
  BY NextInput, NextLoop, NextCalls, NextOut, NextBrackets DEF IInv
<1> QED BY <1>1, InitIInv, PTL DEF Spec

\* For call stacks of any length the variables keep their types: the loop never leaves
\* the frames that backtrace() has returned (mulle-stacktrace-execinfo.c:316-328).
THEOREM TypeCorrect == Spec => []TypeOK
<1>1. IInv => TypeOK
  <2> SUFFICES ASSUME IInv PROVE TypeOK
    OBVIOUS
  <2>1. Len(callstack) \in Nat /\ p \in 0..Len(callstack) /\ i \in 0..Len(callstack)
    BY DEF IInv, InputInv, LoopInv
  <2> QED BY <2>1 DEF IInv, InputInv, LoopInv, CallsInv, OutInv, Tokens, TypeOK
<1> QED BY <1>1, Invariance, PTL

\* A dump shows exactly the frames past the offset that the filter lets through, judged
\* by the name that is printed, once each, and callers before callees
\* (mulle-stacktrace-execinfo.c:322-439).
THEOREM ShowsWhatIsExpected == Spec => []FramesShown
<1>1. IInv => FramesShown
  <2> SUFFICES ASSUME IInv, pc = "returned" PROVE FramesShown
    BY DEF FramesShown
  <2>1. /\ Len(callstack) \in Nat /\ p \in 0..Len(callstack) /\ p <= offset /\ offset \in Nat
    BY DEF IInv, InputInv, LoopInv
  <2>2. ASSUME NEW q \in 1..Len(callstack)
        PROVE  Shows(q) <=> Expected(q)
    <3>1. CASE q > p
      <4>1. q \in (p + 1)..Len(callstack)
        BY <2>1, <3>1
      <4> QED BY <4>1 DEF IInv, OutInv
    <3>2. CASE q <= p
      <4>1. q \notin (offset + 1)..Len(callstack) /\ q # 0 /\ ~ (q > p)
        BY <2>1, <3>2
      <4>2. ~ Expected(q)
        BY <4>1 DEF Expected
      <4>3. ~ Shows(q)
        BY <4>1 DEF Shows, IInv, OutInv
      <4> QED BY <4>2, <4>3
    <3> QED BY <2>1, <3>1, <3>2
  <2>3. ASSUME NEW k \in DOMAIN out, NEW m \in DOMAIN out, k < m, out[k][2] # 0, out[m][2] # 0
        PROVE  out[k][2] > out[m][2] \/ (out[k] = <<"symbol", out[m][2]>> /\ Kind(m) = "segment")
    <3>1. InOrder(out[k], out[m])
      BY <2>3 DEF IInv, OutInv
    <3> QED BY <2>3, <3>1 DEF InOrder, Kind
  <2> QED BY <2>2, <2>3 DEF FramesShown
<1> QED BY <1>1, Invariance, PTL

\* Whatever is shown, and if it is nothing, stands between an opening and a closing bracket
\* (mulle-stacktrace-execinfo.c:464-480, 494-502).
THEOREM BracketsMatch == Spec => []Bracketed
<1>1. IInv => Bracketed
  BY DEF IInv, BracketInv, Bracketed
<1> QED BY <1>1, Invariance, PTL

\* SymbolizerSession: the symbolizer is set up first and torn down last, and is asked
\* about frames in the order of the walk.  No question is mistaken for tear-down, since
\* an address that is a symbol is not asked for
\* (mulle-stacktrace-execinfo.c:320, 337-357, 440).
THEOREM SymbolizerProtocol == Spec => []SymbolizerSession
<1>1. IInv => SymbolizerSession
  BY DEF IInv, CallsInv
<1> QED BY <1>1, Invariance, PTL
================================================================================
