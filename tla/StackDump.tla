------------------------------- MODULE StackDump -------------------------------
(***************************************************************************)
(* mulle-stacktrace with the execinfo backend and dladdr: one call of      *)
(* _mulle_stacktrace.  The frames of the call stack are written outermost  *)
(* first; hooks of the client may name a frame or declare it boring.       *)
(*                                                                         *)
(* Text is abstracted to tokens <<kind, frame>>, where frame is a position *)
(* in the call stack (the innermost one is 1), or 0.  A name is "plain",   *)
(* "boring" (it has one of the prefixes that _trim_boring_functions looks  *)
(* for) or "" (unknown).                                                   *)
(***************************************************************************)
EXTENDS Integers, Sequences, SequencesExt

CONSTANTS
  MaxFrames,   \* bounds the call stacks that are enumerated
  Window,      \* 0x800: how far from a symbol an address is still looked up
  Distances    \* the distances of addresses from symbols that are enumerated

ASSUME WindowAssumption ==
  MaxFrames \in Nat /\ Window \in Nat \ {0} /\ Distances \subseteq Nat

Formats == {"normal", "trimmed", "linefeed", "csv"}
Names   == {"plain", "boring"}

\* What _symbolize_nothing returns: NULL.
NoAnswer == ""

\* NULL for the struct, _mulle_stacktrace_init_default, or _mulle_stacktrace_init
\* with 0 for is_boring.  A struct may have a symbolizer, too.
Hooks == {"none", "init_default", "init_null"}

\* What dladdr and the client's symbolizer know of an address.  dl: dladdr
\* found the segment; name and distance: the symbol before the address, "" if
\* there is none; answer: what the symbolizer returns for it.
Frames ==
  [dl : {FALSE}, name : {""}, distance : {0}, answer : Names \cup {NoAnswer}]
    \cup [dl : {TRUE}, name : {""}, distance : {0}, answer : Names \cup {NoAnswer}]
    \cup [dl : {TRUE}, name : Names, distance : Distances, answer : Names \cup {NoAnswer}]

VARIABLES
  callstack,  \* the addresses that backtrace() returns, innermost first
  offset,     \* how many of the innermost frames to skip
  format,
  hooks,      \* how the client's struct mulle_stacktrace was made
  pc,         \* "header", "frames" or "returned"
  p,          \* the frames that are left: 1..p
  i,          \* the number of frames that were looked at
  out,        \* the tokens written
  calls       \* the calls of the symbolizer: <<address or 0, max>>

input == <<callstack, offset, format, hooks>>
vars  == <<input, pc, p, i, out, calls>>

Token == {"open", "close", "titles", "newline", "delim", "symbol", "segment", "address", "row"}

TypeOK ==
  /\ callstack \in Seq(Frames)
  /\ offset \in Nat /\ format \in Formats /\ hooks \in Hooks
  /\ pc \in {"header", "frames", "returned"}
  /\ p \in 0..Len(callstack) /\ i \in 0..Len(callstack)
  /\ out \in Seq(Token \X (0..Len(callstack)))
  /\ calls \in Seq((0..Len(callstack)) \X Int)

Init ==
  /\ callstack \in BoundedSeq(Frames, MaxFrames)
  /\ offset \in 0..(MaxFrames + 1)
  /\ format \in Formats
  /\ hooks \in Hooks
  /\ hooks = "none" => \A q \in DOMAIN callstack : callstack[q].answer = NoAnswer
  /\ pc = "header"
  /\ p = 0
  /\ i = 0
  /\ out = << >>
  /\ calls = << >>

Brackets == format \in {"normal", "trimmed"}

\* What max is for set-up and for tear-down ((size_t) -1).  Both have no address:
\* a question may have the max of set-up, too.
SetUp    == 0
TearDown == -1

\* Fault: the end of the buffer is taken for the end of the frames in it.
EndOfBuffer == MaxFrames

\* p = &callstack[ frames]
EndOfFrames == Len(callstack)

\* What precedes the frames; the symbolizer is set up.
Header ==
  /\ pc = "header"
  /\ pc' = "frames"
  /\ p' = EndOfFrames
  /\ out' = CASE Brackets            -> <<<<"open", 0>>>>
              [] format = "linefeed" -> << >>
              [] format = "csv"      -> <<<<"titles", 0>>>>
  /\ calls' = <<<<0, SetUp>>>>
  /\ UNCHANGED <<input, i>>

\* Whether is_boring is the default hook, or the one that keeps every frame.
Filters == hooks # "init_null"

\* max: how far the symbolizer may look, to find something nearer.
Reach(f) ==
  IF f.name # "" /\ f.distance < Window THEN f.distance ELSE Window

\* Fault: an address that is the symbol is looked up, too.
AsksAlways(f) == TRUE

Asks(f) == Reach(f) # 0

\* The name that is shown: the symbolizer's, if it was asked and knows one.
ShownName(f) == IF Asks(f) /\ f.answer # NoAnswer THEN f.answer ELSE f.name

\* is_boring is consulted if dladdr knows the segment, and not for csv.
Boring(f) == Filters /\ f.dl /\ ShownName(f) = "boring" /\ format # "csv"

\* Every frame but the first one looked at is preceded by a delimiter, and so
\* is its segment.
Delim == IF i = 0 THEN << >> ELSE <<<<"delim", 0>>>>

\* Fault: the filter looks at what dladdr knows of the frame only.
LineUnasked(f) ==
  CASE format = "csv" -> <<<<"row", p>>>>
    [] Filters /\ f.dl /\ f.name = "boring" /\ format # "csv" -> << >>
    [] OTHER -> IF f.dl THEN Delim \o <<<<"symbol", p>>>> \o Delim \o <<<<"segment", p>>>>
                ELSE Delim \o <<<<"address", p>>>>

Line(f) ==
  CASE format = "csv" -> <<<<"row", p>>>>
    [] Boring(f)      -> << >>
    [] OTHER -> IF f.dl THEN Delim \o <<<<"symbol", p>>>> \o Delim \o <<<<"segment", p>>>>
                ELSE Delim \o <<<<"address", p>>>>

\* Fault: the frame at the offset is not skipped.
MoreWithOffset == p > 0 /\ p >= offset

\* while( p > sentinel)
More == p > offset

\* One iteration of the loop of mulle_stacktrace_dump.
DumpFrame ==
  /\ pc = "frames"
  /\ More
  /\ LET f == callstack[p]
     IN  /\ calls' = IF Asks(f) THEN Append(calls, <<p, Reach(f) - 1>>) ELSE calls
         /\ out' = out \o Line(f)
  /\ p' = p - 1
  /\ i' = i + 1
  /\ UNCHANGED <<input, pc>>

\* Fault: the closing bracket is forgotten, if no frame is shown.
FooterIfAny ==
  /\ pc = "frames"
  /\ ~ More
  /\ calls' = Append(calls, <<0, TearDown>>)
  /\ out' = CASE Brackets /\ i # 0       -> Append(out, <<"close", 0>>)
              [] format = "linefeed" -> Append(out, <<"newline", 0>>)
              [] OTHER               -> out
  /\ pc' = "returned"
  /\ UNCHANGED <<input, p, i>>

\* The symbolizer is torn down; what follows the frames.
Footer ==
  /\ pc = "frames"
  /\ ~ More
  /\ calls' = Append(calls, <<0, TearDown>>)
  /\ out' = CASE Brackets            -> Append(out, <<"close", 0>>)
              [] format = "linefeed" -> Append(out, <<"newline", 0>>)
              [] format = "csv"      -> out
  /\ pc' = "returned"
  /\ UNCHANGED <<input, p, i>>

Next == Header \/ DumpFrame \/ Footer

Spec == Init /\ [][Next]_vars

(***************************************************************************)
(* What makes a dump correct                                               *)
(***************************************************************************)

Kind(k)  == out[k][1]
Shows(q) == \E k \in DOMAIN out : out[k][2] = q

\* The frames that the filter leaves, judged by their names: all from the outermost
\* one to the one at the offset, without those that have a boring name.  Only csv
\* and a client that keeps every frame get all of them: the filter is consulted for
\* the normal format, too, which index.md:59 calls "full stacktrace".
Expected(q) ==
  /\ q \in (offset + 1)..Len(callstack)
  /\ \/ ~ Filters \/ format = "csv" \/ ~ callstack[q].dl
     \/ LET f == callstack[q]
        IN  IF f.answer # NoAnswer /\ (f.name = "" \/ f.distance > 0)
            THEN f.answer # "boring"
            ELSE f.name # "boring"

\* A dump shows exactly the frames that are expected, each of them once, and
\* it shows the callers before the callees.
FramesShown ==
  pc = "returned" =>
    /\ \A q \in 1..Len(callstack) : Shows(q) <=> Expected(q)
    /\ \A k, m \in DOMAIN out :
         k < m /\ out[k][2] # 0 /\ out[m][2] # 0 =>
           out[k][2] > out[m][2] \/ (out[k] = <<"symbol", out[m][2]>> /\ Kind(m) = "segment")

\* Whatever is shown, also nothing at all, it stands between brackets.
Bracketed ==
  pc = "returned" /\ Brackets =>
    /\ Len(out) >= 2
    /\ \A k \in DOMAIN out :
         /\ Kind(k) = "open" <=> k = 1
         /\ Kind(k) = "close" <=> k = Len(out)

Closing(k) == pc = "returned" /\ k = Len(calls)

\* The symbolizer is set up once, before all questions, and torn down once, after
\* all of them; in between it is asked about frames, outermost first, about each of
\* them once at most.  A max of (size_t) -1 means tear-down: no question has it, as
\* max - 1 never wraps.  (A question at the distance 1 has the max 0, as set-up does,
\* and differs from that by its address.)  Every question is limited to the window
\* and to symbols that are nearer than the one that dladdr knows.
SymbolizerSession ==
  /\ \A k \in DOMAIN calls :
       /\ calls[k] = <<0, SetUp>> <=> k = 1
       /\ calls[k][2] = TearDown <=> Closing(k)
       /\ calls[k][1] = 0 <=> (k = 1 \/ Closing(k))
       /\ calls[k][1] # 0 =>
            LET f == callstack[calls[k][1]]
            IN  calls[k][2] \in 0..(Window - 1) /\ (f.name # "" => calls[k][2] < f.distance)
  /\ \A k, m \in DOMAIN calls :
       k < m /\ calls[k][1] # 0 /\ calls[m][1] # 0 => calls[k][1] > calls[m][1]
=============================================================================
