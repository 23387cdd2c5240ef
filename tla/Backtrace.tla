------------------------------- MODULE Backtrace -------------------------------
(***************************************************************************)
(* mulle-stacktrace with the libbacktrace backend: threads that call       *)
(* _mulle_stacktrace and mulle_stacktrace_count_frames.  They share        *)
(* global_state, which the first call creates, without a lock; all other   *)
(* state belongs to one call.  The frames are written innermost first, by  *)
(* a callback that libbacktrace calls for each of them.                    *)
(*                                                                         *)
(* The output of a call, to a stream of its own, is a sequence of tokens   *)
(* <<kind, frame, text>>, and a text is a sequence of words.  A static     *)
(* pointer that is read and written without synchronisation may be read    *)
(* again by the compiled code or kept in a register: both are allowed      *)
(* (Reread).                                                               *)
(***************************************************************************)
EXTENDS Integers, Sequences, FiniteSetsExt

CONSTANTS
  Threads,
  NoState,    \* NULL, as a backtrace_state
  Stacks,     \* the call stacks that a thread enumerates, innermost frame first
  Offsets,    \* the values of offset that it enumerates
  Formats,    \* a subset of the four formats
  MayFail,    \* whether backtrace_create_state can fail
  MaxCalls    \* bounds the calls of each thread

\* A frame: the name of the function in the debug information, "" if there is
\* none, and the words of what the symbolizer answers, none of them for NULL.  The
\* word "+offset" stands for "+ " and a number: an answer does not begin with it.
Names   == {"", "plain", "boring"}
Words   == {"", "plain", "boring", "class", "selector", "+offset", "address", "unknown"}
Answers == {s \in Seq(Words) : s # << >> => s[1] # "+offset"}
Frames  == [function : Names, answer : Answers]

NoAnswer == << >>

\* What the client passes: NULL or the result of _mulle_stacktrace_init_default,
\* maybe with a symbolizer put into it; or that of _mulle_stacktrace_init with
\* nothing but a symbolizer.
Hooks == {"default", "keep"}

AllFormats == {"normal", "trimmed", "linefeed", "csv"}

ASSUME BacktraceAssumption ==
  /\ NoState \notin Threads
  /\ Stacks \in [Threads -> SUBSET Seq(Frames)] /\ Offsets \in [Threads -> SUBSET Nat]
  /\ Formats \in [Threads -> SUBSET AllFormats]
  /\ MayFail \in BOOLEAN /\ MaxCalls \in [Threads -> Nat]

VARIABLES
  global_state,  \* NoState or the thread that created it
  created,       \* the number of states that each thread has created
  crashed,       \* whether a call has followed a wild pointer
  overwritten,   \* ghost: whether a creation that failed replaced another's state
  calls,         \* the number of calls that each thread has begun
  call           \* the current or last call of each thread

shared == <<global_state, created, overwritten>>
vars   == <<shared, crashed, calls, call>>

\* What is written: the kind of a token, the position of its frame, and a text.
Tokens ==
  {"open", "close", "newline", "titles", "delim", "frame"} \X Nat \X Seq(Words)

\* The arguments and local variables of a call, the context included, and how
\* many frames libbacktrace has called the callback for (at).
Calls ==
  [pc : {"check", "create", "recheck", "walk", "frames", "returned"},
   count : BOOLEAN,  \* mulle_stacktrace_count_frames, else _mulle_stacktrace
   stack : Seq(Frames), offset : Nat, format : AllFormats, hooks : Hooks,
   state : Threads \cup {NoState},
   at : Nat, frames_processed : Nat, frame_count : Nat, out : Seq(Tokens)]

TypeOK ==
  /\ global_state \in Threads \cup {NoState}
  /\ created \in [Threads -> Nat] /\ crashed \in BOOLEAN /\ overwritten \in BOOLEAN
  /\ \A t \in Threads : calls[t] \in 0..MaxCalls[t]
  /\ \A t \in Threads : calls[t] > 0 =>
       /\ call[t] \in Calls
       /\ call[t].frame_count <= call[t].frames_processed
       /\ call[t].frames_processed = call[t].at
       /\ call[t].at <= Len(call[t].stack)

Init ==
  /\ global_state = NoState
  /\ created = [t \in Threads |-> 0]
  /\ crashed = FALSE /\ overwritten = FALSE
  /\ calls = [t \in Threads |-> 0]
  /\ call = [t \in Threads |-> [pc |-> "returned"]]

Brackets(format) == format \in {"normal", "trimmed"}

Mark(kind) == <<<<kind, 0, << >>>>>>

Header(format) ==
  CASE Brackets(format)    -> Mark("open")
    [] format = "linefeed" -> << >>
    [] OTHER               -> Mark("titles")

Trailer(format) ==
  CASE Brackets(format)    -> Mark("close")
    [] format = "linefeed" -> Mark("newline")
    [] OTHER               -> << >>

NewCall(count, stack, offset, format, hooks, out) ==
  [pc |-> "check", count |-> count, stack |-> stack, offset |-> offset,
   format |-> format, hooks |-> hooks, state |-> NoState,
   at |-> 0, frames_processed |-> 0, frame_count |-> 0, out |-> out]

\* A call begins; offset, format and hooks say nothing for count_frames.
MayBegin(t) == call[t].pc = "returned" /\ calls[t] < MaxCalls[t]

Begin(t, new) ==
  /\ calls' = [calls EXCEPT ![t] = @ + 1]
  /\ call' = [call EXCEPT ![t] = new]
  /\ UNCHANGED <<shared, crashed>>

BeginDump(t) ==
  /\ MayBegin(t)
  /\ \E stack \in Stacks[t], offset \in Offsets[t], format \in Formats[t], hooks \in Hooks :
       Begin(t, NewCall(FALSE, stack, offset, format, hooks, Header(format)))

BeginCount(t) ==
  /\ MayBegin(t)
  /\ \E stack \in Stacks[t] : Begin(t, NewCall(TRUE, stack, 0, "normal", "keep", << >>))

\* Fault: the state is created by every call.
CheckNever(t) ==
  /\ call[t].pc = "check"
  /\ call' = [call EXCEPT ![t].pc = "create"]
  /\ UNCHANGED <<shared, crashed, calls>>

\* if( ! global_state)
Check(t) ==
  /\ call[t].pc = "check"
  /\ call' = [call EXCEPT ![t].pc = IF global_state = NoState THEN "create" ELSE "walk",
                          ![t].state = global_state]
  /\ UNCHANGED <<shared, crashed, calls>>

\* global_state = backtrace_create_state( ...)
Create(t) ==
  /\ call[t].pc = "create"
  /\ \/ /\ global_state' = t /\ created' = [created EXCEPT ![t] = @ + 1]
        /\ UNCHANGED overwritten
     \/ /\ MayFail /\ global_state' = NoState /\ UNCHANGED created
        /\ overwritten' = (overwritten \/ global_state # NoState)
  /\ call' = [call EXCEPT ![t].pc = "recheck", ![t].state = global_state']
  /\ UNCHANGED <<crashed, calls>>

\* The value of global_state, as compiled code may see it.
Reread(t) == {call[t].state, global_state}

\* Fault: the result of the creation is not looked at.
RecheckNever(t) ==
  /\ call[t].pc = "recheck"
  /\ call' = [call EXCEPT ![t].pc = "walk"]
  /\ UNCHANGED <<shared, crashed, calls>>

\* Without a state the call returns, and closes no bracket.
Recheck(t) ==
  /\ call[t].pc = "recheck"
  /\ \E s \in Reread(t) :
       call' = [call EXCEPT ![t].pc = IF s = NoState THEN "returned" ELSE "walk",
                            ![t].state = s]
  /\ UNCHANGED <<shared, crashed, calls>>

\* The context is set up.  count_frames leaves its offset uninitialised, which
\* shows as nothing, as one frame, or as more than there are.  Without a state
\* libbacktrace reads through NULL.
Walk(t) ==
  /\ call[t].pc = "walk"
  /\ \E s \in Reread(t),
        offset \in IF call[t].count THEN {0, 1, Len(call[t].stack) + 1} ELSE {call[t].offset} :
         /\ call' = [call EXCEPT ![t].pc = "frames", ![t].state = s, ![t].offset = offset]
         /\ crashed' = (s = NoState)
  /\ UNCHANGED <<shared, calls>>

More(t)    == call[t].at < Len(call[t].stack)
Skipped(t) == call[t].frames_processed < call[t].offset

\* The frame that the callback is called for.
Position(t) == call[t].at + 1
Frame(t)    == call[t].stack[Position(t)]

\* Fault: the frames that are skipped are not counted.
SkipUncounted(t) == [call[t] EXCEPT !.at = @ + 1]

\* Every path of the callback counts the frame.
Skip(t) == [call[t] EXCEPT !.at = @ + 1, !.frames_processed = @ + 1]

(***************************************************************************)
(* The text of a frame                                                     *)
(***************************************************************************)

\* buf, unless there is an answer.  What follows the name is left out, and so is
\* the rewriting of buf with the answer, as the answer is printed then.
Text(t) ==
  LET f == Frame(t) IN
  IF f.answer # NoAnswer THEN f.answer
  ELSE <<"address", IF f.function = "" THEN "unknown" ELSE f.function>>

Keeps(t) == call[t].hooks = "keep"

\* Fault: the text may end with the first word.
BellyAlways(s) == Tail(s)

\* _trim_belly_fat: the first word goes if another one follows.
Belly(s) == IF Len(s) > 1 THEN Tail(s) ELSE s

\* _trim_arse_fat: the text ends before " + ", which is never its beginning.
Arse(s) ==
  LET cuts == {k \in 2..Len(s) : s[k] = "+offset"}
  IN  IF cuts = {} THEN s ELSE SubSeq(s, 1, Min(cuts) - 1)

\* What fprintf is given by normal_callback, by trimmed_callback, which only calls
\* that one, and by linefeed_callback.
NormalText(t)  == IF Keeps(t) THEN Text(t) ELSE Arse(Belly(Text(t)))
TrimmedText(t) == NormalText(t)

Shows(t) ==
  CASE call[t].format = "normal"   -> NormalText(t)
    [] call[t].format = "trimmed"  -> TrimmedText(t)
    [] call[t].format = "linefeed" -> Text(t)

\* A row has the name in the debug information, whatever the symbolizer answers.
Row(t) == <<"address", Frame(t).function>>

\* The default filter sees what the symbolizer answers.  Without an answer it sees
\* a line that begins with the address, which has none of the boring prefixes.
Boring(t) == ~ Keeps(t) /\ (Text(t)[1] = "boring" \/ Text(t) = <<"0x0">>)

\* Fault: every frame has a delimiter.
DelimAlways(t) == Mark("delim")

\* ctx->delim is empty until a frame is shown.
Delim(t) == IF call[t].frame_count = 0 THEN << >> ELSE Mark("delim")

\* Fault: the frames that are boring are not counted.
HideUncounted(t) == [call[t] EXCEPT !.at = @ + 1]

Hide(t) == [call[t] EXCEPT !.at = @ + 1, !.frames_processed = @ + 1]
Show(t, tokens) ==
  [call[t] EXCEPT !.at = @ + 1, !.frames_processed = @ + 1, !.frame_count = @ + 1,
                  !.out = @ \o tokens]

SkipFrame(t) ==
  /\ call[t].pc = "frames" /\ More(t) /\ Skipped(t)
  /\ call' = [call EXCEPT ![t] = Skip(t)]
  /\ UNCHANGED <<shared, crashed, calls>>

AtFrame(t) == call[t].pc = "frames" /\ More(t) /\ ~ Skipped(t)

\* The callbacks for a frame past the offset, in a dump.
DumpFrame(t) ==
  /\ AtFrame(t) /\ ~ call[t].count /\ call[t].format # "csv"
  /\ call' = [call EXCEPT ![t] =
       IF Boring(t) THEN Hide(t)
       ELSE Show(t, Delim(t) \o <<<<"frame", Position(t), Shows(t)>>>>)]
  /\ UNCHANGED <<shared, crashed, calls>>

\* csv_callback uses no delimiter, as every row ends with a linefeed.
DumpRow(t) ==
  /\ AtFrame(t) /\ ~ call[t].count /\ call[t].format = "csv"
  /\ call' = [call EXCEPT ![t] =
       IF Boring(t) THEN Hide(t) ELSE Show(t, <<<<"frame", Position(t), Row(t)>>>>)]
  /\ UNCHANGED <<shared, crashed, calls>>

\* normal_callback for count_frames: it calls the hooks through a pointer that was
\* never set.  That ends the process, or, if an earlier call left a context at
\* the same place of the stack, its hooks are called.
CountFrame(t) ==
  /\ AtFrame(t) /\ call[t].count
  /\ \/ crashed' = TRUE /\ UNCHANGED call
     \/ UNCHANGED crashed /\ call' = [call EXCEPT ![t] = Hide(t)]
     \/ UNCHANGED crashed /\ call' = [call EXCEPT ![t] = Show(t, << >>)]
  /\ UNCHANGED <<shared, calls>>

\* backtrace_full is done.
Footer(t) ==
  /\ call[t].pc = "frames" /\ ~ More(t)
  /\ call' = [call EXCEPT ![t].pc = "returned",
                          ![t].out = IF call[t].count THEN @ ELSE @ \o Trailer(call[t].format)]
  /\ UNCHANGED <<shared, crashed, calls>>

Step(t) ==
  \/ BeginDump(t) \/ BeginCount(t)
  \/ Check(t) \/ Create(t) \/ Recheck(t) \/ Walk(t)
  \/ SkipFrame(t) \/ DumpFrame(t) \/ DumpRow(t) \/ CountFrame(t) \/ Footer(t)

Next == ~ crashed /\ \E t \in Threads : Step(t)

Spec == Init /\ [][Next]_vars

(***************************************************************************)
(* What makes the calls correct                                            *)
(***************************************************************************)

Dumped(t) == calls[t] > 0 /\ call[t].pc = "returned" /\ ~ call[t].count

\* A call gives up only if the state could not be created; this is what it has
\* written then.
GaveUp(t) == MayFail /\ call[t].state = NoState /\ call[t].out = Header(call[t].format)

\* The tokens that show a frame, and the frames that a reader expects.
FrameTokens(c) == {k \in DOMAIN c.out : c.out[k][1] = "frame"}
Wanted(c, q)   ==
  LET answer == c.stack[q].answer
  IN  q > c.offset /\ ~ (c.hooks = "default" /\ answer # NoAnswer /\ answer[1] = "boring")

\* A dump shows, innermost first, exactly the frames past the offset for which the
\* client's symbolizer has no answer that the filter calls boring, unless it gave up.
FramesShown ==
  \A t \in Threads : Dumped(t) =>
    \/ GaveUp(t)
    \/ LET c == call[t]
       IN  /\ {c.out[k][2] : k \in FrameTokens(c)} = {q \in DOMAIN c.stack : Wanted(c, q)}
           /\ \A k, m \in FrameTokens(c) : k < m => c.out[k][2] < c.out[m][2]

\* The delimiters stand between the frames that are shown, and nowhere else, and
\* all of that stands between what opens and what closes the format: with the
\* linefeed format every line has one frame.
OneFramePerLine ==
  \A t \in Threads : Dumped(t) =>
    \/ GaveUp(t)
    \/ LET c     == call[t]
           inner == SubSeq(c.out, Len(Header(c.format)) + 1, Len(c.out) - Len(Trailer(c.format)))
       IN  /\ c.out = Header(c.format) \o inner \o Trailer(c.format)
           /\ \A k \in DOMAIN inner :
                inner[k][1] = IF c.format = "csv" \/ k % 2 = 1 THEN "frame" ELSE "delim"
           /\ c.format # "csv" /\ inner # << >> => Len(inner) % 2 = 1

\* The text has every word of the answer behind the first one, up to an offset.
KeepsRest(text, answer) ==
  \A k \in 2..Len(answer) :
    (\A m \in 3..k : answer[m] # "+offset") => k - 1 \in DOMAIN text /\ text[k - 1] = answer[k]

\* What the text of a frame says of its function.  Without an answer, and in csv rows,
\* it is the name in the debug information: after the address in rows, in lines, and if
\* the client keeps it, and alone where the address is trimmed.  With an answer it is
\* the whole answer, if nothing is trimmed or if there is one word only.  Of an answer
\* of several words trimming loses the first one, which may be the name of the function:
\* "main + 12" is printed as "+ 12", whatever the comment of _trim_belly_fat says of
\* addresses and paths.  It loses no other word before an offset, and never all of them
\* (backtrace.c:50-78, 225-227, 291, 344).
FramesNamed ==
  \A t \in Threads : Dumped(t) =>
    \A k \in FrameTokens(call[t]) :
      LET c      == call[t]
          frame  == c.stack[c.out[k][2]]
          text   == c.out[k][3]
          name   == IF frame.function = "" /\ c.format # "csv" THEN "unknown" ELSE frame.function
          whole  == c.format \in {"linefeed", "csv"} \/ c.hooks = "keep"
      IN  IF frame.answer = NoAnswer \/ c.format = "csv"
          THEN text = IF whole THEN <<"address", name>> ELSE <<name>>
          ELSE IF whole \/ Len(frame.answer) = 1 THEN text = frame.answer
          ELSE KeepsRest(text, frame.answer)

\* libbacktrace is never called without a state, also if the creation fails or
\* several threads find that there is none.  The exception is both at once: a
\* creation that fails takes the state away that another thread has just created.
WalksWithState ==
  ~ overwritten =>
    \A t \in Threads : call[t].pc = "frames" => call[t].state # NoState

\* With the same exception, a thread creates at most one state: the threads that
\* race for the first one leak at most one each.
OneStateEach == ~ overwritten => \A t \in Threads : created[t] <= 1

\* index.md: "mulle_stacktrace_count_frames(void) - returns number of frames
\* captured by the backend".
CountIsFrameCount ==
  \A t \in Threads :
    calls[t] > 0 /\ call[t].count /\ call[t].pc = "returned" =>
      call[t].frame_count = Len(call[t].stack)

\* index.md: "mulle_stacktrace_trimmed  : remove system frames (default)", and the
\* comment of _trim_boring_functions, "Filter out uninteresting stack frames", for a
\* client that has no symbolizer.
UninterestingFiltered ==
  \A t \in Threads : Dumped(t) =>
    \A k \in FrameTokens(call[t]) :
      LET f == call[t].stack[call[t].out[k][2]]
      IN  call[t].format = "trimmed" /\ call[t].hooks = "default" /\ f.answer = NoAnswer =>
            f.function # "boring"
=============================================================================
