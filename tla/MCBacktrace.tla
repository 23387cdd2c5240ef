------------------------------ MODULE MCBacktrace ------------------------------
(***************************************************************************)
(* A thread that calls once, with many call stacks, and another one that   *)
(* calls twice, with one call stack, which race for the state.             *)
(***************************************************************************)
EXTENDS Backtrace, SequencesExt, TLC

CONSTANTS one, two

OneThread  == {one}
TwoThreads == {one, two}

\* A function of the program, one of mulle-objc, one without debug information;
\* and functions for which the symbolizer of the client knows a boring name, one that
\* begins like that, a short one, a name of two words, and names with an offset.
Plain    == [function |-> "plain",  answer |-> << >>]
Library  == [function |-> "boring", answer |-> << >>]
Stripped == [function |-> "",       answer |-> << >>]
Named    == [function |-> "plain",  answer |-> <<"boring">>]
Sender   == [function |-> "plain",  answer |-> <<"boring", "selector">>]
Short    == [function |-> "plain",  answer |-> <<"plain">>]
Method   == [function |-> "plain",  answer |-> <<"class", "selector">>]
Inside   == [function |-> "",       answer |-> <<"class", "selector", "+offset">>]
Within   == [function |-> "",       answer |-> <<"plain", "+offset">>]

AllStacks  ==
  BoundedSeq({Plain, Library, Named, Method}, 2)
    \cup {<<Stripped, Inside>>, <<Inside, Stripped>>, <<Plain, Named, Short>>, <<Sender, Short>>,
          <<Within>>, <<Short, Within>>}

\* The first thread tries everything, the second one has something to show.
SomeStacks  == (one :> AllStacks) @@ (two :> {<<Plain, Plain>>})
SomeOffsets == (one :> 0..3) @@ (two :> {1})
SomeFormats == (one :> AllFormats) @@ (two :> {"linefeed"})
OneAndTwo   == (one :> 1) @@ (two :> 2)

\* One thread that skips its innermost frame.
OneStacks   == one :> AllStacks
OneOffset   == one :> {1}
AllOfOne    == one :> AllFormats
LinesOfOne  == one :> {"linefeed"}
OnlyOne     == one :> 1
=============================================================================
