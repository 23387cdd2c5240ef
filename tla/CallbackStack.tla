----------------------------- MODULE CallbackStack -----------------------------
(***************************************************************************)
(* What mulle-atexit and mulle-atinit promise, without threads, mutex,     *)
(* array or activation records: a stack of callbacks that is arranged and  *)
(* then drained, once, from the top, one callback at a time.  While the    *)
(* drain lasts, the stack can still grow.  As soon as it is found empty,   *)
(* callbacks are executed by whoever brings them.                          *)
(***************************************************************************)
EXTENDS Integers, Sequences

CONSTANTS
  Callbacks,
  NoCallback,
  Arrange(_)   \* what becomes of the stack when the drain starts

VARIABLES
  stack,    \* the callbacks that wait, the last one to be executed next
  current,  \* the callback the drain has taken, or NoCallback
  direct,   \* the callbacks that are executed by those who registered them
  begun,    \* the callbacks whose body was entered
  ended,    \* the callbacks whose body has returned
  mode      \* "collect", "drain", "drained", "gone" or "failed"

vars == <<stack, current, direct, begun, ended, mode>>

Waiting == {stack[i] : i \in DOMAIN stack}
Known   == Waiting \cup {current} \cup direct \cup begun

Init ==
  /\ stack = << >>
  /\ current = NoCallback
  /\ direct = {}
  /\ begun = {}
  /\ ended = {}
  /\ mode = "collect"

Register(c) ==
  /\ mode \in {"collect", "drain"}
  /\ c \notin Known
  /\ stack' = Append(stack, c)
  /\ UNCHANGED <<current, direct, begun, ended, mode>>

StartDrain ==
  /\ mode = "collect"
  /\ mode' = "drain"
  /\ stack' = Arrange(stack)
  /\ UNCHANGED <<current, direct, begun, ended>>

\* The drain executes one callback at a time.
Take ==
  /\ mode = "drain"
  /\ current = NoCallback
  /\ stack # << >>
  /\ current' = stack[Len(stack)]
  /\ stack' = SubSeq(stack, 1, Len(stack) - 1)
  /\ UNCHANGED <<direct, begun, ended, mode>>

\* Nothing waits: c need not be stored, the caller executes it.
Divert(c) ==
  /\ mode \in {"drain", "drained"}
  /\ stack = << >>
  /\ c \notin Known
  /\ direct' = direct \cup {c}
  /\ UNCHANGED <<stack, current, begun, ended, mode>>

Begin(c) ==
  /\ mode \in {"drain", "drained"}
  /\ c \in (direct \cup {current}) \ (begun \cup {NoCallback})
  /\ begun' = begun \cup {c}
  /\ UNCHANGED <<stack, current, direct, ended, mode>>

End(c) ==
  /\ mode \in {"drain", "drained"}
  /\ c \in begun \ ended
  /\ ended' = ended \cup {c}
  /\ current' = IF c = current THEN NoCallback ELSE current
  /\ direct' = direct \ {c}
  /\ UNCHANGED <<stack, begun, mode>>

StopDrain ==
  /\ mode = "drain"
  /\ current = NoCallback
  /\ stack = << >>
  /\ mode' = "drained"
  /\ UNCHANGED <<stack, current, direct, begun, ended>>

\* The process ends, and with it the callbacks that other threads execute.
Quit ==
  /\ mode = "drained"
  /\ mode' = "gone"
  /\ UNCHANGED <<stack, current, direct, begun, ended>>

\* The process aborts for want of memory, and what waits is lost.
Fail ==
  /\ mode \in {"collect", "drain"}
  /\ mode' = "failed"
  /\ stack' = << >>
  /\ UNCHANGED <<current, direct, begun, ended>>

Drain == Take \/ StopDrain \/ \E c \in Callbacks : c = current /\ (Begin(c) \/ End(c))

Next ==
  \/ StartDrain
  \/ Drain
  \/ Quit
  \/ Fail
  \/ \E c \in Callbacks : Register(c) \/ Divert(c) \/ Begin(c) \/ End(c)

\* What can happen, and that the drain, once it has started, is carried on until
\* it is done.
Safety == Init /\ [][Next]_vars
Spec   == Safety /\ WF_vars(Drain)
=============================================================================
