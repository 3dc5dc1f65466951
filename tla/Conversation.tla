----------------------------- MODULE Conversation ------------------------------
(***************************************************************************)
(* A CLI talking to its parser, what the modules of the four parsers have  *)
(* in common.  The CLI writes messages on two channels, in deltas or as    *)
(* lines that carry the whole text so far; a result line ends a turn.      *)
(* History variables remember what it said, so that the properties can     *)
(* compare it with what subscribers are shown.                             *)
(***************************************************************************)
EXTENDS Subscriber

CONSTANTS
  Message,     \* the texts of whole messages
  MaxLines     \* bound: lines of one run

ASSUME MessageAssumption == Message \subseteq Text \ {<<>>}
ASSUME MaxLinesAssumption == MaxLines \in Nat

VARIABLES
  builder,     \* the parser's Builder and Finalizer
  lines,       \* how many lines were parsed
  told,        \* history: the CLI's message on each channel, as far as told
  whole,       \* history: a line has carried that text as a whole
  first,       \* history: it is the first message of the channel
  said,        \* history: how many characters the CLI has said on it
  restated,    \* history: those that deltas told of a later message, which
               \*          a line then repeated
  turn         \* history: "first", "ended" by a result line, or "later"

history == <<told, whole, first, said, restated>>
vars == <<builder, lines, history, turn>>

TalkInit ==
  /\ builder = NewBuilder
  /\ lines = 0
  /\ told = [c \in Channel |-> <<>>]
  /\ whole = [c \in Channel |-> FALSE]
  /\ first = [c \in Channel |-> TRUE]
  /\ said = [c \in Channel |-> 0]
  /\ restated = [c \in Channel |-> 0]
  /\ turn = "first"

(* A line is parsed; the next after a result belongs to a later turn.      *)
ParseTo(next, t) == lines < MaxLines /\ lines' = lines + 1 /\ builder' = next /\ turn' = t

Parse(next) == ParseTo(next, IF turn = "ended" THEN "later" ELSE turn)

EndTurn(next) == ParseTo(next, IF turn = "first" THEN "ended" ELSE "later")

(* What may have been told of a message.                                   *)
Beginnings == UNION {Prefixes(m) : m \in Message}

(* A message told as a whole is followed by another one.                   *)
Begun(c) == IF whole[c] THEN <<>> ELSE told[c]

(* The CLI says the next piece of its message, up to t.                    *)
Piece(c, t) == SubSeq(t, Len(Begun(c)) + 1, Len(t))

SayUpTo(c, t) ==
  /\ IsPrefix(Begun(c), t)
  /\ told' = [told EXCEPT ![c] = t]
  /\ whole' = [whole EXCEPT ![c] = FALSE]
  /\ first' = [first EXCEPT ![c] = @ /\ ~whole[c]]
  /\ said' = [said EXCEPT ![c] = @ + Len(Piece(c, t))]
  /\ UNCHANGED restated

(* The CLI says the whole text t of its message, perhaps more than it has  *)
(* told of it before, or of another one.                                   *)
SayAtOnce(c, t, another) ==
  /\ IF another THEN whole[c] ELSE IsPrefix(told[c], t)
  /\ told' = [told EXCEPT ![c] = t]
  /\ whole' = [whole EXCEPT ![c] = TRUE]
  /\ first' = [first EXCEPT ![c] = @ /\ ~another]
  /\ said' = [said EXCEPT ![c] = @ + Len(t) - IF another THEN 0 ELSE Len(told[c])]

(* The same of a CLI that tells its messages in deltas: it repeats those   *)
(* of the message, if there were any.                                      *)
SayWhole(c, t, another) ==
  /\ SayAtOnce(c, t, another)
  /\ restated' = [restated EXCEPT
       ![c] = @ + IF another \/ whole[c] \/ first[c] THEN 0 ELSE Len(told[c])]

SayNothing == UNCHANGED history

--------------------------------------------------------------------------------
(* Properties *)

(* What a subscriber shows.                                                *)
Shown == Displayed[builder.outputs]

(* The first message of a channel is shown once and as it was told, in     *)
(* deltas, as a whole or both ways, by assistant lines, items and the      *)
(* result.  Of all messages together no more is shown than was said, but   *)
(* what deltas told of a later message and a line then repeated: that is   *)
(* shown twice, because the builder takes those deltas for more of the     *)
(* text before (builder.go:79) and the line for another message            *)
(* (builder.go:136).  The first turn is meant: a later one starts anew.    *)
SaidOnce ==
  turn # "later" => \A c \in Channel :
    /\ first[c] => Shown[c].all = told[c] /\ Shown[c].started <= 1
    /\ Len(Shown[c].all) <= said[c] + restated[c]

(* Until a second turn begins, when the CLI has said a whole text the      *)
(* message shown last is exactly that text, also for later messages, whose *)
(* text the parsers compare with that of all messages before.              *)
WholeTextShown ==
  turn # "later" => \A c \in Channel : whole[c] => Shown[c].last = told[c]

(* The first result of a run leaves no message and no phase open.          *)
EndedClosed == turn = "ended" => \A c \in Channel : ~builder.open[c]
================================================================================
