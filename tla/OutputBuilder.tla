----------------------------- MODULE OutputBuilder -----------------------------
(***************************************************************************)
(* internal/parser: Builder (builder.go, builder_tools.go) and Finalizer   *)
(* (finalizer.go), the operations every CLI parser is written with.  A     *)
(* builder is a record; an operation takes one and returns the next.  The  *)
(* outputs an operation returns in the code are appended to the history    *)
(* field `outputs'.                                                        *)
(*                                                                         *)
(* Names, summaries and payloads are left out except for being empty or    *)
(* not, which the code branches on.                                        *)
(***************************************************************************)
EXTENDS Texts

CONSTANTS
  CallId,     \* the tool call ids, those a CLI sends and the generated ones
  Generated   \* the ids "tool-1", "tool-2", ... in order

Channel == {"assistant", "reasoning"}
UsageKind == {"llm", "turn"}
Thread == Channel \cup CallId \cup UsageKind
NoId == ""    \* the call id of a tool event that carries none

ASSUME GeneratedAssumption == Generated \in Seq(CallId)
ASSUME CallIdAssumption == CallId \cap (Channel \cup UsageKind \cup {NoId}) = {}

EventType == {"PHASE_START", "START", "CONTENT", "END", "PHASE_END",
              "TOOL_START", "TOOL_ARGS", "TOOL_END", "TOOL_RESULT",
              "CUSTOM", "INVALID"}

Output == [sequence : Nat,
           type     : EventType,
           id       : Thread,
           delta    : Text]

Builder ==
  [sequence           : Nat,
   toolSequence       : Nat,
   text               : [Channel -> Text],
   open               : [Channel -> BOOLEAN],
   reasoningPhaseOpen : BOOLEAN,
   emitted            : [Channel -> BOOLEAN],   \* Finalizer's two flags
   outputs            : Seq(Output)]

NewBuilder ==
  [sequence           |-> 0,
   toolSequence       |-> 0,
   text               |-> [c \in Channel |-> <<>>],
   open               |-> [c \in Channel |-> FALSE],
   reasoningPhaseOpen |-> FALSE,
   emitted            |-> [c \in Channel |-> FALSE],
   outputs            |-> <<>>]

Snapshot(b) ==
  [LastSequence  |-> b.sequence,
   AssistantText |-> b.text["assistant"],
   ReasoningText |-> b.text["reasoning"]]

--------------------------------------------------------------------------------

(* agui.RunOutput validates the event; content without text is refused.    *)
Representable(type, delta) == type = "CONTENT" => delta # <<>>

(* nextOutput numbers the event before it is known to be representable.    *)
NextOutput(b, type, id, delta) ==
  LET n == b.sequence + 1
      e == [sequence |-> n,
            type     |-> IF Representable(type, delta) THEN type ELSE "INVALID",
            id       |-> id,
            delta    |-> delta]
  IN  [b EXCEPT !.sequence = n, !.outputs = Append(@, e)]

(* startTextEvent, with the reasoning phase around a reasoning message.    *)
OpenText(b, c) ==
  LET phased == IF c = "reasoning" /\ ~b.reasoningPhaseOpen
                  THEN NextOutput([b EXCEPT !.reasoningPhaseOpen = TRUE],
                                  "PHASE_START", c, <<>>)
                  ELSE b
  IN  NextOutput([phased EXCEPT !.open[c] = TRUE], "START", c, <<>>)

AppendText(b, c, t) ==
  LET opened == IF b.open[c] THEN b ELSE OpenText(b, c)
  IN  IF t = <<>> THEN opened ELSE NextOutput(opened, "CONTENT", c, t)

(* Deviation: the phase's end is sent and its flag forgotten.              *)
CloseTextKeepsPhase(b, c) ==
  IF ~b.open[c] THEN b
  ELSE LET ended == NextOutput([b EXCEPT !.open[c] = FALSE], "END", c, <<>>)
       IN  IF c = "reasoning" /\ b.reasoningPhaseOpen
             THEN NextOutput(ended, "PHASE_END", c, <<>>)
             ELSE ended

CloseTextIfOpen(b, c) ==
  IF ~b.open[c] THEN b
  ELSE LET ended == NextOutput([b EXCEPT !.open[c] = FALSE], "END", c, <<>>)
       IN  IF c = "reasoning" /\ b.reasoningPhaseOpen
             THEN NextOutput([ended EXCEPT !.reasoningPhaseOpen = FALSE],
                             "PHASE_END", c, <<>>)
             ELSE ended

(* Deviation: without the early return for an empty text.                  *)
SyncTextAcceptsEmpty(b, c, t, close) ==
  LET assigned == [b EXCEPT !.text[c] = t]
      suffix   == SubSeq(t, Len(b.text[c]) + 1, Len(t))
      synced   == IF t = b.text[c] THEN b
                  ELSE IF IsPrefix(b.text[c], t) THEN AppendText(assigned, c, suffix)
                  ELSE AppendText(CloseTextIfOpen(assigned, c), c, t)
  IN  IF close THEN CloseTextIfOpen(synced, c) ELSE synced

(* Deviation: the whole text is sent as the delta, not its suffix.         *)
SyncTextResends(b, c, t, close) ==
  LET assigned == [b EXCEPT !.text[c] = t]
      synced   == IF t = <<>> \/ t = b.text[c] THEN b
                  ELSE IF IsPrefix(b.text[c], t) THEN AppendText(assigned, c, t)
                  ELSE AppendText(CloseTextIfOpen(assigned, c), c, t)
  IN  IF close THEN CloseTextIfOpen(synced, c) ELSE synced

(* The replacing text closes the message when it is not a continuation of  *)
(* the text so far, and only the missing suffix is sent when it is.        *)
SyncText(b, c, t, close) ==
  LET current   == b.text[c]
      assigned  == [b EXCEPT !.text[c] = t]
      suffix    == SubSeq(t, Len(current) + 1, Len(t))
      synced    == IF t = <<>> \/ t = current THEN b
                   ELSE IF IsPrefix(current, t) THEN AppendText(assigned, c, suffix)
                   ELSE AppendText(CloseTextIfOpen(assigned, c), c, t)
  IN  IF close THEN CloseTextIfOpen(synced, c) ELSE synced

--------------------------------------------------------------------------------

(* AppendAssistant, AppendReasoning: a streamed delta.                     *)
AppendDelta(b, c, t) ==
  IF t = <<>> THEN b ELSE AppendText([b EXCEPT !.text[c] = @ \o t], c, t)

(* SyncAssistant, SyncReasoning: the CLI repeats the whole text so far.    *)
Sync(b, c, t) == SyncText(b, c, t, FALSE)

(* ResultAssistant, ResultReasoning: the final text, if any, then the end. *)
Result(b, c, t) ==
  IF t # <<>> THEN SyncText(b, c, t, TRUE)
  ELSE IF b.text[c] = <<>> \/ ~b.open[c] THEN b
  ELSE CloseTextIfOpen(b, c)

(* Deviation: a result without effect uses up the one allowed.             *)
EmitResultAlways(b, c, t) ==
  IF b.emitted[c] THEN b ELSE [Result(b, c, t) EXCEPT !.emitted[c] = TRUE]

(* Finalizer.EmitAssistant, EmitReasoning: at most one effective result.   *)
EmitResult(b, c, t) ==
  LET r == Result(b, c, t) IN
  IF b.emitted[c] \/ r.sequence = b.sequence THEN b
  ELSE [r EXCEPT !.emitted[c] = TRUE]

Finalize(b) == EmitResult(EmitResult(b, "reasoning", <<>>), "assistant", <<>>)

(* LLMUsage, TurnUsage: an empty payload is not sent.                      *)
Usage(b, kind, empty) ==
  IF empty THEN b ELSE NextOutput(b, "CUSTOM", kind, <<>>)

(* Deviation: the result is sent before the call's end.                    *)
ToolCallResultFirst(b, named, call) ==
  LET counted == IF call = NoId THEN [b EXCEPT !.toolSequence = @ + 1] ELSE b
      id      == IF call = NoId THEN Generated[counted.toolSequence] ELSE call
      started == NextOutput(counted, "TOOL_START", id, <<>>)
      args    == NextOutput(started, "TOOL_ARGS", id, <<>>)
      result  == NextOutput(args, "TOOL_RESULT", id, <<>>)
  IN  IF named THEN NextOutput(result, "TOOL_END", id, <<>>) ELSE b

(* A tool event without a name is dropped; one without an id gets the next *)
(* generated id.                                                           *)
ToolCall(b, named, call) ==
  LET counted == IF call = NoId THEN [b EXCEPT !.toolSequence = @ + 1] ELSE b
      id      == IF call = NoId THEN Generated[counted.toolSequence] ELSE call
      started == NextOutput(counted, "TOOL_START", id, <<>>)
      args    == NextOutput(started, "TOOL_ARGS", id, <<>>)
      ended   == NextOutput(args, "TOOL_END", id, <<>>)
  IN  IF named THEN NextOutput(ended, "TOOL_RESULT", id, <<>>) ELSE b
================================================================================
