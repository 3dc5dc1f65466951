------------------------------ MODULE QwenParser -------------------------------
(***************************************************************************)
(* parsers/qwen/parser.go.  Qwen talks like Claude, except that its texts  *)
(* may hold thinking between tags: deltas go through the inline thinking   *)
(* stream, repeated texts are divided at once.  The stream lives as long   *)
(* as the parser and knows nothing of messages.                            *)
(***************************************************************************)
EXTENDS ContentBlocks, InlineThinking

VARIABLE inlineThink

qwenVars == <<blockVars, inlineThink>>

QwenInit == BlockInit /\ inlineThink = NewStream

(* Thinking may also come apart from the text.                             *)
ThinkingApart ==
  \E t \in Beginnings \ {<<>>} :
    /\ SayUpTo("reasoning", t)
    /\ Parse(AppendDelta(builder, "reasoning", Piece("reasoning", t)))
    /\ UNCHANGED <<usageEmitted, inlineThink>>

(* appendInlineText *)
InlineDelta ==
  \E t \in Beginnings \ {<<>>} :
    LET d == AppendInline(inlineThink, Piece("assistant", t))
        b == AppendDelta(builder, "reasoning", d.reasoning)
    IN  /\ SayUpTo("assistant", t)
        /\ Piece("assistant", t) # <<>>
        /\ Parse(AppendDelta(b, "assistant", d.assistant))
        /\ inlineThink' = d.stream
        /\ UNCHANGED usageEmitted

(* Deviation of SyncInline: the text is not divided.                       *)
SyncUndivided(b, t) == Sync(b, "assistant", t)

(* syncInlineText *)
SyncInline(b, t) ==
  LET d == SplitInlineThinking(t)
  IN  Sync(Sync(b, "reasoning", d.reasoning), "assistant", d.assistant)

ParseInlineBlock(b, block) ==
  IF block.type = "text" THEN SyncInline(b, block.text) ELSE ToolCall(b, TRUE, block.call)

ParseInlineAssistant ==
  \E says \in BOOLEAN, t \in Message, another \in BOOLEAN,
     calls \in BOOLEAN, call \in CallId, counts \in BOOLEAN :
    LET text == IF says THEN ParseInlineBlock(builder, TextBlock(t)) ELSE builder
        tool == IF calls THEN ParseInlineBlock(text, ToolBlock(call)) ELSE text
        done == TurnUsage(tool, counts)
    IN  /\ IF says THEN SayWhole("assistant", t, another) ELSE SayNothing
        /\ Parse(done.builder)
        /\ usageEmitted' = done.emitted
        /\ UNCHANGED inlineThink

(* Deviation: the thinking is not closed.                                  *)
EmitInlineAnswer(b, t) == EmitResult(b, "assistant", SplitInlineThinking(t).assistant)

EmitInline(b, t) ==
  LET d == SplitInlineThinking(t)
  IN  EmitResult(EmitResult(b, "reasoning", d.reasoning), "assistant", d.assistant)

ParseInlineResult ==
  \E t \in Message \cup {<<>>}, counts \in BOOLEAN :
    LET done == TurnUsage(EmitInline(builder, t), counts) IN
    /\ IF t = <<>> THEN SayNothing ELSE SayWhole("assistant", t, FALSE)
    /\ EndTurn(done.builder)
    /\ usageEmitted' = done.emitted
    /\ UNCHANGED inlineThink

QwenNext ==
  \/ ThinkingApart \/ InlineDelta \/ ParseInlineAssistant \/ ParseInlineResult
  \/ (ToolUseStart \/ ParseErrorResult) /\ UNCHANGED inlineThink

QwenSpec == QwenInit /\ [][QwenNext]_qwenVars

--------------------------------------------------------------------------------
(* Properties *)

Divided == SplitInlineThinking(told["assistant"])

(* The thinking of the message comes one way only, apart or in the text.   *)
OneWay == told["reasoning"] = <<>> \/ Divided.reasoning = <<>>

(* No message repeated as a whole goes on where a tag was cut: the parser  *)
(* takes the beginning of the tag for text then and cannot take it back.   *)
Continuing ==
  \A m, n \in Message : IsPrefix(m, n) =>
    /\ IsPrefix(SplitInlineThinking(m).reasoning, SplitInlineThinking(n).reasoning)
    /\ IsPrefix(SplitInlineThinking(m).assistant, SplitInlineThinking(n).assistant)

(* The first message, divided into thinking and answer, is heard once and  *)
(* wholly, but for what the stream keeps back until the text is repeated.  *)
DividedOnce ==
  turn # "later" /\ first["assistant"] /\ OneWay =>
    LET heard == [stream    |-> inlineThink,
                  reasoning |-> Shown["reasoning"].all,
                  assistant |-> Shown["assistant"].all]
        all   == IF whole["assistant"] THEN heard ELSE Say(heard, inlineThink.pending)
    IN  /\ all.reasoning = told["reasoning"] \o Divided.reasoning
        /\ all.assistant = Divided.assistant
        /\ \A c \in Channel : Shown[c].started <= 1

(* Until a second turn begins, a repeated text corrects whatever the       *)
(* stream carried over from earlier messages: its two parts are the        *)
(* messages shown last.                                                    *)
RepeatedTextShown ==
  turn # "later" /\ whole["assistant"] =>
    /\ Divided.assistant # <<>> => Shown["assistant"].last = Divided.assistant
    /\ Divided.reasoning # <<>> /\ told["reasoning"] = <<>>
         => Shown["reasoning"].last = Divided.reasoning
================================================================================
