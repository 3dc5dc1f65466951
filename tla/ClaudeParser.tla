----------------------------- MODULE ClaudeParser ------------------------------
(***************************************************************************)
(* parsers/claude/parser.go.  Claude streams the deltas of a message and   *)
(* then repeats its blocks in assistant lines; the result line repeats the *)
(* last message.  Other lines, and lines that are no JSON, change nothing. *)
(***************************************************************************)
EXTENDS ContentBlocks

ThinkingDelta ==
  \E t \in Beginnings :    \* a signature_delta has no thinking text
    /\ SayUpTo("reasoning", t)
    /\ Parse(AppendDelta(builder, "reasoning", Piece("reasoning", t)))
    /\ UNCHANGED usageEmitted

TextDelta ==
  \E t \in Beginnings \ {<<>>} :
    /\ SayUpTo("assistant", t)
    /\ Parse(AppendDelta(builder, "assistant", Piece("assistant", t)))
    /\ UNCHANGED usageEmitted

(* Deviation: the text is taken for a delta.                               *)
ParseBlockAppends(b, block) ==
  IF block.type = "text" THEN AppendDelta(b, "assistant", block.text)
  ELSE ToolCall(b, TRUE, block.call)

ParseBlock(b, block) ==
  IF block.type = "text" THEN Sync(b, "assistant", block.text)
  ELSE ToolCall(b, TRUE, block.call)

ParseAssistant ==
  \E says \in BOOLEAN, t \in Message, another \in BOOLEAN,
     calls \in BOOLEAN, call \in CallId, counts \in BOOLEAN :
    LET text == IF says THEN ParseBlock(builder, TextBlock(t)) ELSE builder
        tool == IF calls THEN ParseBlock(text, ToolBlock(call)) ELSE text
        done == TurnUsage(tool, counts)
    IN  /\ IF says THEN SayWhole("assistant", t, another) ELSE SayNothing
        /\ Parse(done.builder)
        /\ usageEmitted' = done.emitted

(* Deviation: the reasoning is not closed.                                 *)
EmitText(b, t) == EmitResult(b, "assistant", t)

Emit(b, t) == EmitResult(EmitResult(b, "reasoning", <<>>), "assistant", t)

ParseResult ==
  \E t \in Message \cup {<<>>}, counts \in BOOLEAN :
    LET done == TurnUsage(Emit(builder, t), counts) IN
    /\ IF t = <<>> THEN SayNothing ELSE SayWhole("assistant", t, FALSE)
    /\ EndTurn(done.builder)
    /\ usageEmitted' = done.emitted

ClaudeNext ==
  \/ ThinkingDelta \/ TextDelta \/ ToolUseStart
  \/ ParseAssistant \/ ParseResult \/ ParseErrorResult

ClaudeSpec == BlockInit /\ [][ClaudeNext]_blockVars
================================================================================
