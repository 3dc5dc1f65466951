----------------------------- MODULE GeminiParser ------------------------------
(***************************************************************************)
(* parsers/gemini/parser.go.  Gemini writes the assistant's messages as    *)
(* deltas or whole and has no reasoning.  Other lines change nothing.      *)
(***************************************************************************)
EXTENDS Conversation

(* Deviation: the delta flag is not looked at.                             *)
EveryMessageDelta(b, text, delta) == AppendDelta(b, "assistant", text)

MessageText(b, text, delta) ==
  IF delta THEN AppendDelta(b, "assistant", text) ELSE Sync(b, "assistant", text)

DeltaMessage ==
  \E t \in Beginnings :
    /\ SayUpTo("assistant", t)
    /\ Parse(MessageText(builder, Piece("assistant", t), TRUE))

WholeMessage ==
  \E t \in Message, another \in BOOLEAN :
    /\ SayWhole("assistant", t, another)
    /\ Parse(MessageText(builder, t, FALSE))

(* tool_use has a name or none; a tool_result always gets one.  Both are   *)
(* sent as a whole call.                                                   *)
ToolLine ==
  \E named \in BOOLEAN, call \in CallId :
    /\ SayNothing
    /\ Parse(ToolCall(builder, named, call))

(* Deviation: usage only.                                                  *)
CompleteUsage(b, counts) == Usage(b, "turn", ~counts)

Complete(b, counts) == Finalize(Usage(b, "turn", ~counts))

ResultLine ==
  \E counts \in BOOLEAN : SayNothing /\ EndTurn(Complete(builder, counts))

GeminiNext == DeltaMessage \/ WholeMessage \/ ToolLine \/ ResultLine

GeminiSpec == TalkInit /\ [][GeminiNext]_vars
================================================================================
