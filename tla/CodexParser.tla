------------------------------ MODULE CodexParser ------------------------------
(***************************************************************************)
(* parsers/codex/parser.go.  Codex reports items: started and updated      *)
(* lines carry the text of an item so far, its completed line the whole.   *)
(* The parser does not look at the ids of items, so the next message is    *)
(* told from the last by its text only.  Other lines change nothing.       *)
(***************************************************************************)
EXTENDS Conversation

(* Deviation: the text is taken for a delta.                               *)
ItemAppended(b, c, t) == AppendDelta(b, c, t)

(* agent_message and reasoning items: every line repeats the text.         *)
ItemText(b, c, t) == Sync(b, c, t)

ItemUpdated ==
  \E c \in Channel, t \in Beginnings :    \* <<>>: started without text
    /\ SayUpTo(c, t)
    /\ Parse(ItemText(builder, c, t))

ItemCompleted ==
  \E c \in Channel, t \in Message, another \in BOOLEAN :
    /\ SayAtOnce(c, t, another) /\ UNCHANGED restated    \* no deltas
    /\ Parse(ItemText(builder, c, t))

(* A command, file change, search or MCP call, the last perhaps unnamed;   *)
(* its started and its completed line are both sent as a whole call.       *)
ToolItem ==
  \E named \in BOOLEAN, call \in CallId :
    /\ SayNothing
    /\ Parse(ToolCall(builder, named, call))

(* Deviation: usage only.                                                  *)
UsageCompleted(b, counts) == Usage(b, "turn", ~counts)

TurnCompleted(b, counts) == Finalize(Usage(b, "turn", ~counts))

CompleteTurn ==
  \E counts \in BOOLEAN : SayNothing /\ EndTurn(TurnCompleted(builder, counts))

CodexNext == ItemUpdated \/ ItemCompleted \/ ToolItem \/ CompleteTurn

CodexSpec == TalkInit /\ [][CodexNext]_vars
================================================================================
