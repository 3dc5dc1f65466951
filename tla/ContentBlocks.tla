----------------------------- MODULE ContentBlocks -----------------------------
(***************************************************************************)
(* What Claude's and Qwen's parsers have in common, claude/parser.go being *)
(* named for both: the content blocks of assistant lines, usage that is    *)
(* reported once, and two kinds of lines.                                  *)
(***************************************************************************)
EXTENDS Conversation

VARIABLE usageEmitted

blockVars == <<vars, usageEmitted>>

BlockInit == TalkInit /\ usageEmitted = FALSE

(* Deviation: the flag is not set.                                         *)
TurnUsageAgain(b, counts) ==
  IF usageEmitted \/ ~counts THEN [builder |-> b, emitted |-> usageEmitted]
  ELSE [builder |-> Usage(b, "turn", FALSE), emitted |-> FALSE]

(* Deviation: the flag is set by a usage that counts nothing.              *)
TurnUsageUsedUp(b, counts) ==
  IF usageEmitted \/ ~counts THEN [builder |-> b, emitted |-> TRUE]
  ELSE [builder |-> Usage(b, "turn", FALSE), emitted |-> TRUE]

(* turnUsage, the last thing assistant and result lines do: the first      *)
(* usage that counts something is sent.  Qwen's (qwen/parser.go:124) only  *)
(* takes fewer counters.                                                   *)
TurnUsage(b, counts) ==
  IF usageEmitted \/ ~counts THEN [builder |-> b, emitted |-> usageEmitted]
  ELSE [builder |-> Usage(b, "turn", FALSE), emitted |-> TRUE]

(* The content blocks of an assistant line, here at most one of each.      *)
TextBlock(t) == [type |-> "text", text |-> t]
ToolBlock(call) == [type |-> "tool_use", call |-> call]

ToolUseStart ==
  \E named \in BOOLEAN, call \in CallId :
    /\ SayNothing
    /\ Parse(ToolCall(builder, named, call))
    /\ UNCHANGED usageEmitted

(* A result that is an error says and closes nothing.                      *)
ParseErrorResult == SayNothing /\ Parse(builder) /\ UNCHANGED usageEmitted

--------------------------------------------------------------------------------
(* Properties *)

(* Claude and Qwen report usage with every message and again with the      *)
(* result; subscribers get it once.  That once is used up only by a usage  *)
(* they got, not by one that counts nothing.                               *)
UsageOnce == Shown["turn"].received = IF usageEmitted THEN 1 ELSE 0
================================================================================
