------------------------------ MODULE EventStream ------------------------------
(***************************************************************************)
(* What a subscriber of a run may rely on: the outputs of the run, merged  *)
(* by sequence number, are one well formed AG-UI conversation.  This is    *)
(* the promise; OutputPipeline and the parsers are checked to keep it.     *)
(*                                                                         *)
(* An output is [sequence, type, id, delta].  Its id is the thread it      *)
(* belongs to: one of the two message channels, a tool call, or a kind of  *)
(* usage record.  Each thread is a small automaton over event types, given *)
(* below as the types a type may follow within its thread.                 *)
(***************************************************************************)
EXTENDS Naturals, Sequences

VARIABLE log    \* the outputs the subscriber has received so far

(***************************************************************************)
(* Stands(s, id, t): the last output of thread id in the log s has type t; *)
(* a thread without outputs stands at "NONE".                              *)
(***************************************************************************)
Stands(s, id, t) ==
  IF t = "NONE"
    THEN \A i \in 1..Len(s) : s[i].id # id
    ELSE \E i \in 1..Len(s) : /\ s[i].id = id
                              /\ s[i].type = t
                              /\ \A j \in (i+1)..Len(s) : s[j].id # id

StandsIn(s, id, T) == \E t \in T : Stands(s, id, t)

ToolTypes == {"TOOL_START", "TOOL_ARGS", "TOOL_END", "TOOL_RESULT"}

(* The four outputs of a tool call arrive back to back.                    *)
MidToolCall(s) ==
  Len(s) > 0 /\ s[Len(s)].type \in {"TOOL_START", "TOOL_ARGS", "TOOL_END"}

(* An assistant message is START CONTENT+ END; a reasoning message is the  *)
(* same, inside a phase of its own; a tool call is its four outputs.       *)
Predecessors(e) ==
  CASE e.type = "PHASE_START" -> {"NONE", "PHASE_END"}
    [] e.type = "START"       -> IF e.id = "reasoning" THEN {"PHASE_START"}
                                                       ELSE {"NONE", "END"}
    [] e.type = "CONTENT"     -> {"START", "CONTENT"}
    [] e.type = "END"         -> {"CONTENT"}
    [] e.type = "PHASE_END"   -> {"END"}
    [] e.type = "TOOL_START"  -> {"NONE", "TOOL_RESULT"}
    [] e.type = "TOOL_ARGS"   -> {"TOOL_START"}
    [] e.type = "TOOL_END"    -> {"TOOL_ARGS"}
    [] e.type = "TOOL_RESULT" -> {"TOOL_END"}
    [] e.type = "CUSTOM"      -> {"NONE", "CUSTOM"}
    [] OTHER                  -> {}

Acceptable(s, e) ==
  /\ e.sequence = Len(s) + 1
  /\ StandsIn(s, e.id, Predecessors(e))
  /\ e.type = "CONTENT" <=> e.delta # <<>>
  /\ MidToolCall(s) => e.type \in ToolTypes /\ e.id = s[Len(s)].id

--------------------------------------------------------------------------------

Init == log = <<>>

(* One more acceptable output arrives; no output is lost, repeated,        *)
(* reordered or taken back.                                                *)
Receive ==
  LET e == log'[Len(log')] IN
  /\ Len(log') = Len(log) + 1
  /\ log' = Append(log, e)
  /\ Acceptable(log, e)

Next == Receive

Spec == Init /\ [][Next]_log
================================================================================
