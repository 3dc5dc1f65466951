---------------------------- MODULE OutputPipeline -----------------------------
(***************************************************************************)
(* The FIFO consumer's loop over a parser that may call the builder's      *)
(* operations in any order: ParseLine performs operations, then            *)
(* JetStreamPublisher.PublishOutputs sends their outputs one by one and    *)
(* gives up at the first error, which ends the consumer (run.go).          *)
(*                                                                         *)
(* Whatever the parser does, the subscriber must receive a well formed     *)
(* conversation, so the claims below hold for every CLI.                   *)
(***************************************************************************)
EXTENDS Subscriber

CONSTANTS
  Chunk,         \* the texts a CLI line may carry
  MaxSequence    \* bound: no operation starts at or above this sequence

ASSUME ChunkAssumption == Chunk \subseteq Text
ASSUME MaxSequenceAssumption == MaxSequence \in Nat

VARIABLES
  builder,   \* the parser's Builder and Finalizer
  sent,      \* how many of its outputs have been published
  pc         \* the consumer: "parse", "publish" or "failed"

vars == <<builder, sent, pc>>

TypeOK ==
  /\ builder \in Builder
  /\ sent \in Nat
  /\ pc \in {"parse", "publish", "failed"}

Init ==
  /\ builder = NewBuilder
  /\ sent = 0
  /\ pc = "parse"

--------------------------------------------------------------------------------
(* One operation of the parser on the current line.                        *)
Parse(next) ==
  /\ pc = "parse"
  /\ builder.sequence < MaxSequence
  /\ builder' = next
  /\ UNCHANGED <<sent, pc>>

AppendStep == \E c \in Channel, t \in Chunk : Parse(AppendDelta(builder, c, t))

SyncStep == \E c \in Channel, t \in Chunk : Parse(Sync(builder, c, t))

EmitStep == \E c \in Channel, t \in Chunk : Parse(EmitResult(builder, c, t))

FinalizeStep == Parse(Finalize(builder))

UsageStep ==
  \E kind \in UsageKind, empty \in BOOLEAN : Parse(Usage(builder, kind, empty))

(* Generated ids are listed up to the bound Len(Generated).                *)
ToolCallStep ==
  \E named \in BOOLEAN, call \in CallId \cup {NoId} :
    /\ call = NoId => builder.toolSequence < Len(Generated)
    /\ Parse(ToolCall(builder, named, call))

(* The line is parsed; a line without outputs publishes nothing.           *)
EndLine ==
  /\ pc = "parse"
  /\ sent < builder.sequence
  /\ pc' = "publish"
  /\ UNCHANGED <<builder, sent>>

PublishOutput ==
  /\ pc = "publish"
  /\ sent < builder.sequence
  /\ sent' = sent + 1
  /\ pc' = IF sent' = builder.sequence THEN "parse" ELSE "publish"
  /\ UNCHANGED builder

(* publish returns an error: the stream may have stored the output or not. *)
PublishFail ==
  /\ pc = "publish"
  /\ sent < builder.sequence
  /\ sent' \in {sent, sent + 1}
  /\ pc' = "failed"
  /\ UNCHANGED builder

Next ==
  \/ AppendStep \/ SyncStep \/ EmitStep \/ FinalizeStep
  \/ UsageStep \/ ToolCallStep
  \/ EndLine \/ PublishOutput \/ PublishFail

Spec == Init /\ [][Next]_vars

--------------------------------------------------------------------------------
(* Properties                                                              *)

Published == SubSeq(builder.outputs, 1, sent)

Stream == INSTANCE EventStream WITH log <- Published

(* What subscribers receive is a well formed conversation: outputs are     *)
(* numbered 1, 2, 3, ... without gaps, messages and phases open and close  *)
(* in order, none is empty, and a tool call is never torn apart, whichever *)
(* operations the parser calls and wherever publishing fails.              *)
WellFormedConversation == Stream!Spec

(* Where thread id stands between two operations of builder b: an open     *)
(* channel at content, everything else at its end or not yet begun.        *)
Resting(b, id) ==
  CASE id \in Channel /\ b.open[id] -> {"CONTENT"}
    [] id = "assistant" /\ ~b.open[id] -> {"NONE", "END"}
    [] id = "reasoning" /\ ~b.open[id] -> {"NONE", "PHASE_END"}
    [] id \in CallId    -> {"NONE", "TOOL_RESULT"}
    [] id \in UsageKind -> {"NONE", "CUSTOM"}

FlagsAgree(b) ==
  /\ \A id \in Thread : Stream!StandsIn(b.outputs, id, Resting(b, id))
  /\ b.reasoningPhaseOpen = b.open["reasoning"]
  /\ ~Stream!MidToolCall(b.outputs)

(* The builder's flags agree with what it has emitted: a channel is open   *)
(* exactly when its last output is content, and the reasoning phase is     *)
(* open exactly with the reasoning message.  SyncText and CloseTextIfOpen  *)
(* rely on this and nothing in the code enforces it.                       *)
FlagsMatchOutputs == FlagsAgree(builder)

OpenTextPresent(b) == \A c \in Channel : b.open[c] => b.text[c] # <<>>

(* ResultAssistant and ResultReasoning skip the end event when the text is *)
(* empty; they may, because an open message always has text.               *)
OpenHasText == OpenTextPresent(builder)

(* After the k-th output of s no message of channel c is open.             *)
BetweenMessages(s, c, k) ==
  \A i \in 1..k :
    s[i].id = c /\ (\A j \in (i+1)..k : s[j].id # c) =>
      s[i].type \in {"END", "PHASE_END"}

(* Who listens from the k-th output on, where no message of channel c is   *)
(* open, is told all of its text, and the start of its open message.       *)
ReplayedFrom(b, c, k) ==
  /\ BetweenMessages(b.outputs, c, k)
  /\ b.text[c] = Since(b.outputs, k)[c].all
  /\ b.open[c] => Since(b.outputs, k)[c].started > 0

(* The accumulated text GetAccumulator serves is never made up: there is   *)
(* a place in the outputs, between two messages, from which the deltas add *)
(* up to exactly it.  Which place depends on the run: the beginning, until *)
(* a text is replaced, and then the last replacement, since replaying from *)
(* the beginning would show the replaced text as well.                     *)
AccumulatorIsReplay ==
  \A c \in Channel :
    \E k \in 0..Len(builder.outputs) : ReplayedFrom(builder, c, k)

(* Finalize leaves a message open only if an earlier message of the same   *)
(* channel was ended: the first message of a run never stays open.  A      *)
(* later one may, even in the same turn, when a replaced text began it.    *)
FinalizeClosesFirst ==
  [][FinalizeStep =>
       \A c \in Channel : builder'.open[c] =>
         \E i \in 1..Len(builder.outputs) :
           builder.outputs[i].type = "END" /\ builder.outputs[i].id = c]_vars
================================================================================
