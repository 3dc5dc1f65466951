---------------------------- MODULE InlineThinking -----------------------------
(***************************************************************************)
(* parsers/qwen/inline_thinking.go: inlineThinkingStream divides text that *)
(* arrives in deltas into reasoning, between <think> and </think>, and     *)
(* assistant text.  A delta may end inside a tag, so the stream keeps back *)
(* what may become one.  splitInlineThinking divides a whole text.         *)
(***************************************************************************)
EXTENDS Texts

CONSTANTS
  OpenTag,    \* openThinkTag
  CloseTag,   \* closeThinkTag
  Blank       \* the characters TrimLeft removes

ASSUME TagAssumption ==
  \A tag \in {OpenTag, CloseTag} : tag \in Seq(Char) /\ tag # <<>>
ASSUME BlankAssumption == Blank \subseteq Char

Stream == [inThink : BOOLEAN, pending : Text, trimAssistantPrefix : BOOLEAN]

NewStream == [inThink |-> FALSE, pending |-> <<>>, trimAssistantPrefix |-> FALSE]

(* The tag that ends what the stream is in.                                *)
AwaitedTag(s) == IF s.inThink THEN CloseTag ELSE OpenTag

Drop(t, n) == SubSeq(t, n + 1, Len(t))
Take(t, n) == SubSeq(t, 1, n)

(* The places of tag in t, each given as the number of characters before.  *)
Places(t, tag) == {n \in 0..(Len(t) - Len(tag)) : Take(Drop(t, n), Len(tag)) = tag}

(* Deviation: all from the last character a tag may start with.            *)
TrailingFromBracket(t, tag) ==
  LET n == SelectLastInSeq(t, LAMBDA ch : ch = tag[1])
  IN  IF n = 0 THEN 0 ELSE Len(t) + 1 - n

(* The length of the longest proper prefix of tag that t ends with.        *)
TrailingTagPrefixLen(t, tag) ==
  LET sizes == {n \in 1..(Len(tag) - 1) : n <= Len(t) /\ Drop(t, Len(t) - n) = Take(tag, n)}
  IN  Max(sizes \cup {0})

TrimLeft(t) ==
  Drop(t, Max({n \in 0..Len(t) : \A i \in 1..n : t[i] \in Blank}))

(* A text on its way through the stream, with what was given out of it.   *)
Division == [stream : Stream, reasoning : Text, assistant : Text]

(* Deviation: the flag survives the text it was set for.                   *)
SayAssistantTrimsOn(d, t) ==
  [d EXCEPT !.assistant = @ \o (IF d.stream.trimAssistantPrefix THEN TrimLeft(t) ELSE t)]

(* appendAssistantText: blanks are dropped while the flag is set; the      *)
(* first other character resets it.                                        *)
SayAssistant(d, t) ==
  LET said == IF d.stream.trimAssistantPrefix THEN TrimLeft(t) ELSE t
  IN  IF said = <<>> THEN d
      ELSE [d EXCEPT !.stream.trimAssistantPrefix = FALSE, !.assistant = @ \o said]

Say(d, t) ==
  IF d.stream.inThink THEN [d EXCEPT !.reasoning = @ \o t] ELSE SayAssistant(d, t)

(* The awaited tag is passed over; a closing one starts trimming.          *)
Switch(d) ==
  [d EXCEPT !.stream.inThink = ~@,
            !.stream.trimAssistantPrefix = @ \/ d.stream.inThink]

(* The loop of Append: up to the next awaited tag, or else all but the     *)
(* beginning of one.                                                       *)
Scan[work \in Division \X Text] ==
  LET d      == work[1]
      data   == work[2]
      tag    == AwaitedTag(d.stream)
      before == Min(Places(data, tag))
      kept   == TrailingTagPrefixLen(data, tag)
      given  == Len(data) - kept
  IN  IF data = <<>> THEN d
      ELSE IF Places(data, tag) # {}
        THEN Scan[<<Switch(Say(d, Take(data, before))), Drop(data, before + Len(tag))>>]
        ELSE [Say(d, Take(data, given)) EXCEPT !.stream.pending = Drop(data, given)]

AppendInline(s, t) ==
  Scan[<<[stream    |-> [s EXCEPT !.pending = <<>>],
          reasoning |-> <<>>,
          assistant |-> <<>>], s.pending \o t>>]

(* Deviation: what the stream kept back is dropped.                        *)
SplitDropsPending(t) == AppendInline(NewStream, t)

(* splitInlineThinking: nothing follows, so what was kept back is text.    *)
SplitInlineThinking(t) ==
  LET d == AppendInline(NewStream, t) IN Say(d, d.stream.pending)
================================================================================
