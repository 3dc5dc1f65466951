------------------------- MODULE InlineThinkingStream --------------------------
(***************************************************************************)
(* The inline thinking stream fed with a text in deltas of any size, which *)
(* is how qwen/parser.go uses it.  Qwen repeats the whole text afterwards, *)
(* and the parser then divides it at once and says what is missing, so     *)
(* both ways must come to the same division.                               *)
(***************************************************************************)
EXTENDS InlineThinking

CONSTANTS
  Delta,      \* the deltas Qwen may send
  MaxText     \* bound: the longest text

ASSUME DeltaAssumption == Delta \subseteq Text \ {<<>>}
ASSUME MaxTextAssumption == MaxText \in Nat

(* As in <think> and </think>: what begins a tag is nowhere else in one,   *)
(* and no tag begins the other.                                            *)
ASSUME TagsApart ==
  /\ \A x, y \in {OpenTag, CloseTag} : \A i \in 2..Len(y) : y[i] # x[1]
  /\ ~IsPrefix(OpenTag, CloseTag) /\ ~IsPrefix(CloseTag, OpenTag)

VARIABLES
  stream,      \* the inlineThinkingStream
  reasoning,   \* what was given out so far, as reasoning
  assistant,   \* and as assistant text
  fed          \* history: the deltas put together

streamVars == <<stream, reasoning, assistant, fed>>

(* What is kept back is the beginning of the tag the stream waits for and  *)
(* never all of it, so no text waits longer than for the next few letters. *)
TypeOK ==
  /\ stream \in Stream
  /\ reasoning \in Text
  /\ assistant \in Text
  /\ fed \in Text
  /\ IsStrictPrefix(stream.pending, AwaitedTag(stream))

StreamInit ==
  /\ stream = NewStream
  /\ reasoning = <<>>
  /\ assistant = <<>>
  /\ fed = <<>>

FeedDelta ==
  \E t \in Delta :
    LET d == AppendInline(stream, t) IN
    /\ Len(fed) + Len(t) <= MaxText
    /\ stream' = d.stream
    /\ reasoning' = reasoning \o d.reasoning
    /\ assistant' = assistant \o d.assistant
    /\ fed' = fed \o t

StreamSpec == StreamInit /\ [][FeedDelta]_streamVars

--------------------------------------------------------------------------------
(***************************************************************************)
(* The division by definition.  A place in a text is inside thinking when  *)
(* the last tag before it opens.  A tag counts where it changes that; any  *)
(* other tag is text.  Blanks after a closing tag are dropped up to the    *)
(* first other assistant character.                                        *)
(***************************************************************************)
Ends(t, tag) == {n + Len(tag) : n \in Places(t, tag)}

Inside(t, i) ==
  \E o \in Ends(t, OpenTag) : o <= i /\ \A c \in Ends(t, CloseTag) : c <= i => c < o

Opening(t) == {e \in Ends(t, OpenTag) : ~Inside(t, e - Len(OpenTag))}
Closing(t) == {e \in Ends(t, CloseTag) : Inside(t, e - Len(CloseTag))}

Markup(t) == UNION ({(e - Len(OpenTag) + 1)..e : e \in Opening(t)} \cup
                    {(e - Len(CloseTag) + 1)..e : e \in Closing(t)})

Thought(t) == {i \in (1..Len(t)) \ Markup(t) : Inside(t, i)}
Answer(t) == {i \in (1..Len(t)) \ Markup(t) : ~Inside(t, i)}
Trimmed(t) == {i \in Answer(t) :
                 \E e \in Closing(t) : e < i /\ \A j \in Answer(t) \cap (e..i) : t[j] \in Blank}

(* The first n characters of t, those at the places in I.                  *)
TextAt(t, I) ==
  LET upTo[n \in 0..Len(t)] ==
        IF n = 0 THEN <<>>
        ELSE IF n \in I THEN Append(upTo[n - 1], t[n]) ELSE upTo[n - 1]
  IN  upTo

DivisionOf(t) == [reasoning |-> TextAt(t, Thought(t))[Len(t)],
                  assistant |-> TextAt(t, Answer(t) \ Trimmed(t))[Len(t)]]

--------------------------------------------------------------------------------
(* Properties                                                              *)

(* Wherever the deltas cut the text, also inside a tag or a blank prefix,  *)
(* what Append has given out and what it keeps back are the division of    *)
(* the text so far: nothing is lost, said twice or on the wrong side.      *)
CutsDoNotMatter ==
  LET d == Say([stream |-> stream, reasoning |-> reasoning, assistant |-> assistant],
               stream.pending)
  IN  DivisionOf(fed) = [reasoning |-> d.reasoning, assistant |-> d.assistant]

(* The stream is where one Append of the whole text would be, and          *)
(* splitInlineThinking of the whole text only adds what is kept back, on   *)
(* either side, so that syncText sends the missing end and never closes    *)
(* the message to send it again.                                           *)
SplitContinuesStream ==
  LET d     == [stream |-> stream, reasoning |-> reasoning, assistant |-> assistant]
      split == SplitInlineThinking(fed)
  IN  /\ d = AppendInline(NewStream, fed)
      /\ split = Say(d, stream.pending)
      /\ IsPrefix(reasoning, split.reasoning)
      /\ IsPrefix(assistant, split.assistant)
================================================================================
