------------------------- MODULE OutputPipelineProofs --------------------------
(***************************************************************************)
(* Proofs about OutputPipeline, for every character set, every set of call *)
(* ids and every bound.                                                    *)
(***************************************************************************)
EXTENDS OutputPipeline, BuilderProofs

(* The output that operation NextOutput appends to builder b.              *)
NewOutput(b, type, id, delta) ==
  [sequence |-> b.sequence + 1, type |-> type, id |-> id, delta |-> delta]

(* Every output of s is acceptable after the ones before it.               *)
Conversation(s) ==
  \A n \in 1..Len(s) : Stream!Acceptable(SubSeq(s, 1, n - 1), s[n])

Sound(b) ==
  /\ b \in Builder
  /\ b.sequence = Len(b.outputs)
  /\ Conversation(b.outputs)

(* What holds of the builder between two operations.                       *)
BuilderInv(b) == Sound(b) /\ FlagsAgree(b) /\ OpenTextPresent(b)

--------------------------------------------------------------------------------

(* Appending an output moves its thread and no other.                      *)
LEMMA StandsAppend ==
  ASSUME NEW s \in Seq(Output), NEW e \in Output, NEW id, NEW t
  PROVE  Stream!Stands(Append(s, e), id, t) <=>
           IF e.id = id THEN e.type = t ELSE Stream!Stands(s, id, t)
<1> DEFINE a == Append(s, e)
<1>1. /\ Len(s) \in Nat
      /\ Len(a) = Len(s) + 1
      /\ a[Len(s) + 1] = e
      /\ \A i \in 1..Len(s) : a[i] = s[i]
  BY AppendProperties, LenProperties
<1>2. e.type # "NONE"
  BY DEF Output, EventType
<1>3. CASE e.id = id
  <2>1. Len(a) \in 1..Len(a) /\ a[Len(a)].id = id
    BY <1>1, <1>3
  <2>2. CASE t = "NONE"
    <3>1. ~Stream!Stands(a, id, t)
      BY <2>1, <2>2 DEF Stream!Stands
    <3>. QED
      BY <3>1, <1>2, <1>3, <2>2
  <2>3. CASE t # "NONE"
    <3>1. Stream!Stands(a, id, t) => e.type = t
      BY <1>1, <2>1, <2>3 DEF Stream!Stands
    <3>2. e.type = t => Stream!Stands(a, id, t)
      BY <1>1, <2>1, <2>3 DEF Stream!Stands
    <3>. QED
      BY <3>1, <3>2, <1>3
  <2>. QED
    BY <2>2, <2>3
<1>4. CASE e.id # id
  <2>1. \A i \in 1..Len(a) : i \in 1..Len(s) \/ i = Len(s) + 1
    BY <1>1
  <2>2. CASE t = "NONE"
    BY <1>1, <1>4, <2>1, <2>2 DEF Stream!Stands
  <2>3. CASE t # "NONE"
    <3>1. Stream!Stands(a, id, t) => Stream!Stands(s, id, t)
      BY <1>1, <1>4, <2>1, <2>3 DEF Stream!Stands
    <3>2. Stream!Stands(s, id, t) => Stream!Stands(a, id, t)
      BY <1>1, <1>4, <2>1, <2>3 DEF Stream!Stands
    <3>. QED
      BY <3>1, <3>2, <1>4
  <2>. QED
    BY <2>2, <2>3
<1>. QED
  BY <1>3, <1>4

(* NextOutput appends its output and changes nothing but the sequence.     *)
LEMMA NextOutputAppends ==
  ASSUME NEW b \in Builder, NEW type \in EventType, NEW id \in Thread,
         NEW delta \in Text, Representable(type, delta)
  PROVE  LET n == NextOutput(b, type, id, delta) IN
         /\ n \in Builder
         /\ NewOutput(b, type, id, delta) \in Output
         /\ n.outputs = Append(b.outputs, NewOutput(b, type, id, delta))
         /\ n.sequence = b.sequence + 1
         /\ n.toolSequence = b.toolSequence
         /\ n.text = b.text
         /\ n.open = b.open
         /\ n.reasoningPhaseOpen = b.reasoningPhaseOpen
         /\ n.emitted = b.emitted
<1> DEFINE e == NewOutput(b, type, id, delta)
<1>1. e \in Output
  BY DEF NewOutput, Output, Builder
<1>2. Append(b.outputs, e) \in Seq(Output)
  BY <1>1, AppendProperties DEF Builder
<1>3. NextOutput(b, type, id, delta)
        = [b EXCEPT !.sequence = b.sequence + 1, !.outputs = Append(b.outputs, e)]
  BY DEF NextOutput, NewOutput, Builder
<1>4. b.sequence + 1 \in Nat
  BY DEF Builder
<1> DEFINE o == Append(b.outputs, e)
<1> DEFINE n == [b EXCEPT !.sequence = b.sequence + 1, !.outputs = o]
<1>5. o \in Seq(Output)
  BY <1>2
<1> HIDE DEF o
<1>6. /\ n \in Builder
      /\ n.outputs = o
      /\ n.sequence = b.sequence + 1
      /\ n.toolSequence = b.toolSequence
      /\ n.text = b.text
      /\ n.open = b.open
      /\ n.reasoningPhaseOpen = b.reasoningPhaseOpen
      /\ n.emitted = b.emitted
  BY <1>4, <1>5 DEF Builder
<1>. QED
  BY <1>1, <1>3, <1>6 DEF o

(* An acceptable output keeps the conversation well formed.                *)
LEMMA ConversationAppend ==
  ASSUME NEW s \in Seq(Output), NEW e \in Output,
         Conversation(s), Stream!Acceptable(s, e)
  PROVE  Conversation(Append(s, e))
<1> DEFINE a == Append(s, e)
<1>1. /\ Len(s) \in Nat
      /\ a \in Seq(Output)
      /\ Len(a) = Len(s) + 1
      /\ a[Len(s) + 1] = e
      /\ \A i \in 1..Len(s) : a[i] = s[i]
  BY AppendProperties, LenProperties
<1>2. \A m \in 0..Len(s) : SubSeq(a, 1, m) = SubSeq(s, 1, m)
  <2> SUFFICES ASSUME NEW m \in 0..Len(s)
               PROVE  SubSeq(a, 1, m) = SubSeq(s, 1, m)
    OBVIOUS
  <2>1. m \in Int /\ 1 \in Int /\ m <= Len(s)
    BY <1>1
  <2>2. \A i \in 1..m : s[i] \in Output /\ a[i] \in Output /\ a[i] = s[i]
    BY <1>1, <2>1, ElementOfSeq
  <2>3. /\ SubSeq(a, 1, m) \in Seq(Output)
        /\ Len(SubSeq(a, 1, m)) = IF 1 <= m THEN m - 1 + 1 ELSE 0
        /\ \A i \in 1..(m - 1 + 1) : SubSeq(a, 1, m)[i] = a[1 + i - 1]
    BY <2>1, <2>2, SubSeqProperties
  <2>4. /\ SubSeq(s, 1, m) \in Seq(Output)
        /\ Len(SubSeq(s, 1, m)) = IF 1 <= m THEN m - 1 + 1 ELSE 0
        /\ \A i \in 1..(m - 1 + 1) : SubSeq(s, 1, m)[i] = s[1 + i - 1]
    BY <2>1, <2>2, SubSeqProperties
  <2>5. \A i \in 1..Len(SubSeq(a, 1, m)) : SubSeq(a, 1, m)[i] = SubSeq(s, 1, m)[i]
    BY <2>1, <2>2, <2>3, <2>4
  <2>. QED
    BY <2>3, <2>4, <2>5, SeqEqual
<1>3. SubSeq(s, 1, Len(s)) = s
  BY SubSeqFull
<1> SUFFICES ASSUME NEW n \in 1..Len(a)
             PROVE  Stream!Acceptable(SubSeq(a, 1, n - 1), a[n])
  BY DEF Conversation
<1>4. CASE n = Len(s) + 1
  <2>1. n - 1 = Len(s) /\ a[n] = e
    BY <1>1, <1>4
  <2>2. SubSeq(a, 1, n - 1) = s
    BY <1>1, <1>2, <1>3, <2>1
  <2>. QED
    BY <2>1, <2>2
<1>5. CASE n \in 1..Len(s)
  <2>1. Stream!Acceptable(SubSeq(s, 1, n - 1), s[n])
    BY <1>5 DEF Conversation
  <2>2. n - 1 \in 0..Len(s)
    BY <1>1, <1>5
  <2>. QED
    BY <1>1, <1>2, <1>5, <2>1, <2>2
<1>. QED
  BY <1>1, <1>4, <1>5

--------------------------------------------------------------------------------
(* Steps of an operation.                                                  *)

(* n is b with thread id moved to type t and every other thread untouched. *)
Moves(b, n, id, t) ==
  \A i, u : Stream!Stands(n.outputs, i, u) <=>
              IF i = id THEN u = t ELSE Stream!Stands(b.outputs, i, u)

(* n keeps what emitting does not touch.                                   *)
SameState(b, n) ==
  /\ n.toolSequence = b.toolSequence
  /\ n.text = b.text
  /\ n.open = b.open
  /\ n.reasoningPhaseOpen = b.reasoningPhaseOpen
  /\ n.emitted = b.emitted

(* n has all the outputs of b, and perhaps more after them.                *)
Grows(b, n) ==
  /\ Len(b.outputs) \in Nat /\ Len(n.outputs) \in Nat
  /\ Len(b.outputs) <= Len(n.outputs)
  /\ \A i \in 1..Len(b.outputs) : n.outputs[i] = b.outputs[i]

(* A message of channel c was ended.                                       *)
Ended(b, c) ==
  \E i \in 1..Len(b.outputs) : b.outputs[i].type = "END" /\ b.outputs[i].id = c

LEMMA EndedGrows ==
  ASSUME NEW b, NEW n, Grows(b, n), NEW c, Ended(b, c)
  PROVE  Ended(n, c)
<1>1. PICK i \in 1..Len(b.outputs) : b.outputs[i].type = "END" /\ b.outputs[i].id = c
  BY DEF Ended
<1>2. i \in 1..Len(n.outputs) /\ n.outputs[i] = b.outputs[i]
  BY <1>1 DEF Grows
<1>. QED
  BY <1>1, <1>2 DEF Ended

LEMMA GrowsTransitive ==
  ASSUME NEW a, NEW b, NEW c, Grows(a, b), Grows(b, c)
  PROVE  Grows(a, c)
BY DEF Grows

LEMMA GrowsReflexive ==
  ASSUME NEW b, Sound(b), NEW n, n.outputs = b.outputs
  PROVE  Grows(b, n)
BY LenProperties DEF Grows, Sound, Builder

(* The id of the last output.                                              *)
LastId(b) == b.outputs[Len(b.outputs)].id

(* Changing fields other than the outputs keeps a builder sound.           *)
LEMMA FieldChange ==
  ASSUME NEW b, Sound(b), NEW n \in Builder,
         n.outputs = b.outputs, n.sequence = b.sequence
  PROVE  /\ Sound(n)
         /\ \A i, u : Stream!Stands(n.outputs, i, u) <=> Stream!Stands(b.outputs, i, u)
         /\ Stream!MidToolCall(n.outputs) <=> Stream!MidToolCall(b.outputs)
BY DEF Sound

(* Emitting an output its thread is ready for.                             *)
LEMMA EmitMoves ==
  ASSUME NEW b, Sound(b),
         NEW type \in EventType, NEW id \in Thread, NEW delta \in Text,
         type = "CONTENT" <=> delta # <<>>,
         Stream!StandsIn(b.outputs, id,
                         Stream!Predecessors(NewOutput(b, type, id, delta))),
         Stream!MidToolCall(b.outputs) =>
           type \in Stream!ToolTypes /\ id = LastId(b)
  PROVE  LET n == NextOutput(b, type, id, delta) IN
         /\ Sound(n)
         /\ Grows(b, n)
         /\ SameState(b, n)
         /\ Moves(b, n, id, type)
         /\ Stream!MidToolCall(n.outputs) <=>
              type \in {"TOOL_START", "TOOL_ARGS", "TOOL_END"}
         /\ LastId(n) = id
<1> DEFINE n == NextOutput(b, type, id, delta)
<1> DEFINE e == NewOutput(b, type, id, delta)
<1>1. b \in Builder /\ b.outputs \in Seq(Output) /\ b.sequence = Len(b.outputs)
      /\ Conversation(b.outputs)
  BY DEF Sound, Builder
<1>2. /\ n \in Builder
      /\ e \in Output
      /\ n.outputs = Append(b.outputs, e)
      /\ n.sequence = b.sequence + 1
      /\ SameState(b, n)
  BY <1>1, NextOutputAppends DEF Representable, SameState
<1>3. e.id = id /\ e.type = type /\ e.delta = delta /\ e.sequence = b.sequence + 1
  BY DEF NewOutput
<1> HIDE DEF n, e
<1>4. Stream!Acceptable(b.outputs, e)
  BY <1>1, <1>3 DEF Stream!Acceptable, LastId, e
<1>5. /\ Len(b.outputs) \in Nat
      /\ Len(n.outputs) = Len(b.outputs) + 1
      /\ n.outputs[Len(b.outputs) + 1] = e
  BY <1>1, <1>2, AppendProperties, LenProperties
<1>6. Sound(n)
  BY <1>1, <1>2, <1>4, <1>5, ConversationAppend DEF Sound
<1>7. Moves(b, n, id, type)
  <2> SUFFICES ASSUME NEW i, NEW u
               PROVE  Stream!Stands(n.outputs, i, u) <=>
                        IF i = id THEN u = type ELSE Stream!Stands(b.outputs, i, u)
    BY DEF Moves
  <2>1. Stream!Stands(n.outputs, i, u) <=>
          IF e.id = i THEN e.type = u ELSE Stream!Stands(b.outputs, i, u)
    BY <1>1, <1>2, StandsAppend
  <2>. QED
    BY <2>1, <1>3
<1>8. Stream!MidToolCall(n.outputs) <=> type \in {"TOOL_START", "TOOL_ARGS", "TOOL_END"}
  BY <1>3, <1>5 DEF Stream!MidToolCall
<1>9. LastId(n) = id
  BY <1>3, <1>5 DEF LastId
<1>10. Grows(b, n)
  BY <1>1, <1>2, <1>5, AppendProperties DEF Grows
<1>. QED
  BY <1>2, <1>6, <1>7, <1>8, <1>9, <1>10 DEF n

(* The operations on an open or closed channel, on what they rely on.      *)
FlagInv(b) == Sound(b) /\ FlagsAgree(b)

(* OpenText leaves the channel at the start of a message.                  *)
LEMMA OpenTextStarts ==
  ASSUME NEW b, FlagInv(b), NEW c \in Channel, ~b.open[c]
  PROVE  LET n == OpenText(b, c) IN
         /\ Sound(n)
         /\ Grows(b, n)
         /\ Moves(b, n, c, "START")
         /\ ~Stream!MidToolCall(n.outputs)
         /\ n.toolSequence = b.toolSequence
         /\ n.text = b.text
         /\ n.open = [b.open EXCEPT ![c] = TRUE]
         /\ n.reasoningPhaseOpen = n.open["reasoning"]
         /\ n.emitted = b.emitted
<1>1. /\ Sound(b) /\ b \in Builder
      /\ ~Stream!MidToolCall(b.outputs)
      /\ b.reasoningPhaseOpen = b.open["reasoning"]
      /\ c \in Thread
      /\ <<>> \in Text
  BY DEF FlagInv, Sound, FlagsAgree, Thread, Text
<1>2. Stream!StandsIn(b.outputs, c, {"NONE", IF c = "reasoning" THEN "PHASE_END" ELSE "END"})
  <2>1. Stream!StandsIn(b.outputs, c, Resting(b, c))
    BY <1>1 DEF FlagInv, FlagsAgree
  <2>2. Resting(b, c) = {"NONE", IF c = "reasoning" THEN "PHASE_END" ELSE "END"}
    BY CallIdAssumption DEF Resting, Channel, UsageKind
  <2>. QED
    BY <2>1, <2>2
<1> DEFINE p == [b EXCEPT !.reasoningPhaseOpen = TRUE]
<1> DEFINE q == NextOutput(p, "PHASE_START", c, <<>>)
<1> DEFINE phased == IF c = "reasoning" THEN q ELSE b
<1>3. /\ Sound(phased)
      /\ Grows(b, phased)
      /\ ~Stream!MidToolCall(phased.outputs)
      /\ \A i, u : i # c => (Stream!Stands(phased.outputs, i, u) <=> Stream!Stands(b.outputs, i, u))
      /\ Stream!StandsIn(phased.outputs, c,
                         IF c = "reasoning" THEN {"PHASE_START"} ELSE {"NONE", "END"})
      /\ phased.reasoningPhaseOpen = (c = "reasoning" \/ b.open["reasoning"])
      /\ phased.toolSequence = b.toolSequence
      /\ phased.text = b.text
      /\ phased.open = b.open
      /\ phased.emitted = b.emitted
  <2>1. CASE c = "reasoning"
    <3>1. /\ p \in Builder
          /\ p.outputs = b.outputs /\ p.sequence = b.sequence
          /\ p.reasoningPhaseOpen = TRUE
          /\ p.toolSequence = b.toolSequence /\ p.text = b.text
          /\ p.open = b.open /\ p.emitted = b.emitted
      BY <1>1 DEF Builder
    <3>2. /\ Sound(p)
          /\ ~Stream!MidToolCall(p.outputs)
          /\ \A i, u : Stream!Stands(p.outputs, i, u) <=> Stream!Stands(b.outputs, i, u)
      BY <1>1, <3>1, FieldChange
    <3>3. Stream!StandsIn(p.outputs, c,
                          Stream!Predecessors(NewOutput(p, "PHASE_START", c, <<>>)))
      BY <1>2, <2>1, <3>2 DEF Stream!StandsIn, Stream!Predecessors, NewOutput
    <3> HIDE DEF p
    <3>4. /\ Sound(q)
          /\ Grows(p, q)
          /\ SameState(p, q)
          /\ Moves(p, q, c, "PHASE_START")
          /\ ~Stream!MidToolCall(q.outputs)
      BY <1>1, <3>2, <3>3, EmitMoves DEF EventType
    <3> HIDE DEF q
    <3>5. Stream!StandsIn(q.outputs, c, {"PHASE_START"})
      BY <3>4 DEF Moves, Stream!StandsIn
    <3>6. Grows(b, q)
      BY <1>1, <3>1, <3>4, GrowsReflexive, GrowsTransitive
    <3>. QED
      BY <2>1, <3>1, <3>2, <3>4, <3>5, <3>6 DEF Moves, SameState
  <2>2. CASE c # "reasoning"
    <3>1. b.open["reasoning"] \in BOOLEAN
      BY <1>1 DEF Builder, Channel
    <3>2. b.reasoningPhaseOpen = (c = "reasoning" \/ b.open["reasoning"])
      BY <1>1, <2>2, <3>1
    <3>3. phased = b
      BY <2>2
    <3>4. Stream!StandsIn(b.outputs, c, {"NONE", "END"})
      BY <1>2, <2>2
    <3> HIDE DEF phased
    <3>5. Grows(b, phased)
      BY <1>1, <3>3, GrowsReflexive
    <3>. QED
      BY <1>1, <2>2, <3>2, <3>3, <3>4, <3>5
  <2>. QED
    BY <2>1, <2>2
<1>4. OpenText(b, c) = NextOutput([phased EXCEPT !.open[c] = TRUE], "START", c, <<>>)
  BY <1>1 DEF OpenText
<1> HIDE DEF phased
<1> DEFINE f == [phased EXCEPT !.open[c] = TRUE]
<1>5. phased \in Builder
  BY <1>3 DEF Sound
<1>6. /\ f \in Builder
      /\ f.outputs = phased.outputs /\ f.sequence = phased.sequence
      /\ f.open = [b.open EXCEPT ![c] = TRUE]
      /\ f.reasoningPhaseOpen = phased.reasoningPhaseOpen
      /\ f.toolSequence = b.toolSequence /\ f.text = b.text
      /\ f.emitted = b.emitted
  BY <1>3, <1>5 DEF Builder
<1> HIDE DEF f
<1>7. /\ Sound(f)
      /\ ~Stream!MidToolCall(f.outputs)
      /\ \A i, u : Stream!Stands(f.outputs, i, u) <=> Stream!Stands(phased.outputs, i, u)
  BY <1>3, <1>6, FieldChange
<1>8. Stream!StandsIn(f.outputs, c, Stream!Predecessors(NewOutput(f, "START", c, <<>>)))
  <2>1. Stream!Predecessors(NewOutput(f, "START", c, <<>>))
          = IF c = "reasoning" THEN {"PHASE_START"} ELSE {"NONE", "END"}
    BY DEF Stream!Predecessors, NewOutput
  <2>. QED
    BY <1>3, <1>7, <2>1 DEF Stream!StandsIn
<1> DEFINE n == NextOutput(f, "START", c, <<>>)
<1>9. /\ Sound(n)
      /\ Grows(f, n)
      /\ SameState(f, n)
      /\ Moves(f, n, c, "START")
      /\ ~Stream!MidToolCall(n.outputs)
  BY <1>1, <1>7, <1>8, EmitMoves DEF EventType
<1>10. n = OpenText(b, c)
  BY <1>4 DEF f
<1> HIDE DEF n
<1>11. Moves(b, n, c, "START")
  BY <1>3, <1>7, <1>9 DEF Moves
<1>12. n.reasoningPhaseOpen = n.open["reasoning"]
  <2>1. b.open \in [Channel -> BOOLEAN]
    BY <1>1 DEF Builder
  <2>2. n.open = [b.open EXCEPT ![c] = TRUE]
        /\ n.reasoningPhaseOpen = (c = "reasoning" \/ b.open["reasoning"])
    BY <1>3, <1>6, <1>9 DEF SameState
  <2>3. n.open["reasoning"] = IF c = "reasoning" THEN TRUE ELSE b.open["reasoning"]
    BY <2>1, <2>2 DEF Channel
  <2>4. b.open["reasoning"] \in BOOLEAN
    BY <2>1 DEF Channel
  <2>. QED
    BY <2>2, <2>3, <2>4
<1>13. Grows(b, n)
  BY <1>3, <1>6, <1>9, GrowsReflexive, GrowsTransitive
<1>. QED
  BY <1>6, <1>9, <1>10, <1>11, <1>12, <1>13 DEF SameState

--------------------------------------------------------------------------------
(* Operations keep the flags in agreement with the outputs.                *)

(* Where a channel rests, as a function of its flag.                       *)
LEMMA RestingChannel ==
  ASSUME NEW b, NEW c \in Channel
  PROVE  /\ b.open[c] => Resting(b, c) = {"CONTENT"}
         /\ ~b.open[c] => Resting(b, c) =
              {"NONE", IF c = "reasoning" THEN "PHASE_END" ELSE "END"}
BY CallIdAssumption DEF Resting, Channel, UsageKind

(* Channel c has moved to where its new flag says, and nothing else has.   *)
LEMMA FlagsMove ==
  ASSUME NEW b, FlagInv(b), NEW n, Sound(n),
         NEW c \in Channel, NEW v \in BOOLEAN,
         n.open = [b.open EXCEPT ![c] = v],
         \A i, u : i # c =>
           (Stream!Stands(n.outputs, i, u) <=> Stream!Stands(b.outputs, i, u)),
         Stream!StandsIn(n.outputs, c, Resting(n, c)),
         n.reasoningPhaseOpen = n.open["reasoning"],
         ~Stream!MidToolCall(n.outputs)
  PROVE  FlagInv(n)
<1>1. b \in Builder /\ n \in Builder
  BY DEF FlagInv, Sound
<1>2. \A id \in Thread : id # c => Resting(n, id) = Resting(b, id)
  <2> SUFFICES ASSUME NEW id \in Thread, id # c
               PROVE  Resting(n, id) = Resting(b, id)
    OBVIOUS
  <2>1. CASE id \in Channel
    <3>1. n.open[id] = b.open[id] /\ b.open[id] \in BOOLEAN
      BY <1>1, <2>1 DEF Builder
    <3>. QED
      BY <2>1, <3>1, RestingChannel
  <2>2. CASE id \notin Channel
    BY <2>2 DEF Resting, Channel
  <2>. QED
    BY <2>1, <2>2
<1>3. \A id \in Thread : Stream!StandsIn(n.outputs, id, Resting(n, id))
  <2> SUFFICES ASSUME NEW id \in Thread, id # c
               PROVE  Stream!StandsIn(n.outputs, id, Resting(n, id))
    OBVIOUS
  <2>1. Stream!StandsIn(b.outputs, id, Resting(n, id))
    BY <1>2 DEF FlagInv, FlagsAgree
  <2>. QED
    BY <2>1 DEF Stream!StandsIn
<1>. QED
  BY <1>3 DEF FlagInv, FlagsAgree

(* appendText with some text.                                              *)
LEMMA AppendTextKeeps ==
  ASSUME NEW b, FlagInv(b), NEW c \in Channel, NEW t \in Text, t # <<>>
  PROVE  LET n == AppendText(b, c, t) IN
         /\ FlagInv(n)
         /\ Grows(b, n)
         /\ n.toolSequence = b.toolSequence
         /\ n.text = b.text
         /\ n.open = [b.open EXCEPT ![c] = TRUE]
         /\ n.emitted = b.emitted
<1> DEFINE opened == IF b.open[c] THEN b ELSE OpenText(b, c)
<1> DEFINE n == NextOutput(opened, "CONTENT", c, t)
<1>1. /\ Sound(b) /\ b \in Builder
      /\ ~Stream!MidToolCall(b.outputs)
      /\ b.reasoningPhaseOpen = b.open["reasoning"]
      /\ b.open \in [Channel -> BOOLEAN]
      /\ c \in Thread
      /\ "CONTENT" \in EventType
  BY DEF FlagInv, Sound, FlagsAgree, Thread, Builder, EventType
<1>2. /\ Sound(opened)
      /\ Grows(b, opened)
      /\ ~Stream!MidToolCall(opened.outputs)
      /\ \A i, u : i # c =>
           (Stream!Stands(opened.outputs, i, u) <=> Stream!Stands(b.outputs, i, u))
      /\ Stream!StandsIn(opened.outputs, c, {"START", "CONTENT"})
      /\ opened.toolSequence = b.toolSequence
      /\ opened.text = b.text
      /\ opened.open = [b.open EXCEPT ![c] = TRUE]
      /\ opened.reasoningPhaseOpen = opened.open["reasoning"]
      /\ opened.emitted = b.emitted
  <2>1. CASE b.open[c]
    <3>1. Stream!StandsIn(b.outputs, c, {"CONTENT"})
      BY <1>1, <2>1, RestingChannel DEF FlagInv, FlagsAgree
    <3>2. Stream!StandsIn(b.outputs, c, {"START", "CONTENT"})
      BY <3>1 DEF Stream!StandsIn
    <3>3. [b.open EXCEPT ![c] = TRUE] = b.open
      BY <1>1, <2>1
    <3>4. opened = b
      BY <2>1
    <3> HIDE DEF opened
    <3>5. Grows(b, opened)
      BY <1>1, <3>4, GrowsReflexive
    <3>. QED
      BY <1>1, <3>2, <3>3, <3>4, <3>5
  <2>2. CASE ~b.open[c]
    <3>1. opened = OpenText(b, c)
      BY <2>2
    <3> HIDE DEF opened
    <3>2. /\ Sound(opened)
          /\ Grows(b, opened)
          /\ Moves(b, opened, c, "START")
          /\ ~Stream!MidToolCall(opened.outputs)
          /\ opened.toolSequence = b.toolSequence
          /\ opened.text = b.text
          /\ opened.open = [b.open EXCEPT ![c] = TRUE]
          /\ opened.reasoningPhaseOpen = opened.open["reasoning"]
          /\ opened.emitted = b.emitted
      BY <2>2, <3>1, OpenTextStarts
    <3>3. Stream!StandsIn(opened.outputs, c, {"START", "CONTENT"})
      BY <3>2 DEF Moves, Stream!StandsIn
    <3>. QED
      BY <3>2, <3>3 DEF Moves
  <2>. QED
    BY <2>1, <2>2
<1>3. AppendText(b, c, t) = n
  BY DEF AppendText
<1> HIDE DEF opened
<1>4. Stream!Predecessors(NewOutput(opened, "CONTENT", c, t)) = {"START", "CONTENT"}
  BY DEF Stream!Predecessors, NewOutput
<1>5. /\ Sound(n)
      /\ Grows(opened, n)
      /\ SameState(opened, n)
      /\ Moves(opened, n, c, "CONTENT")
      /\ ~Stream!MidToolCall(n.outputs)
  BY <1>1, <1>2, <1>4, EmitMoves
<1> HIDE DEF n
<1>6. /\ n.toolSequence = b.toolSequence
      /\ n.text = b.text
      /\ n.open = [b.open EXCEPT ![c] = TRUE]
      /\ n.reasoningPhaseOpen = n.open["reasoning"]
      /\ n.emitted = b.emitted
  BY <1>2, <1>5 DEF SameState
<1>7. \A i, u : i # c =>
        (Stream!Stands(n.outputs, i, u) <=> Stream!Stands(b.outputs, i, u))
  BY <1>2, <1>5 DEF Moves
<1>8. n.open[c]
  BY <1>1, <1>6
<1>9. Stream!StandsIn(n.outputs, c, Resting(n, c))
  <2>1. Resting(n, c) = {"CONTENT"}
    BY <1>8, RestingChannel
  <2>2. Stream!Stands(n.outputs, c, "CONTENT")
    BY <1>5 DEF Moves
  <2>. QED
    BY <2>1, <2>2 DEF Stream!StandsIn
<1>10. FlagInv(n)
  BY <1>5, <1>6, <1>7, <1>9, FlagsMove
<1>11. Grows(b, n)
  BY <1>2, <1>5, GrowsTransitive
<1>. QED
  BY <1>3, <1>6, <1>10, <1>11

(* closeTextIfOpen.                                                        *)
LEMMA CloseKeeps ==
  ASSUME NEW b, FlagInv(b), NEW c \in Channel
  PROVE  LET n == CloseTextIfOpen(b, c) IN
         /\ FlagInv(n)
         /\ Grows(b, n)
         /\ n.toolSequence = b.toolSequence
         /\ n.text = b.text
         /\ n.open = [b.open EXCEPT ![c] = FALSE]
         /\ n.emitted = b.emitted
<1>1. /\ Sound(b) /\ b \in Builder
      /\ ~Stream!MidToolCall(b.outputs)
      /\ b.reasoningPhaseOpen = b.open["reasoning"]
      /\ b.open \in [Channel -> BOOLEAN]
      /\ c \in Thread
      /\ {"END", "PHASE_END"} \subseteq EventType
      /\ <<>> \in Text
  BY DEF FlagInv, Sound, FlagsAgree, Thread, Builder, EventType, Text
<1>2. CASE ~b.open[c]
  <2>1. CloseTextIfOpen(b, c) = b
    BY <1>2 DEF CloseTextIfOpen
  <2>2. [b.open EXCEPT ![c] = FALSE] = b.open
    BY <1>1, <1>2
  <2>3. Grows(b, b)
    BY <1>1, GrowsReflexive
  <2>. QED
    BY <2>1, <2>2, <2>3
<1>3. CASE b.open[c]
  <2> DEFINE f == [b EXCEPT !.open[c] = FALSE]
  <2> DEFINE ended == NextOutput(f, "END", c, <<>>)
  <2> DEFINE g == [ended EXCEPT !.reasoningPhaseOpen = FALSE]
  <2> DEFINE n == IF c = "reasoning" THEN NextOutput(g, "PHASE_END", c, <<>>) ELSE ended
  <2>1. /\ f \in Builder
        /\ f.outputs = b.outputs /\ f.sequence = b.sequence
        /\ f.open = [b.open EXCEPT ![c] = FALSE]
        /\ f.reasoningPhaseOpen = b.reasoningPhaseOpen
        /\ f.toolSequence = b.toolSequence /\ f.text = b.text
        /\ f.emitted = b.emitted
    BY <1>1 DEF Builder
  <2>2. /\ Sound(f)
        /\ ~Stream!MidToolCall(f.outputs)
        /\ \A i, u : Stream!Stands(f.outputs, i, u) <=> Stream!Stands(b.outputs, i, u)
    BY <1>1, <2>1, FieldChange
  <2>3. Stream!StandsIn(f.outputs, c, {"CONTENT"})
    <3>1. Stream!StandsIn(b.outputs, c, {"CONTENT"})
      BY <1>1, <1>3, RestingChannel DEF FlagInv, FlagsAgree
    <3>. QED
      BY <2>2, <3>1 DEF Stream!StandsIn
  <2>4. CloseTextIfOpen(b, c) = n
    <3>1. c = "reasoning" => b.reasoningPhaseOpen
      BY <1>1, <1>3
    <3>. QED
      BY <1>3, <3>1 DEF CloseTextIfOpen
  <2> HIDE DEF f
  <2>5. Stream!Predecessors(NewOutput(f, "END", c, <<>>)) = {"CONTENT"}
    BY DEF Stream!Predecessors, NewOutput
  <2>6. /\ Sound(ended)
        /\ Grows(f, ended)
        /\ SameState(f, ended)
        /\ Moves(f, ended, c, "END")
        /\ ~Stream!MidToolCall(ended.outputs)
    BY <1>1, <2>2, <2>3, <2>5, EmitMoves
  <2>7. ended \in Builder
    BY <2>6 DEF Sound
  <2> HIDE DEF ended
  <2>8. /\ g \in Builder
        /\ g.outputs = ended.outputs /\ g.sequence = ended.sequence
        /\ g.reasoningPhaseOpen = FALSE
        /\ g.toolSequence = ended.toolSequence /\ g.text = ended.text
        /\ g.open = ended.open /\ g.emitted = ended.emitted
    BY <2>7 DEF Builder
  <2> HIDE DEF g
  <2>9. /\ Sound(g)
        /\ ~Stream!MidToolCall(g.outputs)
        /\ \A i, u : Stream!Stands(g.outputs, i, u) <=> Stream!Stands(ended.outputs, i, u)
    BY <2>6, <2>8, FieldChange
  <2>10. Stream!StandsIn(g.outputs, c,
                         Stream!Predecessors(NewOutput(g, "PHASE_END", c, <<>>)))
    <3>1. Stream!Predecessors(NewOutput(g, "PHASE_END", c, <<>>)) = {"END"}
      BY DEF Stream!Predecessors, NewOutput
    <3>. QED
      BY <2>6, <2>9, <3>1 DEF Stream!StandsIn, Moves
  <2> DEFINE last == NextOutput(g, "PHASE_END", c, <<>>)
  <2>11. /\ Sound(last)
         /\ Grows(g, last)
         /\ SameState(g, last)
         /\ Moves(g, last, c, "PHASE_END")
         /\ ~Stream!MidToolCall(last.outputs)
    BY <1>1, <2>9, <2>10, EmitMoves
  <2>12. n = IF c = "reasoning" THEN last ELSE ended
    OBVIOUS
  <2> HIDE DEF last, n
  <2>13. /\ Sound(n)
         /\ ~Stream!MidToolCall(n.outputs)
         /\ Moves(b, n, c, IF c = "reasoning" THEN "PHASE_END" ELSE "END")
         /\ n.open = [b.open EXCEPT ![c] = FALSE]
         /\ n.toolSequence = b.toolSequence
         /\ n.text = b.text
         /\ n.emitted = b.emitted
    <3>1. CASE c = "reasoning"
      BY <2>1, <2>2, <2>6, <2>8, <2>9, <2>11, <2>12, <3>1 DEF Moves, SameState
    <3>2. CASE c # "reasoning"
      BY <2>1, <2>2, <2>6, <2>12, <3>2 DEF Moves, SameState
    <3>. QED
      BY <3>1, <3>2
  <2>14. n.reasoningPhaseOpen = n.open["reasoning"]
    <3>1. CASE c = "reasoning"
      <4>1. n.reasoningPhaseOpen = FALSE
        BY <2>8, <2>11, <2>12, <3>1 DEF SameState
      <4>2. n.open["reasoning"] = FALSE
        BY <1>1, <2>13, <3>1
      <4>. QED
        BY <4>1, <4>2
    <3>2. CASE c # "reasoning"
      <4>1. n.reasoningPhaseOpen = b.reasoningPhaseOpen
        BY <2>1, <2>6, <2>12, <3>2 DEF SameState
      <4>2. n.open["reasoning"] = b.open["reasoning"]
        BY <1>1, <2>13, <3>2 DEF Channel
      <4>. QED
        BY <1>1, <4>1, <4>2
    <3>. QED
      BY <3>1, <3>2
  <2>15. Stream!StandsIn(n.outputs, c, Resting(n, c))
    <3>1. ~n.open[c]
      BY <1>1, <2>13
    <3>2. Resting(n, c) = {"NONE", IF c = "reasoning" THEN "PHASE_END" ELSE "END"}
      BY <3>1, RestingChannel
    <3>3. Stream!Stands(n.outputs, c, IF c = "reasoning" THEN "PHASE_END" ELSE "END")
      BY <2>13 DEF Moves
    <3>. QED
      BY <3>2, <3>3 DEF Stream!StandsIn
  <2>16. \A i, u : i # c =>
           (Stream!Stands(n.outputs, i, u) <=> Stream!Stands(b.outputs, i, u))
    BY <2>13 DEF Moves
  <2>17. FlagInv(n)
    BY <2>13, <2>14, <2>15, <2>16, FlagsMove
  <2>18. Grows(b, n)
    <3>1. Grows(b, ended)
      BY <1>1, <2>1, <2>6, GrowsReflexive, GrowsTransitive
    <3>2. Grows(ended, last)
      BY <2>6, <2>8, <2>11, GrowsReflexive, GrowsTransitive
    <3>. QED
      BY <2>12, <3>1, <3>2, GrowsTransitive
  <2>. QED
    BY <2>4, <2>13, <2>17, <2>18
<1>. QED
  BY <1>2, <1>3

(* Assigning an accumulated text emits nothing.                            *)
LEMMA AssignKeeps ==
  ASSUME NEW b, FlagInv(b), NEW c \in Channel, NEW t \in Text
  PROVE  LET n == [b EXCEPT !.text[c] = t] IN
         /\ FlagInv(n)
         /\ Grows(b, n)
         /\ n.toolSequence = b.toolSequence
         /\ n.text = [b.text EXCEPT ![c] = t]
         /\ n.open = b.open
         /\ n.emitted = b.emitted
<1> DEFINE n == [b EXCEPT !.text[c] = t]
<1>1. b \in Builder /\ Sound(b)
  BY DEF FlagInv, Sound
<1>2. /\ n \in Builder
      /\ n.outputs = b.outputs /\ n.sequence = b.sequence
      /\ n.toolSequence = b.toolSequence
      /\ n.text = [b.text EXCEPT ![c] = t]
      /\ n.open = b.open
      /\ n.reasoningPhaseOpen = b.reasoningPhaseOpen
      /\ n.emitted = b.emitted
  BY <1>1 DEF Builder
<1> HIDE DEF n
<1>3. Sound(n)
  BY <1>1, <1>2, FieldChange
<1>4. \A id \in Thread : Resting(n, id) = Resting(b, id)
  BY <1>2 DEF Resting
<1>5. FlagInv(n)
  BY <1>2, <1>3, <1>4 DEF FlagInv, FlagsAgree
<1>6. Grows(b, n)
  BY <1>1, <1>2, GrowsReflexive
<1>. QED
  BY <1>2, <1>5, <1>6 DEF n

(* Closing an open channel ends its message.                               *)
LEMMA CloseEnds ==
  ASSUME NEW b \in Builder, NEW c \in Channel, b.open[c]
  PROVE  LET n == CloseTextIfOpen(b, c) IN Ended(n, c) /\ n.sequence # b.sequence
<1> DEFINE f == [b EXCEPT !.open[c] = FALSE]
<1> DEFINE ended == NextOutput(f, "END", c, <<>>)
<1> DEFINE g == [ended EXCEPT !.reasoningPhaseOpen = FALSE]
<1> DEFINE last == NextOutput(g, "PHASE_END", c, <<>>)
<1>1. c \in Thread /\ {"END", "PHASE_END"} \subseteq EventType /\ <<>> \in Text
  BY DEF Thread, EventType, Text
<1>2. f \in Builder /\ f.outputs = b.outputs /\ f.sequence = b.sequence /\ b.sequence \in Nat
      /\ f.reasoningPhaseOpen = b.reasoningPhaseOpen
  BY DEF Builder
<1>3. CloseTextIfOpen(b, c) = IF c = "reasoning" /\ b.reasoningPhaseOpen THEN last ELSE ended
  BY DEF CloseTextIfOpen
<1>. HIDE DEF f
<1>4. /\ ended \in Builder /\ NewOutput(f, "END", c, <<>>) \in Output
      /\ ended.outputs = Append(f.outputs, NewOutput(f, "END", c, <<>>))
      /\ ended.sequence = f.sequence + 1
  BY <1>1, <1>2, NextOutputAppends DEF Representable
<1>. HIDE DEF ended
<1>5. Ended(ended, c)
  <2>1. f.outputs \in Seq(Output)
    BY <1>2 DEF Builder
  <2>2. /\ Len(ended.outputs) \in 1..Len(ended.outputs)
        /\ ended.outputs[Len(ended.outputs)] = NewOutput(f, "END", c, <<>>)
    BY <1>4, <2>1, AppendProperties, LenProperties
  <2>. QED
    BY <2>2 DEF Ended, NewOutput
<1>6. g \in Builder /\ g.outputs = ended.outputs /\ g.sequence = ended.sequence
  BY <1>4 DEF Builder
<1>. HIDE DEF g
<1>7. /\ NewOutput(g, "PHASE_END", c, <<>>) \in Output
      /\ last.outputs = Append(g.outputs, NewOutput(g, "PHASE_END", c, <<>>))
      /\ last.sequence = g.sequence + 1
  BY <1>1, <1>6, NextOutputAppends DEF Representable
<1>. HIDE DEF last
<1>8. Grows(ended, last)
  <2>1. ended.outputs \in Seq(Output)
    BY <1>4 DEF Builder
  <2>. QED
    BY <1>6, <1>7, <2>1, AppendProperties, LenProperties DEF Grows
<1>9. Ended(last, c)
  BY <1>5, <1>8, EndedGrows
<1>. QED
  BY <1>2, <1>3, <1>4, <1>5, <1>6, <1>7, <1>9

--------------------------------------------------------------------------------
(* Operations keep the whole invariant.                                    *)

(* Opening c, whose text is not empty, keeps every open message non-empty. *)
LEMMA OpenTextPresentKeeps ==
  ASSUME NEW b, BuilderInv(b), NEW n, FlagInv(n), NEW c \in Channel,
         NEW t \in Text, t # <<>>,
         n.text = [b.text EXCEPT ![c] = t],
         n.open = [b.open EXCEPT ![c] = TRUE]
  PROVE  BuilderInv(n)
<1>1. b.text \in [Channel -> Text] /\ b.open \in [Channel -> BOOLEAN]
  BY DEF BuilderInv, Sound, Builder
<1>2. \A d \in Channel : n.text[d] = IF d = c THEN t ELSE b.text[d]
  BY <1>1
<1>3. OpenTextPresent(n)
  BY <1>1, <1>2 DEF OpenTextPresent, BuilderInv
<1>. QED
  BY <1>3 DEF BuilderInv, FlagInv

(* closeTextIfOpen.                                                        *)
LEMMA CloseInv ==
  ASSUME NEW b, BuilderInv(b), NEW c \in Channel
  PROVE  LET n == CloseTextIfOpen(b, c) IN
         /\ BuilderInv(n) /\ Grows(b, n)
         /\ n.open = [b.open EXCEPT ![c] = FALSE]
         /\ n.emitted = b.emitted
         /\ n.sequence # b.sequence => Ended(n, c)
         /\ b.open[c] => Ended(n, c) /\ n.sequence # b.sequence
<1> DEFINE n == CloseTextIfOpen(b, c)
<1>0. /\ b \in Builder
      /\ b.open[c] => Ended(n, c) /\ n.sequence # b.sequence
      /\ ~b.open[c] => n = b
  BY CloseEnds DEF BuilderInv, Sound, CloseTextIfOpen
<1>1. /\ FlagInv(n)
      /\ Grows(b, n)
      /\ n.text = b.text
      /\ n.open = [b.open EXCEPT ![c] = FALSE]
      /\ n.emitted = b.emitted
  BY CloseKeeps DEF BuilderInv, FlagInv
<1>2. b.open \in [Channel -> BOOLEAN]
  BY DEF BuilderInv, Sound, Builder
<1> HIDE DEF n
<1>3. OpenTextPresent(n)
  BY <1>1, <1>2 DEF OpenTextPresent, BuilderInv
<1>. QED
  BY <1>0, <1>1, <1>3 DEF BuilderInv, FlagInv, n

(* The suffix SyncText sends is the part of the text the CLI has not sent  *)
(* before, and there is one whenever the text has changed.                 *)
LEMMA SuffixIsText ==
  ASSUME NEW s \in Text, NEW t \in Text, IsPrefix(s, t), s # t
  PROVE  /\ SubSeq(t, Len(s) + 1, Len(t)) \in Text
         /\ SubSeq(t, Len(s) + 1, Len(t)) # <<>>
<1>1. /\ Len(s) \in Nat /\ Len(t) \in Nat
      /\ Len(s) <= Len(t)
      /\ SubSeq(s, 1, Len(s)) = SubSeq(t, 1, Len(s))
  BY LenProperties DEF IsPrefix, Text
<1>2. SubSeq(s, 1, Len(s)) = s /\ SubSeq(t, 1, Len(t)) = t
  BY SubSeqFull DEF Text
<1>3. Len(s) # Len(t)
  <2> SUFFICES ASSUME Len(s) = Len(t) PROVE FALSE
    OBVIOUS
  <2>1. SubSeq(s, 1, Len(s)) = SubSeq(t, 1, Len(t))
    BY <1>1, Zenon
  <2>2. s = t
    BY <1>2, <2>1, Zenon
  <2>. QED
    BY <2>2
<1>4. \A i \in (Len(s) + 1)..Len(t) : t[i] \in Char
  BY <1>1, ElementOfSeq DEF Text
<1>5. /\ SubSeq(t, Len(s) + 1, Len(t)) \in Seq(Char)
      /\ Len(SubSeq(t, Len(s) + 1, Len(t))) =
           IF Len(s) + 1 <= Len(t) THEN Len(t) - (Len(s) + 1) + 1 ELSE 0
  <2>1. Len(s) + 1 \in Int /\ Len(t) \in Int
    BY <1>1
  <2>. QED
    BY <1>4, <2>1, SubSeqProperties
<1>6. Len(SubSeq(t, Len(s) + 1, Len(t))) > 0
  BY <1>1, <1>3, <1>5
<1> DEFINE u == SubSeq(t, Len(s) + 1, Len(t))
<1> HIDE DEF u
<1>7. u # <<>>
  <2> SUFFICES ASSUME u = <<>> PROVE FALSE
    OBVIOUS
  <2>1. Len(u) = 0
    OBVIOUS
  <2>. QED
    BY <1>6, <2>1 DEF u
<1>. QED
  BY <1>5, <1>7 DEF Text, u

(* syncText.                                                               *)
LEMMA SyncTextInv ==
  ASSUME NEW b, BuilderInv(b), NEW c \in Channel, NEW t \in Text,
         NEW close \in BOOLEAN
  PROVE  LET n == SyncText(b, c, t, close) IN
         /\ BuilderInv(n) /\ Grows(b, n)
         /\ n.emitted = b.emitted
         /\ close /\ n.sequence # b.sequence => Ended(n, c)
<1> DEFINE current  == b.text[c]
<1> DEFINE assigned == [b EXCEPT !.text[c] = t]
<1> DEFINE suffix   == SubSeq(t, Len(current) + 1, Len(t))
<1> DEFINE synced   == IF t = <<>> \/ t = current THEN b
                       ELSE IF IsPrefix(current, t) THEN AppendText(assigned, c, suffix)
                       ELSE AppendText(CloseTextIfOpen(assigned, c), c, t)
<1>1. SyncText(b, c, t, close) = IF close THEN CloseTextIfOpen(synced, c) ELSE synced
  BY DEF SyncText
<1>2. FlagInv(b) /\ b.text \in [Channel -> Text] /\ b.open \in [Channel -> BOOLEAN]
  BY DEF BuilderInv, FlagInv, Sound, Builder
<1>3. /\ FlagInv(assigned)
      /\ Grows(b, assigned)
      /\ assigned.text = [b.text EXCEPT ![c] = t]
      /\ assigned.open = b.open
      /\ assigned.emitted = b.emitted
  BY <1>2, AssignKeeps
<1>4. current \in Text
  BY <1>2
<1>5. /\ BuilderInv(synced) /\ Grows(b, synced)
      /\ synced.emitted = b.emitted
      /\ synced = b \/ synced.open[c]
  <2>1. CASE t = <<>> \/ t = current
    <3>1. Grows(b, b)
      BY <1>2, GrowsReflexive DEF FlagInv
    <3>. QED
      BY <2>1, <3>1
  <2>2. CASE ~(t = <<>> \/ t = current) /\ IsPrefix(current, t)
    <3>1. suffix \in Text /\ suffix # <<>>
      BY <1>4, <2>2, SuffixIsText
    <3>2. synced = AppendText(assigned, c, suffix)
      BY <2>2
    <3> HIDE DEF assigned, suffix, synced
    <3>3. /\ FlagInv(synced)
          /\ Grows(assigned, synced)
          /\ synced.text = assigned.text
          /\ synced.open = [assigned.open EXCEPT ![c] = TRUE]
          /\ synced.emitted = assigned.emitted
      BY <1>3, <3>1, <3>2, AppendTextKeeps
    <3>4. synced.open = [b.open EXCEPT ![c] = TRUE] /\ synced.emitted = b.emitted /\ synced.open[c]
      BY <1>2, <1>3, <3>3
    <3>5. synced.text = [b.text EXCEPT ![c] = t]
      BY <1>3, <3>3
    <3>6. t # <<>>
      BY <2>2
    <3>7. Grows(b, synced)
      BY <1>3, <3>3, GrowsTransitive
    <3>. QED
      BY <3>3, <3>4, <3>5, <3>6, <3>7, OpenTextPresentKeeps
  <2>3. CASE ~(t = <<>> \/ t = current) /\ ~IsPrefix(current, t)
    <3> DEFINE closed == CloseTextIfOpen(assigned, c)
    <3>1. synced = AppendText(closed, c, t)
      BY <2>3
    <3> HIDE DEF assigned, synced
    <3>2. /\ FlagInv(closed)
          /\ Grows(assigned, closed)
          /\ closed.text = assigned.text
          /\ closed.open = [assigned.open EXCEPT ![c] = FALSE]
          /\ closed.emitted = assigned.emitted
      BY <1>3, CloseKeeps
    <3> HIDE DEF closed
    <3>3. /\ FlagInv(synced)
          /\ Grows(closed, synced)
          /\ synced.text = closed.text
          /\ synced.open = [closed.open EXCEPT ![c] = TRUE]
          /\ synced.emitted = closed.emitted
      BY <2>3, <3>1, <3>2, AppendTextKeeps
    <3>4. synced.open = [b.open EXCEPT ![c] = TRUE] /\ synced.emitted = b.emitted /\ synced.open[c]
      BY <1>2, <1>3, <3>2, <3>3
    <3>5. synced.text = [b.text EXCEPT ![c] = t]
      BY <1>3, <3>2, <3>3
    <3>6. t # <<>>
      BY <2>3
    <3>7. Grows(b, synced)
      BY <1>3, <3>2, <3>3, GrowsTransitive
    <3>. QED
      BY <3>3, <3>4, <3>5, <3>6, <3>7, OpenTextPresentKeeps
  <2>. QED
    BY <2>1, <2>2, <2>3
<1> HIDE DEF synced
<1>6. CASE ~close
  BY <1>1, <1>5, <1>6
<1>7. CASE close
  <2> DEFINE n == CloseTextIfOpen(synced, c)
  <2>1. /\ BuilderInv(n) /\ Grows(synced, n)
        /\ n.emitted = synced.emitted
        /\ n.sequence # synced.sequence => Ended(n, c)
        /\ synced.open[c] => Ended(n, c)
    BY <1>5, CloseInv
  <2>2. SyncText(b, c, t, close) = n
    BY <1>1, <1>7
  <2> HIDE DEF n
  <2>3. Grows(b, n)
    BY <1>5, <2>1, GrowsTransitive
  <2>4. n.sequence # b.sequence => Ended(n, c)
    BY <1>5, <2>1
  <2>. QED
    BY <1>5, <2>1, <2>2, <2>3, <2>4
<1>. QED
  BY <1>6, <1>7

(* AppendAssistant and AppendReasoning.                                    *)
LEMMA AppendDeltaInv ==
  ASSUME NEW b, BuilderInv(b), NEW c \in Channel, NEW t \in Text
  PROVE  LET n == AppendDelta(b, c, t) IN
         BuilderInv(n) /\ Grows(b, n) /\ n.emitted = b.emitted
<1>1. CASE t = <<>>
  BY <1>1, GrowsReflexive DEF AppendDelta, BuilderInv
<1>2. CASE t # <<>>
  <2> DEFINE u == b.text[c] \o t
  <2> DEFINE assigned == [b EXCEPT !.text[c] = u]
  <2> DEFINE n == AppendText(assigned, c, t)
  <2>1. FlagInv(b) /\ b.text[c] \in Text /\ b.open \in [Channel -> BOOLEAN] /\ b \in Builder
    BY DEF BuilderInv, FlagInv, Sound, Builder
  <2>2. u \in Text /\ u # <<>>
    BY <1>2, <2>1, ConcatProperties, ConcatEqualIffEmpty DEF Text
  <2>3. AppendDelta(b, c, t) = n
    BY <1>2 DEF AppendDelta
  <2> HIDE DEF u
  <2>4. /\ FlagInv(assigned)
        /\ Grows(b, assigned)
        /\ assigned.text = [b.text EXCEPT ![c] = u]
        /\ assigned.open = b.open
        /\ assigned.emitted = b.emitted
    BY <2>1, <2>2, AssignKeeps
  <2> HIDE DEF assigned
  <2>5. /\ FlagInv(n)
        /\ Grows(assigned, n)
        /\ n.text = assigned.text
        /\ n.open = [assigned.open EXCEPT ![c] = TRUE]
        /\ n.emitted = assigned.emitted
    BY <1>2, <2>4, AppendTextKeeps
  <2> HIDE DEF n
  <2>6. n.text = [b.text EXCEPT ![c] = u] /\ n.open = [b.open EXCEPT ![c] = TRUE]
    BY <2>4, <2>5
  <2>7. Grows(b, n)
    BY <2>4, <2>5, GrowsTransitive
  <2>. QED
    BY <2>2, <2>3, <2>4, <2>5, <2>6, <2>7, OpenTextPresentKeeps
<1>. QED
  BY <1>1, <1>2

(* ResultAssistant and ResultReasoning.                                    *)
LEMMA ResultInv ==
  ASSUME NEW b, BuilderInv(b), NEW c \in Channel, NEW t \in Text
  PROVE  LET n == Result(b, c, t) IN
         /\ BuilderInv(n) /\ Grows(b, n)
         /\ n.emitted = b.emitted
         /\ n.sequence # b.sequence => Ended(n, c)
<1>1. Grows(b, b)
  BY GrowsReflexive DEF BuilderInv
<1>. QED
  BY <1>1, SyncTextInv, CloseInv DEF Result

(* The Finalizer's flags play no part in the conversation.                 *)
LEMMA EmittedInv ==
  ASSUME NEW b, BuilderInv(b), NEW c \in Channel
  PROVE  /\ BuilderInv([b EXCEPT !.emitted[c] = TRUE])
         /\ Grows(b, [b EXCEPT !.emitted[c] = TRUE])
<1> DEFINE n == [b EXCEPT !.emitted[c] = TRUE]
<1>1. Sound(b) /\ b \in Builder
  BY DEF BuilderInv, Sound
<1>2. /\ n \in Builder
      /\ n.outputs = b.outputs /\ n.sequence = b.sequence
      /\ n.text = b.text /\ n.open = b.open
      /\ n.reasoningPhaseOpen = b.reasoningPhaseOpen
  BY <1>1 DEF Builder
<1> HIDE DEF n
<1>3. Sound(n)
  BY <1>1, <1>2, FieldChange
<1>4. \A id \in Thread : Resting(n, id) = Resting(b, id)
  BY <1>2 DEF Resting
<1>5. FlagsAgree(n)
  BY <1>2, <1>4 DEF BuilderInv, FlagsAgree
<1>6. OpenTextPresent(n)
  BY <1>2 DEF BuilderInv, OpenTextPresent
<1>7. Grows(b, n)
  BY <1>1, <1>2, GrowsReflexive
<1>. QED
  BY <1>3, <1>5, <1>6, <1>7 DEF BuilderInv, n

(* Finalizer.EmitAssistant, EmitReasoning and Finalize.                    *)
LEMMA EmitResultInv ==
  ASSUME NEW b, BuilderInv(b), NEW c \in Channel, NEW t \in Text
  PROVE  BuilderInv(EmitResult(b, c, t)) /\ Grows(b, EmitResult(b, c, t))
<1> DEFINE r == Result(b, c, t)
<1>1. BuilderInv(r) /\ Grows(b, r) /\ Grows(b, b)
  BY ResultInv, GrowsReflexive DEF BuilderInv
<1>2. EmitResult(b, c, t) = IF b.emitted[c] \/ r.sequence = b.sequence THEN b
                            ELSE [r EXCEPT !.emitted[c] = TRUE]
  BY DEF EmitResult
<1> HIDE DEF r
<1>3. /\ BuilderInv([r EXCEPT !.emitted[c] = TRUE])
      /\ Grows(b, [r EXCEPT !.emitted[c] = TRUE])
  BY <1>1, EmittedInv, GrowsTransitive
<1>. QED
  BY <1>1, <1>2, <1>3

LEMMA FinalizeInv ==
  ASSUME NEW b, BuilderInv(b)
  PROVE  BuilderInv(Finalize(b)) /\ Grows(b, Finalize(b))
<1>1. "reasoning" \in Channel /\ "assistant" \in Channel /\ <<>> \in Text
  BY DEF Channel, Text
<1> DEFINE m == EmitResult(b, "reasoning", <<>>)
<1>2. BuilderInv(m) /\ Grows(b, m)
  BY <1>1, EmitResultInv
<1>3. Finalize(b) = EmitResult(m, "assistant", <<>>)
  BY DEF Finalize
<1> HIDE DEF m
<1>. QED
  BY <1>1, <1>2, <1>3, EmitResultInv, GrowsTransitive

(* An output outside the two channels that ends where its thread may rest. *)
LEMMA OtherThreadInv ==
  ASSUME NEW b, BuilderInv(b), NEW n, Sound(n),
         NEW id \in Thread \ Channel, NEW t,
         Moves(b, n, id, t), t \in Resting(n, id),
         n.text = b.text, n.open = b.open,
         n.reasoningPhaseOpen = b.reasoningPhaseOpen,
         ~Stream!MidToolCall(n.outputs)
  PROVE  BuilderInv(n)
<1>1. \A i \in Thread : Resting(n, i) = Resting(b, i)
  BY DEF Resting
<1>2. \A i \in Thread : Stream!StandsIn(n.outputs, i, Resting(n, i))
  <2> SUFFICES ASSUME NEW i \in Thread
               PROVE  Stream!StandsIn(n.outputs, i, Resting(n, i))
    OBVIOUS
  <2>1. CASE i = id
    BY <2>1 DEF Moves, Stream!StandsIn
  <2>2. CASE i # id
    <3>1. Stream!StandsIn(b.outputs, i, Resting(n, i))
      BY <1>1 DEF BuilderInv, FlagsAgree
    <3>. QED
      BY <2>2, <3>1 DEF Moves, Stream!StandsIn
  <2>. QED
    BY <2>1, <2>2
<1>3. FlagsAgree(n)
  BY <1>2 DEF BuilderInv, FlagsAgree
<1>. QED
  BY <1>3 DEF BuilderInv, OpenTextPresent

(* LLMUsage and TurnUsage.                                                 *)
LEMMA UsageInv ==
  ASSUME NEW b, BuilderInv(b), NEW kind \in UsageKind, NEW empty \in BOOLEAN
  PROVE  LET n == Usage(b, kind, empty) IN
         BuilderInv(n) /\ Grows(b, n) /\ n.emitted = b.emitted
<1>1. CASE empty
  BY <1>1, GrowsReflexive DEF Usage, BuilderInv
<1>2. CASE ~empty
  <2> DEFINE n == NextOutput(b, "CUSTOM", kind, <<>>)
  <2>1. /\ Sound(b) /\ ~Stream!MidToolCall(b.outputs)
        /\ kind \in Thread \ Channel
        /\ "CUSTOM" \in EventType
        /\ <<>> \in Text
    BY DEF BuilderInv, FlagsAgree, Thread, UsageKind, Channel, EventType, Text
  <2>2. \A m : Resting(m, kind) = {"NONE", "CUSTOM"}
    BY CallIdAssumption DEF Resting, UsageKind, Channel
  <2>3. Stream!StandsIn(b.outputs, kind, {"NONE", "CUSTOM"})
    BY <2>1, <2>2 DEF BuilderInv, FlagsAgree
  <2>4. Stream!Predecessors(NewOutput(b, "CUSTOM", kind, <<>>)) = {"NONE", "CUSTOM"}
    BY DEF Stream!Predecessors, NewOutput
  <2>5. /\ Sound(n)
        /\ Grows(b, n)
        /\ SameState(b, n)
        /\ Moves(b, n, kind, "CUSTOM")
        /\ ~Stream!MidToolCall(n.outputs)
    BY <2>1, <2>3, <2>4, EmitMoves
  <2>6. Usage(b, kind, empty) = n
    BY <1>2 DEF Usage
  <2> HIDE DEF n
  <2>7. "CUSTOM" \in Resting(n, kind)
    BY <2>2
  <2>8. BuilderInv(n)
    BY <2>1, <2>5, <2>7, OtherThreadInv DEF SameState
  <2>. QED
    BY <2>5, <2>6, <2>8 DEF SameState
<1>. QED
  BY <1>1, <1>2

(* One of the outputs of a tool call after another one.                    *)
LEMMA ToolEmit ==
  ASSUME NEW b, Sound(b), NEW id \in Thread, LastId(b) = id,
         NEW prev, Stream!Stands(b.outputs, id, prev),
         NEW type \in {"TOOL_ARGS", "TOOL_END", "TOOL_RESULT"},
         prev \in Stream!Predecessors(NewOutput(b, type, id, <<>>))
  PROVE  LET n == NextOutput(b, type, id, <<>>) IN
         /\ Sound(n) /\ Grows(b, n) /\ SameState(b, n)
         /\ Moves(b, n, id, type)
         /\ LastId(n) = id
         /\ Stream!MidToolCall(n.outputs) <=> type # "TOOL_RESULT"
<1>1. /\ type \in EventType /\ type \in Stream!ToolTypes
      /\ type # "CONTENT" /\ <<>> \in Text
  BY DEF EventType, Stream!ToolTypes, Text
<1>2. Stream!StandsIn(b.outputs, id, Stream!Predecessors(NewOutput(b, type, id, <<>>)))
  BY DEF Stream!StandsIn
<1>. QED
  BY <1>1, <1>2, EmitMoves

(* Builder.ToolCall: four outputs of one thread, back to back.             *)
LEMMA ToolCallInv ==
  ASSUME NEW b, BuilderInv(b), NEW named \in BOOLEAN,
         NEW call \in CallId \cup {NoId},
         call = NoId => b.toolSequence < Len(Generated)
  PROVE  LET n == ToolCall(b, named, call) IN
         BuilderInv(n) /\ Grows(b, n) /\ n.emitted = b.emitted
<1>1. CASE ~named
  <2>1. ToolCall(b, named, call) = b
    BY <1>1 DEF ToolCall
  <2>. QED
    BY <2>1, GrowsReflexive DEF BuilderInv
<1>2. CASE named
  <2> DEFINE counted == IF call = NoId THEN [b EXCEPT !.toolSequence = @ + 1] ELSE b
  <2> DEFINE id      == IF call = NoId THEN Generated[counted.toolSequence] ELSE call
  <2> DEFINE started == NextOutput(counted, "TOOL_START", id, <<>>)
  <2> DEFINE args    == NextOutput(started, "TOOL_ARGS", id, <<>>)
  <2> DEFINE ended   == NextOutput(args, "TOOL_END", id, <<>>)
  <2> DEFINE n       == NextOutput(ended, "TOOL_RESULT", id, <<>>)
  <2>1. ToolCall(b, named, call) = n
    BY <1>2 DEF ToolCall
  <2>2. Sound(b) /\ b \in Builder /\ b.toolSequence \in Nat
    BY DEF BuilderInv, Sound, Builder
  <2>3. /\ counted \in Builder
        /\ counted.outputs = b.outputs /\ counted.sequence = b.sequence
        /\ counted.text = b.text /\ counted.open = b.open
        /\ counted.reasoningPhaseOpen = b.reasoningPhaseOpen
        /\ counted.emitted = b.emitted
    BY <2>2 DEF Builder
  <2>4. id \in CallId
    <3>1. CASE call = NoId
      <4>1. counted.toolSequence = b.toolSequence + 1
        BY <2>2, <3>1 DEF Builder
      <4>2. Len(Generated) \in Nat
        BY GeneratedAssumption, LenProperties
      <4>3. counted.toolSequence \in 1..Len(Generated)
        BY <2>2, <3>1, <4>1, <4>2
      <4>. QED
        BY <3>1, <4>3, GeneratedAssumption, ElementOfSeq
    <3>2. CASE call # NoId
      BY <3>2
    <3>. QED
      BY <3>1, <3>2
  <2> HIDE DEF counted, id
  <2>5. /\ id \in Thread \ Channel
        /\ {"TOOL_START", "TOOL_ARGS", "TOOL_END", "TOOL_RESULT"} \subseteq EventType
        /\ {"TOOL_START", "TOOL_ARGS", "TOOL_END", "TOOL_RESULT"} = Stream!ToolTypes
        /\ <<>> \in Text
    BY <2>4, CallIdAssumption DEF Thread, EventType, Stream!ToolTypes, Text
  <2>6. \A m : Resting(m, id) = {"NONE", "TOOL_RESULT"}
    BY <2>4, <2>5, CallIdAssumption DEF Resting, Channel, UsageKind
  <2>7. /\ Sound(counted)
        /\ Grows(b, counted)
        /\ ~Stream!MidToolCall(counted.outputs)
        /\ Stream!StandsIn(counted.outputs, id, {"NONE", "TOOL_RESULT"})
        /\ \A i, u : Stream!Stands(counted.outputs, i, u) <=> Stream!Stands(b.outputs, i, u)
    <3>1. Stream!StandsIn(b.outputs, id, {"NONE", "TOOL_RESULT"}) /\ ~Stream!MidToolCall(b.outputs)
      BY <2>5, <2>6 DEF BuilderInv, FlagsAgree
    <3>. QED
      BY <2>2, <2>3, <3>1, FieldChange, GrowsReflexive
  <2>8. /\ Sound(started) /\ Grows(counted, started) /\ SameState(counted, started)
        /\ Moves(counted, started, id, "TOOL_START")
        /\ LastId(started) = id
    <3>1. Stream!Predecessors(NewOutput(counted, "TOOL_START", id, <<>>)) = {"NONE", "TOOL_RESULT"}
      BY DEF Stream!Predecessors, NewOutput
    <3>. QED
      BY <2>5, <2>7, <3>1, EmitMoves
  <2> HIDE DEF started
  <2>9. /\ Sound(args) /\ Grows(started, args) /\ SameState(started, args)
        /\ Moves(started, args, id, "TOOL_ARGS")
        /\ LastId(args) = id
    <3>1. "TOOL_START" \in Stream!Predecessors(NewOutput(started, "TOOL_ARGS", id, <<>>))
      BY DEF Stream!Predecessors, NewOutput
    <3>2. Stream!Stands(started.outputs, id, "TOOL_START")
      BY <2>8 DEF Moves
    <3>. QED
      BY <2>5, <2>8, <3>1, <3>2, ToolEmit
  <2> HIDE DEF args
  <2>10. /\ Sound(ended) /\ Grows(args, ended) /\ SameState(args, ended)
         /\ Moves(args, ended, id, "TOOL_END")
         /\ LastId(ended) = id
    <3>1. "TOOL_ARGS" \in Stream!Predecessors(NewOutput(args, "TOOL_END", id, <<>>))
      BY DEF Stream!Predecessors, NewOutput
    <3>2. Stream!Stands(args.outputs, id, "TOOL_ARGS")
      BY <2>9 DEF Moves
    <3>. QED
      BY <2>5, <2>9, <3>1, <3>2, ToolEmit
  <2> HIDE DEF ended
  <2>11. /\ Sound(n) /\ Grows(ended, n) /\ SameState(ended, n)
         /\ Moves(ended, n, id, "TOOL_RESULT")
         /\ ~Stream!MidToolCall(n.outputs)
    <3>1. "TOOL_END" \in Stream!Predecessors(NewOutput(ended, "TOOL_RESULT", id, <<>>))
      BY DEF Stream!Predecessors, NewOutput
    <3>2. Stream!Stands(ended.outputs, id, "TOOL_END")
      BY <2>10 DEF Moves
    <3>. QED
      BY <2>5, <2>10, <3>1, <3>2, ToolEmit
  <2> HIDE DEF n
  <2>12. Moves(b, n, id, "TOOL_RESULT")
    BY <2>7, <2>8, <2>9, <2>10, <2>11 DEF Moves
  <2>13. /\ n.text = b.text /\ n.open = b.open
         /\ n.reasoningPhaseOpen = b.reasoningPhaseOpen
         /\ n.emitted = b.emitted
    BY <2>3, <2>8, <2>9, <2>10, <2>11 DEF SameState
  <2>14. "TOOL_RESULT" \in Resting(n, id)
    BY <2>6
  <2>15. BuilderInv(n)
    BY <2>5, <2>11, <2>12, <2>13, <2>14, OtherThreadInv
  <2>16. Grows(b, n)
    BY <2>7, <2>8, <2>9, <2>10, <2>11, GrowsTransitive
  <2>. QED
    BY <2>1, <2>13, <2>15, <2>16
<1>. QED
  BY <1>1, <1>2

--------------------------------------------------------------------------------
(* The inductive invariant of the pipeline.                                *)
PipelineInv ==
  /\ BuilderInv(builder)
  /\ sent \in 0..builder.sequence
  /\ pc \in {"parse", "publish", "failed"}

LEMMA PipelineInit == Init => PipelineInv
<1> SUFFICES ASSUME Init PROVE PipelineInv
  OBVIOUS
<1>1. builder = NewBuilder /\ sent = 0 /\ pc = "parse"
  BY DEF Init
<1>2. <<>> \in Seq(Output) /\ <<>> \in Text /\ Len(<<>>) = 0
  BY DEF Text
<1>3. NewBuilder \in Builder
  BY <1>2 DEF NewBuilder, Builder
<1>4. NewBuilder.outputs = <<>> /\ NewBuilder.sequence = 0
      /\ NewBuilder.open = [c \in Channel |-> FALSE]
      /\ NewBuilder.reasoningPhaseOpen = FALSE
  BY DEF NewBuilder
<1>5. Sound(NewBuilder)
  BY <1>2, <1>3, <1>4 DEF Sound, Conversation
<1>6. FlagsAgree(NewBuilder)
  <2>1. \A id \in Thread : "NONE" \in Resting(NewBuilder, id)
    <3> SUFFICES ASSUME NEW id \in Thread PROVE "NONE" \in Resting(NewBuilder, id)
      OBVIOUS
    <3>1. CASE id \in Channel
      BY <1>4, <3>1, RestingChannel
    <3>2. CASE id \in CallId
      <4>1. id \notin Channel
        BY <3>2, CallIdAssumption
      <4>. QED
        BY <3>2, <4>1 DEF Resting, Channel
    <3>3. CASE id \in UsageKind
      <4>1. id \notin Channel /\ id \notin CallId
        BY <3>3, CallIdAssumption DEF Channel, UsageKind
      <4>. QED
        BY <3>3, <4>1 DEF Resting, Channel
    <3>. QED
      BY <3>1, <3>2, <3>3 DEF Thread
  <2>2. \A id \in Thread : Stream!Stands(NewBuilder.outputs, id, "NONE")
    BY <1>2, <1>4 DEF Stream!Stands
  <2>3. \A id \in Thread : Stream!StandsIn(NewBuilder.outputs, id, Resting(NewBuilder, id))
    BY <2>1, <2>2 DEF Stream!StandsIn
  <2>4. ~Stream!MidToolCall(NewBuilder.outputs)
    BY <1>2, <1>4 DEF Stream!MidToolCall
  <2>5. NewBuilder.reasoningPhaseOpen = NewBuilder.open["reasoning"]
    BY <1>4 DEF Channel
  <2>. QED
    BY <2>3, <2>4, <2>5 DEF FlagsAgree
<1>7. OpenTextPresent(NewBuilder)
  BY <1>4 DEF OpenTextPresent
<1>. QED
  BY <1>1, <1>4, <1>5, <1>6, <1>7 DEF PipelineInv, BuilderInv

(* The flags of the Finalizer: a result it has emitted ended a message of  *)
(* its channel.                                                            *)
EndInv(b) == \A c \in Channel : b.emitted[c] => Ended(b, c)

LEMMA EndInvKeeps ==
  ASSUME NEW b, EndInv(b), NEW n, Grows(b, n), n.emitted = b.emitted
  PROVE  EndInv(n)
BY EndedGrows DEF EndInv

LEMMA EmitResultEnds ==
  ASSUME NEW b, BuilderInv(b), EndInv(b), NEW c \in Channel, NEW t \in Text
  PROVE  EndInv(EmitResult(b, c, t))
<1> DEFINE r == Result(b, c, t)
<1> DEFINE n == [r EXCEPT !.emitted[c] = TRUE]
<1>1. /\ BuilderInv(r) /\ Grows(b, r) /\ r.emitted = b.emitted
      /\ r.sequence # b.sequence => Ended(r, c)
  BY ResultInv
<1>2. EmitResult(b, c, t) = IF b.emitted[c] \/ r.sequence = b.sequence THEN b ELSE n
  BY DEF EmitResult
<1> HIDE DEF r
<1>3. EndInv(r) /\ Grows(r, n)
  BY <1>1, EndInvKeeps, EmittedInv
<1>4. n.emitted = [r.emitted EXCEPT ![c] = TRUE] /\ r.emitted \in [Channel -> BOOLEAN]
  BY <1>1 DEF BuilderInv, Sound, Builder
<1> HIDE DEF n
<1>5. ASSUME r.sequence # b.sequence, NEW d \in Channel, n.emitted[d]
      PROVE  Ended(n, d)
  <2>1. Ended(r, d)
    BY <1>1, <1>3, <1>4, <1>5 DEF EndInv
  <2>. QED
    BY <1>3, <2>1, EndedGrows
<1>. QED
  BY <1>2, <1>5 DEF EndInv

(* What Finalize does for one channel: unless the channel's result was     *)
(* already emitted its message is closed, and the other channel is left    *)
(* alone.                                                                  *)
LEMMA EmitResultCloses ==
  ASSUME NEW b, BuilderInv(b), NEW c \in Channel
  PROVE  LET n == EmitResult(b, c, <<>>) IN
         /\ n.open[c] => b.emitted[c]
         /\ \A d \in Channel \ {c} : n.open[d] = b.open[d] /\ n.emitted[d] = b.emitted[d]
<1> DEFINE r == CloseTextIfOpen(b, c)
<1> DEFINE n == [r EXCEPT !.emitted[c] = TRUE]
<1>1. /\ BuilderInv(r)
      /\ r.open = [b.open EXCEPT ![c] = FALSE]
      /\ r.emitted = b.emitted
      /\ b.open[c] => r.sequence # b.sequence
  BY CloseInv
<1>2. Result(b, c, <<>>) = r
  BY DEF Result, CloseTextIfOpen, BuilderInv, OpenTextPresent
<1>3. EmitResult(b, c, <<>>) = IF b.emitted[c] \/ r.sequence = b.sequence THEN b ELSE n
  BY <1>2 DEF EmitResult
<1> HIDE DEF r
<1>4. /\ n.open = r.open
      /\ n.emitted = [r.emitted EXCEPT ![c] = TRUE]
      /\ b.open \in [Channel -> BOOLEAN] /\ r.emitted \in [Channel -> BOOLEAN]
  BY <1>1 DEF BuilderInv, Sound, Builder
<1> HIDE DEF n
<1>5. CASE b.emitted[c] \/ r.sequence = b.sequence
  BY <1>1, <1>3, <1>5
<1>6. CASE ~(b.emitted[c] \/ r.sequence = b.sequence)
  <2>1. EmitResult(b, c, <<>>) = n
    BY <1>3, <1>6
  <2>2. ~n.open[c] /\ \A d \in Channel \ {c} : n.open[d] = b.open[d] /\ n.emitted[d] = b.emitted[d]
    BY <1>1, <1>4
  <2>. QED
    BY <2>1, <2>2
<1>. QED
  BY <1>5, <1>6

LEMMA FinalizeEnds ==
  ASSUME NEW b, BuilderInv(b), EndInv(b)
  PROVE  /\ EndInv(Finalize(b))
         /\ \A c \in Channel : Finalize(b).open[c] => Ended(b, c)
<1> DEFINE m == EmitResult(b, "reasoning", <<>>)
<1> DEFINE n == EmitResult(m, "assistant", <<>>)
<1>1. Channel = {"assistant", "reasoning"} /\ <<>> \in Text
  BY DEF Channel, Text
<1>2. BuilderInv(m) /\ EndInv(m)
  BY <1>1, EmitResultInv, EmitResultEnds
<1>3. /\ m.open["reasoning"] => b.emitted["reasoning"]
      /\ m.emitted["assistant"] = b.emitted["assistant"]
  BY <1>1, EmitResultCloses
<1>4. Finalize(b) = n
  BY DEF Finalize
<1> HIDE DEF m
<1>5. EndInv(n)
  BY <1>1, <1>2, EmitResultEnds
<1>6. /\ n.open["assistant"] => m.emitted["assistant"]
      /\ n.open["reasoning"] = m.open["reasoning"]
  BY <1>1, <1>2, EmitResultCloses
<1> HIDE DEF n
<1>7. \A c \in Channel : n.open[c] => b.emitted[c]
  BY <1>1, <1>3, <1>6
<1>. QED
  BY <1>4, <1>5, <1>7 DEF EndInv

(* Every operation of the parser keeps the builder's invariant and only    *)
(* adds outputs.                                                           *)
LEMMA ParseSteps ==
  ASSUME PipelineInv,
         AppendStep \/ SyncStep \/ EmitStep \/ FinalizeStep \/ UsageStep \/ ToolCallStep
  PROVE  /\ BuilderInv(builder') /\ Grows(builder, builder')
         /\ sent' = sent /\ pc' = pc
<1>1. BuilderInv(builder)
  BY DEF PipelineInv
<1>2. \A t \in Chunk : t \in Text
  BY ChunkAssumption
<1>3. CASE AppendStep
  BY <1>1, <1>2, <1>3, AppendDeltaInv DEF AppendStep, Parse
<1>4. CASE SyncStep
  BY <1>1, <1>2, <1>4, SyncTextInv DEF SyncStep, Parse, Sync
<1>5. CASE EmitStep
  BY <1>1, <1>2, <1>5, EmitResultInv DEF EmitStep, Parse
<1>6. CASE FinalizeStep
  BY <1>1, <1>6, FinalizeInv DEF FinalizeStep, Parse
<1>7. CASE UsageStep
  BY <1>1, <1>7, UsageInv DEF UsageStep, Parse
<1>8. CASE ToolCallStep
  BY <1>1, <1>8, ToolCallInv DEF ToolCallStep, Parse
<1>. QED
  BY <1>3, <1>4, <1>5, <1>6, <1>7, <1>8

LEMMA PipelineNext == PipelineInv /\ [Next]_vars => PipelineInv'
<1> SUFFICES ASSUME PipelineInv, [Next]_vars PROVE PipelineInv'
  OBVIOUS
<1>1. /\ builder.sequence = Len(builder.outputs) /\ builder.sequence \in Nat
      /\ sent \in 0..builder.sequence
  BY DEF PipelineInv, BuilderInv, Sound, Builder
<1>2. CASE AppendStep \/ SyncStep \/ EmitStep \/ FinalizeStep \/ UsageStep \/ ToolCallStep
  <2>1. /\ BuilderInv(builder') /\ Grows(builder, builder')
        /\ sent' = sent /\ pc' = pc
    BY <1>2, ParseSteps
  <2>2. builder'.sequence \in Nat /\ builder.sequence <= builder'.sequence
    BY <1>1, <2>1 DEF Grows, BuilderInv, Sound, Builder
  <2>. QED
    BY <1>1, <2>1, <2>2 DEF PipelineInv
<1>3. CASE EndLine
  BY <1>3 DEF EndLine, PipelineInv
<1>4. CASE PublishOutput
  BY <1>1, <1>4 DEF PublishOutput, PipelineInv
<1>5. CASE PublishFail
  BY <1>1, <1>5 DEF PublishFail, PipelineInv
<1>6. CASE UNCHANGED vars
  BY <1>6 DEF vars, PipelineInv
<1>. QED
  BY <1>2, <1>3, <1>4, <1>5, <1>6 DEF Next

LEMMA PipelineInvariant == Spec => []PipelineInv
BY PipelineInit, PipelineNext, PTL DEF Spec

(* Every operation of the parser keeps the Finalizer's flags true.         *)
LEMMA EndNext ==
  ASSUME PipelineInv, EndInv(builder), [Next]_vars
  PROVE  EndInv(builder')
<1>1. BuilderInv(builder)
  BY DEF PipelineInv
<1>2. \A t \in Chunk : t \in Text
  BY ChunkAssumption
<1>3. CASE AppendStep
  BY <1>1, <1>2, <1>3, AppendDeltaInv, EndInvKeeps DEF AppendStep, Parse
<1>4. CASE SyncStep
  <2>1. PICK c \in Channel, t \in Chunk : builder' = SyncText(builder, c, t, FALSE)
    BY <1>4 DEF SyncStep, Parse, Sync
  <2>2. Grows(builder, builder') /\ builder'.emitted = builder.emitted
    BY <1>1, <1>2, <2>1, SyncTextInv
  <2>. QED
    BY <2>2, EndInvKeeps
<1>5. CASE EmitStep
  BY <1>1, <1>2, <1>5, EmitResultEnds DEF EmitStep, Parse
<1>6. CASE FinalizeStep
  BY <1>1, <1>6, FinalizeEnds DEF FinalizeStep, Parse
<1>7. CASE UsageStep
  BY <1>1, <1>7, UsageInv, EndInvKeeps DEF UsageStep, Parse
<1>8. CASE ToolCallStep
  BY <1>1, <1>8, ToolCallInv, EndInvKeeps DEF ToolCallStep, Parse
<1>9. CASE EndLine \/ PublishOutput \/ PublishFail \/ UNCHANGED vars
  BY <1>9 DEF EndLine, PublishOutput, PublishFail, vars
<1>. QED
  BY <1>3, <1>4, <1>5, <1>6, <1>7, <1>8, <1>9 DEF Next

LEMMA EndInvariant == Spec => [](PipelineInv /\ EndInv(builder))
<1>1. Init => EndInv(builder)
  BY DEF Init, NewBuilder, EndInv
<1>2. PipelineInv /\ EndInv(builder) /\ [Next]_vars => EndInv(builder)'
  BY EndNext
<1>. QED
  BY <1>1, <1>2, PipelineInvariant, PTL DEF Spec

(* The pipeline stays within its types.                                    *)
THEOREM TypeCorrect == Spec => []TypeOK
<1>1. PipelineInv => TypeOK
  BY DEF PipelineInv, TypeOK, BuilderInv, Sound, Builder
<1>. QED
  BY <1>1, PipelineInvariant, PTL

(* The builder's open flags always agree with the outputs it has emitted.  *)
THEOREM FlagsCorrect == Spec => []FlagsMatchOutputs
<1>1. PipelineInv => FlagsMatchOutputs
  BY DEF PipelineInv, BuilderInv, FlagsMatchOutputs
<1>. QED
  BY <1>1, PipelineInvariant, PTL

(* The end of an open message is never suppressed for want of text.        *)
THEOREM OpenHasTextCorrect == Spec => []OpenHasText
<1>1. PipelineInv => OpenHasText
  BY DEF PipelineInv, BuilderInv, OpenHasText
<1>. QED
  BY <1>1, PipelineInvariant, PTL

(* Finalize leaves a message of a channel open only if an earlier message  *)
(* of that channel was ended: the emitted flag that makes it return early  *)
(* is never set without an end, so no first message of a run stays open.   *)
THEOREM FinalizeClosesFirstCorrect == Spec => FinalizeClosesFirst
<1>1. ASSUME PipelineInv, EndInv(builder), FinalizeStep, NEW c \in Channel, builder'.open[c]
      PROVE  \E i \in 1..Len(builder.outputs) :
               builder.outputs[i].type = "END" /\ builder.outputs[i].id = c
  <2>1. builder' = Finalize(builder)
    BY <1>1 DEF FinalizeStep, Parse
  <2>2. Ended(builder, c)
    BY <1>1, <2>1, FinalizeEnds DEF PipelineInv
  <2>. QED
    BY <2>2 DEF Ended
<1>2. PipelineInv /\ EndInv(builder) =>
        (FinalizeStep => \A c \in Channel : builder'.open[c] =>
           \E i \in 1..Len(builder.outputs) :
             builder.outputs[i].type = "END" /\ builder.outputs[i].id = c)
  BY <1>1
<1>. QED
  BY <1>2, EndInvariant, PTL DEF FinalizeClosesFirst

--------------------------------------------------------------------------------
(* The accumulated text is a replay of the outputs *)

Replay(b) ==
  \A c \in Channel : \E k \in 0..Len(b.outputs) : ReplayedFrom(b, c, k)

(* What has been said before stays as it is.                               *)
LEMMA BetweenStays ==
  ASSUME NEW b, NEW n, Grows(b, n), NEW c, NEW k \in 0..Len(b.outputs),
         BetweenMessages(b.outputs, c, k)
  PROVE  BetweenMessages(n.outputs, c, k)
<1>1. Len(b.outputs) \in Nat /\ \A i \in 1..k : n.outputs[i] = b.outputs[i]
  BY DEF Grows
<1>2. ASSUME NEW i \in 1..k, n.outputs[i].id = c, \A j \in (i+1)..k : n.outputs[j].id # c
      PROVE  n.outputs[i].type \in {"END", "PHASE_END"}
  <2>1. \A j \in (i+1)..k : j \in 1..k /\ b.outputs[j].id # c
    BY <1>1, <1>2
  <2>2. b.outputs[i] = n.outputs[i] /\ b.outputs[i].id = c
    BY <1>1, <1>2
  <2>. QED
    BY <2>1, <2>2 DEF BetweenMessages
<1>. QED
  BY <1>2 DEF BetweenMessages

(* A closed channel has no message open.                                   *)
LEMMA BetweenClosed ==
  ASSUME NEW b, FlagInv(b), NEW c \in Channel, ~b.open[c]
  PROVE  BetweenMessages(b.outputs, c, Len(b.outputs))
<1>1. Len(b.outputs) \in Nat /\ c \in Thread
  BY Kinds, LenProperties DEF FlagInv, Sound, Builder
<1>2. \/ Stream!Stands(b.outputs, c, "NONE")
      \/ \E t \in {"END", "PHASE_END"} : Stream!Stands(b.outputs, c, t)
  BY <1>1, RestingChannel DEF FlagInv, FlagsAgree, Stream!StandsIn
<1>3. CASE Stream!Stands(b.outputs, c, "NONE")
  BY <1>3 DEF Stream!Stands, BetweenMessages
<1>4. ASSUME NEW t \in {"END", "PHASE_END"}, Stream!Stands(b.outputs, c, t)
      PROVE  BetweenMessages(b.outputs, c, Len(b.outputs))
  <2>1. PICK m \in 1..Len(b.outputs) :
          /\ b.outputs[m].id = c /\ b.outputs[m].type = t
          /\ \A j \in (m+1)..Len(b.outputs) : b.outputs[j].id # c
    BY <1>4 DEF Stream!Stands
  <2>2. ASSUME NEW i \in 1..Len(b.outputs), b.outputs[i].id = c,
               \A j \in (i+1)..Len(b.outputs) : b.outputs[j].id # c
        PROVE  i = m
    BY <1>1, <2>1, <2>2
  <2>. QED
    BY <2>1, <2>2 DEF BetweenMessages
<1>. QED
  BY <1>2, <1>3, <1>4

(* Whoever can replay a text can replay what is added to it ...            *)
LEMMA ReplayedAfterAdds ==
  ASSUME NEW b, NEW n, NEW c \in Channel, NEW k \in 0..Len(b.outputs), ReplayedFrom(b, c, k),
         Grows(b, n),
         NEW u \in Text, NEW i \in {0, 1}, Adds(b.outputs, n.outputs, c, u, i),
         n.text[c] = b.text[c] \o u,
         i = 1 \/ b.open[c] \/ ~n.open[c]
  PROVE  k \in 0..Len(n.outputs) /\ ReplayedFrom(n, c, k)
<1>1. /\ b.outputs \in Seq(Output) /\ n.outputs \in Seq(Output) /\ c \in Thread
      /\ Len(b.outputs) \in Nat /\ Len(n.outputs) \in Nat /\ Len(b.outputs) <= Len(n.outputs)
  BY Kinds, LenProperties DEF Adds
<1> DEFINE x == Since(b.outputs, k)
<1> DEFINE y == Since(n.outputs, k)
<1>2. x[c].started \in Nat
  BY <1>1, SinceProperties, DisplayFields
<1>3. y[c].all = x[c].all \o u /\ y[c].started = x[c].started + i
  BY DEF Adds, Gains
<1>4. b.text[c] = x[c].all /\ (b.open[c] => x[c].started > 0)
  BY DEF ReplayedFrom
<1>. HIDE DEF x, y
<1>5. n.text[c] = y[c].all /\ (n.open[c] => y[c].started > 0)
  BY <1>2, <1>3, <1>4
<1>6. BetweenMessages(n.outputs, c, k)
  BY BetweenStays DEF ReplayedFrom
<1>. QED
  BY <1>1, <1>5, <1>6 DEF ReplayedFrom, y

(* ... and is not disturbed by other threads.                              *)
LEMMA ReplayedBesideAdds ==
  ASSUME NEW b, NEW n, NEW c \in Channel, NEW k \in 0..Len(b.outputs), ReplayedFrom(b, c, k),
         Grows(b, n),
         NEW d \in Thread \ {c}, NEW u, NEW i, Adds(b.outputs, n.outputs, d, u, i),
         n.text[c] = b.text[c], n.open[c] = b.open[c]
  PROVE  k \in 0..Len(n.outputs) /\ ReplayedFrom(n, c, k)
<1>1. /\ b.outputs \in Seq(Output) /\ n.outputs \in Seq(Output) /\ c \in Thread
      /\ Len(b.outputs) \in Nat /\ Len(n.outputs) \in Nat /\ Len(b.outputs) <= Len(n.outputs)
  BY Kinds, LenProperties DEF Adds
<1>2. Since(n.outputs, k)[c] = Since(b.outputs, k)[c]
  BY <1>1 DEF Adds, Gains
<1>3. BetweenMessages(n.outputs, c, k)
  BY BetweenStays DEF ReplayedFrom
<1>. QED
  BY <1>1, <1>2, <1>3 DEF ReplayedFrom

(* An operation on channel c that only adds to it.                         *)
LEMMA ReplayAdds ==
  ASSUME NEW b, Replay(b), NEW n, Grows(b, n), NEW c \in Channel,
         NEW u \in Text, NEW i \in {0, 1}, Adds(b.outputs, n.outputs, c, u, i),
         n.text[c] = b.text[c] \o u,
         i = 1 \/ b.open[c] \/ ~n.open[c],
         \A d \in Channel \ {c} : n.text[d] = b.text[d] /\ n.open[d] = b.open[d]
  PROVE  Replay(n)
<1> SUFFICES ASSUME NEW d \in Channel
             PROVE  \E k \in 0..Len(n.outputs) : ReplayedFrom(n, d, k)
  BY DEF Replay
<1>1. PICK k \in 0..Len(b.outputs) : ReplayedFrom(b, d, k)
  BY DEF Replay
<1>2. c \in Thread
  BY Kinds
<1>3. CASE d = c
  <2>1. ReplayedFrom(b, c, k)
    BY <1>1, <1>3
  <2>2. k \in 0..Len(n.outputs) /\ ReplayedFrom(n, c, k)
    BY <2>1, ReplayedAfterAdds
  <2>. QED
    BY <1>3, <2>2
<1>4. CASE d # c
  BY <1>1, <1>2, <1>4, ReplayedBesideAdds
<1>. QED
  BY <1>3, <1>4

(* An operation on a thread that is no channel.                            *)
LEMMA ReplayBeside ==
  ASSUME NEW b, Replay(b), NEW n, Grows(b, n), NEW id \in Thread \ Channel, Adds(b.outputs, n.outputs, id, <<>>, 0),
         n.text = b.text, n.open = b.open
  PROVE  Replay(n)
<1> SUFFICES ASSUME NEW d \in Channel
             PROVE  \E k \in 0..Len(n.outputs) : ReplayedFrom(n, d, k)
  BY DEF Replay
<1>1. PICK k \in 0..Len(b.outputs) : ReplayedFrom(b, d, k)
  BY DEF Replay
<1>. QED
  BY <1>1, ReplayedBesideAdds

(* What holds between two operations is what the effects assume.           *)
LEMMA InvReady ==
  ASSUME NEW b, BuilderInv(b)
  PROVE  Ready(b)
BY DEF BuilderInv, Sound, OpenTextPresent, Ready

LEMMA ReplayAppendDelta ==
  ASSUME NEW b, BuilderInv(b), Replay(b), NEW c \in Channel, NEW t \in Text
  PROVE  Replay(AppendDelta(b, c, t))
<1> DEFINE n == AppendDelta(b, c, t)
<1>1. /\ n.text[c] = b.text[c] \o t
      /\ \A d \in Channel \ {c} : n.text[d] = b.text[d] /\ n.open[d] = b.open[d]
      /\ t = <<>> => n = b
      /\ t # <<>> => /\ b.open[c] => Adds(b.outputs, n.outputs, c, t, 0)
                     /\ ~b.open[c] => Adds(b.outputs, n.outputs, c, t, 1)
      /\ Grows(b, n)
  BY InvReady, AppendDeltaEffect, AppendDeltaInv
<1>. HIDE DEF n
<1>2. CASE t # <<>> /\ b.open[c]
  BY <1>1, <1>2, ReplayAdds DEF n
<1>3. CASE t # <<>> /\ ~b.open[c]
  BY <1>1, <1>3, ReplayAdds DEF n
<1>. QED
  BY <1>1, <1>2, <1>3 DEF n

(* A text that replaces another one is begun anew after the end of the     *)
(* message that told the other.                                            *)
LEMMA SyncPlace ==
  ASSUME NEW b, BuilderInv(b), NEW c \in Channel, NEW t \in Text,
         t # <<>>, t # b.text[c], ~IsPrefix(b.text[c], t)
  PROVE  LET n == Sync(b, c, t) IN
         \E k \in 0..Len(n.outputs) :
           /\ BetweenMessages(n.outputs, c, k)
           /\ Since(n.outputs, k)[c].all = t
           /\ Since(n.outputs, k)[c].started = 1
<1> DEFINE assigned == [b EXCEPT !.text[c] = t]
<1> DEFINE closed == CloseTextIfOpen(assigned, c)
<1> DEFINE n == AppendText(closed, c, t)
<1> DEFINE k == Len(closed.outputs)
<1>1. Sync(b, c, t) = n
  BY DEF Sync, SyncText
<1>2. FlagInv(assigned)
  BY AssignKeeps DEF BuilderInv, FlagInv
<1>. HIDE DEF assigned
<1>3. FlagInv(closed) /\ closed.open = [assigned.open EXCEPT ![c] = FALSE]
  BY <1>2, CloseKeeps
<1>4. assigned.open \in [Channel -> BOOLEAN]
  BY <1>2 DEF FlagInv, Sound, Builder
<1>. HIDE DEF closed
<1>5. /\ closed \in Builder /\ ~closed.open[c]
      /\ closed.outputs \in Seq(Output) /\ k \in Nat
  BY <1>3, <1>4, LenProperties DEF FlagInv, Sound, Builder
<1>6. Grows(closed, n) /\ Adds(closed.outputs, n.outputs, c, t, 1)
  BY <1>3, <1>5, AppendTextKeeps, AppendTextEffect
<1>. HIDE DEF n
<1>7. k \in 0..k /\ k \in 0..Len(n.outputs)
  BY <1>5, <1>6 DEF Grows
<1>8. BetweenMessages(n.outputs, c, k)
  BY <1>3, <1>5, <1>6, <1>7, BetweenClosed, BetweenStays
<1>9. Since(closed.outputs, k) = EmptyDisplay
  BY <1>5, SinceProperties
<1>10. c \in Thread
  BY Kinds
<1>11. EmptyDisplay[c].all = <<>> /\ EmptyDisplay[c].started = 0
  BY <1>10 DEF EmptyDisplay
<1>12. Since(n.outputs, k)[c].all = <<>> \o t /\ Since(n.outputs, k)[c].started = 0 + 1
  BY <1>6, <1>7, <1>9, <1>11 DEF Adds, Gains
<1>13. <<>> \o t = t
  BY TextConcat
<1>. QED
  BY <1>1, <1>7, <1>8, <1>12, <1>13

(* A text that replaces another one is told from its own start on.         *)
LEMMA ReplaySync ==
  ASSUME NEW b, BuilderInv(b), Replay(b), NEW c \in Channel, NEW t \in Text
  PROVE  Replay(Sync(b, c, t))
<1> DEFINE n == Sync(b, c, t)
<1>1. Syncs(b, n, c, t)
  BY InvReady, SyncEffect
<1>0. Grows(b, n)
  BY SyncTextInv DEF Sync
<1>5. t # <<>> /\ t # b.text[c] /\ ~IsPrefix(b.text[c], t) =>
        \E k \in 0..Len(n.outputs) :
           /\ BetweenMessages(n.outputs, c, k)
           /\ Since(n.outputs, k)[c].all = t
           /\ Since(n.outputs, k)[c].started = 1
  BY SyncPlace
<1>. HIDE DEF n
<1>2. CASE t = <<>> \/ t = b.text[c]
  BY <1>1, <1>2 DEF n, Syncs
<1>3. CASE t # <<>> /\ t # b.text[c] /\ IsPrefix(b.text[c], t)
  <2>1. PICK u \in Text : /\ b.text[c] \o u = t
                          /\ b.open[c] => Adds(b.outputs, n.outputs, c, u, 0)
                          /\ ~b.open[c] => Adds(b.outputs, n.outputs, c, u, 1)
    BY <1>1, <1>3 DEF Syncs
  <2>2. /\ n.text[c] = b.text[c] \o u
        /\ \A d \in Channel \ {c} : n.text[d] = b.text[d] /\ n.open[d] = b.open[d]
    BY <1>1, <1>3, <2>1 DEF Syncs
  <2>3. Replay(n)
    <3>1. CASE b.open[c]
      BY <1>0, <2>1, <2>2, <3>1, ReplayAdds
    <3>2. CASE ~b.open[c]
      BY <1>0, <2>1, <2>2, <3>2, ReplayAdds
    <3>. QED
      BY <3>1, <3>2
  <2>. QED
    BY <2>3 DEF n
<1>4. CASE t # <<>> /\ t # b.text[c] /\ ~IsPrefix(b.text[c], t)
  <2>1. PICK k \in 0..Len(n.outputs) :
               /\ BetweenMessages(n.outputs, c, k)
               /\ Since(n.outputs, k)[c].all = t /\ Since(n.outputs, k)[c].started = 1
    BY <1>4, <1>5
  <2>2. ReplayedFrom(n, c, k)
    BY <1>1, <1>4, <2>1 DEF ReplayedFrom, Syncs
  <2>3. ASSUME NEW d \in Channel \ {c}
        PROVE  \E j \in 0..Len(n.outputs) : ReplayedFrom(n, d, j)
    <3>1. PICK j \in 0..Len(b.outputs) : ReplayedFrom(b, d, j)
      BY DEF Replay
    <3>2. c \in Thread \ {d}
      BY Kinds
    <3>. QED
      BY <1>0, <1>1, <1>4, <3>1, <3>2, ReplayedBesideAdds DEF Syncs
  <2>4. Replay(n)
    BY <2>2, <2>3 DEF Replay
  <2>. QED
    BY <2>4 DEF n
<1>. QED
  BY <1>2, <1>3, <1>4

(* Closing a channel says nothing more.                                    *)
LEMMA ReplayClose ==
  ASSUME NEW b, BuilderInv(b), Replay(b), NEW c \in Channel
  PROVE  Replay(CloseTextIfOpen(b, c))
<1> DEFINE n == CloseTextIfOpen(b, c)
<1>1. /\ n.text = b.text
      /\ ~n.open[c] /\ \A d \in Channel \ {c} : n.open[d] = b.open[d]
      /\ Adds(b.outputs, n.outputs, c, <<>>, 0)
  BY InvReady, CloseReady
<1>2. Grows(b, n)
  BY CloseInv
<1>3. <<>> \in Text /\ n.text[c] = b.text[c] \o <<>>
  BY <1>1, InvReady, ReadyFields, TextConcat
<1>. HIDE DEF n
<1>4. Replay(n)
  BY <1>1, <1>2, <1>3, ReplayAdds
<1>. QED
  BY <1>4 DEF n

LEMMA ReplayEmitResult ==
  ASSUME NEW b, BuilderInv(b), Replay(b), NEW c \in Channel, NEW t \in Text
  PROVE  BuilderInv(EmitResult(b, c, t)) /\ Replay(EmitResult(b, c, t))
<1> DEFINE s == Sync(b, c, t)
<1> DEFINE r == Result(b, c, t)
<1>1. BuilderInv(s) /\ Replay(s)
  BY SyncTextInv, ReplaySync DEF Sync
<1>2. r = b \/ r = CloseTextIfOpen(b, c) \/ r = CloseTextIfOpen(s, c)
  BY DEF Result, Sync, SyncText
<1>. HIDE DEF s, r
<1>3. Replay(r)
  BY <1>1, <1>2, ReplayClose
<1> DEFINE n == [r EXCEPT !.emitted[c] = TRUE]
<1>4. EmitResult(b, c, t) = b \/ EmitResult(b, c, t) = n
  BY DEF EmitResult, r
<1>5. r \in Builder
  BY ResultInv DEF r, BuilderInv, Sound
<1>6. n.outputs = r.outputs /\ n.text = r.text /\ n.open = r.open
  BY <1>5 DEF Builder
<1>. HIDE DEF n
<1>7. Replay(n)
  BY <1>3, <1>6 DEF Replay, ReplayedFrom
<1>. QED
  BY <1>4, <1>7, EmitResultInv

LEMMA ReplayNext ==
  ASSUME PipelineInv, Replay(builder), [Next]_vars
  PROVE  Replay(builder')
<1>1. BuilderInv(builder) /\ Ready(builder) /\ \A t \in Chunk : t \in Text
  BY ChunkAssumption, InvReady DEF PipelineInv
<1>2. CASE AppendStep
  BY <1>1, <1>2, ReplayAppendDelta DEF AppendStep, Parse
<1>3. CASE SyncStep
  BY <1>1, <1>3, ReplaySync DEF SyncStep, Parse
<1>4. CASE EmitStep
  BY <1>1, <1>4, ReplayEmitResult DEF EmitStep, Parse
<1>5. CASE FinalizeStep
  BY <1>1, <1>5, ReplayEmitResult, Kinds DEF FinalizeStep, Parse, Finalize
<1>6. CASE UsageStep
  <2>1. PICK kind \in UsageKind, empty \in BOOLEAN : builder' = Usage(builder, kind, empty)
    BY <1>6 DEF UsageStep, Parse
  <2>2. kind \in Thread \ Channel
    BY Kinds
  <2>. QED
    BY <1>1, <2>1, <2>2, UsageEffect, UsageInv, ReplayBeside
<1>7. CASE ToolCallStep
  <2>1. PICK named \in BOOLEAN, call \in CallId \cup {NoId} :
               /\ call = NoId => builder.toolSequence < Len(Generated)
               /\ builder' = ToolCall(builder, named, call)
    BY <1>7 DEF ToolCallStep, Parse
  <2>2. /\ builder'.text = builder.text /\ builder'.open = builder.open
        /\ \E id \in CallId : Adds(builder.outputs, builder'.outputs, id, <<>>, 0)
        /\ Grows(builder, builder')
    BY <1>1, <2>1, ToolCallEffect, ToolCallInv
  <2>3. \A id \in CallId : id \in Thread \ Channel
    BY Kinds
  <2>. QED
    BY <1>1, <2>2, <2>3, ReplayBeside
<1>8. CASE EndLine \/ PublishOutput \/ PublishFail \/ UNCHANGED vars
  BY <1>8 DEF EndLine, PublishOutput, PublishFail, vars
<1>. QED
  BY <1>2, <1>3, <1>4, <1>5, <1>6, <1>7, <1>8 DEF Next

(* For each accumulated text there always is a place between two messages  *)
(* from which the deltas add up to it, whichever operations the parser     *)
(* calls: a text that is replaced is begun anew.                           *)
THEOREM AccumulatorIsReplayCorrect == Spec => []AccumulatorIsReplay
<1>1. Init => Replay(builder)
  <2> SUFFICES ASSUME Init, NEW c \in Channel
               PROVE  \E k \in 0..Len(builder.outputs) : ReplayedFrom(builder, c, k)
    BY DEF Replay
  <2>1. builder.outputs = <<>> /\ builder.text[c] = <<>> /\ ~builder.open[c]
    BY DEF Init, NewBuilder
  <2>2. <<>> \in Seq(Output) /\ Len(<<>>) = 0 /\ c \in Thread
    BY Kinds
  <2>5. Since(<<>>, 0) = EmptyDisplay
    BY <2>2, SinceProperties, DisplayedAppend
  <2>3. Since(<<>>, 0)[c].all = <<>>
    BY <2>2, <2>5 DEF EmptyDisplay
  <2>4. ReplayedFrom(builder, c, 0)
    BY <2>1, <2>3 DEF ReplayedFrom, BetweenMessages
  <2>. QED
    BY <2>1, <2>2, <2>4
<1>2. PipelineInv /\ Replay(builder) /\ [Next]_vars => Replay(builder)'
  BY ReplayNext
<1>3. Replay(builder) => AccumulatorIsReplay
  BY DEF Replay, AccumulatorIsReplay
<1>. QED
  BY <1>1, <1>2, <1>3, PipelineInvariant, PTL DEF Spec

--------------------------------------------------------------------------------
(* The published prefix implements the abstract stream.                    *)

(* A prefix that both sequences share.                                     *)
LEMMA SamePrefix ==
  ASSUME NEW s \in Seq(Output), NEW u \in Seq(Output),
         NEW m \in 0..Len(s), m <= Len(u),
         \A i \in 1..m : u[i] = s[i]
  PROVE  SubSeq(u, 1, m) = SubSeq(s, 1, m)
<1>1. Len(s) \in Nat /\ Len(u) \in Nat /\ m \in Int
  BY LenProperties
<1>2. \A i \in 1..m : s[i] \in Output /\ u[i] \in Output
  BY <1>1, ElementOfSeq
<1>3. /\ SubSeq(s, 1, m) \in Seq(Output)
      /\ Len(SubSeq(s, 1, m)) = IF 1 <= m THEN m - 1 + 1 ELSE 0
      /\ \A i \in 1..(m - 1 + 1) : SubSeq(s, 1, m)[i] = s[1 + i - 1]
  BY <1>1, <1>2, SubSeqProperties
<1>4. /\ SubSeq(u, 1, m) \in Seq(Output)
      /\ Len(SubSeq(u, 1, m)) = IF 1 <= m THEN m - 1 + 1 ELSE 0
      /\ \A i \in 1..(m - 1 + 1) : SubSeq(u, 1, m)[i] = u[1 + i - 1]
  BY <1>1, <1>2, SubSeqProperties
<1>5. \A i \in 1..Len(SubSeq(u, 1, m)) : SubSeq(u, 1, m)[i] = SubSeq(s, 1, m)[i]
  BY <1>1, <1>3, <1>4
<1>. QED
  BY <1>3, <1>4, <1>5, SeqEqual

(* One element more.                                                       *)
LEMMA LongerPrefix ==
  ASSUME NEW s \in Seq(Output), NEW m \in 0..Len(s), m < Len(s)
  PROVE  /\ SubSeq(s, 1, m + 1) = Append(SubSeq(s, 1, m), s[m + 1])
         /\ Len(SubSeq(s, 1, m)) = m
         /\ Len(SubSeq(s, 1, m + 1)) = m + 1
         /\ SubSeq(s, 1, m + 1)[m + 1] = s[m + 1]
<1>1. Len(s) \in Nat /\ m \in Nat /\ m + 1 \in Int
  BY LenProperties
<1>2. \A i \in 1..(m + 1) : s[i] \in Output
  BY <1>1, ElementOfSeq
<1>3. /\ SubSeq(s, 1, m) \in Seq(Output)
      /\ Len(SubSeq(s, 1, m)) = IF 1 <= m THEN m - 1 + 1 ELSE 0
      /\ \A i \in 1..(m - 1 + 1) : SubSeq(s, 1, m)[i] = s[1 + i - 1]
  BY <1>1, <1>2, SubSeqProperties
<1>4. /\ SubSeq(s, 1, m + 1) \in Seq(Output)
      /\ Len(SubSeq(s, 1, m + 1)) = IF 1 <= m + 1 THEN m + 1 - 1 + 1 ELSE 0
      /\ \A i \in 1..(m + 1 - 1 + 1) : SubSeq(s, 1, m + 1)[i] = s[1 + i - 1]
  BY <1>1, <1>2, SubSeqProperties
<1>5. Len(SubSeq(s, 1, m)) = m /\ Len(SubSeq(s, 1, m + 1)) = m + 1
  BY <1>1, <1>3, <1>4
<1> DEFINE a == Append(SubSeq(s, 1, m), s[m + 1])
<1>6. /\ a \in Seq(Output)
      /\ Len(a) = m + 1
      /\ a[m + 1] = s[m + 1]
      /\ \A i \in 1..m : a[i] = SubSeq(s, 1, m)[i]
  BY <1>1, <1>2, <1>3, <1>5, AppendProperties
<1>7. \A i \in 1..(m + 1) : SubSeq(s, 1, m + 1)[i] = s[i]
  BY <1>1, <1>4
<1>8. \A i \in 1..m : SubSeq(s, 1, m)[i] = s[i]
  BY <1>1, <1>3
<1>9. \A i \in 1..Len(a) : a[i] = SubSeq(s, 1, m + 1)[i]
  BY <1>1, <1>6, <1>7, <1>8
<1> HIDE DEF a
<1>10. a = SubSeq(s, 1, m + 1)
  BY <1>4, <1>5, <1>6, <1>9, SeqEqual
<1>11. m + 1 \in 1..(m + 1)
  BY <1>1
<1>. QED
  BY <1>5, <1>7, <1>10, <1>11 DEF a

(* Publishing the next output is a step of the abstract stream.            *)
LEMMA PublishReceives ==
  ASSUME PipelineInv, sent < builder.sequence, sent' = sent + 1,
         builder' = builder
  PROVE  Stream!Next
<1> DEFINE o == builder.outputs
<1>1. /\ o \in Seq(Output) /\ Conversation(o)
      /\ builder.sequence = Len(o) /\ Len(o) \in Nat
      /\ sent \in 0..Len(o) /\ sent < Len(o)
  BY DEF PipelineInv, BuilderInv, Sound, Builder
<1>2. /\ SubSeq(o, 1, sent + 1) = Append(SubSeq(o, 1, sent), o[sent + 1])
      /\ Len(SubSeq(o, 1, sent)) = sent
      /\ Len(SubSeq(o, 1, sent + 1)) = sent + 1
      /\ SubSeq(o, 1, sent + 1)[sent + 1] = o[sent + 1]
  BY <1>1, LongerPrefix
<1>3. Stream!Acceptable(SubSeq(o, 1, sent), o[sent + 1])
  <2>1. sent + 1 \in 1..Len(o) /\ (sent + 1) - 1 = sent
    BY <1>1
  <2>2. Stream!Acceptable(SubSeq(o, 1, (sent + 1) - 1), o[sent + 1])
    BY <1>1, <2>1 DEF Conversation
  <2>. QED
    BY <2>1, <2>2
<1>4. Published = SubSeq(o, 1, sent) /\ Published' = SubSeq(o, 1, sent + 1)
  BY DEF Published
<1> HIDE DEF o
<1>. QED
  BY <1>2, <1>3, <1>4 DEF Stream!Next, Stream!Receive

LEMMA StepRefines ==
  PipelineInv /\ [Next]_vars => [Stream!Next]_Published
<1> SUFFICES ASSUME PipelineInv, [Next]_vars PROVE [Stream!Next]_Published
  OBVIOUS
<1>1. CASE AppendStep \/ SyncStep \/ EmitStep \/ FinalizeStep \/ UsageStep \/ ToolCallStep
  <2>1. /\ BuilderInv(builder') /\ Grows(builder, builder') /\ sent' = sent
    BY <1>1, ParseSteps
  <2>2. /\ builder.outputs \in Seq(Output) /\ builder'.outputs \in Seq(Output)
        /\ sent \in 0..Len(builder.outputs)
    BY <2>1 DEF PipelineInv, BuilderInv, Sound, Builder
  <2>3. /\ sent <= Len(builder'.outputs)
        /\ \A i \in 1..sent : builder'.outputs[i] = builder.outputs[i]
    BY <2>1, <2>2 DEF Grows
  <2>4. Published' = Published
    BY <2>1, <2>2, <2>3, SamePrefix DEF Published
  <2>. QED
    BY <2>4
<1>2. CASE EndLine
  BY <1>2 DEF EndLine, Published
<1>3. CASE PublishOutput
  BY <1>3, PublishReceives DEF PublishOutput
<1>4. CASE PublishFail
  <2>1. CASE sent' = sent
    BY <1>4, <2>1 DEF PublishFail, Published
  <2>2. CASE sent' = sent + 1
    BY <1>4, <2>2, PublishReceives DEF PublishFail
  <2>. QED
    BY <1>4, <2>1, <2>2 DEF PublishFail
<1>5. CASE UNCHANGED vars
  BY <1>5 DEF vars, Published
<1>. QED
  BY <1>1, <1>2, <1>3, <1>4, <1>5 DEF Next

(* Subscribers receive a well formed conversation whatever the parser      *)
(* does: the pipeline implements EventStream.                              *)
THEOREM ConversationCorrect == Spec => WellFormedConversation
<1>1. Init => Stream!Init
  <2>1. SubSeq(<<>>, 1, 0) = <<>>
    BY SubSeqEmpty
  <2>. QED
    BY <2>1 DEF Init, NewBuilder, Published, Stream!Init
<1>. QED
  BY <1>1, PipelineInvariant, StepRefines, PTL DEF Spec, WellFormedConversation, Stream!Spec
================================================================================
