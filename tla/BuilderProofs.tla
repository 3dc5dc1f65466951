----------------------------- MODULE BuilderProofs -----------------------------
(***************************************************************************)
(* Lemmas about the operations of OutputBuilder: what they do to the texts *)
(* and flags of a builder, and what a subscriber then shows.               *)
(***************************************************************************)
EXTENDS Subscriber, Recursion, SequenceTheorems

--------------------------------------------------------------------------------
(* What is displayed *)

LEMMA FrontProperties ==
  ASSUME NEW S, NEW s \in Seq(S), s # <<>>
  PROVE  Front(s) \in Seq(S) /\ Last(s) \in S /\ Len(Front(s)) < Len(s)
<1>1. Len(s) \in Nat /\ Len(s) # 0
  BY LenProperties, EmptySeq
<1>2. \A i \in 1..(Len(s) - 1) : s[i] \in S
  BY <1>1, ElementOfSeq
<1>3. Front(s) \in Seq(S) /\ Len(Front(s)) = IF 1 <= Len(s) - 1 THEN Len(s) - 1 ELSE 0
  BY <1>1, <1>2, SubSeqProperties DEF Front
<1>. QED
  BY <1>1, <1>3, ElementOfSeq DEF Last

LEMMA FrontOfAppend ==
  ASSUME NEW S, NEW s \in Seq(S), NEW e \in S
  PROVE  /\ Append(s, e) # <<>>
         /\ Front(Append(s, e)) = s
         /\ Last(Append(s, e)) = e
<1>1. /\ Append(s, e) \in Seq(S) /\ Len(Append(s, e)) = Len(s) + 1
      /\ Len(s) \in Nat /\ Len(<<>>) = 0
      /\ Append(s, e)[Len(s) + 1] = e
      /\ \A i \in 1..Len(s) : Append(s, e)[i] = s[i]
  BY AppendProperties, LenProperties
<1>2. Front(Append(s, e)) \in Seq(S) /\ Len(Front(Append(s, e))) = Len(s)
      /\ \A i \in 1..Len(s) : Front(Append(s, e))[i] = s[i]
  <2>1. \A i \in 1..Len(s) : Append(s, e)[i] \in S
    BY <1>1, ElementOfSeq
  <2>. QED
    BY <1>1, <2>1, SubSeqProperties DEF Front
<1>. QED
  BY <1>1, <1>2, SeqEqual DEF Last

LEMMA ShowIsDisplay ==
  ASSUME NEW d \in Display, NEW o \in Output
  PROVE  Show(d, o) \in Display
<1>1. o.id \in Thread /\ o.delta \in Text
  BY DEF Output
<1> DEFINE old == d[o.id]
<1> DEFINE start == o.type = "START"
<1>2. /\ old.received \in Nat /\ old.started \in Nat
      /\ old.all \in Text /\ old.last \in Text
  BY <1>1 DEF Display
<1>3. old.all \o o.delta \in Text /\ old.last \o o.delta \in Text
  BY <1>1, <1>2, ConcatProperties DEF Text
<1>4. [received |-> old.received + 1,
       started  |-> old.started + IF start THEN 1 ELSE 0,
       all      |-> old.all \o o.delta,
       last     |-> IF start THEN o.delta ELSE old.last \o o.delta]
         \in [received : Nat, started : Nat, all : Text, last : Text]
  BY <1>1, <1>2, <1>3
<1>. QED
  BY <1>1, <1>4 DEF Show, Display

(* The recursive definition defines a function: a display for every        *)
(* sequence of outputs.                                                    *)
LEMMA DisplayedDefined ==
  /\ Displayed \in [Seq(Output) -> Display]
  /\ \A s \in Seq(Output) :
       Displayed[s] = IF s = <<>> THEN EmptyDisplay ELSE Show(Displayed[Front(s)], Last(s))
<1> DEFINE D == Seq(Output)
<1> DEFINE size == [s \in D |-> Len(s)]
<1> DEFINE stop == {<<>>}
<1> DEFINE base == [s \in stop |-> EmptyDisplay]
<1> DEFINE step == [s \in D |-> [d \in Display |-> Show(d, Last(s))]]
<1> DEFINE next == [s \in D |-> Front(s)]
<1>1. size \in [D -> Nat]
  BY LenProperties
<1>2. EmptyDisplay \in Display /\ \A s \in stop : base[s] \in Display
  BY EmptySeq DEF EmptyDisplay, Display, Text
<1>3. \A s \in D \ stop : next[s] \in D /\ size[next[s]] < size[s]
  BY FrontProperties
<1>4. ASSUME NEW s \in D \ stop, NEW d \in Display PROVE step[s][d] \in Display
  BY FrontProperties, ShowIsDisplay
<1>5. Display # {}
  BY <1>2
<1>6. PICK f \in [D -> Display] : Recurs(f, D, stop, base, step, next)
  <2>. HIDE DEF D, size, stop, base, step, next
  <2>. QED
    BY <1>1, <1>2, <1>3, <1>4, <1>5, RecursionExists
<1> DEFINE Body(g) == [s \in Seq(Output) |->
                        IF s = <<>> THEN EmptyDisplay ELSE Show(g[Front(s)], Last(s))]
<1>7. ASSUME NEW s \in D
      PROVE  f[s] = IF s = <<>> THEN EmptyDisplay ELSE Show(f[Front(s)], Last(s))
  <2>1. f[s] = IF s \in stop THEN base[s] ELSE step[s][f[next[s]]]
    BY <1>6 DEF Recurs
  <2>2. CASE s = <<>>
    BY <2>1, <2>2
  <2>3. CASE s # <<>>
    <3>1. f[Front(s)] \in Display
      BY <2>3, <1>6, FrontProperties
    <3>. QED
      BY <2>1, <2>3, <3>1
  <2>. QED
    BY <2>2, <2>3
<1>8. f = Body(f)
  BY <1>6, <1>7
<1>9. Displayed = CHOOSE g : g = Body(g)
  BY DEF Displayed
<1>. HIDE DEF Body
<1>10. Displayed = Body(Displayed)
  BY <1>8, <1>9
<1>11. \A s \in D : Displayed[s] = IF s = <<>> THEN EmptyDisplay ELSE Show(Displayed[Front(s)], Last(s))
  BY <1>10 DEF Body
<1> DEFINE Bad == {Len(s) : s \in {t \in D : Displayed[t] # f[t]}}
<1>12. Bad = {}
  <2> SUFFICES ASSUME Bad # {} PROVE FALSE
    OBVIOUS
  <2>1. Bad \subseteq Nat
    BY LenProperties
  <2>2. PICK k \in Bad : \A j \in Bad : k <= j
    BY <2>1, LeastNumber
  <2>3. PICK s \in D : Displayed[s] # f[s] /\ Len(s) = k
    BY <2>2
  <2>4. s # <<>>
    BY <1>7, <1>11, <2>3
  <2>5. Front(s) \in D /\ Len(Front(s)) < Len(s) /\ Len(Front(s)) \in Nat /\ Len(s) \in Nat
    BY <2>4, FrontProperties, LenProperties
  <2>6. Displayed[Front(s)] # f[Front(s)]
    BY <1>7, <1>11, <2>3, <2>4
  <2>7. Len(Front(s)) \in Bad
    BY <2>5, <2>6
  <2>. HIDE DEF Bad
  <2>. QED
    BY <2>2, <2>3, <2>5, <2>7
<1>13. \A s \in D : Displayed[s] = f[s]
  BY <1>12
<1>14. Displayed \in [Seq(Output) -> Display]
  BY <1>10, <1>13, <1>6 DEF Body
<1>. QED
  BY <1>11, <1>14

LEMMA DisplayedAppend ==
  /\ Displayed[<<>>] = EmptyDisplay
  /\ \A s \in Seq(Output), o \in Output :
       /\ Displayed[s] \in Display
       /\ Displayed[Append(s, o)] = Show(Displayed[s], o)
<1>1. <<>> \in Seq(Output)
  OBVIOUS
<1>2. Displayed[<<>>] = EmptyDisplay
  BY <1>1, DisplayedDefined
<1>3. ASSUME NEW s \in Seq(Output), NEW o \in Output
      PROVE  Displayed[s] \in Display /\ Displayed[Append(s, o)] = Show(Displayed[s], o)
  <2>1. Append(s, o) \in Seq(Output)
    BY AppendProperties
  <2>2. Append(s, o) # <<>> /\ Front(Append(s, o)) = s /\ Last(Append(s, o)) = o
    BY FrontOfAppend
  <2>. QED
    BY <2>1, <2>2, DisplayedDefined
<1>. QED
  BY <1>2, <1>3

LEMMA SinceProperties ==
  ASSUME NEW s \in Seq(Output)
  PROVE  /\ Since(s, 0) = Displayed[s]
         /\ Since(s, Len(s)) = EmptyDisplay
         /\ \A k \in 0..Len(s) : Since(s, k) \in Display
         /\ \A k \in 0..Len(s), o \in Output :
              Since(Append(s, o), k) = Show(Since(s, k), o)
<1>1. Len(s) \in Nat
  BY LenProperties
<1>2. Since(s, 0) = Displayed[s]
  <2>1. SubSeq(s, 1, Len(s)) = s /\ 0 + 1 = 1
    BY SubSeqFull
  <2>. QED
    BY <2>1 DEF Since
<1>3. Since(s, Len(s)) = EmptyDisplay
  <2>1. SubSeq(s, Len(s) + 1, Len(s)) = <<>>
    BY <1>1, SubSeqEmpty
  <2>. QED
    BY <2>1, DisplayedAppend DEF Since
<1>4. ASSUME NEW k \in 0..Len(s)
      PROVE  Since(s, k) \in Display
  <2>1. \A i \in (k + 1)..Len(s) : s[i] \in Output
    BY <1>1, ElementOfSeq
  <2>2. SubSeq(s, k + 1, Len(s)) \in Seq(Output)
    BY <1>1, <2>1, SubSeqProperties
  <2>. QED
    BY <2>2, DisplayedDefined DEF Since
<1>5. ASSUME NEW k \in 0..Len(s), NEW o \in Output
      PROVE  Since(Append(s, o), k) = Show(Since(s, k), o)
  <2> DEFINE u == Append(s, o)
  <2> DEFINE p == SubSeq(s, k + 1, Len(s))
  <2> DEFINE q == SubSeq(u, k + 1, Len(u))
  <2>1. /\ u \in Seq(Output) /\ Len(u) = Len(s) + 1 /\ u[Len(s) + 1] = o
        /\ \A i \in 1..Len(s) : u[i] = s[i]
    BY AppendProperties
  <2>. HIDE DEF u
  <2>2. /\ p \in Seq(Output) /\ Len(p) = Len(s) - k
        /\ \A i \in 1..(Len(s) - k) : p[i] = s[k + i]
    <3>1. \A i \in (k + 1)..Len(s) : s[i] \in Output
      BY <1>1, ElementOfSeq
    <3>. QED
      BY <1>1, <3>1, SubSeqProperties
  <2>3. /\ q \in Seq(Output) /\ Len(q) = Len(s) - k + 1
        /\ \A i \in 1..(Len(s) - k + 1) : q[i] = u[k + i]
    <3>1. \A i \in (k + 1)..Len(u) : u[i] \in Output
      BY <1>1, <2>1, ElementOfSeq
    <3>2. k + 1 <= Len(u) /\ k + 1 \in Int /\ Len(u) \in Int
      BY <1>1, <2>1
    <3>3. /\ q \in Seq(Output)
          /\ Len(q) = IF k + 1 <= Len(u) THEN Len(u) - (k + 1) + 1 ELSE 0
          /\ \A i \in 1..(Len(u) - (k + 1) + 1) : q[i] = u[k + 1 + i - 1]
      BY <3>1, <3>2, SubSeqProperties
    <3>. HIDE DEF q
    <3>. QED
      BY <1>1, <2>1, <3>2, <3>3
  <2>. HIDE DEF p, q
  <2>4. /\ Append(p, o) \in Seq(Output) /\ Len(Append(p, o)) = Len(s) - k + 1
        /\ Append(p, o)[Len(s) - k + 1] = o
        /\ \A i \in 1..(Len(s) - k) : Append(p, o)[i] = p[i]
    BY <2>2, AppendProperties
  <2>5. \A i \in 1..Len(q) : q[i] = Append(p, o)[i]
    <3> SUFFICES ASSUME NEW i \in 1..(Len(s) - k + 1) PROVE q[i] = Append(p, o)[i]
      BY <2>3
    <3>1. CASE i = Len(s) - k + 1
      <4>1. k + i = Len(s) + 1
        BY <1>1, <3>1
      <4>. QED
        BY <2>1, <2>3, <2>4, <3>1, <4>1
    <3>2. CASE i # Len(s) - k + 1
      <4>1. i \in 1..(Len(s) - k) /\ k + i \in 1..Len(s)
        BY <1>1, <3>2
      <4>. QED
        BY <2>1, <2>2, <2>3, <2>4, <4>1
    <3>. QED
      BY <3>1, <3>2
  <2>6. q = Append(p, o)
    BY <2>3, <2>4, <2>5, SeqEqual
  <2>. QED
    BY <2>2, <2>6, DisplayedAppend DEF Since, u, p, q
<1>. QED
  BY <1>2, <1>3, <1>4, <1>5

--------------------------------------------------------------------------------
(* How operations move a display *)

(* From x to y thread c gains text t, in n new messages (one or none).     *)
Gains(x, y, c, t, n) ==
  /\ y[c].all = x[c].all \o t
  /\ y[c].started = x[c].started + n
  /\ y[c].last = IF n = 0 THEN x[c].last \o t ELSE t
  /\ \A id \in Thread \ {c} : y[id] = x[id]

(* From outputs s to u that is so wherever one begins to listen.           *)
Adds(s, u, c, t, n) ==
  /\ s \in Seq(Output) /\ u \in Seq(Output) /\ Len(s) <= Len(u)
  /\ \A k \in 0..Len(s) : Gains(Since(s, k), Since(u, k), c, t, n)

LEMMA TextConcat ==
  ASSUME NEW s \in Text, NEW t \in Text, NEW u \in Text
  PROVE  /\ s \o t \in Text /\ (s \o t) \o u = s \o (t \o u)
         /\ s \o <<>> = s /\ <<>> \o s = s /\ <<>> \in Text
         /\ t # <<>> => s \o t # <<>> /\ t \o s # <<>>
         /\ Len(s) \in Nat
BY ConcatProperties, ConcatAssociative, ConcatEmptySeq, ConcatEqualIffEmpty, LenProperties
   DEF Text

LEMMA DisplayFields ==
  ASSUME NEW d \in Display, NEW id \in Thread
  PROVE  /\ d[id].all \in Text /\ d[id].last \in Text
         /\ d[id].started \in Nat /\ d[id].received \in Nat
BY DEF Display

LEMMA AddsNothing ==
  ASSUME NEW s \in Seq(Output), NEW c \in Thread
  PROVE  Adds(s, s, c, <<>>, 0)
<1>1. Len(s) \in Nat
  BY LenProperties
<1>2. ASSUME NEW k \in 0..Len(s) PROVE Gains(Since(s, k), Since(s, k), c, <<>>, 0)
  <2>1. Since(s, k) \in Display
    BY SinceProperties
  <2>. QED
    BY <2>1, DisplayFields, TextConcat DEF Gains
<1>3. Len(s) <= Len(s)
  BY <1>1
<1>. QED
  BY <1>2, <1>3, Zenon DEF Adds

LEMMA AddsOutput ==
  ASSUME NEW s \in Seq(Output), NEW o \in Output
  PROVE  Adds(s, Append(s, o), o.id, o.delta, IF o.type = "START" THEN 1 ELSE 0)
<1>1. Len(s) \in Nat /\ Append(s, o) \in Seq(Output) /\ Len(Append(s, o)) = Len(s) + 1
  BY LenProperties, AppendProperties
<1>2. o.id \in Thread
  BY DEF Output
<1>3. ASSUME NEW k \in 0..Len(s)
      PROVE  Gains(Since(s, k), Since(Append(s, o), k), o.id, o.delta,
                   IF o.type = "START" THEN 1 ELSE 0)
  <2>1. Since(s, k) \in Display /\ Since(Append(s, o), k) = Show(Since(s, k), o)
    BY SinceProperties
  <2> DEFINE x == Since(s, k)
  <2> DEFINE y == Since(Append(s, o), k)
  <2>2. x \in Display /\ y = Show(x, o)
    BY <2>1
  <2>. HIDE DEF x, y
  <2>3. /\ y[o.id].all = x[o.id].all \o o.delta
        /\ y[o.id].started = x[o.id].started + IF o.type = "START" THEN 1 ELSE 0
        /\ y[o.id].last = IF o.type = "START" THEN o.delta ELSE x[o.id].last \o o.delta
        /\ \A id \in Thread \ {o.id} : y[id] = x[id]
    BY <1>2, <2>2 DEF Show, Display
  <2>. QED
    BY <2>3 DEF Gains, x, y
<1>. QED
  BY <1>1, <1>3 DEF Adds

(* More text, and whatever comes after nothing.                            *)
LEMMA AddsMore ==
  ASSUME NEW s, NEW u, NEW v, NEW c \in Thread, NEW t \in Text, NEW r \in Text,
         NEW i \in Nat,
         Adds(s, u, c, t, i), Adds(u, v, c, r, 0)
  PROVE  Adds(s, v, c, t \o r, i)
<1>1. /\ s \in Seq(Output) /\ u \in Seq(Output) /\ v \in Seq(Output)
      /\ Len(s) \in Nat /\ Len(u) \in Nat /\ Len(v) \in Nat
      /\ Len(s) <= Len(u) /\ Len(u) <= Len(v)
  BY LenProperties DEF Adds
<1>2. ASSUME NEW k \in 0..Len(s)
      PROVE  Gains(Since(s, k), Since(v, k), c, t \o r, i)
  <2>1. k \in 0..Len(u)
    BY <1>1
  <2> DEFINE x == Since(s, k)
  <2> DEFINE y == Since(u, k)
  <2> DEFINE z == Since(v, k)
  <2>2. Gains(x, y, c, t, i) /\ Gains(y, z, c, r, 0)
    BY <2>1 DEF Adds
  <2>3. x \in Display
    BY <1>1, SinceProperties
  <2>. HIDE DEF x, y, z
  <2>4. /\ x[c].all \in Text /\ x[c].last \in Text /\ x[c].started \in Nat
    BY <2>3, DisplayFields
  <2>5. /\ y[c].all = x[c].all \o t
        /\ y[c].started = x[c].started + i
        /\ y[c].last = IF i = 0 THEN x[c].last \o t ELSE t
        /\ z[c].all = y[c].all \o r
        /\ z[c].started = y[c].started + 0
        /\ z[c].last = y[c].last \o r
    BY <2>2 DEF Gains
  <2>6. \A p \in Text : (p \o t) \o r = p \o (t \o r)
    BY ConcatAssociative DEF Text
  <2>7. z[c].all = x[c].all \o (t \o r)
    BY <2>4, <2>5, <2>6
  <2>8. z[c].started = x[c].started + i
    BY <2>4, <2>5
  <2>9. z[c].last = IF i = 0 THEN x[c].last \o (t \o r) ELSE t \o r
    BY <2>4, <2>5, <2>6
  <2>. QED
    BY <2>2, <2>7, <2>8, <2>9 DEF Gains, x, z
<1>. QED
  BY <1>1, <1>2 DEF Adds

LEMMA AddsAfterNothing ==
  ASSUME NEW s, NEW u, NEW v, NEW c \in Thread, NEW r \in Text, NEW i \in Nat,
         Adds(s, u, c, <<>>, 0), Adds(u, v, c, r, i)
  PROVE  Adds(s, v, c, r, i)
<1>1. /\ s \in Seq(Output) /\ u \in Seq(Output) /\ v \in Seq(Output)
      /\ Len(s) \in Nat /\ Len(u) \in Nat /\ Len(v) \in Nat
      /\ Len(s) <= Len(u) /\ Len(u) <= Len(v)
  BY LenProperties DEF Adds
<1>2. ASSUME NEW k \in 0..Len(s)
      PROVE  Gains(Since(s, k), Since(v, k), c, r, i)
  <2>1. k \in 0..Len(u)
    BY <1>1
  <2> DEFINE x == Since(s, k)
  <2> DEFINE y == Since(u, k)
  <2> DEFINE z == Since(v, k)
  <2>2. Gains(x, y, c, <<>>, 0) /\ Gains(y, z, c, r, i)
    BY <2>1 DEF Adds
  <2>3. x \in Display
    BY <1>1, SinceProperties
  <2>. HIDE DEF x, y, z
  <2>4. /\ x[c].all \o <<>> = x[c].all /\ x[c].last \o <<>> = x[c].last
        /\ x[c].started \in Nat
    BY <2>3, DisplayFields, ConcatEmptySeq DEF Text
  <2>5. y[c].all = x[c].all /\ y[c].last = x[c].last /\ y[c].started = x[c].started
    BY <2>2, <2>4 DEF Gains
  <2>. QED
    BY <2>2, <2>5 DEF Gains, x, z
<1>. QED
  BY <1>1, <1>2 DEF Adds

--------------------------------------------------------------------------------
(* The operations *)

(* An open message has text.                                               *)
Ready(b) == b \in Builder /\ \A c \in Channel : b.open[c] => b.text[c] # <<>>

LEMMA Kinds ==
  /\ Channel \subseteq Thread /\ CallId \subseteq Thread /\ UsageKind \subseteq Thread
  /\ Channel = {"assistant", "reasoning"} /\ "turn" \in UsageKind
  /\ \A id \in CallId \cup UsageKind : id \notin Channel
  /\ \A id \in Channel \cup CallId : id # "turn"
  /\ <<>> \in Text
  /\ {"PHASE_START", "START", "CONTENT", "END", "PHASE_END", "TOOL_START", "TOOL_ARGS",
      "TOOL_END", "TOOL_RESULT", "CUSTOM"} \subseteq EventType
BY CallIdAssumption DEF Thread, Channel, UsageKind, EventType, Text

LEMMA NextOutputEffect ==
  ASSUME NEW b \in Builder, NEW type \in EventType, NEW id \in Thread, NEW delta \in Text
  PROVE  LET n == NextOutput(b, type, id, delta) IN
         /\ n \in Builder /\ n.sequence = b.sequence + 1
         /\ n.toolSequence = b.toolSequence
         /\ n.text = b.text /\ n.open = b.open /\ n.emitted = b.emitted
         /\ n.reasoningPhaseOpen = b.reasoningPhaseOpen
         /\ type = "START" => Adds(b.outputs, n.outputs, id, delta, 1)
         /\ type # "START" => Adds(b.outputs, n.outputs, id, delta, 0)
<1> DEFINE e == [sequence |-> b.sequence + 1,
                 type     |-> IF Representable(type, delta) THEN type ELSE "INVALID",
                 id       |-> id,
                 delta    |-> delta]
<1> DEFINE o == Append(b.outputs, e)
<1>1. b.sequence \in Nat /\ b.sequence + 1 \in Nat /\ b.outputs \in Seq(Output)
  BY DEF Builder
<1>2. e \in Output
  BY <1>1 DEF Output, EventType
<1>3. o \in Seq(Output)
  BY <1>1, <1>2, AppendProperties
<1> DEFINE n == [b EXCEPT !.sequence = b.sequence + 1, !.outputs = o]
<1>4. NextOutput(b, type, id, delta)
        = [b EXCEPT !.sequence = b.sequence + 1, !.outputs = Append(b.outputs, e)]
  BY DEF NextOutput, Builder
<1>5. /\ type = "START" => Adds(b.outputs, o, id, delta, 1)
      /\ type # "START" => Adds(b.outputs, o, id, delta, 0)
  <2>1. /\ e.id = id /\ e.delta = delta
        /\ e.type = "START" <=> type = "START"
    BY DEF Representable
  <2>2. Adds(b.outputs, o, e.id, e.delta, IF e.type = "START" THEN 1 ELSE 0)
    BY <1>1, <1>2, AddsOutput
  <2>. HIDE DEF e, o
  <2>. QED
    BY <2>1, <2>2
<1>. HIDE DEF o
<1>6. /\ n \in Builder /\ n.sequence = b.sequence + 1 /\ n.outputs = o
      /\ n.toolSequence = b.toolSequence
      /\ n.text = b.text /\ n.open = b.open /\ n.emitted = b.emitted
      /\ n.reasoningPhaseOpen = b.reasoningPhaseOpen
  BY <1>1, <1>3 DEF Builder
<1>. QED
  BY <1>4, <1>5, <1>6 DEF o

(* appendText opens the channel and adds the text.                         *)
LEMMA AppendTextEffect ==
  ASSUME NEW b \in Builder, NEW c \in Channel, NEW t \in Text
  PROVE  LET n == AppendText(b, c, t) IN
         /\ n \in Builder /\ n.text = b.text /\ n.emitted = b.emitted
         /\ n.open = [b.open EXCEPT ![c] = TRUE]
         /\ b.sequence <= n.sequence
         /\ b.open[c] => Adds(b.outputs, n.outputs, c, t, 0)
         /\ ~b.open[c] => Adds(b.outputs, n.outputs, c, t, 1)
<1>1. /\ c \in Thread /\ <<>> \in Text
      /\ {"PHASE_START", "START", "CONTENT", "END", "PHASE_END"} \subseteq EventType
      /\ b.sequence \in Nat /\ b.outputs \in Seq(Output)
  BY Kinds DEF Builder
<1> DEFINE begun == [b EXCEPT !.reasoningPhaseOpen = TRUE]
<1> DEFINE phased == IF c = "reasoning" /\ ~b.reasoningPhaseOpen
                       THEN NextOutput(begun, "PHASE_START", c, <<>>) ELSE b
<1> DEFINE started == [phased EXCEPT !.open[c] = TRUE]
<1> DEFINE opened == IF b.open[c] THEN b ELSE NextOutput(started, "START", c, <<>>)
<1>2. AppendText(b, c, t) = IF t = <<>> THEN opened ELSE NextOutput(opened, "CONTENT", c, t)
  BY DEF AppendText, OpenText
<1>3. /\ begun \in Builder /\ begun.text = b.text
      /\ begun.emitted = b.emitted /\ begun.open = b.open
      /\ begun.sequence = b.sequence /\ begun.outputs = b.outputs
  BY DEF Builder
<1>. HIDE DEF begun
<1>4. /\ phased \in Builder /\ phased.text = b.text
      /\ phased.emitted = b.emitted /\ phased.open = b.open
      /\ b.sequence <= phased.sequence /\ phased.sequence \in Nat
      /\ Adds(b.outputs, phased.outputs, c, <<>>, 0)
  <2>1. Adds(b.outputs, b.outputs, c, <<>>, 0)
    BY <1>1, AddsNothing
  <2>2. CASE c = "reasoning" /\ ~b.reasoningPhaseOpen
    BY <1>1, <1>3, <2>2, NextOutputEffect
  <2>3. CASE ~(c = "reasoning" /\ ~b.reasoningPhaseOpen)
    BY <1>1, <2>1, <2>3
  <2>. QED
    BY <2>2, <2>3
<1>. HIDE DEF phased
<1>5. /\ started \in Builder /\ started.text = b.text
      /\ started.emitted = b.emitted /\ started.open = [b.open EXCEPT ![c] = TRUE]
      /\ started.sequence = phased.sequence /\ started.outputs = phased.outputs
  BY <1>4 DEF Builder
<1>. HIDE DEF started
<1>6. /\ opened \in Builder /\ opened.text = b.text
      /\ opened.emitted = b.emitted /\ opened.open = [b.open EXCEPT ![c] = TRUE]
      /\ b.sequence <= opened.sequence /\ opened.sequence \in Nat
      /\ b.open[c] => Adds(b.outputs, opened.outputs, c, <<>>, 0)
      /\ ~b.open[c] => Adds(b.outputs, opened.outputs, c, <<>>, 1)
  <2>1. CASE b.open[c]
    <3>1. [b.open EXCEPT ![c] = TRUE] = b.open
      BY <2>1 DEF Builder
    <3>2. Adds(b.outputs, b.outputs, c, <<>>, 0)
      BY <1>1, AddsNothing
    <3>. QED
      BY <1>1, <2>1, <3>1, <3>2
  <2>2. CASE ~b.open[c]
    <3>1. /\ opened \in Builder /\ opened.text = b.text /\ opened.emitted = b.emitted
          /\ opened.open = [b.open EXCEPT ![c] = TRUE]
          /\ opened.sequence = started.sequence + 1
          /\ Adds(started.outputs, opened.outputs, c, <<>>, 1)
      BY <1>1, <1>5, <2>2, NextOutputEffect
    <3>. HIDE DEF opened
    <3>2. Adds(b.outputs, opened.outputs, c, <<>>, 1)
      BY <1>1, <1>4, <1>5, <3>1, AddsAfterNothing
    <3>. QED
      BY <1>1, <1>4, <1>5, <2>2, <3>1, <3>2
  <2>. QED
    BY <2>1, <2>2
<1>. HIDE DEF opened
<1>7. CASE t = <<>>
  BY <1>2, <1>6, <1>7
<1>8. CASE t # <<>>
  <2> DEFINE n == NextOutput(opened, "CONTENT", c, t)
  <2>1. /\ n \in Builder /\ n.text = b.text /\ n.emitted = b.emitted
        /\ n.open = [b.open EXCEPT ![c] = TRUE]
        /\ n.sequence = opened.sequence + 1
        /\ Adds(opened.outputs, n.outputs, c, t, 0)
    BY <1>1, <1>6, NextOutputEffect
  <2>. HIDE DEF n
  <2>2. <<>> \o t = t /\ <<>> \in Text
    BY ConcatEmptySeq, Kinds DEF Text
  <2>3. b.open[c] => Adds(b.outputs, n.outputs, c, t, 0)
    BY <1>1, <1>6, <2>1, <2>2, AddsAfterNothing
  <2>4. ~b.open[c] => Adds(b.outputs, n.outputs, c, t, 1)
    <3> SUFFICES ASSUME ~b.open[c] PROVE Adds(b.outputs, n.outputs, c, t, 1)
      OBVIOUS
    <3>1. Adds(b.outputs, n.outputs, c, <<>> \o t, 1)
      BY <1>1, <1>6, <2>1, <2>2, AddsMore
    <3>. QED
      BY <2>2, <3>1
  <2>. QED
    BY <1>1, <1>2, <1>6, <1>8, <2>1, <2>3, <2>4 DEF n
<1>. QED
  BY <1>7, <1>8

(* closeTextIfOpen closes the channel, and takes a number if it was open.  *)
LEMMA CloseEffect ==
  ASSUME NEW b \in Builder, NEW c \in Channel
  PROVE  LET n == CloseTextIfOpen(b, c) IN
         /\ n \in Builder /\ n.text = b.text /\ n.emitted = b.emitted
         /\ n.open = [b.open EXCEPT ![c] = FALSE]
         /\ b.sequence <= n.sequence
         /\ b.open[c] => b.sequence < n.sequence
         /\ Adds(b.outputs, n.outputs, c, <<>>, 0)
<1>1. /\ c \in Thread /\ <<>> \in Text
      /\ {"PHASE_START", "START", "CONTENT", "END", "PHASE_END"} \subseteq EventType
      /\ b.sequence \in Nat /\ b.outputs \in Seq(Output)
  BY Kinds DEF Builder
<1>2. CASE ~b.open[c]
  <2>1. [b.open EXCEPT ![c] = FALSE] = b.open
    BY <1>2 DEF Builder
  <2>. QED
    BY <1>1, <1>2, <2>1, AddsNothing DEF CloseTextIfOpen
<1>3. CASE b.open[c]
  <2> DEFINE closed == [b EXCEPT !.open[c] = FALSE]
  <2> DEFINE ended == NextOutput(closed, "END", c, <<>>)
  <2> DEFINE left == [ended EXCEPT !.reasoningPhaseOpen = FALSE]
  <2> DEFINE n == NextOutput(left, "PHASE_END", c, <<>>)
  <2>1. /\ closed \in Builder /\ closed.text = b.text /\ closed.emitted = b.emitted
        /\ closed.open = [b.open EXCEPT ![c] = FALSE] /\ closed.sequence = b.sequence
        /\ closed.outputs = b.outputs
    BY DEF Builder
  <2>2. CloseTextIfOpen(b, c) = IF c = "reasoning" /\ b.reasoningPhaseOpen THEN n ELSE ended
    BY <1>3 DEF CloseTextIfOpen
  <2>. HIDE DEF closed
  <2>3. /\ ended \in Builder /\ ended.text = b.text /\ ended.emitted = b.emitted
        /\ ended.open = [b.open EXCEPT ![c] = FALSE] /\ ended.sequence = b.sequence + 1
        /\ Adds(b.outputs, ended.outputs, c, <<>>, 0)
    BY <1>1, <2>1, NextOutputEffect
  <2>. HIDE DEF ended
  <2>4. /\ left \in Builder /\ left.text = b.text /\ left.emitted = b.emitted
        /\ left.open = [b.open EXCEPT ![c] = FALSE] /\ left.sequence = b.sequence + 1
        /\ left.outputs = ended.outputs
    BY <2>3 DEF Builder
  <2>. HIDE DEF left
  <2>5. /\ n \in Builder /\ n.text = b.text /\ n.emitted = b.emitted
        /\ n.open = [b.open EXCEPT ![c] = FALSE] /\ n.sequence = b.sequence + 2
        /\ Adds(ended.outputs, n.outputs, c, <<>>, 0)
    BY <1>1, <2>4, NextOutputEffect
  <2>. HIDE DEF n
  <2>6. Adds(b.outputs, n.outputs, c, <<>>, 0)
    BY <1>1, <2>3, <2>5, AddsAfterNothing
  <2>. QED
    BY <1>1, <2>2, <2>3, <2>5, <2>6
<1>. QED
  BY <1>2, <1>3

LEMMA AssignEffect ==
  ASSUME NEW b \in Builder, NEW c \in Channel, NEW t \in Text
  PROVE  LET a == [b EXCEPT !.text[c] = t] IN
         /\ a \in Builder /\ a.emitted = b.emitted /\ a.open = b.open
         /\ a.sequence = b.sequence /\ a.outputs = b.outputs
         /\ a.text = [b.text EXCEPT ![c] = t]
BY DEF Builder

--------------------------------------------------------------------------------
(* Texts told and repeated *)

LEMMA SubSeqIsText ==
  ASSUME NEW t \in Text, NEW n \in Nat
  PROVE  SubSeq(t, n + 1, Len(t)) \in Text
<1>1. Len(t) \in Nat
  BY LenProperties DEF Text
<1>2. \A i \in (n + 1)..Len(t) : t[i] \in Char
  BY <1>1, ElementOfSeq DEF Text
<1>. QED
  BY <1>1, <1>2, SubSeqProperties DEF Text

(* A text is what a prefix of it and the rest make together.               *)
LEMMA PrefixAndRest ==
  ASSUME NEW p \in Text, NEW t \in Text, IsPrefix(p, t)
  PROVE  /\ SubSeq(t, Len(p) + 1, Len(t)) \in Text
         /\ p \o SubSeq(t, Len(p) + 1, Len(t)) = t
<1> DEFINE m == Len(p)
<1>1. /\ m \in Nat /\ Len(t) \in Nat /\ m <= Len(t)
      /\ SubSeq(p, 1, m) = p /\ SubSeq(t, 1, Len(t)) = t
      /\ SubSeq(p, 1, m) = SubSeq(t, 1, m)
  BY LenProperties, SubSeqFull DEF Text, IsPrefix
<1>2. SubSeq(t, 1, m) \o SubSeq(t, m + 1, Len(t)) = SubSeq(t, 1, Len(t))
  <2>1. 1 \in 1..(Len(t) + 1) /\ m \in (1 - 1)..Len(t) /\ Len(t) \in m..Len(t)
    BY <1>1
  <2>. HIDE DEF m
  <2>. QED
    BY <2>1, ConcatAdjacentSubSeq DEF Text
<1>3. SubSeq(t, m + 1, Len(t)) \in Text
  BY <1>1, SubSeqIsText
<1>. QED
  BY <1>1, <1>2, <1>3

LEMMA ReadyFields ==
  ASSUME NEW b, Ready(b), NEW c \in Channel
  PROVE  /\ b \in Builder /\ b.text[c] \in Text /\ b.open[c] \in BOOLEAN
         /\ b.open[c] => b.text[c] # <<>>
         /\ b.outputs \in Seq(Output) /\ b.sequence \in Nat
BY DEF Ready, Builder

(* Text u is what channel c has after it, and it is open.                  *)
LEMMA AppendAssigned ==
  ASSUME NEW b, Ready(b), NEW c \in Channel, NEW t \in Text, NEW u \in Text, u # <<>>
  PROVE  LET n == AppendText([b EXCEPT !.text[c] = u], c, t) IN
         /\ Ready(n) /\ n.emitted = b.emitted /\ b.sequence <= n.sequence
         /\ n.text[c] = u /\ n.open[c]
         /\ \A d \in Channel \ {c} : n.text[d] = b.text[d] /\ n.open[d] = b.open[d]
         /\ b.open[c] => Adds(b.outputs, n.outputs, c, t, 0)
         /\ ~b.open[c] => Adds(b.outputs, n.outputs, c, t, 1)
<1> DEFINE a == [b EXCEPT !.text[c] = u]
<1> DEFINE n == AppendText(a, c, t)
<1>1. b \in Builder
  BY DEF Ready
<1>2. /\ a \in Builder /\ a.emitted = b.emitted /\ a.open = b.open
      /\ a.sequence = b.sequence /\ a.outputs = b.outputs
      /\ a.text = [b.text EXCEPT ![c] = u]
  BY <1>1, AssignEffect
<1>. HIDE DEF a
<1>3. /\ n \in Builder /\ n.text = a.text /\ n.emitted = a.emitted
      /\ n.open = [a.open EXCEPT ![c] = TRUE]
      /\ a.sequence <= n.sequence
      /\ a.open[c] => Adds(a.outputs, n.outputs, c, t, 0)
      /\ ~a.open[c] => Adds(a.outputs, n.outputs, c, t, 1)
  BY <1>2, AppendTextEffect
<1>. HIDE DEF n
<1>4. /\ n.text[c] = u /\ n.open[c]
      /\ \A d \in Channel \ {c} : n.text[d] = b.text[d] /\ n.open[d] = b.open[d]
  BY <1>1, <1>2, <1>3 DEF Builder
<1>5. Ready(n)
  BY <1>3, <1>4 DEF Ready
<1>. QED
  BY <1>2, <1>3, <1>4, <1>5 DEF n, a

LEMMA AppendDeltaEffect ==
  ASSUME NEW b, Ready(b), NEW c \in Channel, NEW t \in Text
  PROVE  LET n == AppendDelta(b, c, t) IN
         /\ Ready(n) /\ n.emitted = b.emitted /\ b.sequence <= n.sequence
         /\ n.text[c] = b.text[c] \o t
         /\ \A d \in Channel \ {c} : n.text[d] = b.text[d] /\ n.open[d] = b.open[d]
         /\ t = <<>> => n = b
         /\ t # <<>> => /\ n.open[c]
                        /\ b.open[c] => Adds(b.outputs, n.outputs, c, t, 0)
                        /\ ~b.open[c] => Adds(b.outputs, n.outputs, c, t, 1)
<1>1. b.text[c] \in Text /\ b.sequence \in Nat
  BY ReadyFields
<1>2. b.text[c] \o t \in Text /\ b.text[c] \o <<>> = b.text[c]
  BY <1>1, ConcatProperties, ConcatEmptySeq DEF Text
<1>3. CASE t = <<>>
  BY <1>1, <1>2, <1>3 DEF AppendDelta
<1>4. CASE t # <<>>
  <2>1. b.text[c] \o t # <<>>
    BY <1>1, <1>4, ConcatEqualIffEmpty DEF Text
  <2>2. AppendDelta(b, c, t) = AppendText([b EXCEPT !.text[c] = b.text[c] \o t], c, t)
    BY <1>4 DEF AppendDelta
  <2> DEFINE n == AppendText([b EXCEPT !.text[c] = b.text[c] \o t], c, t)
  <2>3. /\ Ready(n) /\ n.emitted = b.emitted /\ b.sequence <= n.sequence
        /\ n.text[c] = b.text[c] \o t /\ n.open[c]
        /\ \A d \in Channel \ {c} : n.text[d] = b.text[d] /\ n.open[d] = b.open[d]
        /\ b.open[c] => Adds(b.outputs, n.outputs, c, t, 0)
        /\ ~b.open[c] => Adds(b.outputs, n.outputs, c, t, 1)
    BY <1>2, <2>1, AppendAssigned
  <2>. HIDE DEF n
  <2>. QED
    BY <1>4, <2>2, <2>3 DEF n
<1>. QED
  BY <1>3, <1>4

(* From b to n channel c is told t as a whole text: it is continued or,    *)
(* when it is another one, begun anew.                                     *)
Syncs(b, n, c, t) ==
  /\ Ready(n) /\ n.emitted = b.emitted /\ b.sequence <= n.sequence
  /\ \A d \in Channel \ {c} : n.text[d] = b.text[d] /\ n.open[d] = b.open[d]
  /\ t = <<>> \/ t = b.text[c] => n = b
  /\ t # <<>> /\ t # b.text[c] => n.text[c] = t /\ n.open[c]
  /\ t # <<>> /\ t # b.text[c] /\ IsPrefix(b.text[c], t) =>
       \E u \in Text : /\ b.text[c] \o u = t
                       /\ b.open[c] => Adds(b.outputs, n.outputs, c, u, 0)
                       /\ ~b.open[c] => Adds(b.outputs, n.outputs, c, u, 1)
  /\ t # <<>> /\ t # b.text[c] /\ ~IsPrefix(b.text[c], t) =>
       /\ Adds(b.outputs, n.outputs, c, t, 1)
       /\ \E k \in 0..Len(n.outputs) :
            Since(n.outputs, k)[c].all = t /\ Since(n.outputs, k)[c].started = 1

LEMMA SyncEffect ==
  ASSUME NEW b, Ready(b), NEW c \in Channel, NEW t \in Text
  PROVE  Syncs(b, Sync(b, c, t), c, t)
<1> DEFINE assigned == [b EXCEPT !.text[c] = t]
<1> DEFINE suffix == SubSeq(t, Len(b.text[c]) + 1, Len(t))
<1> DEFINE closed == CloseTextIfOpen(assigned, c)
<1>1. Sync(b, c, t) = IF t = <<>> \/ t = b.text[c] THEN b
                      ELSE IF IsPrefix(b.text[c], t) THEN AppendText(assigned, c, suffix)
                      ELSE AppendText(closed, c, t)
  BY DEF Sync, SyncText
<1>2. /\ b \in Builder /\ b.text[c] \in Text /\ b.sequence \in Nat
      /\ b.outputs \in Seq(Output) /\ c \in Thread
  BY ReadyFields, Kinds
<1>3. CASE t = <<>> \/ t = b.text[c]
  <2>1. Sync(b, c, t) = b /\ b.sequence <= b.sequence
    BY <1>1, <1>2, <1>3
  <2>. QED
    BY <1>3, <2>1 DEF Syncs
<1>4. CASE t # <<>> /\ t # b.text[c] /\ IsPrefix(b.text[c], t)
  <2>1. suffix \in Text /\ b.text[c] \o suffix = t
    BY <1>2, <1>4, PrefixAndRest
  <2>2. Sync(b, c, t) = AppendText(assigned, c, suffix)
    BY <1>1, <1>4
  <2>. HIDE DEF suffix
  <2> DEFINE n == AppendText(assigned, c, suffix)
  <2>3. /\ Ready(n) /\ n.emitted = b.emitted /\ b.sequence <= n.sequence
        /\ n.text[c] = t /\ n.open[c]
        /\ \A d \in Channel \ {c} : n.text[d] = b.text[d] /\ n.open[d] = b.open[d]
        /\ b.open[c] => Adds(b.outputs, n.outputs, c, suffix, 0)
        /\ ~b.open[c] => Adds(b.outputs, n.outputs, c, suffix, 1)
    BY <1>4, <2>1, AppendAssigned
  <2>. HIDE DEF n
  <2>. QED
    BY <1>4, <2>1, <2>2, <2>3 DEF n, Syncs
<1>5. CASE t # <<>> /\ t # b.text[c] /\ ~IsPrefix(b.text[c], t)
  <2> DEFINE n == AppendText(closed, c, t)
  <2>1. /\ assigned \in Builder /\ assigned.emitted = b.emitted /\ assigned.open = b.open
        /\ assigned.sequence = b.sequence /\ assigned.outputs = b.outputs
        /\ assigned.text = [b.text EXCEPT ![c] = t]
    BY <1>2, AssignEffect
  <2>. HIDE DEF assigned
  <2>2. /\ closed \in Builder /\ closed.text = assigned.text /\ closed.emitted = b.emitted
        /\ closed.open = [b.open EXCEPT ![c] = FALSE]
        /\ b.sequence <= closed.sequence
        /\ Adds(b.outputs, closed.outputs, c, <<>>, 0)
    BY <2>1, CloseEffect
  <2>. HIDE DEF closed
  <2>3. closed.outputs \in Seq(Output) /\ ~closed.open[c] /\ closed.sequence \in Nat
    BY <1>2, <2>2 DEF Builder
  <2>4. /\ n \in Builder /\ n.text = closed.text /\ n.emitted = closed.emitted
        /\ n.open = [closed.open EXCEPT ![c] = TRUE]
        /\ closed.sequence <= n.sequence
        /\ Adds(closed.outputs, n.outputs, c, t, 1)
    <3>. HIDE DEF n
    <3>1. closed \in Builder /\ ~closed.open[c]
      BY <2>2, <2>3
    <3>. QED
      BY <3>1, AppendTextEffect DEF n
  <2>5. Sync(b, c, t) = n
    BY <1>1, <1>5
  <2>. HIDE DEF n
  <2>6. /\ n.text[c] = t /\ n.open[c]
        /\ \A d \in Channel \ {c} : n.text[d] = b.text[d] /\ n.open[d] = b.open[d]
    BY <1>2, <2>1, <2>2, <2>4 DEF Builder
  <2>7. Ready(n)
    BY <1>5, <2>4, <2>6 DEF Ready
  <2>8. Adds(b.outputs, n.outputs, c, t, 1)
    BY <1>2, <2>2, <2>4, AddsAfterNothing
  <2> DEFINE k == Len(closed.outputs)
  <2>9. k \in 0..k /\ k \in 0..Len(n.outputs)
    BY <2>3, <2>4, LenProperties DEF Adds
  <2>10. Gains(Since(closed.outputs, k), Since(n.outputs, k), c, t, 1)
    BY <2>4, <2>9 DEF Adds
  <2>11. Since(closed.outputs, k) = EmptyDisplay
    BY <2>3, SinceProperties
  <2>12. Since(n.outputs, k)[c].all = t /\ Since(n.outputs, k)[c].started = 1
    <3>1. <<>> \o t = t
      BY ConcatEmptySeq DEF Text
    <3>2. EmptyDisplay[c].all = <<>> /\ EmptyDisplay[c].started = 0
      BY <1>2 DEF EmptyDisplay
    <3>3. /\ Since(n.outputs, k)[c].all = EmptyDisplay[c].all \o t
          /\ Since(n.outputs, k)[c].started = EmptyDisplay[c].started + 1
      BY <2>10, <2>11 DEF Gains
    <3>. QED
      BY <3>1, <3>2, <3>3
  <2>13. n.emitted = b.emitted /\ b.sequence <= n.sequence
    BY <1>2, <2>2, <2>3, <2>4 DEF Builder
  <2>. HIDE DEF k
  <2>. QED
    BY <1>5, <2>5, <2>6, <2>7, <2>8, <2>9, <2>12, <2>13 DEF Syncs
<1>. QED
  BY <1>3, <1>4, <1>5

(* Closing and counting keep a builder ready.                              *)
LEMMA CloseReady ==
  ASSUME NEW b, Ready(b), NEW c \in Channel
  PROVE  LET n == CloseTextIfOpen(b, c) IN
         /\ Ready(n) /\ n.text = b.text /\ n.emitted = b.emitted
         /\ ~n.open[c] /\ \A d \in Channel \ {c} : n.open[d] = b.open[d]
         /\ b.open[c] => b.sequence < n.sequence
         /\ b.sequence <= n.sequence
         /\ Adds(b.outputs, n.outputs, c, <<>>, 0)
<1> DEFINE n == CloseTextIfOpen(b, c)
<1>1. /\ n \in Builder /\ n.text = b.text /\ n.emitted = b.emitted
      /\ n.open = [b.open EXCEPT ![c] = FALSE]
      /\ b.sequence <= n.sequence
      /\ b.open[c] => b.sequence < n.sequence
      /\ Adds(b.outputs, n.outputs, c, <<>>, 0)
  BY CloseEffect DEF Ready
<1>. HIDE DEF n
<1>2. /\ ~n.open[c] /\ \A d \in Channel \ {c} : n.open[d] = b.open[d]
  BY <1>1 DEF Ready, Builder
<1>3. Ready(n)
  BY <1>1, <1>2 DEF Ready
<1>. QED
  BY <1>1, <1>2, <1>3 DEF n

(* A result without text closes its channel, one with text repeats it      *)
(* before, unless a result has had an effect already.                      *)
LEMMA EmitResultEffect ==
  ASSUME NEW b, Ready(b), NEW c \in Channel, NEW t \in Text
  PROVE  LET n == EmitResult(b, c, t)
             s == Sync(b, c, t)
         IN
         /\ Ready(n)
         /\ \A d \in Channel \ {c} :
              n.text[d] = b.text[d] /\ n.open[d] = b.open[d] /\ n.emitted[d] = b.emitted[d]
         /\ t = <<>> => /\ n.text = b.text
                        /\ Adds(b.outputs, n.outputs, c, <<>>, 0)
                        /\ b.emitted[c] \/ ~n.open[c]
                        /\ n.open[c] => b.open[c]
         /\ t # <<>> => \/ n = b /\ (b.emitted[c] \/ ~s.open[c])
                        \/ /\ n.text = s.text /\ ~n.open[c]
                           /\ Adds(s.outputs, n.outputs, c, <<>>, 0)
<1> DEFINE s == Sync(b, c, t)
<1> DEFINE r == Result(b, c, t)
<1> DEFINE n == [r EXCEPT !.emitted[c] = TRUE]
<1>1. EmitResult(b, c, t) = IF b.emitted[c] \/ r.sequence = b.sequence THEN b ELSE n
  BY DEF EmitResult
<1>2. /\ r = IF t # <<>> THEN CloseTextIfOpen(s, c)
             ELSE IF b.open[c] THEN CloseTextIfOpen(b, c) ELSE b
  BY DEF Result, Sync, SyncText, Ready
<1>3. /\ b \in Builder /\ b.sequence \in Nat /\ b.outputs \in Seq(Output) /\ c \in Thread
      /\ Adds(b.outputs, b.outputs, c, <<>>, 0)
  BY ReadyFields, Kinds, AddsNothing
<1>4. /\ Ready(s) /\ s.emitted = b.emitted /\ b.sequence <= s.sequence
      /\ \A d \in Channel \ {c} : s.text[d] = b.text[d] /\ s.open[d] = b.open[d]
  BY SyncEffect DEF Syncs
<1>. HIDE DEF s
<1>5. s.sequence \in Nat
  BY <1>4, ReadyFields
<1>. HIDE DEF r
<1>6. /\ Ready(r) /\ r.emitted = b.emitted /\ ~r.open[c]
      /\ \A d \in Channel \ {c} : r.text[d] = b.text[d] /\ r.open[d] = b.open[d]
      /\ t = <<>> => /\ r.text = b.text /\ Adds(b.outputs, r.outputs, c, <<>>, 0)
                     /\ b.open[c] => r.sequence # b.sequence
      /\ t # <<>> => /\ r.text = s.text /\ Adds(s.outputs, r.outputs, c, <<>>, 0)
                     /\ s.open[c] => r.sequence # b.sequence
  <2>1. CASE t # <<>>
    <3>1. r = CloseTextIfOpen(s, c)
      BY <1>2, <2>1
    <3>2. /\ Ready(r) /\ r.text = s.text /\ r.emitted = s.emitted
          /\ ~r.open[c] /\ \A d \in Channel \ {c} : r.open[d] = s.open[d]
          /\ s.open[c] => s.sequence < r.sequence
          /\ Adds(s.outputs, r.outputs, c, <<>>, 0)
      BY <1>4, <3>1, CloseReady
    <3>3. r.sequence \in Nat
      BY <3>2, ReadyFields
    <3>. QED
      BY <1>3, <1>4, <1>5, <2>1, <3>2, <3>3
  <2>2. CASE t = <<>> /\ b.open[c]
    <3>1. r = CloseTextIfOpen(b, c)
      BY <1>2, <2>2
    <3>2. /\ Ready(r) /\ r.text = b.text /\ r.emitted = b.emitted
          /\ ~r.open[c] /\ \A d \in Channel \ {c} : r.open[d] = b.open[d]
          /\ b.open[c] => b.sequence < r.sequence
          /\ Adds(b.outputs, r.outputs, c, <<>>, 0)
      BY <3>1, CloseReady
    <3>3. r.sequence \in Nat
      BY <3>2, ReadyFields
    <3>. QED
      BY <1>3, <2>2, <3>2, <3>3
  <2>3. CASE t = <<>> /\ ~b.open[c]
    BY <1>2, <1>3, <2>3
  <2>. QED
    BY <2>1, <2>2, <2>3
<1>7. /\ Ready(n) /\ n.open = r.open /\ n.text = r.text /\ n.outputs = r.outputs
      /\ \A d \in Channel \ {c} : n.emitted[d] = r.emitted[d]
  BY <1>6 DEF Ready, Builder
<1>. HIDE DEF n
<1>8. CASE b.emitted[c] \/ r.sequence = b.sequence
  <2>1. EmitResult(b, c, t) = b
    BY <1>1, <1>8
  <2>2. \/ b.emitted[c]
        \/ (t = <<>> => ~b.open[c]) /\ (t # <<>> => ~s.open[c])
    BY <1>6, <1>8
  <2>. QED
    BY <1>3, <2>1, <2>2 DEF s
<1>9. CASE ~(b.emitted[c] \/ r.sequence = b.sequence)
  <2>1. EmitResult(b, c, t) = n
    BY <1>1, <1>9
  <2>. QED
    BY <1>6, <1>7, <2>1 DEF s
<1>. QED
  BY <1>8, <1>9

(* Usage, and a whole tool call, are about other threads than messages.    *)
LEMMA OutputReady ==
  ASSUME NEW b, Ready(b), NEW type \in EventType \ {"START"}, NEW id \in Thread
  PROVE  LET n == NextOutput(b, type, id, <<>>) IN
         /\ Ready(n) /\ n.text = b.text /\ n.open = b.open /\ n.emitted = b.emitted
         /\ Adds(b.outputs, n.outputs, id, <<>>, 0)
<1>1. <<>> \in Text /\ b \in Builder
  BY Kinds DEF Ready
<1> DEFINE n == NextOutput(b, type, id, <<>>)
<1>2. /\ n \in Builder /\ n.text = b.text /\ n.open = b.open /\ n.emitted = b.emitted
      /\ Adds(b.outputs, n.outputs, id, <<>>, 0)
  BY <1>1, NextOutputEffect
<1>. HIDE DEF n
<1>. QED
  BY <1>2 DEF Ready, n

LEMMA UsageEffect ==
  ASSUME NEW b, Ready(b), NEW kind \in UsageKind, NEW empty \in BOOLEAN
  PROVE  LET n == Usage(b, kind, empty) IN
         /\ Ready(n) /\ n.text = b.text /\ n.open = b.open /\ n.emitted = b.emitted
         /\ Adds(b.outputs, n.outputs, kind, <<>>, 0)
<1>1. kind \in Thread /\ "CUSTOM" \in EventType \ {"START"} /\ b.outputs \in Seq(Output)
  BY Kinds DEF Ready, Builder
<1>. QED
  BY <1>1, OutputReady, AddsNothing DEF Usage

LEMMA ToolCallEffect ==
  ASSUME NEW b, Ready(b), NEW named \in BOOLEAN, NEW call \in CallId \cup {NoId},
         call = NoId => b.toolSequence < Len(Generated)
  PROVE  LET n == ToolCall(b, named, call) IN
         /\ Ready(n) /\ n.text = b.text /\ n.open = b.open /\ n.emitted = b.emitted
         /\ \E id \in CallId : Adds(b.outputs, n.outputs, id, <<>>, 0)
<1> DEFINE counted == IF call = NoId THEN [b EXCEPT !.toolSequence = @ + 1] ELSE b
<1> DEFINE id      == IF call = NoId THEN Generated[counted.toolSequence] ELSE call
<1> DEFINE started == NextOutput(counted, "TOOL_START", id, <<>>)
<1> DEFINE args    == NextOutput(started, "TOOL_ARGS", id, <<>>)
<1> DEFINE ended   == NextOutput(args, "TOOL_END", id, <<>>)
<1> DEFINE n       == NextOutput(ended, "TOOL_RESULT", id, <<>>)
<1>1. /\ {"TOOL_START", "TOOL_ARGS", "TOOL_END", "TOOL_RESULT"} \subseteq EventType \ {"START"}
      /\ b \in Builder /\ b.toolSequence \in Nat /\ b.outputs \in Seq(Output)
  BY Kinds DEF Ready, Builder
<1>2. ToolCall(b, named, call) = IF named THEN n ELSE b
  BY DEF ToolCall
<1>3. /\ Ready(counted) /\ counted.text = b.text /\ counted.open = b.open
      /\ counted.emitted = b.emitted /\ counted.outputs = b.outputs
      /\ call = NoId => counted.toolSequence = b.toolSequence + 1
  BY <1>1 DEF Ready, Builder
<1>. HIDE DEF counted
<1>4. CASE ~named
  <2>1. PICK i \in CallId : TRUE
    <3>1. CASE call = NoId
      <4>1. Len(Generated) \in Nat /\ b.toolSequence + 1 \in 1..Len(Generated)
        BY <1>1, <3>1, GeneratedAssumption, LenProperties
      <4>. QED
        BY <4>1, GeneratedAssumption, ElementOfSeq
    <3>. QED
      BY <3>1
  <2>2. Adds(b.outputs, b.outputs, i, <<>>, 0)
    BY <1>1, Kinds, AddsNothing
  <2>. QED
    BY <1>2, <1>4, <2>2
<1>5. CASE named
  <2>1. id \in CallId /\ id \in Thread
    <3>1. CASE call = NoId
      <4>1. Len(Generated) \in Nat /\ counted.toolSequence \in 1..Len(Generated)
        BY <1>1, <1>3, <3>1, GeneratedAssumption, LenProperties
      <4>. QED
        BY <3>1, <4>1, GeneratedAssumption, ElementOfSeq, Kinds
    <3>2. CASE call # NoId
      BY <3>2, Kinds
    <3>. QED
      BY <3>1, <3>2
  <2>. HIDE DEF id
  <2>2. /\ Ready(started) /\ started.text = b.text /\ started.open = b.open
        /\ started.emitted = b.emitted
        /\ Adds(b.outputs, started.outputs, id, <<>>, 0)
    BY <1>1, <1>3, <2>1, OutputReady
  <2>. HIDE DEF started
  <2>3. /\ Ready(args) /\ args.text = b.text /\ args.open = b.open
        /\ args.emitted = b.emitted
        /\ Adds(started.outputs, args.outputs, id, <<>>, 0)
    BY <1>1, <2>1, <2>2, OutputReady
  <2>. HIDE DEF args
  <2>4. /\ Ready(ended) /\ ended.text = b.text /\ ended.open = b.open
        /\ ended.emitted = b.emitted
        /\ Adds(args.outputs, ended.outputs, id, <<>>, 0)
    BY <1>1, <2>1, <2>3, OutputReady
  <2>. HIDE DEF ended
  <2>5. /\ Ready(n) /\ n.text = b.text /\ n.open = b.open
        /\ n.emitted = b.emitted
        /\ Adds(ended.outputs, n.outputs, id, <<>>, 0)
    BY <1>1, <2>1, <2>4, OutputReady
  <2>. HIDE DEF n
  <2>6. <<>> \in Text
    BY Kinds
  <2>7. Adds(b.outputs, args.outputs, id, <<>>, 0)
    BY <2>1, <2>2, <2>3, <2>6, AddsAfterNothing
  <2>8. Adds(b.outputs, ended.outputs, id, <<>>, 0)
    BY <2>1, <2>4, <2>6, <2>7, AddsAfterNothing
  <2>9. Adds(b.outputs, n.outputs, id, <<>>, 0)
    BY <2>1, <2>5, <2>6, <2>8, AddsAfterNothing
  <2>. QED
    BY <1>2, <1>5, <2>1, <2>5, <2>9
<1>. QED
  BY <1>4, <1>5

--------------------------------------------------------------------------------
(* What operations leave alone *)

LEMMA AddsShown ==
  ASSUME NEW s, NEW u, NEW c \in Thread, NEW t, NEW i, Adds(s, u, c, t, i)
  PROVE  /\ Gains(Displayed[s], Displayed[u], c, t, i)
         /\ Displayed[s] \in Display /\ Displayed[u] \in Display
<1>1. /\ s \in Seq(Output) /\ u \in Seq(Output) /\ Len(s) \in Nat /\ 0 \in 0..Len(s)
      /\ Since(s, 0) = Displayed[s] /\ Since(u, 0) = Displayed[u]
  BY SinceProperties, LenProperties DEF Adds
<1>2. Gains(Since(s, 0), Since(u, 0), c, t, i)
  BY <1>1 DEF Adds
<1>. QED
  BY <1>1, <1>2, DisplayedDefined

(* What subscribers show of builder b's outputs.                           *)
Shows(b) == Displayed[b.outputs]

(* From b to n no other channel than c is touched, and no usage is sent.   *)
Touches(b, n, c) ==
  /\ Ready(n)
  /\ \A d \in Channel \ {c} :
       /\ n.text[d] = b.text[d] /\ n.open[d] = b.open[d] /\ n.emitted[d] = b.emitted[d]
       /\ Shows(n)[d] = Shows(b)[d]
  /\ Shows(n)["turn"] = Shows(b)["turn"]

LEMMA AddsTouch ==
  ASSUME NEW b, NEW n, Ready(n), NEW c \in Channel, NEW t, NEW i,
         b.outputs = n.outputs \/ Adds(b.outputs, n.outputs, c, t, i),
         \A d \in Channel \ {c} :
           n.text[d] = b.text[d] /\ n.open[d] = b.open[d] /\ n.emitted[d] = b.emitted[d]
  PROVE  Touches(b, n, c)
<1>1. c \in Thread /\ Channel \subseteq Thread /\ "turn" \in Thread /\ c # "turn"
  BY Kinds
<1>2. CASE b.outputs = n.outputs
  BY <1>2 DEF Touches, Shows
<1>3. CASE Adds(b.outputs, n.outputs, c, t, i)
  <2>1. Gains(Shows(b), Shows(n), c, t, i)
    BY <1>1, <1>3, AddsShown DEF Shows
  <2>2. \A id \in Thread \ {c} : Shows(n)[id] = Shows(b)[id]
    BY <2>1 DEF Gains
  <2>. QED
    BY <1>1, <2>2 DEF Touches
<1>. QED
  BY <1>2, <1>3

LEMMA DeltaTouches ==
  ASSUME NEW b, Ready(b), NEW c \in Channel, NEW t \in Text
  PROVE  Touches(b, AppendDelta(b, c, t), c)
<1> DEFINE n == AppendDelta(b, c, t)
<1>1. /\ Ready(n) /\ n.emitted = b.emitted
      /\ \A d \in Channel \ {c} : n.text[d] = b.text[d] /\ n.open[d] = b.open[d]
      /\ \/ b.outputs = n.outputs
         \/ Adds(b.outputs, n.outputs, c, t, 0)
         \/ Adds(b.outputs, n.outputs, c, t, 1)
  BY AppendDeltaEffect
<1>. HIDE DEF n
<1>2. Touches(b, n, c)
  BY <1>1, AddsTouch
<1>. QED
  BY <1>2 DEF n

LEMMA SyncTouches ==
  ASSUME NEW b, Ready(b), NEW c \in Channel, NEW t \in Text
  PROVE  Touches(b, Sync(b, c, t), c)
<1> DEFINE n == Sync(b, c, t)
<1>1. Syncs(b, n, c, t)
  BY SyncEffect
<1>. HIDE DEF n
<1>2. \/ b.outputs = n.outputs
      \/ \E u \in Text : \/ Adds(b.outputs, n.outputs, c, u, 0)
                         \/ Adds(b.outputs, n.outputs, c, u, 1)
  BY <1>1 DEF Syncs
<1>3. Ready(n) /\ \A d \in Channel \ {c} :
        n.text[d] = b.text[d] /\ n.open[d] = b.open[d] /\ n.emitted[d] = b.emitted[d]
  BY <1>1 DEF Syncs
<1>4. Touches(b, n, c)
  BY <1>2, <1>3, AddsTouch
<1>. QED
  BY <1>4 DEF n

LEMMA EmitTouches ==
  ASSUME NEW b, Ready(b), NEW c \in Channel, NEW t \in Text
  PROVE  /\ Touches(b, EmitResult(b, c, t), c)
         /\ b.emitted[c] \/ ~EmitResult(b, c, t).open[c]
<1> DEFINE n == EmitResult(b, c, t)
<1> DEFINE s == Sync(b, c, t)
<1>1. /\ Ready(n)
      /\ \A d \in Channel \ {c} :
           n.text[d] = b.text[d] /\ n.open[d] = b.open[d] /\ n.emitted[d] = b.emitted[d]
      /\ t = <<>> => /\ Adds(b.outputs, n.outputs, c, <<>>, 0)
                     /\ b.emitted[c] \/ ~n.open[c]
      /\ t # <<>> => \/ n = b /\ (b.emitted[c] \/ ~s.open[c])
                     \/ ~n.open[c] /\ Adds(s.outputs, n.outputs, c, <<>>, 0)
  BY EmitResultEffect
<1>2. Touches(b, s, c) /\ Syncs(b, s, c, t)
  BY SyncTouches, SyncEffect
<1>. HIDE DEF n, s
<1>3. Touches(b, n, c)
  <2>1. CASE t = <<>>
    BY <1>1, <2>1, AddsTouch
  <2>2. CASE n = b
    BY <1>1, <2>2, AddsTouch
  <2>3. CASE t # <<>> /\ n # b
    <3>1. /\ Adds(s.outputs, n.outputs, c, <<>>, 0)
          /\ \A d \in Channel \ {c} :
               n.text[d] = s.text[d] /\ n.open[d] = s.open[d] /\ n.emitted[d] = s.emitted[d]
      BY <1>1, <1>2, <2>3 DEF Touches
    <3>2. Touches(s, n, c)
      BY <1>1, <3>1, AddsTouch
    <3>. QED
      BY <1>2, <3>2 DEF Touches
  <2>. QED
    BY <2>1, <2>2, <2>3
<1>4. b.emitted[c] \/ ~n.open[c]
  <2>1. CASE t # <<>> /\ n = b /\ ~s.open[c]
    BY <1>2, <2>1 DEF Syncs
  <2>. QED
    BY <1>1, <2>1
<1>. QED
  BY <1>3, <1>4 DEF n

(* From b to n no channel is touched.                                      *)
Beside(b, n) ==
  /\ Ready(n) /\ n.text = b.text /\ n.open = b.open /\ n.emitted = b.emitted
  /\ \A c \in Channel : Shows(n)[c] = Shows(b)[c]

LEMMA BesideItself ==
  ASSUME NEW b, Ready(b)
  PROVE  Beside(b, b)
BY DEF Beside

LEMMA BesideTwice ==
  ASSUME NEW b, NEW m, NEW n, Beside(b, m), Beside(m, n)
  PROVE  Beside(b, n)
BY DEF Beside

LEMMA AddsBeside ==
  ASSUME NEW b, NEW n, Ready(n), NEW id \in Thread \ Channel, NEW t, NEW i,
         Adds(b.outputs, n.outputs, id, t, i),
         n.text = b.text, n.open = b.open, n.emitted = b.emitted
  PROVE  /\ Beside(b, n)
         /\ id # "turn" => Shows(n)["turn"] = Shows(b)["turn"]
<1>1. Channel \subseteq Thread /\ "turn" \in Thread
  BY Kinds
<1>2. Gains(Shows(b), Shows(n), id, t, i)
  BY AddsShown DEF Shows
<1>3. \A d \in Thread \ {id} : Shows(n)[d] = Shows(b)[d]
  BY <1>2 DEF Gains
<1>. QED
  BY <1>1, <1>3 DEF Beside

LEMMA ToolCallBeside ==
  ASSUME NEW b, Ready(b), NEW named \in BOOLEAN, NEW call \in CallId
  PROVE  LET n == ToolCall(b, named, call) IN
         Beside(b, n) /\ Shows(n)["turn"] = Shows(b)["turn"]
<1> DEFINE n == ToolCall(b, named, call)
<1>1. call # NoId
  BY CallIdAssumption
<1>2. /\ Ready(n) /\ n.text = b.text /\ n.open = b.open /\ n.emitted = b.emitted
      /\ \E id \in CallId : Adds(b.outputs, n.outputs, id, <<>>, 0)
  BY <1>1, ToolCallEffect
<1>. HIDE DEF n
<1>3. PICK id \in CallId : Adds(b.outputs, n.outputs, id, <<>>, 0)
  BY <1>2
<1>4. id \in Thread \ Channel /\ id # "turn"
  BY Kinds
<1>5. Beside(b, n) /\ Shows(n)["turn"] = Shows(b)["turn"]
  BY <1>2, <1>3, <1>4, AddsBeside
<1>. QED
  BY <1>5 DEF n

(* Usage that counts something is received once more.                      *)
LEMMA UsageBeside ==
  ASSUME NEW b, Ready(b), NEW empty \in BOOLEAN
  PROVE  LET n == Usage(b, "turn", empty) IN
         /\ Beside(b, n)
         /\ ~empty => Shows(n)["turn"].received
                        = Shows(b)["turn"].received + 1
<1> DEFINE n == Usage(b, "turn", empty)
<1>1. /\ "turn" \in UsageKind /\ "turn" \in Thread \ Channel /\ <<>> \in Text
      /\ "CUSTOM" \in EventType
      /\ b.outputs \in Seq(Output) /\ b.sequence + 1 \in Nat
  BY Kinds DEF Ready, Builder
<1>2. /\ Ready(n) /\ n.text = b.text /\ n.open = b.open /\ n.emitted = b.emitted
      /\ Adds(b.outputs, n.outputs, "turn", <<>>, 0)
  BY <1>1, UsageEffect
<1>3. ASSUME ~empty
      PROVE  Shows(n)["turn"].received = Shows(b)["turn"].received + 1
  <2> DEFINE e == [sequence |-> b.sequence + 1, type |-> "CUSTOM", id |-> "turn", delta |-> <<>>]
  <2>1. n.outputs = Append(b.outputs, e)
    BY <1>1, <1>3 DEF Usage, NextOutput, Representable, Ready, Builder
  <2>2. e \in Output
    BY <1>1 DEF Output
  <2>3. Shows(n) = Show(Shows(b), e) /\ Shows(b) \in Display
    BY <1>1, <2>1, <2>2, DisplayedAppend DEF Shows
  <2>. HIDE DEF n
  <2>. QED
    BY <1>1, <2>3 DEF Show, Display
<1>. HIDE DEF n
<1>4. Beside(b, n)
  BY <1>1, <1>2, AddsBeside
<1>. QED
  BY <1>3, <1>4 DEF n
================================================================================
