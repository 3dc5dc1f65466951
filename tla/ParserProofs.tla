----------------------------- MODULE ParserProofs ------------------------------
(***************************************************************************)
(* Proofs about the parsers, for all messages, call ids and bounds.  The   *)
(* invariant of the conversation is stated and proved for the operations   *)
(* of OutputBuilder, and then used for the lines of every parser.          *)
(***************************************************************************)
EXTENDS ClaudeParser, CodexParser, GeminiParser, QwenParser, BuilderProofs,
        InlineThinkingProofs

(* What channel c's message shows while the first turn goes on, when its   *)
(* CLI has told so much of it.                                             *)
Talking(b, c, text, complete, single) ==
  LET shown == Shows(b)[c] IN
  /\ ~b.emitted[c]
  /\ shown.last = b.text[c]
  /\ ~b.open[c] => b.text[c] = <<>> /\ shown.started = 0
  /\ complete[c] => text[c] = b.text[c]
  /\ single[c] => shown.all = text[c] /\ text[c] = b.text[c] /\ shown.started <= 1

(* And when the turn has ended.                                            *)
Told(b, c, text, complete, single) ==
  LET shown == Shows(b)[c] IN
  /\ complete[c] => shown.last = text[c]
  /\ single[c] => shown.all = text[c] /\ shown.started <= 1

TalkInv ==
  /\ Ready(builder)
  /\ told \in [Channel -> Text] /\ whole \in [Channel -> BOOLEAN]
  /\ first \in [Channel -> BOOLEAN] /\ turn \in {"first", "ended", "later"}
  /\ turn = "first" => \A c \in Channel : Talking(builder, c, told, whole, first)
  /\ turn = "ended" => \A c \in Channel : Told(builder, c, told, whole, first)
                                          /\ ~builder.open[c]

(* And no more is shown than was said, but what was restated.              *)
SaidInv ==
  /\ said \in [Channel -> Nat] /\ restated \in [Channel -> Nat]
  /\ turn # "later" => \A c \in Channel :
       Len(Shows(builder)[c].all) <= said[c] + restated[c]

LEMMA TalkInvSuffices ==
  /\ TalkInv /\ SaidInv => SaidOnce
  /\ TalkInv => WholeTextShown /\ EndedClosed
<1> SUFFICES ASSUME TalkInv PROVE (SaidInv => SaidOnce) /\ WholeTextShown /\ EndedClosed
  OBVIOUS
<1>1. turn # "later" => \A c \in Channel : Told(builder, c, told, whole, first)
  BY DEF TalkInv, Talking, Told
<1>. QED
  BY <1>1 DEF TalkInv, SaidInv, SaidOnce, WholeTextShown, EndedClosed, Told, Shown, Shows

--------------------------------------------------------------------------------
(* One channel *)

LEMMA ShownFields ==
  ASSUME NEW b, Ready(b), NEW c \in Channel
  PROVE  /\ Shows(b)[c].all \in Text /\ Shows(b)[c].last \in Text
         /\ Shows(b)[c].started \in Nat
BY Kinds, ReadyFields, DisplayedDefined, DisplayFields DEF Shows

LEMMA BesideTalks ==
  ASSUME NEW c \in Channel, NEW b, NEW n,
         n.text[c] = b.text[c], n.open[c] = b.open[c], n.emitted[c] = b.emitted[c],
         Shows(n)[c] = Shows(b)[c],
         NEW t \in [Channel -> Text],
         NEW w \in [Channel -> BOOLEAN], NEW f \in [Channel -> BOOLEAN],
         NEW T \in [Channel -> Text],
         NEW W \in [Channel -> BOOLEAN], NEW F \in [Channel -> BOOLEAN],
         T[c] = t[c], W[c] = w[c], F[c] = f[c]
  PROVE  /\ Talking(b, c, t, w, f) => Talking(n, c, T, W, F)
         /\ Told(b, c, t, w, f) => Told(n, c, T, W, F)
BY DEF Talking, Told

(* A piece u of the message comes as a delta: all of what is told of it    *)
(* now, or what it adds to what was told.                                  *)
LEMMA DeltaTalks ==
  ASSUME NEW b, Ready(b), NEW c \in Channel, NEW u \in Text,
         NEW t \in [Channel -> Text],
         NEW w \in [Channel -> BOOLEAN], NEW f \in [Channel -> BOOLEAN],
         Talking(b, c, t, w, f),
         NEW T \in [Channel -> Text],
         NEW W \in [Channel -> BOOLEAN], NEW F \in [Channel -> BOOLEAN],
         ~W[c], F[c] => f[c] /\ t[c] \o u = T[c]
  PROVE  Talking(AppendDelta(b, c, u), c, T, W, F)
<1> DEFINE n == AppendDelta(b, c, u)
<1> DEFINE x == Shows(b)[c]
<1> DEFINE y == Shows(n)[c]
<1>1. /\ n.emitted = b.emitted
      /\ n.text[c] = b.text[c] \o u
      /\ u = <<>> => n = b
      /\ u # <<>> => /\ n.open[c]
                     /\ b.open[c] => Adds(b.outputs, n.outputs, c, u, 0)
                     /\ ~b.open[c] => Adds(b.outputs, n.outputs, c, u, 1)
  BY AppendDeltaEffect
<1>2. x.all \in Text /\ x.last \in Text /\ x.started \in Nat /\ c \in Thread
  BY ShownFields, Kinds
<1>3. /\ Adds(b.outputs, n.outputs, c, u, 0) =>
           y.all = x.all \o u /\ y.last = x.last \o u /\ y.started = x.started + 0
      /\ Adds(b.outputs, n.outputs, c, u, 1) =>
           y.all = x.all \o u /\ y.last = u /\ y.started = x.started + 1
  <2>. HIDE DEF n
  <2> DEFINE X == Shows(b)
  <2> DEFINE Y == Shows(n)
  <2>1. /\ Adds(b.outputs, n.outputs, c, u, 0) => Gains(X, Y, c, u, 0)
        /\ Adds(b.outputs, n.outputs, c, u, 1) => Gains(X, Y, c, u, 1)
    BY <1>2, AddsShown DEF Shows
  <2>. HIDE DEF X, Y
  <2>2. /\ Gains(X, Y, c, u, 0) => /\ Y[c].all = X[c].all \o u
                                  /\ Y[c].last = X[c].last \o u
                                  /\ Y[c].started = X[c].started + 0
        /\ Gains(X, Y, c, u, 1) => /\ Y[c].all = X[c].all \o u
                                  /\ Y[c].last = u
                                  /\ Y[c].started = X[c].started + 1
    BY DEF Gains
  <2>. QED
    BY <2>1, <2>2 DEF X, Y
<1>4. /\ ~b.emitted[c] /\ x.last = b.text[c]
      /\ ~b.open[c] => b.text[c] = <<>> /\ x.started = 0
      /\ F[c] => x.all = t[c] /\ t[c] = b.text[c] /\ x.started <= 1
  BY DEF Talking
<1>5. b.text[c] \in Text /\ <<>> \o u = u /\ b.text[c] \o <<>> = b.text[c]
  BY ReadyFields, ConcatEmptySeq DEF Text
<1>. HIDE DEF n, x, y
<1>6. CASE u = <<>>
  <2>1. y = x /\ n = b /\ (F[c] => T[c] = t[c])
    BY <1>1, <1>4, <1>5, <1>6 DEF x, y
  <2>. QED
    BY <1>4, <2>1 DEF Talking, n, x
<1>7. CASE u # <<>> /\ b.open[c]
  <2>1. y.all = x.all \o u /\ y.last = x.last \o u /\ y.started = x.started
    BY <1>1, <1>2, <1>3, <1>7
  <2>2. ~n.emitted[c] /\ n.open[c] /\ y.last = n.text[c]
    BY <1>1, <1>4, <1>7, <2>1
  <2>3. F[c] => y.all = T[c] /\ T[c] = n.text[c] /\ y.started <= 1
    BY <1>1, <1>4, <2>1
  <2>. QED
    BY <2>2, <2>3 DEF Talking, n, y
<1>8. CASE u # <<>> /\ ~b.open[c]
  <2>1. y.all = x.all \o u /\ y.last = u /\ y.started = 1
    BY <1>1, <1>3, <1>4, <1>8
  <2>2. ~n.emitted[c] /\ n.open[c] /\ y.last = n.text[c]
    BY <1>1, <1>4, <1>5, <1>8, <2>1
  <2>3. ASSUME F[c] PROVE y.all = T[c] /\ T[c] = n.text[c] /\ y.started <= 1
    <3>1. x.all = t[c] /\ t[c] = b.text[c] /\ t[c] \o u = T[c]
      BY <1>4, <2>3
    <3>. QED
      BY <1>1, <2>1, <3>1
  <2>. QED
    BY <2>2, <2>3 DEF Talking, n, y
<1>. QED
  BY <1>6, <1>7, <1>8

(* The text told so far is said again, perhaps with more.                  *)
LEMMA SyncTalks ==
  ASSUME NEW b, Ready(b), NEW c \in Channel,
         NEW t \in [Channel -> Text],
         NEW w \in [Channel -> BOOLEAN], NEW f \in [Channel -> BOOLEAN],
         Talking(b, c, t, w, f),
         NEW T \in [Channel -> Text],
         NEW W \in [Channel -> BOOLEAN], NEW F \in [Channel -> BOOLEAN],
         W[c] => T[c] # <<>>, F[c] => f[c] /\ IsPrefix(t[c], T[c])
  PROVE  /\ Talking(Sync(b, c, T[c]), c, T, W, F)
         /\ T[c] # <<>> => Sync(b, c, T[c]).open[c]
<1> DEFINE n == Sync(b, c, T[c])
<1> DEFINE x == Shows(b)[c]
<1> DEFINE y == Shows(n)[c]
<1>1. Syncs(b, n, c, T[c])
  BY SyncEffect
<1>2. x.all \in Text /\ x.last \in Text /\ x.started \in Nat /\ c \in Thread
  BY ShownFields, Kinds
<1>3. /\ b.text[c] \in Text /\ (b.open[c] => b.text[c] # <<>>)
      /\ \A u \in Text : <<>> \o u = u
  BY ReadyFields, ConcatEmptySeq DEF Text
<1>4. /\ ~b.emitted[c] /\ x.last = b.text[c]
      /\ ~b.open[c] => b.text[c] = <<>> /\ x.started = 0
      /\ F[c] => x.all = t[c] /\ t[c] = b.text[c] /\ x.started <= 1
                 /\ IsPrefix(b.text[c], T[c])
  BY DEF Talking
<1>. HIDE DEF n
<1>5. ASSUME NEW u
      PROVE  /\ Adds(b.outputs, n.outputs, c, u, 0) =>
                  y.all = x.all \o u /\ y.last = x.last \o u /\ y.started = x.started + 0
             /\ Adds(b.outputs, n.outputs, c, u, 1) =>
                  y.all = x.all \o u /\ y.last = u /\ y.started = x.started + 1
  <2> DEFINE X == Shows(b)
  <2> DEFINE Y == Shows(n)
  <2>1. /\ Adds(b.outputs, n.outputs, c, u, 0) => Gains(X, Y, c, u, 0)
        /\ Adds(b.outputs, n.outputs, c, u, 1) => Gains(X, Y, c, u, 1)
    BY <1>2, AddsShown DEF Shows
  <2>. HIDE DEF X, Y
  <2>2. /\ Gains(X, Y, c, u, 0) => /\ Y[c].all = X[c].all \o u
                                  /\ Y[c].last = X[c].last \o u
                                  /\ Y[c].started = X[c].started + 0
        /\ Gains(X, Y, c, u, 1) => /\ Y[c].all = X[c].all \o u
                                  /\ Y[c].last = u
                                  /\ Y[c].started = X[c].started + 1
    BY DEF Gains
  <2>. QED
    BY <2>1, <2>2 DEF X, Y
<1>. HIDE DEF x, y
<1>6. CASE T[c] = <<>> \/ T[c] = b.text[c]
  <2>1. n = b /\ y = x
    BY <1>1, <1>6 DEF Syncs, x, y
  <2>2. T[c] = <<>> /\ F[c] => b.text[c] = <<>>
    <3>1. Len(<<>>) = 0 /\ (b.text[c] # <<>> => Len(b.text[c]) \in Nat \ {0})
      BY <1>3, EmptySeq DEF Text
    <3>. QED
      BY <1>4, <3>1 DEF IsPrefix
  <2>3. /\ W[c] => T[c] = b.text[c]
        /\ F[c] => x.all = T[c] /\ T[c] = b.text[c] /\ x.started <= 1
    BY <1>4, <1>6, <2>2
  <2>4. T[c] # <<>> => b.open[c]
    BY <1>4, <1>6
  <2>. QED
    BY <1>4, <2>1, <2>3, <2>4 DEF Talking, n, x
<1>7. CASE T[c] # <<>> /\ T[c] # b.text[c] /\ IsPrefix(b.text[c], T[c])
  <2>1. PICK u \in Text : /\ b.text[c] \o u = T[c]
                          /\ b.open[c] => Adds(b.outputs, n.outputs, c, u, 0)
                          /\ ~b.open[c] => Adds(b.outputs, n.outputs, c, u, 1)
    BY <1>1, <1>7 DEF Syncs
  <2>2. ~n.emitted[c] /\ n.open[c] /\ n.text[c] = T[c]
    BY <1>1, <1>4, <1>7 DEF Syncs
  <2>3. y.last = T[c]
    BY <1>3, <1>4, <1>5, <2>1
  <2>4. ASSUME F[c] PROVE y.all = T[c] /\ y.started <= 1
    <3>1. x.all = b.text[c] /\ x.started <= 1
      BY <1>4, <2>4
    <3>2. CASE b.open[c]
      <4>1. y.all = x.all \o u /\ y.started = x.started + 0
        BY <1>5, <2>1, <3>2
      <4>. QED
        BY <1>2, <2>1, <3>1, <4>1
    <3>3. CASE ~b.open[c]
      <4>1. x.started = 0 /\ y.all = x.all \o u /\ y.started = x.started + 1
        BY <1>4, <1>5, <2>1, <3>3
      <4>. QED
        BY <2>1, <3>1, <4>1
    <3>. QED
      BY <3>2, <3>3
  <2>. QED
    BY <2>2, <2>3, <2>4 DEF Talking, n, y
<1>8. CASE T[c] # <<>> /\ T[c] # b.text[c] /\ ~IsPrefix(b.text[c], T[c])
  <2>1. ~n.emitted[c] /\ n.open[c] /\ n.text[c] = T[c] /\ y.last = T[c] /\ ~F[c]
    BY <1>1, <1>4, <1>5, <1>8 DEF Syncs
  <2>. QED
    BY <2>1 DEF Talking, n, y
<1>. QED
  BY <1>6, <1>7, <1>8

(* A result, with the text of the message or without one, ends it.         *)
LEMMA ResultTells ==
  ASSUME NEW b, Ready(b), NEW c \in Channel, NEW r \in Text,
         NEW t \in [Channel -> Text],
         NEW w \in [Channel -> BOOLEAN], NEW f \in [Channel -> BOOLEAN],
         Talking(b, c, t, w, f),
         NEW T \in [Channel -> Text],
         NEW W \in [Channel -> BOOLEAN], NEW F \in [Channel -> BOOLEAN],
         r = <<>> => T[c] = t[c] /\ (W[c] => w[c]) /\ (F[c] => f[c]),
         r # <<>> => T[c] = r /\ (F[c] => f[c] /\ IsPrefix(t[c], T[c]))
  PROVE  Told(EmitResult(b, c, r), c, T, W, F) /\ ~EmitResult(b, c, r).open[c]
<1> DEFINE n == EmitResult(b, c, r)
<1> DEFINE s == Sync(b, c, r)
<1>1. /\ r = <<>> => Adds(b.outputs, n.outputs, c, <<>>, 0)
      /\ r # <<>> => \/ n = b /\ (b.emitted[c] \/ ~s.open[c])
                     \/ Adds(s.outputs, n.outputs, c, <<>>, 0)
  BY EmitResultEffect
<1>2. ~b.emitted[c] /\ ~n.open[c]
  BY EmitTouches DEF Talking
<1>3. c \in Thread /\ Ready(s)
  BY Kinds, SyncEffect DEF Syncs
<1>. HIDE DEF n, s
<1>4. ASSUME NEW m, Ready(m), Adds(m.outputs, n.outputs, c, <<>>, 0)
      PROVE  /\ Shows(n)[c].all = Shows(m)[c].all
             /\ Shows(n)[c].last = Shows(m)[c].last
             /\ Shows(n)[c].started = Shows(m)[c].started
  <2> DEFINE x == Shows(m)[c]
  <2>1. x.all \o <<>> = x.all /\ x.last \o <<>> = x.last /\ x.started \in Nat
    BY <1>4, ShownFields, ConcatEmptySeq DEF Text
  <2> DEFINE X == Shows(m)
  <2> DEFINE Y == Shows(n)
  <2>2. Gains(X, Y, c, <<>>, 0)
    BY <1>3, <1>4, AddsShown DEF Shows
  <2>3. X[c].all \o <<>> = X[c].all /\ X[c].last \o <<>> = X[c].last /\ X[c].started \in Nat
    BY <2>1
  <2>. HIDE DEF X, Y
  <2>4. Y[c].all = X[c].all /\ Y[c].last = X[c].last /\ Y[c].started = X[c].started
    BY <2>2, <2>3 DEF Gains
  <2>. QED
    BY <2>4 DEF X, Y
<1>5. CASE r = <<>>
  BY <1>1, <1>2, <1>4, <1>5 DEF Talking, Told, n
<1>6. CASE r # <<>>
  <2>1. Talking(s, c, T, W, F) /\ s.open[c]
    BY <1>6, SyncTalks DEF s
  <2>2. Adds(s.outputs, n.outputs, c, <<>>, 0)
    BY <1>1, <1>2, <1>6, <2>1
  <2>. QED
    BY <1>2, <1>3, <1>4, <2>1, <2>2 DEF Talking, Told, n
<1>. QED
  BY <1>5, <1>6

--------------------------------------------------------------------------------
(* Lines *)

LEMMA BeginningsAreTexts ==
  /\ Beginnings \subseteq Text
  /\ Message \subseteq Text \ {<<>>}
<1>1. ASSUME NEW m \in Message PROVE Prefixes(m) \subseteq Text
  <2>1. m \in Text /\ Len(m) \in Nat
    BY MessageAssumption, LenProperties DEF Text
  <2>2. ASSUME NEW n \in 0..Len(m) PROVE SubSeq(m, 1, n) \in Text
    <3>1. \A i \in 1..n : m[i] \in Char
      BY <2>1, ElementOfSeq DEF Text
    <3>. QED
      BY <2>1, <3>1, SubSeqProperties DEF Text
  <2>. QED
    BY <2>2 DEF Prefixes
<1>. QED
  BY <1>1, MessageAssumption DEF Beginnings

LEMMA PieceIsText ==
  ASSUME NEW c \in Channel, told \in [Channel -> Text], NEW t \in Text
  PROVE  Piece(c, t) \in Text
<1>1. Begun(c) \in Text
  BY Kinds DEF Begun
<1>2. Len(Begun(c)) \in Nat
  BY <1>1, LenProperties DEF Text
<1>. QED
  BY <1>2, SubSeqIsText DEF Piece

(* What is remembered of what the CLI says.                                *)
LEMMA SayTyped ==
  ASSUME told \in [Channel -> Text], whole \in [Channel -> BOOLEAN],
         first \in [Channel -> BOOLEAN],
         \/ SayNothing
         \/ \E c \in Channel, t \in Text :
              SayUpTo(c, t) \/ \E another \in BOOLEAN : SayAtOnce(c, t, another)
  PROVE  told' \in [Channel -> Text] /\ whole' \in [Channel -> BOOLEAN]
         /\ first' \in [Channel -> BOOLEAN]
BY DEF SayNothing, history, SayUpTo, SayAtOnce

(* After a line that does not end the turn, and after the one that does.   *)
LEMMA ParseKeeps ==
  ASSUME TalkInv, NEW n, Ready(n), Parse(n),
         told' \in [Channel -> Text], whole' \in [Channel -> BOOLEAN],
         first' \in [Channel -> BOOLEAN],
         turn = "first" => \A c \in Channel : Talking(n, c, told', whole', first')
  PROVE  TalkInv'
<1>1. builder' = n /\ turn' = IF turn = "ended" THEN "later" ELSE turn
  BY DEF Parse, ParseTo
<1>2. turn' = "first" => turn = "first"
  BY <1>1
<1>3. turn' \in {"first", "ended", "later"} /\ turn' # "ended"
  BY <1>1 DEF TalkInv
<1>. QED
  BY <1>1, <1>2, <1>3 DEF TalkInv

LEMMA EndTurnKeeps ==
  ASSUME TalkInv, NEW n, Ready(n), EndTurn(n),
         told' \in [Channel -> Text], whole' \in [Channel -> BOOLEAN],
         first' \in [Channel -> BOOLEAN],
         turn = "first" => \A c \in Channel : Told(n, c, told', whole', first') /\ ~n.open[c]
  PROVE  TalkInv'
<1>1. builder' = n /\ turn' = IF turn = "first" THEN "ended" ELSE "later"
  BY DEF EndTurn, ParseTo
<1>2. turn' = "ended" => turn = "first"
  BY <1>1
<1>3. turn' \in {"first", "ended", "later"} /\ turn' # "first"
  BY <1>1
<1>. QED
  BY <1>1, <1>2, <1>3 DEF TalkInv

(* A delta.                                                                *)
LEMMA DeltaKeeps ==
  ASSUME TalkInv, NEW c \in Channel, NEW t \in Text,
         SayUpTo(c, t), Parse(AppendDelta(builder, c, Piece(c, t)))
  PROVE  TalkInv'
<1> DEFINE u == Piece(c, t)
<1> DEFINE n == AppendDelta(builder, c, u)
<1>1. told' \in [Channel -> Text] /\ whole' \in [Channel -> BOOLEAN]
      /\ first' \in [Channel -> BOOLEAN]
  BY SayTyped DEF TalkInv
<1>2. Ready(builder) /\ u \in Text
  BY PieceIsText DEF TalkInv
<1>3. /\ told'[c] = t /\ ~whole'[c] /\ first'[c] = (first[c] /\ ~whole[c])
      /\ \A d \in Channel \ {c} :
           told'[d] = told[d] /\ whole'[d] = whole[d] /\ first'[d] = first[d]
  BY DEF SayUpTo, TalkInv
<1>4. first'[c] => first[c] /\ told[c] \o u = told'[c]
  <2> SUFFICES ASSUME first'[c] PROVE first[c] /\ told[c] \o u = told'[c]
    OBVIOUS
  <2>1. first[c] /\ Begun(c) = told[c] /\ IsPrefix(told[c], t)
    BY <1>3 DEF SayUpTo, Begun
  <2>2. told[c] \in Text
    BY DEF TalkInv
  <2>. QED
    BY <1>3, <2>1, <2>2, PrefixAndRest DEF Piece
<1>. HIDE DEF u
<1>5. Touches(builder, n, c)
  BY <1>2, DeltaTouches
<1>6. ASSUME turn = "first", NEW d \in Channel
      PROVE  Talking(n, d, told', whole', first')
  <2>1. Talking(builder, d, told, whole, first)
    BY <1>6 DEF TalkInv
  <2>2. CASE d = c
    BY <1>1, <1>2, <1>3, <1>4, <2>1, <2>2, DeltaTalks DEF TalkInv
  <2>3. CASE d # c
    BY <1>1, <1>3, <1>5, <2>1, <2>3, BesideTalks DEF TalkInv, Touches
  <2>. QED
    BY <2>2, <2>3
<1>7. Ready(n)
  BY <1>5 DEF Touches
<1>8. Parse(n)
  BY DEF u
<1>. HIDE DEF n
<1>. QED
  BY <1>1, <1>6, <1>7, <1>8, ParseKeeps

(* A line that repeats the text: of a message going on ...                 *)
LEMMA UpToKeeps ==
  ASSUME TalkInv, NEW c \in Channel, NEW t \in Text,
         SayUpTo(c, t), Parse(Sync(builder, c, t))
  PROVE  TalkInv'
<1> DEFINE n == Sync(builder, c, t)
<1>1. told' \in [Channel -> Text] /\ whole' \in [Channel -> BOOLEAN]
      /\ first' \in [Channel -> BOOLEAN]
  BY SayTyped DEF TalkInv
<1>2. Ready(builder)
  BY DEF TalkInv
<1>3. /\ told'[c] = t /\ ~whole'[c] /\ first'[c] = (first[c] /\ ~whole[c])
      /\ \A d \in Channel \ {c} :
           told'[d] = told[d] /\ whole'[d] = whole[d] /\ first'[d] = first[d]
  BY DEF SayUpTo, TalkInv
<1>4. first'[c] => first[c] /\ IsPrefix(told[c], told'[c])
  BY <1>3 DEF SayUpTo, Begun
<1>5. Touches(builder, n, c)
  BY <1>2, SyncTouches
<1>6. ASSUME turn = "first", NEW d \in Channel
      PROVE  Talking(n, d, told', whole', first')
  <2>1. Talking(builder, d, told, whole, first)
    BY <1>6 DEF TalkInv
  <2>2. CASE d = c
    <3>1. Talking(Sync(builder, c, told'[c]), c, told', whole', first')
      BY <1>1, <1>2, <1>3, <1>4, <2>1, <2>2, SyncTalks DEF TalkInv
    <3>. QED
      BY <1>3, <2>2, <3>1
  <2>3. CASE d # c
    BY <1>1, <1>3, <1>5, <2>1, <2>3, BesideTalks DEF TalkInv, Touches
  <2>. QED
    BY <2>2, <2>3
<1>7. Ready(n)
  BY <1>5 DEF Touches
<1>8. Parse(n)
  OBVIOUS
<1>. HIDE DEF n
<1>. QED
  BY <1>1, <1>6, <1>7, <1>8, ParseKeeps

(* ... or of a whole one; other things may be in the line.                 *)
LEMMA WholeKeeps ==
  ASSUME TalkInv, NEW c \in Channel, NEW t \in Text \ {<<>>}, NEW another \in BOOLEAN,
         SayAtOnce(c, t, another),
         NEW n, Beside(Sync(builder, c, t), n), Parse(n)
  PROVE  TalkInv'
<1> DEFINE s == Sync(builder, c, t)
<1>1. told' \in [Channel -> Text] /\ whole' \in [Channel -> BOOLEAN]
      /\ first' \in [Channel -> BOOLEAN]
  BY SayTyped DEF TalkInv
<1>2. Ready(builder)
  BY DEF TalkInv
<1>3. /\ told'[c] = t /\ first'[c] = (first[c] /\ ~another)
      /\ \A d \in Channel \ {c} :
           told'[d] = told[d] /\ whole'[d] = whole[d] /\ first'[d] = first[d]
  BY DEF SayAtOnce, TalkInv
<1>4. first'[c] => first[c] /\ IsPrefix(told[c], told'[c])
  BY <1>3 DEF SayAtOnce
<1>5. Touches(builder, s, c) /\ Beside(s, n)
  BY <1>2, SyncTouches
<1>6. ASSUME turn = "first", NEW d \in Channel
      PROVE  Talking(n, d, told', whole', first')
  <2>1. Talking(builder, d, told, whole, first)
    BY <1>6 DEF TalkInv
  <2>2. Talking(s, d, told', whole', first')
    <3>1. CASE d = c
      <4>1. told'[c] # <<>>
        BY <1>3
      <4>2. Talking(Sync(builder, c, told'[c]), c, told', whole', first')
        BY <1>1, <1>2, <1>4, <2>1, <3>1, <4>1, SyncTalks DEF TalkInv
      <4>. QED
        BY <1>3, <3>1, <4>2
    <3>2. CASE d # c
      <4>. HIDE DEF s
      <4>. QED
        BY <1>1, <1>3, <1>5, <2>1, <3>2, BesideTalks DEF TalkInv, Touches
    <3>. QED
      BY <3>1, <3>2
  <2>. HIDE DEF s
  <2>. QED
    BY <1>1, <1>5, <2>2, BesideTalks DEF Beside
<1>7. Ready(n)
  BY <1>5 DEF Beside
<1>. QED
  BY <1>1, <1>6, <1>7, ParseKeeps

(* A line that says nothing.                                               *)
LEMMA QuietKeeps ==
  ASSUME TalkInv, SayNothing, NEW n, Beside(builder, n), Parse(n)
  PROVE  TalkInv'
<1>1. /\ told' \in [Channel -> Text] /\ whole' \in [Channel -> BOOLEAN]
      /\ first' \in [Channel -> BOOLEAN]
      /\ told' = told /\ whole' = whole /\ first' = first
  BY SayTyped DEF TalkInv, SayNothing, history
<1>2. ASSUME turn = "first", NEW d \in Channel
      PROVE  Talking(n, d, told', whole', first')
  BY <1>1, <1>2, BesideTalks DEF TalkInv, Beside
<1>3. Ready(n)
  BY DEF Beside
<1>. QED
  BY <1>1, <1>2, <1>3, ParseKeeps

(* The line that ends a turn, with a text or without.                      *)
LEMMA ResultKeeps ==
  ASSUME TalkInv, NEW t \in Text,
         IF t = <<>> THEN SayNothing ELSE SayWhole("assistant", t, FALSE),
         NEW m, Beside(builder, m),
         NEW n, Beside(EmitResult(EmitResult(m, "reasoning", <<>>), "assistant", t), n),
         EndTurn(n)
  PROVE  TalkInv'
<1> DEFINE r == EmitResult(m, "reasoning", <<>>)
<1> DEFINE a == EmitResult(r, "assistant", t)
<1>1. told' \in [Channel -> Text] /\ whole' \in [Channel -> BOOLEAN]
      /\ first' \in [Channel -> BOOLEAN]
  BY SayTyped, Kinds DEF TalkInv, SayWhole
<1>2. /\ Channel = {"assistant", "reasoning"} /\ "assistant" \in Channel
      /\ "reasoning" \in Channel /\ <<>> \in Text /\ Ready(m)
  BY Kinds DEF Beside
<1>3. /\ told'["reasoning"] = told["reasoning"]
      /\ whole'["reasoning"] = whole["reasoning"]
      /\ first'["reasoning"] = first["reasoning"]
      /\ t = <<>> => told' = told /\ whole' = whole /\ first' = first
      /\ t # <<>> => /\ told'["assistant"] = t
                     /\ first'["assistant"] => first["assistant"]
                          /\ IsPrefix(told["assistant"], told'["assistant"])
  BY <1>2 DEF SayWhole, SayAtOnce, SayNothing, history, TalkInv
<1>4. Touches(m, r, "reasoning")
  BY <1>2, EmitTouches
<1>5. Touches(r, a, "assistant")
  <2>1. Ready(r)
    BY <1>4 DEF Touches
  <2>. HIDE DEF r
  <2>. QED
    BY <1>2, <2>1, EmitTouches
<1>6. Ready(n)
  BY DEF Beside
<1>7. ASSUME turn = "first"
      PROVE  \A c \in Channel : Told(n, c, told', whole', first') /\ ~n.open[c]
  <2>1. \A c \in Channel : Talking(m, c, told, whole, first)
    BY <1>7, BesideTalks DEF TalkInv, Beside
  <2>2. Told(r, "reasoning", told', whole', first') /\ ~r.open["reasoning"]
    BY <1>1, <1>2, <1>3, <2>1, ResultTells DEF TalkInv
  <2>. HIDE DEF r
  <2>3. Talking(r, "assistant", told, whole, first) /\ Ready(r)
    BY <1>2, <1>4, <2>1, BesideTalks DEF Touches, TalkInv
  <2>4. Told(a, "assistant", told', whole', first') /\ ~a.open["assistant"]
    BY <1>1, <1>2, <1>3, <2>3, ResultTells DEF TalkInv
  <2>. HIDE DEF a
  <2>5. Told(a, "reasoning", told', whole', first') /\ ~a.open["reasoning"]
    BY <1>1, <1>2, <1>5, <2>2, BesideTalks DEF Touches
  <2>6. Beside(a, n)
    BY DEF a, r
  <2>7. \A c \in Channel : Told(a, c, told', whole', first') /\ ~a.open[c]
    BY <1>2, <2>4, <2>5
  <2>. QED
    BY <1>1, <2>6, <2>7, BesideTalks DEF Beside
<1>. QED
  BY <1>1, <1>6, <1>7, EndTurnKeeps

LEMMA StandStill ==
  ASSUME TalkInv, UNCHANGED vars
  PROVE  TalkInv'
BY DEF TalkInv, vars, history

LEMMA TalkInitInv == TalkInit => TalkInv
<1> SUFFICES ASSUME TalkInit PROVE TalkInv
  OBVIOUS
<1>1. <<>> \in Text /\ <<>> \in Seq(Output)
  BY DEF Text
<1>2. NewBuilder \in Builder
  BY <1>1 DEF NewBuilder, Builder
<1>3. Ready(builder)
  BY <1>2 DEF TalkInit, NewBuilder, Ready
<1>4. ASSUME NEW c \in Channel
      PROVE  Talking(builder, c, told, whole, first)
  <2>1. c \in Thread /\ builder.outputs = <<>>
    BY Kinds DEF TalkInit, NewBuilder
  <2>2. Shows(builder)[c] = [received |-> 0, started |-> 0, all |-> <<>>, last |-> <<>>]
    BY <2>1, DisplayedAppend DEF Shows, EmptyDisplay
  <2>. QED
    BY <2>2 DEF TalkInit, NewBuilder, Talking
<1>. QED
  BY <1>1, <1>3, <1>4 DEF TalkInit, TalkInv

--------------------------------------------------------------------------------
(* How much is shown *)

LEMMA AddsLength ==
  ASSUME NEW b, Ready(b), NEW n, NEW c \in Channel, NEW u \in Text,
         Adds(b.outputs, n.outputs, c, u, 0) \/ Adds(b.outputs, n.outputs, c, u, 1)
  PROVE  Len(Shows(n)[c].all) = Len(Shows(b)[c].all) + Len(u)
<1> DEFINE X == Shows(b)
<1> DEFINE Y == Shows(n)
<1>1. X[c].all \in Text /\ c \in Thread
  BY ShownFields, Kinds
<1>2. Gains(X, Y, c, u, 0) \/ Gains(X, Y, c, u, 1)
  BY <1>1, AddsShown DEF Shows
<1>3. Y[c].all = X[c].all \o u
  <2>. HIDE DEF X, Y
  <2>. QED
    BY <1>2 DEF Gains
<1>. HIDE DEF X, Y
<1>4. Len(Y[c].all) = Len(X[c].all) + Len(u)
  BY <1>1, <1>3, ConcatProperties DEF Text
<1>. QED
  BY <1>4 DEF X, Y

LEMMA ShownLength ==
  ASSUME NEW b, Ready(b), NEW c \in Channel
  PROVE  Len(Shows(b)[c].all) \in Nat /\ Len(b.text[c]) \in Nat
BY ShownFields, ReadyFields, LenProperties DEF Text

(* A delta is shown in full.                                               *)
LEMMA DeltaLength ==
  ASSUME NEW b, Ready(b), NEW c \in Channel, NEW u \in Text
  PROVE  Len(Shows(AppendDelta(b, c, u))[c].all) = Len(Shows(b)[c].all) + Len(u)
<1> DEFINE n == AppendDelta(b, c, u)
<1>1. /\ u = <<>> => n = b
      /\ u # <<>> => /\ b.open[c] => Adds(b.outputs, n.outputs, c, u, 0)
                     /\ ~b.open[c] => Adds(b.outputs, n.outputs, c, u, 1)
  BY AppendDeltaEffect
<1>. HIDE DEF n
<1>2. Len(Shows(b)[c].all) \in Nat /\ Len(<<>>) = 0
  BY ShownLength, EmptySeq
<1>. QED
  BY <1>1, <1>2, AddsLength DEF n

(* Of a repeated text no more than all of it is shown, and no more than    *)
(* the rest when it continues the text so far.                             *)
LEMMA SyncLength ==
  ASSUME NEW b, Ready(b), NEW c \in Channel, NEW t \in Text
  PROVE  LET n == Sync(b, c, t) IN
         /\ Len(Shows(n)[c].all) <= Len(Shows(b)[c].all) + Len(t)
         /\ IsPrefix(b.text[c], t) =>
              Len(Shows(n)[c].all) <= Len(Shows(b)[c].all) + Len(t) - Len(b.text[c])
<1> DEFINE n == Sync(b, c, t)
<1> DEFINE x == Len(Shows(b)[c].all)
<1> DEFINE y == Len(Shows(n)[c].all)
<1>1. Syncs(b, n, c, t)
  BY SyncEffect
<1>. HIDE DEF n
<1>2. /\ x \in Nat /\ Len(b.text[c]) \in Nat /\ Len(t) \in Nat /\ b.text[c] \in Text
  BY ShownLength, ReadyFields, LenProperties DEF Text
<1>3. \A u \in Text : \/ Adds(b.outputs, n.outputs, c, u, 0)
                      \/ Adds(b.outputs, n.outputs, c, u, 1) => y = x + Len(u)
  BY AddsLength
<1>4. CASE t = <<>> \/ t = b.text[c]
  <2>1. y = x
    BY <1>1, <1>4 DEF Syncs
  <2>2. IsPrefix(b.text[c], t) => Len(b.text[c]) <= Len(t)
    BY DEF IsPrefix
  <2>. HIDE DEF x, y
  <2>. QED
    BY <1>2, <2>1, <2>2 DEF n, x, y
<1>5. CASE t # <<>> /\ t # b.text[c] /\ IsPrefix(b.text[c], t)
  <2>1. PICK u \in Text : /\ b.text[c] \o u = t
                          /\ \/ Adds(b.outputs, n.outputs, c, u, 0)
                             \/ Adds(b.outputs, n.outputs, c, u, 1)
    BY <1>1, <1>5, ReadyFields DEF Syncs
  <2>2. Len(t) = Len(b.text[c]) + Len(u) /\ Len(u) \in Nat
    BY <1>2, <2>1, ConcatProperties, LenProperties DEF Text
  <2>3. y = x + Len(u)
    BY <2>1, AddsLength
  <2>. HIDE DEF x, y
  <2>4. y <= x + Len(t) /\ y <= x + Len(t) - Len(b.text[c])
    BY <1>2, <2>2, <2>3
  <2>. QED
    BY <2>4 DEF n, x, y
<1>6. CASE t # <<>> /\ t # b.text[c] /\ ~IsPrefix(b.text[c], t)
  <2>1. Adds(b.outputs, n.outputs, c, t, 1)
    BY <1>1, <1>6 DEF Syncs
  <2>2. y = x + Len(t)
    BY <2>1, AddsLength
  <2>. HIDE DEF x, y
  <2>3. y <= x + Len(t)
    BY <1>2, <2>2
  <2>. QED
    BY <1>6, <2>3 DEF n, x, y
<1>. QED
  BY <1>4, <1>5, <1>6

(* A result shows no more than a line with the same text.                  *)
LEMMA EmitLength ==
  ASSUME NEW b, Ready(b), NEW c \in Channel, NEW t \in Text
  PROVE  LET n == EmitResult(b, c, t) IN
         /\ t = <<>> => Len(Shows(n)[c].all) = Len(Shows(b)[c].all)
         /\ t # <<>> => \/ Len(Shows(n)[c].all) = Len(Shows(b)[c].all)
                        \/ Len(Shows(n)[c].all) = Len(Shows(Sync(b, c, t))[c].all)
<1> DEFINE n == EmitResult(b, c, t)
<1> DEFINE s == Sync(b, c, t)
<1>1. /\ t = <<>> => Adds(b.outputs, n.outputs, c, <<>>, 0)
      /\ t # <<>> => n = b \/ Adds(s.outputs, n.outputs, c, <<>>, 0)
  BY EmitResultEffect
<1>2. Ready(s) /\ <<>> \in Text /\ Len(<<>>) = 0
  BY SyncTouches, Kinds, EmptySeq DEF Touches
<1>3. ASSUME NEW m, Ready(m), Adds(m.outputs, n.outputs, c, <<>>, 0)
      PROVE  Len(Shows(n)[c].all) = Len(Shows(m)[c].all)
  <2>. HIDE DEF n
  <2>1. Len(Shows(m)[c].all) \in Nat
    BY <1>3, ShownLength
  <2>2. Len(Shows(n)[c].all) = Len(Shows(m)[c].all) + Len(<<>>)
    BY <1>2, <1>3, AddsLength
  <2>. QED
    BY <1>2, <2>1, <2>2
<1>. HIDE DEF n, s
<1>4. CASE t = <<>>
  BY <1>1, <1>3, <1>4 DEF n
<1>5. CASE t # <<>>
  BY <1>1, <1>2, <1>3, <1>5 DEF n, s
<1>. QED
  BY <1>4, <1>5

LEMMA SaidInitInv == TalkInit => SaidInv
<1> SUFFICES ASSUME TalkInit, NEW c \in Channel PROVE Len(Shows(builder)[c].all) <= 0
  BY DEF TalkInit, SaidInv
<1>1. c \in Thread /\ builder.outputs = <<>> /\ Len(<<>>) = 0
  BY Kinds, EmptySeq DEF TalkInit, NewBuilder
<1>2. Shows(builder)[c].all = <<>>
  BY <1>1, DisplayedAppend DEF Shows, EmptyDisplay
<1>. QED
  BY <1>1, <1>2

LEMMA SaidStill ==
  ASSUME SaidInv, UNCHANGED vars
  PROVE  SaidInv'
BY DEF SaidInv, vars, history

(* After any line.                                                         *)
LEMMA SaidParses ==
  ASSUME TalkInv, SaidInv, NEW n, Parse(n) \/ EndTurn(n),
         said' \in [Channel -> Nat], restated' \in [Channel -> Nat],
         turn = "first" => \A c \in Channel :
           Len(Shows(n)[c].all) <= said'[c] + restated'[c]
  PROVE  SaidInv'
<1>1. builder' = n /\ (turn' # "later" => turn = "first")
  BY DEF Parse, EndTurn, ParseTo, TalkInv
<1>. QED
  BY <1>1 DEF SaidInv

(* A delta, ...                                                            *)
LEMMA SaidDelta ==
  ASSUME TalkInv, SaidInv, NEW c \in Channel, NEW t \in Text,
         SayUpTo(c, t), Parse(AppendDelta(builder, c, Piece(c, t)))
  PROVE  SaidInv'
<1> DEFINE u == Piece(c, t)
<1> DEFINE n == AppendDelta(builder, c, u)
<1>1. Ready(builder) /\ u \in Text
  BY PieceIsText DEF TalkInv
<1>2. Len(u) \in Nat
  BY <1>1, LenProperties DEF Text
<1>3. /\ said' \in [Channel -> Nat] /\ restated' \in [Channel -> Nat]
      /\ said'[c] = said[c] + Len(u) /\ restated' = restated
      /\ \A d \in Channel \ {c} : said'[d] = said[d]
  BY <1>2 DEF SayUpTo, SaidInv
<1>4. Parse(n)
  OBVIOUS
<1>. HIDE DEF u
<1>5. /\ Len(Shows(n)[c].all) = Len(Shows(builder)[c].all) + Len(u)
      /\ Touches(builder, n, c)
  BY <1>1, DeltaLength, DeltaTouches
<1>. HIDE DEF n
<1>6. ASSUME turn = "first", NEW d \in Channel
      PROVE  Len(Shows(n)[d].all) <= said'[d] + restated'[d]
  <2>1. /\ Len(Shows(builder)[d].all) <= said[d] + restated[d]
        /\ Len(Shows(builder)[d].all) \in Nat /\ said[d] \in Nat /\ restated[d] \in Nat
    BY <1>1, <1>6, ShownLength DEF SaidInv
  <2>2. CASE d = c
    BY <1>2, <1>3, <1>5, <2>1, <2>2
  <2>3. CASE d # c
    BY <1>3, <1>5, <2>1, <2>3 DEF Touches
  <2>. QED
    BY <2>2, <2>3
<1>. QED
  BY <1>3, <1>4, <1>6, SaidParses

(* ... a line that says nothing, ...                                       *)
LEMMA SaidQuiet ==
  ASSUME TalkInv, SaidInv, SayNothing, NEW n, Beside(builder, n), Parse(n)
  PROVE  SaidInv'
<1>1. said' = said /\ restated' = restated
  BY DEF SayNothing, history
<1>2. turn = "first" => \A c \in Channel : Len(Shows(n)[c].all) <= said'[c] + restated'[c]
  BY <1>1 DEF SaidInv, Beside
<1>. QED
  BY <1>1, <1>2, SaidParses DEF SaidInv

(* ... and a whole text, which adds no more to what is shown than to what  *)
(* was said and restated.                                                  *)
LEMMA WholeSaid ==
  ASSUME TalkInv, SaidInv, NEW c \in Channel, NEW t \in Text, NEW another \in BOOLEAN,
         SayWhole(c, t, another)
  PROVE  /\ said' \in [Channel -> Nat] /\ restated' \in [Channel -> Nat]
         /\ said[c] <= said'[c] /\ restated[c] <= restated'[c]
         /\ \A d \in Channel \ {c} : said'[d] = said[d] /\ restated'[d] = restated[d]
         /\ \A b : /\ turn = "first" /\ Ready(b)
                   /\ b.text[c] = builder.text[c] /\ Shows(b)[c] = Shows(builder)[c]
                   => Len(Shows(Sync(b, c, t))[c].all) <= said'[c] + restated'[c]
<1> DEFINE old == IF another THEN 0 ELSE Len(told[c])
<1> DEFINE more == IF another \/ whole[c] \/ first[c] THEN 0 ELSE Len(told[c])
<1>1. /\ told[c] \in Text /\ said[c] \in Nat /\ restated[c] \in Nat
      /\ Len(told[c]) \in Nat /\ Len(t) \in Nat
  BY LenProperties DEF TalkInv, SaidInv, Text
<1>2. ~another => IsPrefix(told[c], t) /\ Len(told[c]) <= Len(t)
  BY DEF SayWhole, SayAtOnce, IsPrefix
<1>3. /\ said' = [said EXCEPT ![c] = @ + Len(t) - old]
      /\ restated' = [restated EXCEPT ![c] = @ + more]
  BY DEF SayWhole, SayAtOnce
<1>4. old \in Nat /\ more \in Nat /\ old <= Len(t)
  BY <1>1, <1>2
<1>. HIDE DEF old, more
<1>5. /\ said'[c] = said[c] + Len(t) - old /\ restated'[c] = restated[c] + more
      /\ \A d \in Channel \ {c} : said'[d] = said[d] /\ restated'[d] = restated[d]
      /\ said[c] + Len(t) - old \in Nat /\ restated[c] + more \in Nat
      /\ said' \in [Channel -> Nat] /\ restated' \in [Channel -> Nat]
  BY <1>1, <1>3, <1>4 DEF SaidInv
<1>6. ASSUME turn = "first", NEW b, Ready(b), b.text[c] = builder.text[c],
             Shows(b)[c] = Shows(builder)[c]
      PROVE  Len(Shows(Sync(b, c, t))[c].all) <= said'[c] + restated'[c]
  <2> DEFINE x == Len(Shows(builder)[c].all)
  <2> DEFINE y == Len(Shows(Sync(b, c, t))[c].all)
  <2>1. x <= said[c] + restated[c] /\ x \in Nat
    BY <1>6, ShownLength DEF SaidInv, TalkInv
  <2>2. /\ y <= x + Len(t)
        /\ IsPrefix(builder.text[c], t) => y <= x + Len(t) - Len(builder.text[c])
    BY <1>6, SyncLength
  <2>3. Ready(Sync(b, c, t))
    BY <1>6, SyncTouches DEF Touches
  <2>4. y \in Nat
    BY <2>3, ShownLength
  <2>5. whole[c] \/ first[c] => told[c] = builder.text[c]
    BY <1>6 DEF TalkInv, Talking
  <2>. HIDE DEF x, y
  <2>6. CASE another \/ ~(whole[c] \/ first[c])
    <3>1. more = old
      BY <2>6 DEF more, old
    <3>2. y <= (said[c] + Len(t) - old) + (restated[c] + more)
      BY <1>1, <1>4, <2>1, <2>2, <2>4, <3>1
    <3>. QED
      BY <1>5, <3>2 DEF y
  <2>7. CASE ~another /\ (whole[c] \/ first[c])
    <3>1. more = 0 /\ old = Len(told[c]) /\ y <= x + Len(t) - Len(told[c])
      BY <1>2, <2>2, <2>5, <2>7 DEF more, old
    <3>2. y <= (said[c] + Len(t) - old) + (restated[c] + more)
      BY <1>1, <1>4, <2>1, <2>4, <3>1
    <3>. QED
      BY <1>5, <3>2 DEF y
  <2>. QED
    BY <2>6, <2>7
<1>. QED
  BY <1>1, <1>4, <1>5, <1>6

LEMMA SaidWhole ==
  ASSUME TalkInv, SaidInv, NEW c \in Channel, NEW t \in Text, NEW another \in BOOLEAN,
         SayWhole(c, t, another),
         NEW n, Beside(Sync(builder, c, t), n), Parse(n)
  PROVE  SaidInv'
<1>1. /\ said' \in [Channel -> Nat] /\ restated' \in [Channel -> Nat] /\ Ready(builder)
      /\ \A d \in Channel \ {c} : said'[d] = said[d] /\ restated'[d] = restated[d]
  BY WholeSaid DEF TalkInv
<1>2. ASSUME turn = "first", NEW d \in Channel
      PROVE  Len(Shows(n)[d].all) <= said'[d] + restated'[d]
  <2>1. Shows(n)[d] = Shows(Sync(builder, c, t))[d]
    BY DEF Beside
  <2>2. CASE d = c
    <3>1. Len(Shows(Sync(builder, c, t))[c].all) <= said'[c] + restated'[c]
      BY <1>1, <1>2, WholeSaid
    <3>. QED
      BY <2>1, <2>2, <3>1
  <2>3. CASE d # c
    <3>1. Shows(Sync(builder, c, t))[d] = Shows(builder)[d]
      BY <1>1, <2>3, SyncTouches DEF Touches
    <3>. QED
      BY <1>1, <1>2, <2>1, <2>3, <3>1 DEF SaidInv
  <2>. QED
    BY <2>2, <2>3
<1>. QED
  BY <1>1, <1>2, SaidParses

(* The line that ends a turn says no more than its text.                   *)
LEMMA SaidResult ==
  ASSUME TalkInv, SaidInv, NEW t \in Text,
         IF t = <<>> THEN SayNothing ELSE SayWhole("assistant", t, FALSE),
         NEW m, Beside(builder, m),
         NEW n, Beside(EmitResult(EmitResult(m, "reasoning", <<>>), "assistant", t), n),
         EndTurn(n)
  PROVE  SaidInv'
<1> DEFINE r == EmitResult(m, "reasoning", <<>>)
<1> DEFINE a == EmitResult(r, "assistant", t)
<1>1. /\ Channel = {"assistant", "reasoning"} /\ "assistant" \in Channel
      /\ "reasoning" \in Channel /\ <<>> \in Text /\ Ready(m) /\ FALSE \in BOOLEAN
  BY Kinds DEF Beside
<1>2. /\ said' \in [Channel -> Nat] /\ restated' \in [Channel -> Nat]
      /\ said'["reasoning"] = said["reasoning"]
      /\ restated'["reasoning"] = restated["reasoning"]
      /\ said["assistant"] <= said'["assistant"]
      /\ restated["assistant"] <= restated'["assistant"]
  <2>1. CASE t = <<>>
    BY <1>1, <2>1 DEF SayNothing, history, SaidInv
  <2>2. CASE t # <<>>
    BY <1>1, <2>2, WholeSaid
  <2>. QED
    BY <2>1, <2>2
<1>3. /\ Touches(m, r, "reasoning")
      /\ Len(Shows(r)["reasoning"].all) = Len(Shows(m)["reasoning"].all)
  BY <1>1, EmitTouches, EmitLength
<1>4. /\ Ready(r) /\ r.text["assistant"] = builder.text["assistant"]
      /\ Shows(r)["assistant"] = Shows(builder)["assistant"]
      /\ Len(Shows(r)["reasoning"].all) = Len(Shows(builder)["reasoning"].all)
  <2>. HIDE DEF r
  <2>. QED
    BY <1>1, <1>3 DEF Touches, Beside
<1>. HIDE DEF r
<1>5. /\ Touches(r, a, "assistant")
      /\ t = <<>> => Len(Shows(a)["assistant"].all) = Len(Shows(r)["assistant"].all)
      /\ t # <<>> => \/ Len(Shows(a)["assistant"].all) = Len(Shows(r)["assistant"].all)
                     \/ Len(Shows(a)["assistant"].all)
                          = Len(Shows(Sync(r, "assistant", t))["assistant"].all)
  BY <1>1, <1>4, EmitTouches, EmitLength
<1>6. \A d \in Channel : Shows(n)[d] = Shows(a)[d]
  BY DEF Beside, a, r
<1>. HIDE DEF a
<1>7. ASSUME turn = "first", NEW d \in Channel
      PROVE  Len(Shows(n)[d].all) <= said'[d] + restated'[d]
  <2>1. /\ Len(Shows(builder)[d].all) <= said[d] + restated[d]
        /\ Len(Shows(builder)[d].all) \in Nat /\ said[d] \in Nat /\ restated[d] \in Nat
        /\ said'[d] \in Nat /\ restated'[d] \in Nat
    BY <1>2, <1>7, ShownLength DEF SaidInv, TalkInv
  <2>2. CASE d = "reasoning"
    <3>1. Shows(a)[d] = Shows(r)[d]
      BY <1>1, <1>5, <2>2 DEF Touches
    <3>. QED
      BY <1>2, <1>4, <1>6, <2>1, <2>2, <3>1
  <2>3. CASE d = "assistant"
    <3>1. CASE Len(Shows(a)[d].all) = Len(Shows(r)[d].all)
      BY <1>2, <1>4, <1>6, <2>1, <2>3, <3>1
    <3>2. CASE t # <<>> /\ Len(Shows(a)[d].all) = Len(Shows(Sync(r, d, t))[d].all)
      <4>1. Len(Shows(Sync(r, d, t))[d].all) <= said'[d] + restated'[d]
        BY <1>1, <1>4, <1>7, <2>3, <3>2, WholeSaid
      <4>. QED
        BY <1>6, <3>2, <4>1
    <3>. QED
      BY <1>5, <2>3, <3>1, <3>2
  <2>. QED
    BY <1>1, <2>2, <2>3
<1>. QED
  BY <1>2, <1>7, SaidParses

--------------------------------------------------------------------------------
(* Codex *)

LEMMA FinalizedLine ==
  ASSUME TalkInv, SayNothing, NEW counts \in BOOLEAN,
         EndTurn(Finalize(Usage(builder, "turn", ~counts)))
  PROVE  TalkInv'
<1> DEFINE m == Usage(builder, "turn", ~counts)
<1> DEFINE n == EmitResult(EmitResult(m, "reasoning", <<>>), "assistant", <<>>)
<1>1. Beside(builder, m)
  BY UsageBeside DEF TalkInv
<1>. HIDE DEF m
<1>2. Ready(m) /\ {"assistant", "reasoning"} \subseteq Channel /\ <<>> \in Text
  BY <1>1, Kinds DEF Beside
<1>3. Ready(EmitResult(m, "reasoning", <<>>))
  BY <1>2, EmitTouches DEF Touches
<1>4. Ready(n)
  BY <1>2, <1>3, EmitTouches DEF Touches
<1>5. Beside(n, n)
  BY <1>4, BesideItself
<1>6. EndTurn(n)
  BY DEF Finalize, m
<1>. QED
  BY <1>1, <1>2, <1>5, <1>6, ResultKeeps

LEMMA SaidFinalized ==
  ASSUME TalkInv, SaidInv, SayNothing, NEW counts \in BOOLEAN,
         EndTurn(Finalize(Usage(builder, "turn", ~counts)))
  PROVE  SaidInv'
<1> DEFINE m == Usage(builder, "turn", ~counts)
<1> DEFINE n == EmitResult(EmitResult(m, "reasoning", <<>>), "assistant", <<>>)
<1>1. Beside(builder, m)
  BY UsageBeside DEF TalkInv
<1>. HIDE DEF m
<1>2. Ready(m) /\ {"assistant", "reasoning"} \subseteq Channel /\ <<>> \in Text
  BY <1>1, Kinds DEF Beside
<1>3. Ready(EmitResult(m, "reasoning", <<>>))
  BY <1>2, EmitTouches DEF Touches
<1>4. Ready(n)
  BY <1>2, <1>3, EmitTouches DEF Touches
<1>5. Beside(n, n)
  BY <1>4, BesideItself
<1>6. EndTurn(n)
  BY DEF Finalize, m
<1>. QED
  BY <1>1, <1>2, <1>5, <1>6, SaidResult

LEMMA ToolLineKeeps ==
  ASSUME TalkInv, SayNothing, NEW named \in BOOLEAN, NEW call \in CallId,
         Parse(ToolCall(builder, named, call))
  PROVE  TalkInv'
<1>1. Beside(builder, ToolCall(builder, named, call))
  BY ToolCallBeside DEF TalkInv
<1>. QED
  BY <1>1, QuietKeeps

(* A whole text that comes alone.                                          *)
LEMMA WholeAlone ==
  ASSUME TalkInv, NEW c \in Channel, NEW t \in Message, NEW another \in BOOLEAN,
         SayAtOnce(c, t, another), Parse(Sync(builder, c, t))
  PROVE  TalkInv'
<1>1. t \in Text \ {<<>>}
  BY BeginningsAreTexts
<1>2. Ready(Sync(builder, c, t))
  BY <1>1, SyncTouches DEF Touches, TalkInv
<1>3. Beside(Sync(builder, c, t), Sync(builder, c, t))
  BY <1>2, BesideItself
<1>. QED
  BY <1>1, <1>3, WholeKeeps

LEMMA CodexKeeps == TalkInv /\ [CodexNext]_vars => TalkInv'
<1> SUFFICES ASSUME TalkInv, [CodexNext]_vars PROVE TalkInv'
  OBVIOUS
<1>1. CASE ItemUpdated
  BY <1>1, BeginningsAreTexts, UpToKeeps DEF ItemUpdated, ItemText
<1>2. CASE ItemCompleted
  BY <1>2, WholeAlone DEF ItemCompleted, ItemText
<1>3. CASE ToolItem
  BY <1>3, ToolLineKeeps DEF ToolItem
<1>4. CASE CompleteTurn
  BY <1>4, FinalizedLine DEF CompleteTurn, TurnCompleted
<1>5. CASE UNCHANGED vars
  BY <1>5, StandStill
<1>. QED
  BY <1>1, <1>2, <1>3, <1>4, <1>5 DEF CodexNext

(* Items are no deltas: what was told of one is the text it is compared    *)
(* with, so that nothing is restated.                                      *)
Recalled ==
  turn = "first" =>
    \A c \in Channel : told[c] # <<>> => builder.text[c] = told[c]

CodexInv == TalkInv /\ SaidInv /\ Recalled

LEMMA SyncedText ==
  ASSUME NEW b, Ready(b), NEW c \in Channel, NEW t \in Text, t # <<>>
  PROVE  Sync(b, c, t).text[c] = t
BY SyncEffect DEF Syncs

(* An item of which p was told, which it continues, is said up to t.       *)
LEMMA ItemLength ==
  ASSUME CodexInv, turn = "first", NEW c \in Channel, NEW t \in Text,
         NEW p \in {<<>>, told[c]}, IsPrefix(p, t)
  PROVE  /\ Len(Shows(Sync(builder, c, t))[c].all)
              <= (said[c] + Len(t) - Len(p)) + restated[c]
         /\ Len(p) \in Nat /\ Len(p) <= Len(t)
<1> DEFINE x == Len(Shows(builder)[c].all)
<1> DEFINE y == Len(Shows(Sync(builder, c, t))[c].all)
<1>1. /\ Ready(builder) /\ told[c] \in Text /\ said[c] \in Nat /\ restated[c] \in Nat
      /\ x <= said[c] + restated[c]
  BY DEF CodexInv, TalkInv, SaidInv
<1>2. /\ x \in Nat /\ Len(t) \in Nat /\ Len(p) \in Nat /\ Len(p) <= Len(t)
      /\ Len(<<>>) = 0
  <2>1. p \in Text
    BY <1>1, Kinds
  <2>. QED
    BY <1>1, <2>1, ShownLength, LenProperties, EmptySeq DEF Text, IsPrefix
<1>3. Ready(Sync(builder, c, t))
  BY <1>1, SyncTouches DEF Touches
<1>4. y \in Nat
  BY <1>3, ShownLength
<1>5. /\ y <= x + Len(t)
      /\ IsPrefix(builder.text[c], t) => y <= x + Len(t) - Len(builder.text[c])
  BY <1>1, SyncLength
<1>6. y <= x + Len(t) - Len(p)
  <2>1. CASE p = <<>>
    <3>. HIDE DEF x, y
    <3>. QED
      BY <1>2, <1>5, <2>1
  <2>2. CASE p # <<>>
    <3>1. builder.text[c] = p
      BY <2>2 DEF CodexInv, Recalled
    <3>. QED
      BY <1>5, <3>1
  <2>. QED
    BY <2>1, <2>2
<1>. HIDE DEF x, y
<1>7. y <= (said[c] + Len(t) - Len(p)) + restated[c]
  BY <1>1, <1>2, <1>4, <1>6 DEF x
<1>. QED
  BY <1>2, <1>7 DEF y

LEMMA ItemSaid ==
  ASSUME CodexInv, NEW c \in Channel, NEW t \in Text, NEW p \in {<<>>, told[c]},
         IsPrefix(p, t), Parse(Sync(builder, c, t)),
         told' = [told EXCEPT ![c] = t],
         said' = [said EXCEPT ![c] = @ + (Len(t) - Len(p))], restated' = restated
  PROVE  SaidInv' /\ Recalled'
<1> DEFINE n == Sync(builder, c, t)
<1>1. /\ TalkInv /\ SaidInv /\ Ready(builder) /\ Parse(n)
      /\ told[c] \in Text /\ told \in [Channel -> Text]
  BY DEF CodexInv, TalkInv
<1>2. /\ Touches(builder, n, c) /\ (t # <<>> => n.text[c] = t)
  BY <1>1, SyncTouches, SyncedText
<1>3. Len(t) - Len(p) \in Nat
  <2>1. p \in Text
    BY <1>1, Kinds
  <2>2. Len(p) \in Nat /\ Len(t) \in Nat /\ Len(p) <= Len(t)
    BY <2>1, LenProperties DEF Text, IsPrefix
  <2>. QED
    BY <2>2
<1>4. turn = "first" =>
        Len(Shows(n)[c].all) <= (said[c] + Len(t) - Len(p)) + restated[c]
  BY ItemLength
<1>. HIDE DEF n
<1>5. /\ said' \in [Channel -> Nat] /\ restated' \in [Channel -> Nat]
      /\ said'[c] = said[c] + (Len(t) - Len(p)) /\ said[c] \in Nat
      /\ \A d \in Channel \ {c} : said'[d] = said[d]
  BY <1>1, <1>3 DEF SaidInv
<1>6. ASSUME turn = "first", NEW d \in Channel
      PROVE  Len(Shows(n)[d].all) <= said'[d] + restated'[d]
  <2>1. CASE d = c
    <3>1. said[c] + Len(t) - Len(p) = said'[c]
      <4>1. Len(t) \in Nat /\ Len(p) \in Nat
        BY <1>1, Kinds, LenProperties DEF Text
      <4>. QED
        BY <1>5, <4>1
    <3>. QED
      BY <1>4, <1>6, <2>1, <3>1
  <2>2. CASE d # c
    BY <1>1, <1>2, <1>5, <1>6, <2>2 DEF SaidInv, Touches
  <2>. QED
    BY <2>1, <2>2
<1>7. SaidInv'
  BY <1>1, <1>5, <1>6, SaidParses
<1>8. Recalled'
  <2>1. builder' = n /\ (turn' = "first" => turn = "first")
    BY <1>1 DEF Parse, ParseTo
  <2>2. told'[c] = t /\ \A d \in Channel \ {c} : told'[d] = told[d]
    BY <1>1
  <2>. QED
    BY <1>2, <2>1, <2>2 DEF Recalled, CodexInv, Touches
<1>. QED
  BY <1>7, <1>8

LEMMA PrefixOfText ==
  ASSUME NEW p \in Text, NEW t \in Text, IsPrefix(p, t)
  PROVE  Len(SubSeq(t, Len(p) + 1, Len(t))) = Len(t) - Len(p)
<1>1. Len(p) \in Nat /\ Len(t) \in Nat /\ Len(p) <= Len(t)
  BY LenProperties DEF Text, IsPrefix
<1>2. CASE Len(p) = Len(t)
  <2>1. SubSeq(t, Len(p) + 1, Len(t)) = <<>>
    BY <1>1, <1>2, SubSeqEmpty DEF Text
  <2>. QED
    BY <1>1, <1>2, <2>1, EmptySeq
<1>3. CASE Len(p) < Len(t)
  BY <1>1, <1>3, SubSeqProperties DEF Text
<1>. QED
  BY <1>1, <1>2, <1>3

LEMMA CodexInvKeeps == CodexInv /\ [CodexNext]_vars => CodexInv'
<1> SUFFICES ASSUME CodexInv, [CodexNext]_vars PROVE SaidInv' /\ Recalled'
  BY CodexKeeps DEF CodexInv
<1>. TalkInv /\ SaidInv
  BY DEF CodexInv
<1>1. CASE ItemUpdated
  <2>1. PICK c \in Channel, t \in Text : SayUpTo(c, t) /\ Parse(Sync(builder, c, t))
    BY <1>1, BeginningsAreTexts DEF ItemUpdated, ItemText
  <2>2. /\ Begun(c) \in {<<>>, told[c]} /\ Begun(c) \in Text /\ IsPrefix(Begun(c), t)
        /\ told' = [told EXCEPT ![c] = t] /\ restated' = restated
        /\ said' = [said EXCEPT ![c] = @ + Len(Piece(c, t))]
    BY <2>1, Kinds DEF SayUpTo, Begun, TalkInv
  <2>3. Len(Piece(c, t)) = Len(t) - Len(Begun(c))
    BY <2>2, PrefixOfText DEF Piece
  <2>. QED
    BY <2>1, <2>2, <2>3, ItemSaid
<1>2. CASE ItemCompleted
  <2>1. PICK c \in Channel, t \in Message, another \in BOOLEAN :
          SayAtOnce(c, t, another) /\ restated' = restated /\ Parse(Sync(builder, c, t))
    BY <1>2 DEF ItemCompleted, ItemText
  <2> DEFINE p == IF another THEN <<>> ELSE told[c]
  <2>2. /\ p \in {<<>>, told[c]} /\ t \in Text /\ told[c] \in Text
        /\ told' = [told EXCEPT ![c] = t]
    BY <2>1, BeginningsAreTexts DEF SayAtOnce, TalkInv
  <2>3. Len(<<>>) = 0 /\ Len(t) \in Nat /\ Len(told[c]) \in Nat
    BY <2>2, EmptySeq, LenProperties DEF Text
  <2>4. IsPrefix(p, t)
    <3>1. IsPrefix(<<>>, t)
      BY <2>2, <2>3, SubSeqEmpty DEF IsPrefix, Text
    <3>. QED
      BY <2>1, <3>1 DEF SayAtOnce
  <2>5. said' = [said EXCEPT ![c] = @ + (Len(t) - Len(p))]
    <3>1. said' = [said EXCEPT ![c] = @ + Len(t) - IF another THEN 0 ELSE Len(told[c])]
      BY <2>1 DEF SayAtOnce
    <3>2. Len(p) = IF another THEN 0 ELSE Len(told[c])
      BY <2>3
    <3>3. said[c] \in Nat
      BY DEF SaidInv
    <3>. HIDE DEF p
    <3>4. said[c] + Len(t) - (IF another THEN 0 ELSE Len(told[c]))
            = said[c] + (Len(t) - Len(p))
      BY <2>3, <3>2, <3>3
    <3>. QED
      BY <3>1, <3>4
  <2>. HIDE DEF p
  <2>. QED
    BY <2>1, <2>2, <2>4, <2>5, ItemSaid
<1>3. CASE ToolItem
  <2>1. PICK named \in BOOLEAN, call \in CallId :
          SayNothing /\ Parse(ToolCall(builder, named, call))
    BY <1>3 DEF ToolItem
  <2> DEFINE n == ToolCall(builder, named, call)
  <2>2. Beside(builder, n) /\ Parse(n)
    BY <2>1, ToolCallBeside DEF TalkInv
  <2>. HIDE DEF n
  <2>3. builder' = n /\ told' = told /\ (turn' = "first" => turn = "first")
    BY <2>1, <2>2 DEF Parse, ParseTo, SayNothing, history
  <2>. QED
    BY <2>1, <2>2, <2>3, SaidQuiet DEF Recalled, CodexInv, Beside
<1>4. CASE CompleteTurn
  <2>1. PICK counts \in BOOLEAN :
          SayNothing /\ EndTurn(Finalize(Usage(builder, "turn", ~counts)))
    BY <1>4 DEF CompleteTurn, TurnCompleted
  <2>2. turn' # "first"
    BY <2>1 DEF EndTurn, ParseTo
  <2>. QED
    BY <2>1, <2>2, SaidFinalized DEF Recalled
<1>5. CASE UNCHANGED vars
  BY <1>5, SaidStill DEF Recalled, CodexInv, vars, history
<1>. QED
  BY <1>1, <1>2, <1>3, <1>4, <1>5 DEF CodexNext

LEMMA CodexInitInv == TalkInit => CodexInv
BY TalkInitInv, SaidInitInv DEF CodexInv, Recalled, TalkInit

(* What holds between the lines of Codex ...                               *)
THEOREM CodexInvariant == CodexSpec => []CodexInv
BY CodexInitInv, CodexInvKeeps, PTL DEF CodexSpec

(* The first item of a channel, which repeats its text with every line, is *)
(* shown once, and of all items no more than was said: items restate       *)
(* nothing.                                                                *)
THEOREM CodexSaidOnce == CodexSpec => []SaidOnce
BY CodexInvariant, TalkInvSuffices, PTL DEF CodexInv

(* The item completed last is shown as it was said, also when only its     *)
(* text tells it from the one before.                                      *)
THEOREM CodexWholeTextShown == CodexSpec => []WholeTextShown
BY CodexInvariant, TalkInvSuffices, PTL DEF CodexInv

(* turn.completed leaves no message and no phase open.                     *)
THEOREM CodexEndedClosed == CodexSpec => []EndedClosed
BY CodexInvariant, TalkInvSuffices, PTL DEF CodexInv

--------------------------------------------------------------------------------
(* Gemini *)

LEMMA GeminiKeeps == TalkInv /\ [GeminiNext]_vars => TalkInv'
<1> SUFFICES ASSUME TalkInv, [GeminiNext]_vars PROVE TalkInv'
  OBVIOUS
<1>. "assistant" \in Channel
  BY Kinds
<1>1. CASE DeltaMessage
  BY <1>1, BeginningsAreTexts, DeltaKeeps DEF DeltaMessage, MessageText
<1>2. CASE WholeMessage
  BY <1>2, WholeAlone DEF WholeMessage, MessageText, SayWhole
<1>3. CASE ToolLine
  BY <1>3, ToolLineKeeps DEF ToolLine
<1>4. CASE ResultLine
  BY <1>4, FinalizedLine DEF ResultLine, Complete
<1>5. CASE UNCHANGED vars
  BY <1>5, StandStill
<1>. QED
  BY <1>1, <1>2, <1>3, <1>4, <1>5 DEF GeminiNext

LEMMA GeminiSaid == TalkInv /\ SaidInv /\ [GeminiNext]_vars => SaidInv'
<1> SUFFICES ASSUME TalkInv, SaidInv, [GeminiNext]_vars PROVE SaidInv'
  OBVIOUS
<1>. "assistant" \in Channel /\ Ready(builder)
  BY Kinds DEF TalkInv
<1>1. CASE DeltaMessage
  BY <1>1, BeginningsAreTexts, SaidDelta DEF DeltaMessage, MessageText
<1>2. CASE WholeMessage
  <2>1. PICK t \in Message, another \in BOOLEAN :
          SayWhole("assistant", t, another) /\ Parse(Sync(builder, "assistant", t))
    BY <1>2 DEF WholeMessage, MessageText
  <2>2. t \in Text
    BY BeginningsAreTexts
  <2>3. Beside(Sync(builder, "assistant", t), Sync(builder, "assistant", t))
    BY <2>2, SyncTouches, BesideItself DEF Touches
  <2>. QED
    BY <2>1, <2>2, <2>3, SaidWhole
<1>3. CASE ToolLine
  BY <1>3, ToolCallBeside, SaidQuiet DEF ToolLine
<1>4. CASE ResultLine
  BY <1>4, SaidFinalized DEF ResultLine, Complete
<1>5. CASE UNCHANGED vars
  BY <1>5, SaidStill
<1>. QED
  BY <1>1, <1>2, <1>3, <1>4, <1>5 DEF GeminiNext

(* ... and of Gemini.                                                      *)
THEOREM GeminiInvariant == GeminiSpec => [](TalkInv /\ SaidInv)
BY TalkInitInv, SaidInitInv, GeminiKeeps, GeminiSaid, PTL DEF GeminiSpec

(* The first message is shown once, in deltas, as a whole or both ways; of *)
(* all messages no more is shown than was said, but that what deltas told  *)
(* of a later one is shown again when a whole message repeats it.          *)
THEOREM GeminiSaidOnce == GeminiSpec => []SaidOnce
BY GeminiInvariant, TalkInvSuffices, PTL

(* A whole message is shown as it was said.                                *)
THEOREM GeminiWholeTextShown == GeminiSpec => []WholeTextShown
BY GeminiInvariant, TalkInvSuffices, PTL

(* The result leaves no message open.                                      *)
THEOREM GeminiEndedClosed == GeminiSpec => []EndedClosed
BY GeminiInvariant, TalkInvSuffices, PTL


--------------------------------------------------------------------------------
(* Claude *)

(* Usage was received once when the flag is set, and else not yet.         *)
UsageInv ==
  /\ usageEmitted \in BOOLEAN
  /\ Shows(builder)["turn"].received = IF usageEmitted THEN 1 ELSE 0

(* From the builder to n the subscribers of usage hear nothing.            *)
Silent(n) == Ready(n) /\ Shows(n)["turn"] = Shows(builder)["turn"]

LEMMA UsageInvSuffices == UsageInv => UsageOnce
BY DEF UsageInv, UsageOnce, Shown, Shows

(* A line that says nothing of usage ...                                   *)
LEMMA SilentLine ==
  ASSUME UsageInv, builder' = builder \/ Silent(builder'), UNCHANGED usageEmitted
  PROVE  UsageInv'
BY DEF UsageInv, Silent, Shows

(* ... and one that ends with turnUsage.                                   *)
LEMMA TurnUsageEffect ==
  ASSUME UsageInv, NEW n, Silent(n), NEW counts \in BOOLEAN
  PROVE  LET done == TurnUsage(n, counts) IN
         /\ Beside(n, done.builder)
         /\ builder' = done.builder /\ usageEmitted' = done.emitted => UsageInv'
<1> DEFINE u == Usage(n, "turn", FALSE)
<1> DEFINE done == TurnUsage(n, counts)
<1>1. Ready(n) /\ Beside(n, n) /\ FALSE \in BOOLEAN
  BY BesideItself DEF Silent
<1>2. Beside(n, u) /\ Shows(u)["turn"].received = Shows(n)["turn"].received + 1
  BY <1>1, UsageBeside
<1>. HIDE DEF u
<1>3. CASE usageEmitted \/ ~counts
  <2>1. done = [builder |-> n, emitted |-> usageEmitted]
    BY <1>3 DEF TurnUsage
  <2>. HIDE DEF done
  <2>2. done.builder = n /\ done.emitted = usageEmitted
    BY <2>1
  <2>3. ASSUME builder' = n, usageEmitted' = usageEmitted PROVE UsageInv'
    BY <2>3, SilentLine
  <2>. QED
    BY <1>1, <2>2, <2>3 DEF done
<1>4. CASE ~(usageEmitted \/ ~counts)
  <2>1. done = [builder |-> u, emitted |-> TRUE]
    BY <1>4 DEF TurnUsage, u
  <2>. HIDE DEF done
  <2>2. done.builder = u /\ done.emitted = TRUE
    BY <2>1
  <2>3. Shows(u)["turn"].received = 1
    BY <1>2, <1>4 DEF UsageInv, Silent
  <2>4. ASSUME builder' = u, usageEmitted' = TRUE PROVE UsageInv'
    BY <2>3, <2>4 DEF UsageInv, Shows
  <2>. QED
    BY <1>2, <2>2, <2>4 DEF done
<1>. QED
  BY <1>3, <1>4

LEMMA TouchesSilent ==
  ASSUME NEW m, Silent(m), NEW n, NEW c, Touches(m, n, c)
  PROVE  Silent(n)
BY DEF Silent, Touches

BlockInv == TalkInv /\ UsageInv

LEMMA BuilderSilent == BlockInv => Silent(builder)
BY DEF BlockInv, TalkInv, Silent

LEMMA ToolUseKeeps == BlockInv /\ ToolUseStart => BlockInv'
<1> SUFFICES ASSUME BlockInv, NEW named \in BOOLEAN, NEW call \in CallId, SayNothing,
                    Parse(ToolCall(builder, named, call)), UNCHANGED usageEmitted
             PROVE  BlockInv'
  BY DEF ToolUseStart
<1> DEFINE n == ToolCall(builder, named, call)
<1>1. TalkInv'
  BY ToolLineKeeps DEF BlockInv
<1>2. Silent(n)
  BY ToolCallBeside DEF BlockInv, TalkInv, Silent, Beside
<1>3. builder' = n
  BY DEF Parse, ParseTo
<1>. HIDE DEF n
<1>. QED
  BY <1>1, <1>2, <1>3, SilentLine DEF BlockInv

LEMMA ErrorResultKeeps == BlockInv /\ ParseErrorResult => BlockInv'
<1> SUFFICES ASSUME BlockInv, ParseErrorResult PROVE BlockInv'
  OBVIOUS
<1>1. Beside(builder, builder)
  BY BesideItself DEF BlockInv, TalkInv
<1>2. TalkInv'
  BY <1>1, QuietKeeps DEF BlockInv, ParseErrorResult
<1>3. builder' = builder
  BY DEF ParseErrorResult, Parse, ParseTo
<1>. QED
  BY <1>2, <1>3, SilentLine DEF BlockInv, ParseErrorResult

LEMMA DeltaOfBlockKeeps ==
  ASSUME BlockInv, NEW c \in Channel, NEW t \in Beginnings,
         SayUpTo(c, t), Parse(AppendDelta(builder, c, Piece(c, t))), UNCHANGED usageEmitted
  PROVE  BlockInv'
<1> DEFINE u == Piece(c, t)
<1> DEFINE n == AppendDelta(builder, c, u)
<1>1. t \in Text /\ u \in Text /\ Ready(builder)
  BY BeginningsAreTexts, PieceIsText DEF BlockInv, TalkInv
<1>2. TalkInv'
  BY <1>1, DeltaKeeps DEF BlockInv
<1>3. builder' = n
  BY DEF Parse, ParseTo
<1>. HIDE DEF u
<1>4. Touches(builder, n, c)
  BY <1>1, DeltaTouches
<1>. HIDE DEF n
<1>5. Silent(n)
  BY <1>4, BuilderSilent, TouchesSilent
<1>. QED
  BY <1>2, <1>3, <1>5, SilentLine DEF BlockInv

LEMMA AssistantKeeps == BlockInv /\ ParseAssistant => BlockInv'
<1> SUFFICES ASSUME BlockInv,
                    NEW says \in BOOLEAN, NEW t \in Message, NEW another \in BOOLEAN,
                    NEW calls \in BOOLEAN, NEW call \in CallId, NEW counts \in BOOLEAN,
                    LET text == IF says THEN ParseBlock(builder, TextBlock(t)) ELSE builder
                        tool == IF calls THEN ParseBlock(text, ToolBlock(call)) ELSE text
                        done == TurnUsage(tool, counts)
                    IN  /\ IF says THEN SayWhole("assistant", t, another) ELSE SayNothing
                        /\ Parse(done.builder)
                        /\ usageEmitted' = done.emitted
             PROVE  BlockInv'
  BY DEF ParseAssistant
<1> DEFINE text == IF says THEN Sync(builder, "assistant", t) ELSE builder
<1> DEFINE tool == IF calls THEN ToolCall(text, TRUE, call) ELSE text
<1> DEFINE done == TurnUsage(tool, counts)
<1>1. /\ IF says THEN SayWhole("assistant", t, another) ELSE SayNothing
      /\ Parse(done.builder) /\ usageEmitted' = done.emitted
  BY DEF ParseBlock, TextBlock, ToolBlock
<1>2. /\ t \in Text \ {<<>>} /\ "assistant" \in Channel /\ Silent(builder) /\ Ready(builder)
      /\ TalkInv
  BY BeginningsAreTexts, Kinds, BuilderSilent DEF BlockInv, TalkInv
<1>3. Silent(text) /\ Ready(text)
  <2>1. Touches(builder, Sync(builder, "assistant", t), "assistant")
    BY <1>2, SyncTouches
  <2>2. Silent(Sync(builder, "assistant", t))
    BY <1>2, <2>1, TouchesSilent
  <2>. QED
    BY <1>2, <2>2 DEF Silent
<1>4. Beside(text, tool) /\ Silent(tool)
  <2>. HIDE DEF text
  <2>1. Beside(text, text)
    BY <1>3, BesideItself
  <2>2. /\ Beside(text, ToolCall(text, TRUE, call))
        /\ Shows(ToolCall(text, TRUE, call))["turn"] = Shows(text)["turn"]
    BY <1>3, ToolCallBeside
  <2>. QED
    BY <1>3, <2>1, <2>2 DEF Silent, Beside
<1>. HIDE DEF tool
<1>5. Beside(tool, done.builder) /\ (builder' = done.builder => UsageInv')
  BY <1>1, <1>4, TurnUsageEffect DEF BlockInv
<1>. HIDE DEF done
<1>6. Beside(text, done.builder)
  BY <1>4, <1>5, BesideTwice
<1>7. TalkInv'
  <2>1. CASE says
    BY <1>1, <1>2, <1>6, <2>1, WholeKeeps DEF SayWhole
  <2>2. CASE ~says
    BY <1>1, <1>2, <1>6, <2>2, QuietKeeps
  <2>. QED
    BY <2>1, <2>2
<1>8. builder' = done.builder
  BY <1>1 DEF Parse, ParseTo
<1>. QED
  BY <1>5, <1>7, <1>8 DEF BlockInv

LEMMA ResultOfClaudeKeeps == BlockInv /\ ParseResult => BlockInv'
<1> SUFFICES ASSUME BlockInv, NEW t \in Message \cup {<<>>}, NEW counts \in BOOLEAN,
                    IF t = <<>> THEN SayNothing ELSE SayWhole("assistant", t, FALSE),
                    EndTurn(TurnUsage(Emit(builder, t), counts).builder),
                    usageEmitted' = TurnUsage(Emit(builder, t), counts).emitted
             PROVE  BlockInv'
  BY DEF ParseResult
<1> DEFINE r == EmitResult(builder, "reasoning", <<>>)
<1> DEFINE a == EmitResult(r, "assistant", t)
<1> DEFINE done == TurnUsage(a, counts)
<1>1. /\ EndTurn(done.builder) /\ usageEmitted' = done.emitted
  BY DEF Emit
<1>2. /\ t \in Text /\ <<>> \in Text /\ "assistant" \in Channel /\ "reasoning" \in Channel
      /\ Ready(builder) /\ Silent(builder) /\ TalkInv /\ Beside(builder, builder)
  BY BeginningsAreTexts, Kinds, BuilderSilent, BesideItself DEF BlockInv, TalkInv
<1>3. Silent(r)
  <2>1. Touches(builder, r, "reasoning")
    BY <1>2, EmitTouches
  <2>. HIDE DEF r
  <2>. QED
    BY <1>2, <2>1, TouchesSilent
<1>4. Silent(a)
  <2>. HIDE DEF r
  <2>1. Ready(r)
    BY <1>3 DEF Silent
  <2>2. Touches(r, a, "assistant")
    BY <1>2, <2>1, EmitTouches
  <2>. HIDE DEF a
  <2>. QED
    BY <1>3, <2>2, TouchesSilent
<1>5. Beside(a, done.builder) /\ (builder' = done.builder => UsageInv')
  <2>. HIDE DEF a
  <2>. QED
    BY <1>1, <1>4, TurnUsageEffect DEF BlockInv
<1>. HIDE DEF done
<1>6. TalkInv'
  BY <1>1, <1>2, <1>5, ResultKeeps
<1>7. builder' = done.builder
  BY <1>1 DEF EndTurn, ParseTo
<1>. QED
  BY <1>5, <1>6, <1>7 DEF BlockInv

LEMMA BlockInitInv == BlockInit => BlockInv
<1> SUFFICES ASSUME BlockInit PROVE BlockInv
  OBVIOUS
<1>1. TalkInv
  BY TalkInitInv DEF BlockInit
<1>2. builder.outputs = <<>> /\ "turn" \in Thread
  BY Kinds DEF BlockInit, TalkInit, NewBuilder
<1>3. Shows(builder)["turn"].received = 0
  BY <1>2, DisplayedAppend DEF Shows, EmptyDisplay
<1>. QED
  BY <1>1, <1>3 DEF BlockInv, UsageInv, BlockInit

LEMMA ClaudeKeeps == BlockInv /\ [ClaudeNext]_blockVars => BlockInv'
<1> SUFFICES ASSUME BlockInv, [ClaudeNext]_blockVars PROVE BlockInv'
  OBVIOUS
<1>. {"assistant", "reasoning"} \subseteq Channel
  BY Kinds
<1>1. CASE ThinkingDelta
  BY <1>1, DeltaOfBlockKeeps DEF ThinkingDelta
<1>2. CASE TextDelta
  BY <1>2, DeltaOfBlockKeeps DEF TextDelta
<1>3. CASE UNCHANGED blockVars
  <2>1. TalkInv' /\ builder' = builder /\ usageEmitted' = usageEmitted
    BY <1>3, StandStill DEF BlockInv, blockVars, vars, history
  <2>. QED
    BY <2>1, SilentLine DEF BlockInv
<1>. QED
  BY <1>1, <1>2, <1>3, ToolUseKeeps, AssistantKeeps, ResultOfClaudeKeeps, ErrorResultKeeps
     DEF ClaudeNext

LEMMA ClaudeSaid == BlockInv /\ SaidInv /\ [ClaudeNext]_blockVars => SaidInv'
<1> SUFFICES ASSUME TalkInv, SaidInv, BlockInv, [ClaudeNext]_blockVars PROVE SaidInv'
  BY DEF BlockInv
<1>. /\ {"assistant", "reasoning"} \subseteq Channel /\ Ready(builder) /\ Silent(builder)
     /\ Beside(builder, builder) /\ <<>> \in Text
  BY Kinds, BuilderSilent, BesideItself DEF TalkInv
<1>1. CASE ThinkingDelta
  BY <1>1, BeginningsAreTexts, SaidDelta DEF ThinkingDelta
<1>2. CASE TextDelta
  BY <1>2, BeginningsAreTexts, SaidDelta DEF TextDelta
<1>3. CASE ToolUseStart
  BY <1>3, ToolCallBeside, SaidQuiet DEF ToolUseStart
<1>4. CASE ParseErrorResult
  BY <1>4, SaidQuiet DEF ParseErrorResult
<1>5. CASE ParseAssistant
  <2>1. PICK says \in BOOLEAN, t \in Message, another \in BOOLEAN, calls \in BOOLEAN,
             call \in CallId, counts \in BOOLEAN :
          LET text == IF says THEN ParseBlock(builder, TextBlock(t)) ELSE builder
              tool == IF calls THEN ParseBlock(text, ToolBlock(call)) ELSE text
              done == TurnUsage(tool, counts)
          IN  /\ IF says THEN SayWhole("assistant", t, another) ELSE SayNothing
              /\ Parse(done.builder)
              /\ usageEmitted' = done.emitted
    BY <1>5 DEF ParseAssistant
  <2> DEFINE text == IF says THEN Sync(builder, "assistant", t) ELSE builder
  <2> DEFINE tool == IF calls THEN ToolCall(text, TRUE, call) ELSE text
  <2> DEFINE n == TurnUsage(tool, counts).builder
  <2>2. t \in Text
    BY BeginningsAreTexts
  <2>3. Silent(text) /\ Ready(text)
    <3>1. Touches(builder, Sync(builder, "assistant", t), "assistant")
      BY <2>2, SyncTouches
    <3>2. Silent(Sync(builder, "assistant", t))
      BY <3>1, TouchesSilent
    <3>. QED
      BY <3>2 DEF Silent
  <2>4. Beside(text, tool) /\ Silent(tool)
    <3>. HIDE DEF text
    <3>1. Beside(text, text)
      BY <2>3, BesideItself
    <3>2. /\ Beside(text, ToolCall(text, TRUE, call))
          /\ Shows(ToolCall(text, TRUE, call))["turn"] = Shows(text)["turn"]
      BY <2>3, ToolCallBeside
    <3>. QED
      BY <2>3, <3>1, <3>2 DEF Silent, Beside
  <2>5. Parse(n) /\ IF says THEN SayWhole("assistant", t, another) ELSE SayNothing
    BY <2>1 DEF ParseBlock, TextBlock, ToolBlock
  <2>. HIDE DEF tool
  <2>6. Beside(tool, n)
    BY <2>4, TurnUsageEffect DEF BlockInv
  <2>. HIDE DEF n
  <2>7. Beside(text, n)
    BY <2>4, <2>6, BesideTwice
  <2>8. CASE says
    BY <2>2, <2>5, <2>7, <2>8, SaidWhole
  <2>9. CASE ~says
    BY <2>5, <2>7, <2>9, SaidQuiet
  <2>. QED
    BY <2>8, <2>9
<1>6. CASE ParseResult
  <2>1. PICK t \in Message \cup {<<>>}, counts \in BOOLEAN :
          /\ IF t = <<>> THEN SayNothing ELSE SayWhole("assistant", t, FALSE)
          /\ EndTurn(TurnUsage(Emit(builder, t), counts).builder)
    BY <1>6 DEF ParseResult
  <2> DEFINE r == EmitResult(builder, "reasoning", <<>>)
  <2> DEFINE a == EmitResult(r, "assistant", t)
  <2> DEFINE n == TurnUsage(a, counts).builder
  <2>2. t \in Text
    BY BeginningsAreTexts
  <2>3. Touches(builder, r, "reasoning")
    BY EmitTouches
  <2>4. EndTurn(n)
    BY <2>1 DEF Emit
  <2>5. Silent(a)
    <3>. HIDE DEF r
    <3>1. Silent(r) /\ Ready(r)
      BY <2>3, TouchesSilent DEF Silent
    <3>2. Touches(r, a, "assistant")
      BY <2>2, <3>1, EmitTouches
    <3>. HIDE DEF a
    <3>. QED
      BY <3>1, <3>2, TouchesSilent
  <2>. HIDE DEF a
  <2>6. Beside(a, n)
    BY <2>5, TurnUsageEffect DEF BlockInv
  <2>. HIDE DEF n
  <2>. QED
    BY <2>1, <2>2, <2>4, <2>6, SaidResult DEF a
<1>7. CASE UNCHANGED blockVars
  BY <1>7, SaidStill DEF blockVars
<1>. QED
  BY <1>1, <1>2, <1>3, <1>4, <1>5, <1>6, <1>7 DEF ClaudeNext

(* What holds between the lines of Claude.                                 *)
THEOREM ClaudeInvariant == ClaudeSpec => [](BlockInv /\ SaidInv)
<1>1. BlockInit => BlockInv /\ SaidInv
  BY BlockInitInv, SaidInitInv DEF BlockInit
<1>2. BlockInv /\ SaidInv /\ [ClaudeNext]_blockVars => (BlockInv /\ SaidInv)'
  BY ClaudeKeeps, ClaudeSaid
<1>. QED
  BY <1>1, <1>2, PTL DEF ClaudeSpec

(* The first message, streamed, repeated in an assistant line and repeated *)
(* by the result, is shown once; of all messages no more is shown than was *)
(* said, but that what deltas told of a later one is shown again when an   *)
(* assistant line or the result repeats it.                                *)
THEOREM ClaudeSaidOnce == ClaudeSpec => []SaidOnce
BY ClaudeInvariant, TalkInvSuffices, PTL DEF BlockInv

(* The message repeated last is shown as it was said.                      *)
THEOREM ClaudeWholeTextShown == ClaudeSpec => []WholeTextShown
BY ClaudeInvariant, TalkInvSuffices, PTL DEF BlockInv

(* The first result leaves no message and no phase open.                   *)
THEOREM ClaudeEndedClosed == ClaudeSpec => []EndedClosed
BY ClaudeInvariant, TalkInvSuffices, PTL DEF BlockInv

(* The usage that comes with every message and with the result is          *)
(* reported once in the life of the parser, and only a usage that was      *)
(* reported uses that up.                                                  *)
THEOREM ClaudeUsageOnce == ClaudeSpec => []UsageOnce
BY ClaudeInvariant, UsageInvSuffices, PTL DEF BlockInv

--------------------------------------------------------------------------------
(***************************************************************************)
(* Qwen.  What the channels show is not what was told but the two parts    *)
(* its text was divided into.  A part is shown as a whole once the text    *)
(* was repeated, if there is anything of it and, of the reasoning, if none *)
(* came apart.                                                             *)
(***************************************************************************)
PartsOf(t) ==
  [c \in Channel |->
     LET d == SplitInlineThinking(t["assistant"])
     IN  IF c = "assistant" THEN d.assistant ELSE d.reasoning]

RepeatedOf(t, w) ==
  [c \in Channel |-> /\ w["assistant"] /\ PartsOf(t)[c] # <<>>
                     /\ c = "reasoning" => t["reasoning"] = <<>>]

(* It is left open here whether a part was heard only once.                *)
Never == [c \in Channel |-> FALSE]

QwenTalk ==
  /\ Ready(builder)
  /\ told \in [Channel -> Text] /\ whole \in [Channel -> BOOLEAN]
  /\ turn \in {"first", "ended", "later"}
  /\ turn = "first" => \A c \in Channel :
       Talking(builder, c, PartsOf(told), RepeatedOf(told, whole), Never)
  /\ turn = "ended" => \A c \in Channel :
       /\ Told(builder, c, PartsOf(told), RepeatedOf(told, whole), Never)
       /\ ~builder.open[c]

QwenInv == QwenTalk /\ UsageInv /\ inlineThink \in Stream

LEMMA PartsTyped ==
  ASSUME NEW t \in [Channel -> Text]
  PROVE  /\ PartsOf(t) \in [Channel -> Text]
         /\ PartsOf(t)["assistant"] = SplitInlineThinking(t["assistant"]).assistant
         /\ PartsOf(t)["reasoning"] = SplitInlineThinking(t["assistant"]).reasoning
<1> DEFINE d == SplitInlineThinking(t["assistant"])
<1>1. "assistant" \in Channel /\ "reasoning" \in Channel /\ t["assistant"] \in Text
  BY Kinds
<1>2. d.reasoning \in Text /\ d.assistant \in Text
  BY <1>1, SplitFacts
<1>. HIDE DEF d
<1>3. PartsOf(t) = [c \in Channel |-> IF c = "assistant" THEN d.assistant ELSE d.reasoning]
  BY DEF PartsOf, d
<1>. QED
  BY <1>1, <1>2, <1>3 DEF d

LEMMA RepeatedTyped ==
  ASSUME NEW t \in [Channel -> Text], NEW w \in [Channel -> BOOLEAN]
  PROVE  /\ RepeatedOf(t, w) \in [Channel -> BOOLEAN] /\ Never \in [Channel -> BOOLEAN]
         /\ \A c \in Channel :
              /\ RepeatedOf(t, w)[c] = /\ w["assistant"] /\ PartsOf(t)[c] # <<>>
                                       /\ c = "reasoning" => t["reasoning"] = <<>>
              /\ ~Never[c]
BY DEF RepeatedOf, Never

(* The two parts and whether they are repeated depend on little.           *)
LEMMA PartsStay ==
  ASSUME NEW t, NEW w, NEW T, NEW W,
         T["assistant"] = t["assistant"], W["assistant"] = w["assistant"]
  PROVE  /\ PartsOf(T) = PartsOf(t)
         /\ RepeatedOf(T, W)["assistant"] = RepeatedOf(t, w)["assistant"]
         /\ T["reasoning"] = t["reasoning"] => RepeatedOf(T, W) = RepeatedOf(t, w)
<1>1. PartsOf(T) = PartsOf(t)
  BY DEF PartsOf
<1>2. "assistant" \in Channel /\ "assistant" # "reasoning"
  BY Kinds
<1>. QED
  BY <1>1, <1>2 DEF RepeatedOf

LEMMA QwenTalkSuffices == QwenTalk => RepeatedTextShown /\ EndedClosed
<1> SUFFICES ASSUME QwenTalk PROVE RepeatedTextShown /\ EndedClosed
  OBVIOUS
<1>1. turn # "later" => \A c \in Channel :
        Told(builder, c, PartsOf(told), RepeatedOf(told, whole), Never)
  BY DEF QwenTalk, Talking, Told
<1>2. "assistant" \in Channel /\ "reasoning" \in Channel /\ "assistant" # "reasoning"
  BY Kinds
<1>3. /\ told \in [Channel -> Text] /\ whole \in [Channel -> BOOLEAN]
      /\ turn = "ended" => \A c \in Channel : ~builder.open[c]
  BY DEF QwenTalk
<1>4. \A c \in Channel : turn # "later" /\ RepeatedOf(told, whole)[c]
        => Shown[c].last = PartsOf(told)[c]
  BY <1>1 DEF Told, Shown, Shows
<1>5. \A c \in Channel : RepeatedOf(told, whole)[c]
        = /\ whole["assistant"] /\ PartsOf(told)[c] # <<>>
          /\ c = "reasoning" => told["reasoning"] = <<>>
  BY <1>3, RepeatedTyped
<1>6. /\ PartsOf(told)["assistant"] = Divided.assistant
      /\ PartsOf(told)["reasoning"] = Divided.reasoning
  BY <1>3, PartsTyped DEF Divided
<1>. QED
  BY <1>2, <1>3, <1>4, <1>5, <1>6 DEF RepeatedTextShown, EndedClosed

LEMMA QwenParses ==
  ASSUME QwenTalk, NEW n, Ready(n), Parse(n),
         told' \in [Channel -> Text], whole' \in [Channel -> BOOLEAN],
         turn = "first" => \A c \in Channel :
           Talking(n, c, PartsOf(told'), RepeatedOf(told', whole'), Never)
  PROVE  QwenTalk'
<1>1. builder' = n /\ turn' = IF turn = "ended" THEN "later" ELSE turn
  BY DEF Parse, ParseTo
<1>2. turn' = "first" => turn = "first"
  BY <1>1
<1>3. turn' \in {"first", "ended", "later"} /\ turn' # "ended"
  BY <1>1 DEF QwenTalk
<1>. QED
  BY <1>1, <1>2, <1>3 DEF QwenTalk

LEMMA QwenEnds ==
  ASSUME QwenTalk, NEW n, Ready(n), EndTurn(n),
         told' \in [Channel -> Text], whole' \in [Channel -> BOOLEAN],
         turn = "first" => \A c \in Channel :
           /\ Told(n, c, PartsOf(told'), RepeatedOf(told', whole'), Never)
           /\ ~n.open[c]
  PROVE  QwenTalk'
<1>1. builder' = n /\ turn' = IF turn = "first" THEN "ended" ELSE "later"
  BY DEF EndTurn, ParseTo
<1>2. turn' = "ended" => turn = "first"
  BY <1>1
<1>3. turn' \in {"first", "ended", "later"} /\ turn' # "first"
  BY <1>1
<1>. QED
  BY <1>1, <1>2, <1>3 DEF QwenTalk

(* Thinking that comes apart: from then on the reasoning of the text is no *)
(* longer all that its channel shows.                                      *)
LEMMA ThinkingApartKeeps == QwenInv /\ ThinkingApart => QwenInv'
<1> SUFFICES ASSUME QwenInv, NEW t \in Beginnings \ {<<>>}, SayUpTo("reasoning", t),
                    Parse(AppendDelta(builder, "reasoning", Piece("reasoning", t))),
                    UNCHANGED <<usageEmitted, inlineThink>>
             PROVE  QwenInv'
  BY DEF ThinkingApart
<1> DEFINE u == Piece("reasoning", t)
<1> DEFINE n == AppendDelta(builder, "reasoning", u)
<1> DEFINE p == PartsOf(told)
<1> DEFINE r == RepeatedOf(told, whole)
<1> DEFINE q == RepeatedOf(told', whole')
<1>1. /\ "assistant" \in Channel /\ "reasoning" \in Channel /\ "assistant" # "reasoning"
      /\ Channel = {"assistant", "reasoning"}
      /\ t \in Text \ {<<>>} /\ Ready(builder) /\ Silent(builder)
      /\ told \in [Channel -> Text] /\ whole \in [Channel -> BOOLEAN]
  BY Kinds, BeginningsAreTexts DEF QwenInv, QwenTalk, Silent
<1>2. u \in Text
  BY <1>1, PieceIsText
<1>3. /\ told' \in [Channel -> Text] /\ whole' \in [Channel -> BOOLEAN]
      /\ told'["reasoning"] # <<>> /\ told'["assistant"] = told["assistant"]
      /\ whole'["assistant"] = whole["assistant"]
  BY <1>1 DEF SayUpTo
<1>4. /\ PartsOf(told') = p /\ q["assistant"] = r["assistant"] /\ ~q["reasoning"]
      /\ p \in [Channel -> Text] /\ r \in [Channel -> BOOLEAN]
      /\ q \in [Channel -> BOOLEAN] /\ Never \in [Channel -> BOOLEAN]
      /\ ~Never["reasoning"]
  <2>1. PartsOf(told') = p /\ q["assistant"] = r["assistant"]
    BY <1>3, PartsStay
  <2>2. p \in [Channel -> Text]
    BY <1>1, PartsTyped
  <2>3. r \in [Channel -> BOOLEAN]
    BY <1>1, RepeatedTyped
  <2>4. /\ q \in [Channel -> BOOLEAN] /\ Never \in [Channel -> BOOLEAN]
        /\ ~q["reasoning"] /\ ~Never["reasoning"]
    BY <1>1, <1>3, RepeatedTyped
  <2>. QED
    BY <2>1, <2>2, <2>3, <2>4
<1>. HIDE DEF u, p, r, q
<1>5. Touches(builder, n, "reasoning")
  BY <1>1, <1>2, DeltaTouches
<1>6. ASSUME turn = "first" PROVE \A c \in Channel : Talking(n, c, p, q, Never)
  <2>1. Talking(builder, "assistant", p, r, Never) /\ Talking(builder, "reasoning", p, r, Never)
    BY <1>1, <1>6 DEF QwenInv, QwenTalk, p, r
  <2>2. Talking(n, "reasoning", p, q, Never)
    BY <1>1, <1>2, <1>4, <2>1, DeltaTalks
  <2>. HIDE DEF n
  <2>3. Talking(n, "assistant", p, q, Never)
    BY <1>1, <1>4, <1>5, <2>1, BesideTalks DEF Touches
  <2>. QED
    BY <1>1, <2>2, <2>3
<1>7. Parse(n)
  BY DEF u
<1>. HIDE DEF n
<1>8. QwenTalk'
  BY <1>3, <1>4, <1>5, <1>6, <1>7, QwenParses DEF QwenInv, Touches, q
<1>9. UsageInv'
  <2>1. Silent(n) /\ builder' = n
    BY <1>1, <1>5, <1>7, TouchesSilent DEF Parse, ParseTo
  <2>. QED
    BY <2>1, SilentLine DEF QwenInv
<1>. QED
  BY <1>8, <1>9 DEF QwenInv

(* A delta of the text, which may say something on either channel.         *)
LEMMA InlineDeltaKeeps == QwenInv /\ InlineDelta => QwenInv'
<1> SUFFICES ASSUME QwenInv, NEW t \in Beginnings \ {<<>>}, SayUpTo("assistant", t),
                    LET d == AppendInline(inlineThink, Piece("assistant", t))
                        b == AppendDelta(builder, "reasoning", d.reasoning)
                    IN  /\ Parse(AppendDelta(b, "assistant", d.assistant))
                        /\ inlineThink' = d.stream,
                    UNCHANGED usageEmitted
             PROVE  QwenInv'
  BY DEF InlineDelta
<1> DEFINE d == AppendInline(inlineThink, Piece("assistant", t))
<1> DEFINE b == AppendDelta(builder, "reasoning", d.reasoning)
<1> DEFINE n == AppendDelta(b, "assistant", d.assistant)
<1> DEFINE p == PartsOf(told)
<1> DEFINE r == RepeatedOf(told, whole)
<1> DEFINE q == PartsOf(told')
<1> DEFINE s == RepeatedOf(told', whole')
<1>1. /\ "assistant" \in Channel /\ "reasoning" \in Channel /\ "assistant" # "reasoning"
      /\ Channel = {"assistant", "reasoning"}
      /\ t \in Text /\ Ready(builder) /\ Silent(builder) /\ inlineThink \in Stream
      /\ told \in [Channel -> Text] /\ whole \in [Channel -> BOOLEAN]
  BY Kinds, BeginningsAreTexts DEF QwenInv, QwenTalk, Silent
<1>2. d.reasoning \in Text /\ d.assistant \in Text /\ d.stream \in Stream
  <2>1. Piece("assistant", t) \in Text
    BY <1>1, PieceIsText
  <2>2. d \in Division
    BY <1>1, <2>1, AppendInlineKeeps
  <2>. QED
    BY <2>2 DEF Division
<1>3. /\ told' \in [Channel -> Text] /\ whole' \in [Channel -> BOOLEAN]
      /\ ~whole'["assistant"]
  BY <1>1 DEF SayUpTo
<1>4. /\ p \in [Channel -> Text] /\ r \in [Channel -> BOOLEAN]
      /\ q \in [Channel -> Text] /\ s \in [Channel -> BOOLEAN]
      /\ Never \in [Channel -> BOOLEAN]
      /\ \A c \in Channel : ~Never[c] /\ ~s[c]
  BY <1>1, <1>3, PartsTyped, RepeatedTyped
<1>5. Parse(n) /\ inlineThink' = d.stream
  OBVIOUS
<1>. HIDE DEF d, p, r, q, s
<1>6. Touches(builder, b, "reasoning")
  BY <1>1, <1>2, DeltaTouches
<1>7. Touches(b, n, "assistant")
  <2>1. Ready(b)
    BY <1>6 DEF Touches
  <2>. HIDE DEF b
  <2>. QED
    BY <1>1, <1>2, <2>1, DeltaTouches
<1>8. ASSUME turn = "first" PROVE \A c \in Channel : Talking(n, c, q, s, Never)
  <2>1. Talking(builder, "assistant", p, r, Never) /\ Talking(builder, "reasoning", p, r, Never)
    BY <1>1, <1>8 DEF QwenInv, QwenTalk, p, r
  <2>2. Talking(b, "reasoning", q, s, Never)
    BY <1>1, <1>2, <1>4, <2>1, DeltaTalks
  <2>. HIDE DEF b
  <2>3. Talking(b, "assistant", p, r, Never) /\ Ready(b)
    BY <1>1, <1>4, <1>6, <2>1, BesideTalks DEF Touches
  <2>4. Talking(n, "assistant", q, s, Never)
    BY <1>1, <1>2, <1>4, <2>3, DeltaTalks
  <2>. HIDE DEF n
  <2>5. Talking(n, "reasoning", q, s, Never)
    BY <1>1, <1>4, <1>7, <2>2, BesideTalks DEF Touches
  <2>. QED
    BY <1>1, <2>4, <2>5
<1>. HIDE DEF n
<1>9. QwenTalk'
  BY <1>3, <1>5, <1>7, <1>8, QwenParses DEF QwenInv, Touches, q, s
<1>10. UsageInv'
  <2>. HIDE DEF b
  <2>1. Silent(b)
    BY <1>1, <1>6, TouchesSilent
  <2>2. Silent(n) /\ builder' = n
    BY <1>5, <1>7, <2>1, TouchesSilent DEF Parse, ParseTo
  <2>. QED
    BY <2>2, SilentLine DEF QwenInv
<1>. QED
  BY <1>2, <1>5, <1>9, <1>10 DEF QwenInv

(* An assistant line: the text is divided and both parts are repeated, and *)
(* a call and usage may follow.                                            *)
LEMMA InlineTextKeeps ==
  ASSUME QwenInv, NEW t \in Message, NEW another \in BOOLEAN,
         SayWhole("assistant", t, another),
         NEW n, Beside(SyncInline(builder, t), n), Parse(n)
  PROVE  QwenTalk'
<1> DEFINE d == SplitInlineThinking(t)
<1> DEFINE b == Sync(builder, "reasoning", d.reasoning)
<1> DEFINE a == Sync(b, "assistant", d.assistant)
<1> DEFINE p == PartsOf(told)
<1> DEFINE r == RepeatedOf(told, whole)
<1> DEFINE q == PartsOf(told')
<1> DEFINE s == RepeatedOf(told', whole')
<1>1. /\ "assistant" \in Channel /\ "reasoning" \in Channel /\ "assistant" # "reasoning"
      /\ Channel = {"assistant", "reasoning"}
      /\ t \in Text /\ Ready(builder)
      /\ told \in [Channel -> Text] /\ whole \in [Channel -> BOOLEAN]
  BY Kinds, BeginningsAreTexts DEF QwenInv, QwenTalk
<1>2. d.reasoning \in Text /\ d.assistant \in Text
  BY <1>1, SplitFacts
<1>3. /\ told' \in [Channel -> Text] /\ whole' \in [Channel -> BOOLEAN]
      /\ told'["assistant"] = t
  BY <1>1 DEF SayWhole, SayAtOnce
<1>4. /\ p \in [Channel -> Text] /\ q \in [Channel -> Text]
      /\ q["reasoning"] = d.reasoning /\ q["assistant"] = d.assistant
  <2>1. p \in [Channel -> Text]
    BY <1>1, PartsTyped
  <2>2. /\ q \in [Channel -> Text]
        /\ q["assistant"] = SplitInlineThinking(told'["assistant"]).assistant
        /\ q["reasoning"] = SplitInlineThinking(told'["assistant"]).reasoning
    BY <1>3, PartsTyped
  <2>. QED
    BY <1>3, <2>1, <2>2
<1>5. /\ r \in [Channel -> BOOLEAN] /\ s \in [Channel -> BOOLEAN]
      /\ Never \in [Channel -> BOOLEAN]
      /\ \A c \in Channel : ~Never[c] /\ (s[c] => q[c] # <<>>)
  <2>1. r \in [Channel -> BOOLEAN]
    BY <1>1, RepeatedTyped
  <2>2. s \in [Channel -> BOOLEAN] /\ \A c \in Channel : ~Never[c] /\ (s[c] => q[c] # <<>>)
    BY <1>3, RepeatedTyped
  <2>3. Never \in [Channel -> BOOLEAN]
    BY <1>1, RepeatedTyped
  <2>. QED
    BY <2>1, <2>2, <2>3
<1>6. Beside(a, n)
  BY DEF SyncInline
<1>. HIDE DEF d, p, r, q, s
<1>7. Touches(builder, b, "reasoning")
  BY <1>1, <1>2, SyncTouches
<1>8. Touches(b, a, "assistant")
  <2>1. Ready(b)
    BY <1>7 DEF Touches
  <2>. HIDE DEF b
  <2>. QED
    BY <1>1, <1>2, <2>1, SyncTouches
<1>9. ASSUME turn = "first" PROVE \A c \in Channel : Talking(n, c, q, s, Never)
  <2>1. Talking(builder, "assistant", p, r, Never) /\ Talking(builder, "reasoning", p, r, Never)
    BY <1>1, <1>9 DEF QwenInv, QwenTalk, p, r
  <2>2. Talking(Sync(builder, "reasoning", q["reasoning"]), "reasoning", q, s, Never)
    BY <1>1, <1>4, <1>5, <2>1, SyncTalks
  <2>3. Talking(b, "reasoning", q, s, Never)
    BY <1>4, <2>2
  <2>. HIDE DEF b
  <2>4. Talking(b, "assistant", p, r, Never) /\ Ready(b)
    BY <1>1, <1>4, <1>5, <1>7, <2>1, BesideTalks DEF Touches
  <2>5. Talking(Sync(b, "assistant", q["assistant"]), "assistant", q, s, Never)
    BY <1>1, <1>4, <1>5, <2>4, SyncTalks
  <2>6. Talking(a, "assistant", q, s, Never)
    BY <1>4, <2>5
  <2>. HIDE DEF a
  <2>7. Talking(a, "reasoning", q, s, Never)
    BY <1>1, <1>4, <1>5, <1>8, <2>3, BesideTalks DEF Touches
  <2>8. \A c \in Channel : Talking(a, c, q, s, Never)
    BY <1>1, <2>6, <2>7
  <2>. QED
    BY <1>4, <1>5, <1>6, <2>8, BesideTalks DEF Beside
<1>10. Ready(n)
  BY <1>6 DEF Beside
<1>. QED
  BY <1>3, <1>9, <1>10, QwenParses DEF QwenInv, q, s

LEMMA QwenQuiet ==
  ASSUME QwenTalk, SayNothing, NEW n, Beside(builder, n), Parse(n)
  PROVE  QwenTalk'
<1>1. told' = told /\ whole' = whole
  BY DEF SayNothing, history
<1>2. told \in [Channel -> Text] /\ whole \in [Channel -> BOOLEAN]
  BY DEF QwenTalk
<1> DEFINE p == PartsOf(told)
<1> DEFINE r == RepeatedOf(told, whole)
<1>3. p \in [Channel -> Text] /\ r \in [Channel -> BOOLEAN] /\ Never \in [Channel -> BOOLEAN]
  BY <1>2, PartsTyped, RepeatedTyped
<1>4. turn = "first" => \A c \in Channel : Talking(builder, c, p, r, Never)
  BY DEF QwenTalk
<1>5. p = PartsOf(told') /\ r = RepeatedOf(told', whole')
  BY <1>1
<1>. HIDE DEF p, r
<1>6. turn = "first" => \A c \in Channel : Talking(n, c, p, r, Never)
  BY <1>3, <1>4, BesideTalks DEF Beside
<1>. QED
  BY <1>1, <1>2, <1>5, <1>6, QwenParses DEF Beside

LEMMA InlineTextSilent ==
  ASSUME QwenInv, NEW says \in BOOLEAN, NEW t \in Message
  PROVE  Silent(IF says THEN SyncInline(builder, t) ELSE builder)
<1> DEFINE d == SplitInlineThinking(t)
<1> DEFINE b == Sync(builder, "reasoning", d.reasoning)
<1> DEFINE a == Sync(b, "assistant", d.assistant)
<1>1. /\ t \in Text /\ "assistant" \in Channel /\ "reasoning" \in Channel
      /\ Silent(builder) /\ Ready(builder)
  BY BeginningsAreTexts, Kinds DEF QwenInv, QwenTalk, Silent
<1>2. d.reasoning \in Text /\ d.assistant \in Text
  BY <1>1, SplitFacts
<1>3. SyncInline(builder, t) = a
  BY DEF SyncInline
<1>. HIDE DEF d
<1>4. Touches(builder, b, "reasoning")
  BY <1>1, <1>2, SyncTouches
<1>. HIDE DEF b
<1>5. Silent(b) /\ Ready(b)
  BY <1>1, <1>4, TouchesSilent DEF Silent
<1>6. Touches(b, a, "assistant")
  BY <1>1, <1>2, <1>5, SyncTouches
<1>. HIDE DEF a
<1>7. Silent(a)
  BY <1>5, <1>6, TouchesSilent
<1>. QED
  BY <1>1, <1>3, <1>7

(* What may follow the text in an assistant line.                          *)
LEMMA ToolAndUsage ==
  ASSUME UsageInv, NEW text, Silent(text),
         NEW calls \in BOOLEAN, NEW call \in CallId, NEW counts \in BOOLEAN
  PROVE  LET tool == IF calls THEN ToolCall(text, TRUE, call) ELSE text
             done == TurnUsage(tool, counts)
         IN  /\ Beside(text, done.builder)
             /\ builder' = done.builder /\ usageEmitted' = done.emitted => UsageInv'
<1> DEFINE tool == IF calls THEN ToolCall(text, TRUE, call) ELSE text
<1> DEFINE done == TurnUsage(tool, counts)
<1>1. Ready(text)
  BY DEF Silent
<1>2. Beside(text, text)
  BY <1>1, BesideItself
<1>3. /\ Beside(text, ToolCall(text, TRUE, call))
      /\ Shows(ToolCall(text, TRUE, call))["turn"] = Shows(text)["turn"]
  BY <1>1, ToolCallBeside
<1>4. Beside(text, tool) /\ Silent(tool)
  BY <1>2, <1>3 DEF Silent, Beside
<1>. HIDE DEF tool
<1>5. /\ Beside(tool, done.builder)
      /\ builder' = done.builder /\ usageEmitted' = done.emitted => UsageInv'
  BY <1>4, TurnUsageEffect
<1>. HIDE DEF done
<1>6. Beside(text, done.builder)
  BY <1>4, <1>5, BesideTwice
<1>. QED
  BY <1>5, <1>6 DEF done, tool

LEMMA InlineAssistantKeeps == QwenInv /\ ParseInlineAssistant => QwenInv'
<1> SUFFICES ASSUME QwenInv,
                    NEW says \in BOOLEAN, NEW t \in Message, NEW another \in BOOLEAN,
                    NEW calls \in BOOLEAN, NEW call \in CallId, NEW counts \in BOOLEAN,
                    LET text == IF says THEN ParseInlineBlock(builder, TextBlock(t))
                                        ELSE builder
                        tool == IF calls THEN ParseInlineBlock(text, ToolBlock(call)) ELSE text
                        done == TurnUsage(tool, counts)
                    IN  /\ IF says THEN SayWhole("assistant", t, another) ELSE SayNothing
                        /\ Parse(done.builder)
                        /\ usageEmitted' = done.emitted,
                    UNCHANGED inlineThink
             PROVE  QwenInv'
  BY DEF ParseInlineAssistant
<1> DEFINE text == IF says THEN SyncInline(builder, t) ELSE builder
<1> DEFINE tool == IF calls THEN ToolCall(text, TRUE, call) ELSE text
<1> DEFINE done == TurnUsage(tool, counts)
<1>1. /\ IF says THEN SayWhole("assistant", t, another) ELSE SayNothing
      /\ Parse(done.builder) /\ usageEmitted' = done.emitted
  BY DEF ParseInlineBlock, TextBlock, ToolBlock
<1>2. /\ t \in Text /\ "assistant" \in Channel /\ "reasoning" \in Channel
      /\ Silent(builder) /\ Ready(builder)
  BY BeginningsAreTexts, Kinds DEF QwenInv, QwenTalk, Silent
<1>3. Silent(text) /\ Ready(text)
  <2> DEFINE d == SplitInlineThinking(t)
  <2> DEFINE b == Sync(builder, "reasoning", d.reasoning)
  <2> DEFINE a == Sync(b, "assistant", d.assistant)
  <2>1. d.reasoning \in Text /\ d.assistant \in Text
    BY <1>2, SplitFacts
  <2>2. SyncInline(builder, t) = a
    BY DEF SyncInline
  <2>. HIDE DEF d
  <2>3. Touches(builder, b, "reasoning")
    BY <1>2, <2>1, SyncTouches
  <2>. HIDE DEF b
  <2>4. Silent(b) /\ Ready(b)
    BY <1>2, <2>3, TouchesSilent DEF Silent
  <2>5. Touches(b, a, "assistant")
    BY <1>2, <2>1, <2>4, SyncTouches
  <2>. HIDE DEF a
  <2>6. Silent(a)
    BY <2>4, <2>5, TouchesSilent
  <2>. QED
    BY <1>2, <2>2, <2>6 DEF Silent
<1>4. Beside(text, tool) /\ Silent(tool)
  <2>. HIDE DEF text
  <2>1. Beside(text, text)
    BY <1>3, BesideItself
  <2>2. /\ Beside(text, ToolCall(text, TRUE, call))
        /\ Shows(ToolCall(text, TRUE, call))["turn"] = Shows(text)["turn"]
    BY <1>3, ToolCallBeside
  <2>. QED
    BY <1>3, <2>1, <2>2 DEF Silent, Beside
<1>. HIDE DEF tool
<1>5. Beside(tool, done.builder) /\ (builder' = done.builder => UsageInv')
  BY <1>1, <1>4, TurnUsageEffect DEF QwenInv
<1>. HIDE DEF done
<1>6. Beside(text, done.builder)
  BY <1>4, <1>5, BesideTwice
<1>7. QwenTalk'
  <2>1. CASE says
    BY <1>1, <1>6, <2>1, InlineTextKeeps
  <2>2. CASE ~says
    BY <1>1, <1>6, <2>2, QwenQuiet DEF QwenInv
  <2>. QED
    BY <2>1, <2>2
<1>8. builder' = done.builder
  BY <1>1 DEF Parse, ParseTo
<1>. QED
  BY <1>5, <1>7, <1>8 DEF QwenInv

(* The result ends both messages, each with its part of the text.          *)
LEMMA PartTells ==
  ASSUME NEW b, Ready(b), NEW c \in Channel, NEW u \in Text,
         NEW t \in [Channel -> Text], NEW w \in [Channel -> BOOLEAN],
         Talking(b, c, t, w, Never),
         NEW T \in [Channel -> Text], NEW W \in [Channel -> BOOLEAN],
         u # <<>> => T[c] = u,
         u = <<>> => ~W[c] \/ (T[c] = t[c] /\ W[c] = w[c])
  PROVE  Told(EmitResult(b, c, u), c, T, W, Never) /\ ~EmitResult(b, c, u).open[c]
<1>1. Never \in [Channel -> BOOLEAN] /\ ~Never[c]
  BY DEF Never
<1>2. CASE u # <<>> \/ (T[c] = t[c] /\ W[c] = w[c])
  BY <1>1, <1>2, ResultTells
<1>3. CASE u = <<>> /\ ~W[c]
  <2>1. ~EmitResult(b, c, u).open[c]
    BY EmitTouches DEF Talking
  <2>. QED
    BY <1>1, <1>3, <2>1 DEF Told
<1>. QED
  BY <1>2, <1>3

LEMMA InlineResultKeeps == QwenInv /\ ParseInlineResult => QwenInv'
<1> SUFFICES ASSUME QwenInv, NEW t \in Message \cup {<<>>}, NEW counts \in BOOLEAN,
                    IF t = <<>> THEN SayNothing ELSE SayWhole("assistant", t, FALSE),
                    EndTurn(TurnUsage(EmitInline(builder, t), counts).builder),
                    usageEmitted' = TurnUsage(EmitInline(builder, t), counts).emitted,
                    UNCHANGED inlineThink
             PROVE  QwenInv'
  BY DEF ParseInlineResult
<1> DEFINE d == SplitInlineThinking(t)
<1> DEFINE b == EmitResult(builder, "reasoning", d.reasoning)
<1> DEFINE a == EmitResult(b, "assistant", d.assistant)
<1> DEFINE n == TurnUsage(a, counts).builder
<1> DEFINE p == PartsOf(told)
<1> DEFINE r == RepeatedOf(told, whole)
<1> DEFINE q == PartsOf(told')
<1> DEFINE s == RepeatedOf(told', whole')
<1>1. /\ "assistant" \in Channel /\ "reasoning" \in Channel /\ "assistant" # "reasoning"
      /\ Channel = {"assistant", "reasoning"}
      /\ t \in Text /\ Ready(builder) /\ Silent(builder)
      /\ told \in [Channel -> Text] /\ whole \in [Channel -> BOOLEAN]
  BY Kinds, BeginningsAreTexts DEF QwenInv, QwenTalk, Silent
<1>2. d.reasoning \in Text /\ d.assistant \in Text
  BY <1>1, SplitFacts
<1>3. /\ told' \in [Channel -> Text] /\ whole' \in [Channel -> BOOLEAN]
      /\ t # <<>> => told'["assistant"] = t
      /\ t = <<>> => told' = told /\ whole' = whole
  BY <1>1 DEF SayWhole, SayAtOnce, SayNothing, history
<1>4. /\ p \in [Channel -> Text] /\ q \in [Channel -> Text]
      /\ q["assistant"] = SplitInlineThinking(told'["assistant"]).assistant
      /\ q["reasoning"] = SplitInlineThinking(told'["assistant"]).reasoning
  <2>1. p \in [Channel -> Text]
    BY <1>1, PartsTyped
  <2>2. /\ q \in [Channel -> Text]
        /\ q["assistant"] = SplitInlineThinking(told'["assistant"]).assistant
        /\ q["reasoning"] = SplitInlineThinking(told'["assistant"]).reasoning
    BY <1>3, PartsTyped
  <2>. QED
    BY <2>1, <2>2
<1>5. /\ r \in [Channel -> BOOLEAN] /\ s \in [Channel -> BOOLEAN]
      /\ \A c \in Channel : s[c] => q[c] # <<>>
  <2>1. r \in [Channel -> BOOLEAN]
    BY <1>1, RepeatedTyped
  <2>2. s \in [Channel -> BOOLEAN] /\ \A c \in Channel : s[c] => q[c] # <<>>
    BY <1>3, RepeatedTyped
  <2>. QED
    BY <2>1, <2>2
<1>6. /\ d.reasoning # <<>> => q["reasoning"] = d.reasoning
      /\ d.reasoning = <<>> => ~s["reasoning"] \/ (q = p /\ s = r)
      /\ d.assistant # <<>> => q["assistant"] = d.assistant
      /\ d.assistant = <<>> => ~s["assistant"] \/ (q = p /\ s = r)
  <2>1. CASE t = <<>>
    <3>1. d.reasoning = <<>> /\ d.assistant = <<>>
      BY <2>1, AppendNothing
    <3>2. q = p /\ s = r
      BY <1>3, <2>1
    <3>. QED
      BY <3>1, <3>2
  <2>2. CASE t # <<>>
    <3>1. q["reasoning"] = d.reasoning /\ q["assistant"] = d.assistant
      BY <1>3, <1>4, <2>2
    <3>. HIDE DEF q, s
    <3>2. (s["reasoning"] => q["reasoning"] # <<>>) /\ (s["assistant"] => q["assistant"] # <<>>)
      BY <1>1, <1>5
    <3>. QED
      BY <3>1, <3>2
  <2>. QED
    BY <2>1, <2>2
<1>7. EndTurn(n) /\ usageEmitted' = TurnUsage(a, counts).emitted
  BY DEF EmitInline
<1>. HIDE DEF d, p, r, q, s
<1>8. Touches(builder, b, "reasoning")
  BY <1>1, <1>2, EmitTouches
<1>9. Touches(b, a, "assistant")
  <2>1. Ready(b)
    BY <1>8 DEF Touches
  <2>. HIDE DEF b
  <2>. QED
    BY <1>1, <1>2, <2>1, EmitTouches
<1>10. Silent(a)
  <2>. HIDE DEF b
  <2>1. Silent(b)
    BY <1>1, <1>8, TouchesSilent
  <2>. HIDE DEF a
  <2>. QED
    BY <1>9, <2>1, TouchesSilent
<1>11. Beside(a, n) /\ (builder' = n => UsageInv')
  <2>. HIDE DEF a
  <2>. QED
    BY <1>7, <1>10, TurnUsageEffect DEF QwenInv
<1>. HIDE DEF n
<1>12. ASSUME turn = "first"
       PROVE  \A c \in Channel : Told(n, c, q, s, Never) /\ ~n.open[c]
  <2>1. Talking(builder, "assistant", p, r, Never) /\ Talking(builder, "reasoning", p, r, Never)
    BY <1>1, <1>12 DEF QwenInv, QwenTalk, p, r
  <2>2. Told(b, "reasoning", q, s, Never) /\ ~b.open["reasoning"]
    BY <1>1, <1>2, <1>4, <1>5, <1>6, <2>1, PartTells
  <2>. HIDE DEF b
  <2>3. Never \in [Channel -> BOOLEAN]
    BY DEF Never
  <2>4. Talking(b, "assistant", p, r, Never) /\ Ready(b)
    BY <1>1, <1>4, <1>5, <1>8, <2>1, <2>3, BesideTalks DEF Touches
  <2>5. Told(a, "assistant", q, s, Never) /\ ~a.open["assistant"]
    BY <1>1, <1>2, <1>4, <1>5, <1>6, <2>4, PartTells
  <2>. HIDE DEF a
  <2>6. Told(a, "reasoning", q, s, Never) /\ ~a.open["reasoning"]
    BY <1>1, <1>4, <1>5, <1>9, <2>2, <2>3, BesideTalks DEF Touches
  <2>7. \A c \in Channel : Told(a, c, q, s, Never) /\ ~a.open[c]
    BY <1>1, <2>5, <2>6
  <2>. QED
    BY <1>4, <1>5, <1>11, <2>3, <2>7, BesideTalks DEF Beside
<1>13. Ready(n)
  BY <1>11 DEF Beside
<1>14. QwenTalk'
  BY <1>3, <1>7, <1>12, <1>13, QwenEnds DEF QwenInv, q, s
<1>15. builder' = n
  BY <1>7 DEF EndTurn, ParseTo
<1>. QED
  BY <1>11, <1>14, <1>15 DEF QwenInv

LEMMA QwenInitInv == QwenInit => QwenInv
<1> SUFFICES ASSUME QwenInit PROVE QwenInv
  OBVIOUS
<1>1. BlockInv /\ turn = "first" /\ NewStream \in Stream
  BY BlockInitInv, EmptySeq DEF QwenInit, BlockInit, TalkInit, NewStream, Stream, Text
<1>2. /\ told \in [Channel -> Text] /\ whole \in [Channel -> BOOLEAN]
      /\ told = [c \in Channel |-> <<>>] /\ whole = [c \in Channel |-> FALSE]
  BY <1>1 DEF BlockInv, TalkInv, QwenInit, BlockInit, TalkInit
<1> DEFINE p == PartsOf(told)
<1> DEFINE r == RepeatedOf(told, whole)
<1>3. r = Never
  BY <1>2, Kinds DEF RepeatedOf, Never
<1>. HIDE DEF p, r
<1>4. ASSUME NEW c \in Channel PROVE Talking(builder, c, p, r, Never)
  <2>1. Talking(builder, c, told, whole, first)
    BY <1>1 DEF BlockInv, TalkInv
  <2>2. ~Never[c]
    BY DEF Never
  <2>. QED
    BY <1>3, <2>1, <2>2 DEF Talking
<1>. QED
  BY <1>1, <1>2, <1>4 DEF QwenInv, QwenTalk, BlockInv, TalkInv, QwenInit, p, r

LEMMA QwenKeeps == QwenInv /\ [QwenNext]_qwenVars => QwenInv'
<1> SUFFICES ASSUME QwenInv, [QwenNext]_qwenVars PROVE QwenInv'
  OBVIOUS
<1>1. Ready(builder) /\ Beside(builder, builder)
  BY BesideItself DEF QwenInv, QwenTalk
<1>2. CASE ToolUseStart /\ UNCHANGED inlineThink
  <2>1. PICK named \in BOOLEAN, call \in CallId :
           /\ SayNothing /\ Parse(ToolCall(builder, named, call)) /\ UNCHANGED usageEmitted
    BY <1>2 DEF ToolUseStart
  <2> DEFINE n == ToolCall(builder, named, call)
  <2>2. Beside(builder, n) /\ Shows(n)["turn"] = Shows(builder)["turn"]
    BY <1>1, ToolCallBeside
  <2>3. Parse(n)
    BY <2>1
  <2>. HIDE DEF n
  <2>4. QwenTalk'
    BY <2>1, <2>2, <2>3, QwenQuiet DEF QwenInv
  <2>5. UsageInv'
    BY <2>1, <2>2, <2>3, SilentLine DEF QwenInv, Silent, Beside, Parse, ParseTo
  <2>. QED
    BY <1>2, <2>4, <2>5 DEF QwenInv
<1>3. CASE ParseErrorResult /\ UNCHANGED inlineThink
  <2>1. QwenTalk'
    BY <1>1, <1>3, QwenQuiet DEF QwenInv, ParseErrorResult
  <2>2. builder' = builder /\ UNCHANGED usageEmitted
    BY <1>3 DEF ParseErrorResult, Parse, ParseTo
  <2>. QED
    BY <1>3, <2>1, <2>2, SilentLine DEF QwenInv
<1>4. CASE UNCHANGED qwenVars
  BY <1>4 DEF QwenInv, QwenTalk, UsageInv, qwenVars, blockVars, vars, history
<1>. QED
  BY <1>2, <1>3, <1>4, ThinkingApartKeeps, InlineDeltaKeeps, InlineAssistantKeeps,
     InlineResultKeeps DEF QwenNext

(* What holds between the lines of Qwen.                                   *)
THEOREM QwenInvariant == QwenSpec => []QwenInv
BY QwenInitInv, QwenKeeps, PTL DEF QwenSpec

(* A repeated text corrects what the stream carried over from earlier      *)
(* messages: its parts are the messages shown last.                        *)
THEOREM QwenRepeatedTextShown == QwenSpec => []RepeatedTextShown
BY QwenInvariant, QwenTalkSuffices, PTL DEF QwenInv

(* The first result leaves no message and no phase open, whatever the      *)
(* stream keeps back.                                                      *)
THEOREM QwenEndedClosed == QwenSpec => []EndedClosed
BY QwenInvariant, QwenTalkSuffices, PTL DEF QwenInv

(* The usage that comes with every message and with the result is          *)
(* reported once in the life of the parser, and only a usage that was      *)
(* reported uses that up.                                                  *)
THEOREM QwenUsageOnce == QwenSpec => []UsageOnce
BY QwenInvariant, UsageInvSuffices, PTL DEF QwenInv

--------------------------------------------------------------------------------
(* Qwen's first message is heard once, if its messages are Continuing.     *)

(* What the parser has given out of the text told.                         *)
OutOf(t, w) ==
  IF w["assistant"] THEN SplitInlineThinking(t["assistant"])
                    ELSE AppendInline(NewStream, t["assistant"])

HeardOf(t, w) ==
  [c \in Channel |-> IF c = "assistant" THEN OutOf(t, w).assistant
                                        ELSE t["reasoning"] \o OutOf(t, w).reasoning]

OnceOf(t, w, f) ==
  [c \in Channel |->
     f["assistant"] /\ (c = "assistant" \/ t["reasoning"] = <<>> \/ OutOf(t, w).reasoning = <<>>)]

OnceInv ==
  /\ first \in [Channel -> BOOLEAN]
  /\ ~whole["reasoning"]
  /\ whole["assistant"] => told["assistant"] \in Message
  /\ turn # "later" /\ first["assistant"] /\ ~whole["assistant"]
       => inlineThink = AppendInline(NewStream, told["assistant"]).stream
  /\ turn = "first" => \A c \in Channel :
       Talking(builder, c, HeardOf(told, whole), Never, OnceOf(told, whole, first))
  /\ turn = "ended" => \A c \in Channel :
       Told(builder, c, HeardOf(told, whole), Never, OnceOf(told, whole, first))

LEMMA NothingIsText == <<>> \in Text
BY EmptySeq DEF Text

LEMMA AfterNothing ==
  ASSUME NEW r \in Text, NEW d \in Division
  PROVE  /\ After(r, <<>>, d) \in Division /\ After(r, <<>>, d).stream = d.stream
         /\ After(r, <<>>, d).reasoning = r \o d.reasoning
         /\ After(r, <<>>, d).assistant = d.assistant
<1> DEFINE a == <<>>
<1> DEFINE A == d.assistant
<1>1. a \in Text
  BY NothingIsText
<1>2. a \o A = A
  <2>1. A \in Text
    BY DEF Division
  <2>. HIDE DEF A
  <2>. QED
    BY <2>1, TextFacts
<1>. HIDE DEF a
<1>3. /\ After(r, a, d) \in Division /\ After(r, a, d).stream = d.stream
      /\ After(r, a, d).reasoning = r \o d.reasoning
      /\ After(r, a, d).assistant = a \o A
  BY <1>1, AfterFields
<1>4. After(r, a, d).assistant = A
  BY <1>2, <1>3
<1>. QED
  BY <1>3, <1>4 DEF a

LEMMA NothingBegins == ASSUME NEW s \in Text, IsPrefix(s, <<>>) PROVE s = <<>>
<1>1. Len(<<>>) = 0 /\ Len(s) \in Nat /\ (s = <<>> <=> Len(s) = 0)
  BY TextFacts
<1>. QED
  BY <1>1 DEF IsPrefix

LEMMA PrefixOfPrefix ==
  ASSUME NEW s \in Text, NEW t \in Text, NEW u \in Text, IsPrefix(s, t), IsPrefix(t, u)
  PROVE  IsPrefix(s, u)
<1> DEFINE x == SubSeq(t, Len(s) + 1, Len(t))
<1> DEFINE y == SubSeq(u, Len(t) + 1, Len(u))
<1>1. x \in Text /\ s \o x = t
  BY PrefixAndRest
<1>2. y \in Text /\ t \o y = u
  BY PrefixAndRest
<1>. HIDE DEF x, y
<1>3. x \o y \in Text /\ s \o (x \o y) = u
  <2>1. x \o y \in Text
    BY <1>1, <1>2, JoinFacts
  <2>2. x \in Text /\ y \in Text
    BY <1>1, <1>2
  <2>3. (s \o x) \o y = s \o (x \o y)
    BY <2>2, JoinThree, Zenon
  <2>. QED
    BY <1>1, <1>2, <2>1, <2>3
<1>4. IsPrefix(s, s \o (x \o y))
  BY <1>3, JoinPrefix
<1>. QED
  BY <1>3, <1>4

LEMMA NewStreamFacts == NewStream \in Stream
BY EmptySeq DEF NewStream, Stream, Text

(* The stream is never ahead of the split of a longer text.                *)
LEMMA StreamBeginsSplit ==
  ASSUME NEW t \in Text, NEW u \in Text, IsPrefix(t, u)
  PROVE  LET d == AppendInline(NewStream, t)
             e == SplitInlineThinking(u)
         IN  IsPrefix(d.reasoning, e.reasoning) /\ IsPrefix(d.assistant, e.assistant)
<1> DEFINE d == AppendInline(NewStream, t)
<1> DEFINE v == SubSeq(u, Len(t) + 1, Len(u))
<1> DEFINE x == AppendInline(NewStream, u)
<1> DEFINE y == AppendInline(d.stream, v)
<1> DEFINE e == SplitInlineThinking(u)
<1>1. v \in Text /\ t \o v = u
  BY PrefixAndRest
<1>2. d \in Division /\ x \in Division /\ e \in Division
  BY NewStreamFacts, AppendInlineKeeps, SplitFacts
<1>3. d.stream \in Stream /\ d.reasoning \in Text /\ d.assistant \in Text
  BY <1>2 DEF Division
<1>. HIDE DEF v
<1>4. y \in Division
  BY <1>1, <1>3, AppendInlineKeeps
<1>5. AppendInline(NewStream, t \o v) = After(d.reasoning, d.assistant, y)
  BY <1>1, NewStreamFacts, AppendInlineTwice
<1>6. x = After(d.reasoning, d.assistant, y)
  BY <1>1, <1>5
<1>7. e = Say(x, x.stream.pending)
  BY DEF SplitInlineThinking
<1>. HIDE DEF d, x, y, e
<1>8. x.reasoning = d.reasoning \o y.reasoning /\ x.assistant = d.assistant \o y.assistant
  BY <1>3, <1>4, <1>6, AfterFields
<1>9. /\ y.reasoning \in Text /\ y.assistant \in Text
      /\ x.reasoning \in Text /\ x.assistant \in Text /\ x.stream.pending \in Text
      /\ e.reasoning \in Text /\ e.assistant \in Text
  BY <1>2, <1>4 DEF Division, Stream
<1>10. IsPrefix(d.reasoning, x.reasoning) /\ IsPrefix(d.assistant, x.assistant)
  BY <1>3, <1>8, <1>9, JoinPrefix
<1>11. IsPrefix(x.reasoning, e.reasoning) /\ IsPrefix(x.assistant, e.assistant)
  BY <1>2, <1>7, <1>9, SayAdds
<1>12. IsPrefix(d.reasoning, e.reasoning) /\ IsPrefix(d.assistant, e.assistant)
  BY <1>3, <1>9, <1>10, <1>11, PrefixOfPrefix
<1>. QED
  BY <1>12 DEF d, e

LEMMA HeardTyped ==
  ASSUME NEW t \in [Channel -> Text], NEW w \in [Channel -> BOOLEAN]
  PROVE  /\ OutOf(t, w) \in Division
         /\ OutOf(t, w).reasoning \in Text /\ OutOf(t, w).assistant \in Text
         /\ HeardOf(t, w) \in [Channel -> Text]
         /\ HeardOf(t, w)["assistant"] = OutOf(t, w).assistant
         /\ HeardOf(t, w)["reasoning"] = t["reasoning"] \o OutOf(t, w).reasoning
<1>1. /\ Channel = {"assistant", "reasoning"} /\ "assistant" # "reasoning"
      /\ t["assistant"] \in Text /\ t["reasoning"] \in Text
  BY Kinds
<1>2. OutOf(t, w) \in Division
  BY <1>1, NewStreamFacts, AppendInlineKeeps, SplitFacts DEF OutOf
<1>3. OutOf(t, w).reasoning \in Text /\ OutOf(t, w).assistant \in Text
  BY <1>2 DEF Division
<1>4. t["reasoning"] \o OutOf(t, w).reasoning \in Text
  BY <1>1, <1>3, JoinFacts
<1>5. /\ HeardOf(t, w) \in [Channel -> Text]
      /\ HeardOf(t, w)["assistant"] = OutOf(t, w).assistant
      /\ HeardOf(t, w)["reasoning"] = t["reasoning"] \o OutOf(t, w).reasoning
  BY <1>1, <1>3, <1>4 DEF HeardOf
<1>. QED
  BY <1>2, <1>3, <1>5

LEMMA OnceTyped ==
  ASSUME NEW t, NEW w, NEW f \in [Channel -> BOOLEAN]
  PROVE  /\ OnceOf(t, w, f) \in [Channel -> BOOLEAN] /\ Never \in [Channel -> BOOLEAN]
         /\ OnceOf(t, w, f)["assistant"] <=> f["assistant"]
         /\ OnceOf(t, w, f)["reasoning"] <=>
              (f["assistant"] /\ (t["reasoning"] = <<>> \/ OutOf(t, w).reasoning = <<>>))
<1>1. /\ Channel = {"assistant", "reasoning"} /\ "assistant" # "reasoning"
      /\ f["assistant"] \in BOOLEAN
  BY Kinds
<1>. QED
  BY <1>1 DEF OnceOf, Never

(* From "heard text, once" to the same after u was repeated or emitted: u  *)
(* goes on with the text, or there is nothing to say.                      *)
Follows(c, t, f, T, F, u) ==
  F[c] => /\ f[c]
          /\ \/ T[c] = u /\ IsPrefix(t[c], u)
             \/ u = <<>> /\ T[c] = t[c]

LEMMA SyncFollows ==
  ASSUME NEW b, Ready(b), NEW c \in Channel, NEW u \in Text,
         NEW t \in [Channel -> Text], NEW f \in [Channel -> BOOLEAN],
         Talking(b, c, t, Never, f),
         NEW T \in [Channel -> Text], NEW F \in [Channel -> BOOLEAN],
         Follows(c, t, f, T, F, u)
  PROVE  Talking(Sync(b, c, u), c, T, Never, F)
<1>1. Never \in [Channel -> BOOLEAN] /\ ~Never[c] /\ t[c] \in Text
  BY DEF Never
<1>2. CASE u = <<>>
  <2>1. Sync(b, c, u) = b
    BY <1>2, SyncEffect DEF Syncs
  <2>2. F[c] => f[c] /\ T[c] = t[c]
    BY <1>1, <1>2, NothingBegins DEF Follows
  <2>. QED
    BY <1>1, <2>1, <2>2 DEF Talking
<1>3. CASE u # <<>>
  <2> DEFINE X == [T EXCEPT ![c] = u]
  <2>1. X \in [Channel -> Text] /\ X[c] = u
    OBVIOUS
  <2>. HIDE DEF X
  <2>2. F[c] => f[c] /\ T[c] = u /\ IsPrefix(t[c], X[c])
    BY <1>3, <2>1 DEF Follows
  <2>3. Talking(Sync(b, c, X[c]), c, X, Never, F)
    BY <1>1, <2>1, <2>2, SyncTalks
  <2>. QED
    BY <1>1, <2>1, <2>2, <2>3 DEF Talking
<1>. QED
  BY <1>2, <1>3

LEMMA EmitFollows ==
  ASSUME NEW b, Ready(b), NEW c \in Channel, NEW u \in Text,
         NEW t \in [Channel -> Text], NEW f \in [Channel -> BOOLEAN],
         Talking(b, c, t, Never, f),
         NEW T \in [Channel -> Text], NEW F \in [Channel -> BOOLEAN],
         Follows(c, t, f, T, F, u)
  PROVE  Told(EmitResult(b, c, u), c, T, Never, F)
<1>1. Never \in [Channel -> BOOLEAN] /\ ~Never[c] /\ t[c] \in Text
  BY DEF Never
<1>2. CASE u = <<>>
  <2>1. F[c] => f[c] /\ T[c] = t[c]
    BY <1>1, <1>2, NothingBegins DEF Follows
  <2>2. Told(EmitResult(b, c, u), c, t, Never, F)
    BY <1>1, <1>2, <2>1, ResultTells
  <2>. QED
    BY <1>1, <2>1, <2>2 DEF Told
<1>3. CASE u # <<>>
  <2> DEFINE X == [T EXCEPT ![c] = u]
  <2>1. X \in [Channel -> Text] /\ X[c] = u
    OBVIOUS
  <2>. HIDE DEF X
  <2>2. F[c] => f[c] /\ T[c] = u /\ IsPrefix(t[c], X[c])
    BY <1>3, <2>1 DEF Follows
  <2>3. Told(EmitResult(b, c, u), c, X, Never, F)
    BY <1>1, <1>3, <2>1, <2>2, ResultTells
  <2>. QED
    BY <1>1, <2>1, <2>2, <2>3 DEF Told
<1>. QED
  BY <1>2, <1>3

(* The whole text is said: both its parts go on with what was heard.       *)
LEMMA WholeFollows ==
  ASSUME Continuing, QwenInv, OnceInv, NEW t \in Message, NEW another \in BOOLEAN,
         SayWhole("assistant", t, another)
  PROVE  LET d == SplitInlineThinking(t)
             p == HeardOf(told, whole)
             f == OnceOf(told, whole, first)
             q == HeardOf(told', whole')
             g == OnceOf(told', whole', first')
         IN  /\ Follows("assistant", p, f, q, g, d.assistant)
             /\ Follows("reasoning", p, f, q, g, d.reasoning)
<1> DEFINE d == SplitInlineThinking(t)
<1> DEFINE o == OutOf(told, whole)
<1> DEFINE r == told["reasoning"]
<1>1. /\ "assistant" \in Channel /\ "reasoning" \in Channel /\ "assistant" # "reasoning"
      /\ t \in Text /\ told["assistant"] \in Text /\ r \in Text
      /\ told \in [Channel -> Text] /\ whole \in [Channel -> BOOLEAN]
      /\ first \in [Channel -> BOOLEAN]
  BY Kinds, BeginningsAreTexts DEF QwenInv, QwenTalk, OnceInv
<1>2. /\ told' \in [Channel -> Text] /\ whole' \in [Channel -> BOOLEAN]
      /\ first' \in [Channel -> BOOLEAN]
      /\ told'["assistant"] = t /\ told'["reasoning"] = r /\ whole'["assistant"]
      /\ first'["assistant"] <=> (first["assistant"] /\ ~another)
      /\ ~another => IsPrefix(told["assistant"], t)
  BY <1>1 DEF SayWhole, SayAtOnce
<1>3. OutOf(told', whole') = d
  BY <1>2 DEF OutOf
<1>4. d.reasoning \in Text /\ d.assistant \in Text
  BY <1>1, SplitFacts
<1>5. ASSUME ~another
      PROVE  IsPrefix(o.reasoning, d.reasoning) /\ IsPrefix(o.assistant, d.assistant)
  <2>1. IsPrefix(told["assistant"], t)
    BY <1>2, <1>5
  <2>2. CASE whole["assistant"]
    <3>1. o = SplitInlineThinking(told["assistant"]) /\ told["assistant"] \in Message
      BY <2>2 DEF OnceInv, OutOf
    <3>. QED
      BY <2>1, <3>1 DEF Continuing
  <2>3. CASE ~whole["assistant"]
    <3>1. o = AppendInline(NewStream, told["assistant"])
      BY <2>3 DEF OutOf
    <3>. QED
      BY <1>1, <2>1, <3>1, StreamBeginsSplit
  <2>. QED
    BY <2>2, <2>3
<1> DEFINE p == HeardOf(told, whole)
<1> DEFINE f == OnceOf(told, whole, first)
<1> DEFINE q == HeardOf(told', whole')
<1> DEFINE g == OnceOf(told', whole', first')
<1>. HIDE DEF d, p, f, q, g
<1>6. /\ o.reasoning \in Text /\ o.assistant \in Text
      /\ p["assistant"] = o.assistant /\ p["reasoning"] = r \o o.reasoning
      /\ f["assistant"] <=> first["assistant"]
      /\ f["reasoning"] <=> (first["assistant"] /\ (r = <<>> \/ o.reasoning = <<>>))
  <2>1. o.reasoning \in Text /\ o.assistant \in Text
    BY <1>1, HeardTyped
  <2>2. p["assistant"] = o.assistant /\ p["reasoning"] = r \o o.reasoning
    BY <1>1, HeardTyped DEF p
  <2>3. /\ f \in [Channel -> BOOLEAN] /\ Never \in [Channel -> BOOLEAN]
        /\ f["assistant"] <=> first["assistant"]
        /\ f["reasoning"] <=> (first["assistant"] /\ (r = <<>> \/ o.reasoning = <<>>))
    BY <1>1, OnceTyped DEF f
  <2>. QED
    BY <2>1, <2>2, <2>3
<1>7. /\ q["assistant"] = d.assistant /\ q["reasoning"] = r \o d.reasoning
      /\ g["assistant"] <=> first'["assistant"]
      /\ g["reasoning"] <=> (first'["assistant"] /\ (r = <<>> \/ d.reasoning = <<>>))
  <2>1. q["assistant"] = OutOf(told', whole').assistant
        /\ q["reasoning"] = told'["reasoning"] \o OutOf(told', whole').reasoning
    BY <1>2, HeardTyped DEF q
  <2>2. /\ g["assistant"] <=> first'["assistant"]
        /\ g["reasoning"] <=> (first'["assistant"]
             /\ (told'["reasoning"] = <<>> \/ OutOf(told', whole').reasoning = <<>>))
    BY <1>2, OnceTyped DEF g
  <2>. QED
    BY <1>2, <1>3, <2>1, <2>2
<1>. HIDE DEF o
<1>8. Follows("assistant", p, f, q, g, d.assistant)
  BY <1>2, <1>5, <1>6, <1>7 DEF Follows
<1>9. Follows("reasoning", p, f, q, g, d.reasoning)
  <2> SUFFICES ASSUME g["reasoning"]
               PROVE  /\ f["reasoning"]
                      /\ \/ q["reasoning"] = d.reasoning /\ IsPrefix(p["reasoning"], d.reasoning)
                         \/ d.reasoning = <<>> /\ q["reasoning"] = p["reasoning"]
    BY DEF Follows
  <2>1. /\ first["assistant"] /\ (r = <<>> \/ d.reasoning = <<>>)
        /\ IsPrefix(o.reasoning, d.reasoning)
    BY <1>2, <1>5, <1>7
  <2>2. CASE r = <<>>
    <3>1. r \o d.reasoning = d.reasoning /\ r \o o.reasoning = o.reasoning
      BY <1>4, <1>6, <2>2, TextFacts
    <3>. QED
      BY <1>6, <1>7, <2>1, <2>2, <3>1
  <2>3. CASE d.reasoning = <<>>
    <3>1. o.reasoning = <<>>
      BY <1>6, <2>1, <2>3, NothingBegins
    <3>. QED
      BY <1>6, <1>7, <2>1, <2>3, <3>1
  <2>. QED
    BY <2>1, <2>2, <2>3
<1>. QED
  BY <1>8, <1>9 DEF d, p, f, q, g

(* What is remembered after a line, apart from what is shown.              *)
Remembered ==
  /\ first' \in [Channel -> BOOLEAN]
  /\ ~whole'["reasoning"]
  /\ whole'["assistant"] => told'["assistant"] \in Message
  /\ turn # "later" /\ first'["assistant"] /\ ~whole'["assistant"]
       => inlineThink' = AppendInline(NewStream, told'["assistant"]).stream

LEMMA OnceParses ==
  ASSUME Remembered, NEW n, Parse(n),
         turn = "first" => \A c \in Channel :
           Talking(n, c, HeardOf(told', whole'), Never, OnceOf(told', whole', first'))
  PROVE  OnceInv'
<1>1. builder' = n /\ turn' = IF turn = "ended" THEN "later" ELSE turn
  BY DEF Parse, ParseTo
<1>2. /\ turn' = "first" => turn = "first"
      /\ turn' # "later" => turn # "later"
      /\ turn' # "ended"
  BY <1>1
<1>. QED
  BY <1>1, <1>2 DEF OnceInv, Remembered

LEMMA OnceEnds ==
  ASSUME Remembered, NEW n, EndTurn(n),
         turn = "first" => \A c \in Channel :
           Told(n, c, HeardOf(told', whole'), Never, OnceOf(told', whole', first'))
  PROVE  OnceInv'
<1>1. builder' = n /\ turn' = IF turn = "first" THEN "ended" ELSE "later"
  BY DEF EndTurn, ParseTo
<1>2. /\ turn' = "ended" => turn = "first"
      /\ turn' # "later" => turn # "later"
      /\ turn' # "first"
  BY <1>1
<1>. QED
  BY <1>1, <1>2 DEF OnceInv, Remembered

LEMMA ThinkingApartOnce == QwenInv /\ OnceInv /\ ThinkingApart => OnceInv'
<1> SUFFICES ASSUME QwenInv, OnceInv, NEW t \in Beginnings \ {<<>>}, SayUpTo("reasoning", t),
                    Parse(AppendDelta(builder, "reasoning", Piece("reasoning", t))),
                    UNCHANGED inlineThink
             PROVE  OnceInv'
  BY DEF ThinkingApart
<1> DEFINE u == Piece("reasoning", t)
<1> DEFINE n == AppendDelta(builder, "reasoning", u)
<1> DEFINE o == OutOf(told, whole)
<1> DEFINE p == HeardOf(told, whole)
<1> DEFINE f == OnceOf(told, whole, first)
<1> DEFINE q == HeardOf(told', whole')
<1> DEFINE g == OnceOf(told', whole', first')
<1>1. /\ "assistant" \in Channel /\ "reasoning" \in Channel /\ "assistant" # "reasoning"
      /\ Channel = {"assistant", "reasoning"}
      /\ t \in Text \ {<<>>} /\ Ready(builder)
      /\ told \in [Channel -> Text] /\ whole \in [Channel -> BOOLEAN]
      /\ first \in [Channel -> BOOLEAN] /\ ~whole["reasoning"]
  BY Kinds, BeginningsAreTexts DEF QwenInv, QwenTalk, OnceInv
<1>2. /\ told["reasoning"] \in Text /\ Begun("reasoning") = told["reasoning"]
      /\ IsPrefix(told["reasoning"], t)
  BY <1>1 DEF Begun, SayUpTo
<1>3. u \in Text /\ told["reasoning"] \o u = t
  BY <1>1, <1>2, PieceIsText, PrefixAndRest DEF Piece
<1>4. /\ told' \in [Channel -> Text] /\ whole' \in [Channel -> BOOLEAN]
      /\ first' \in [Channel -> BOOLEAN]
      /\ told'["reasoning"] = t /\ told'["assistant"] = told["assistant"]
      /\ whole'["assistant"] = whole["assistant"] /\ ~whole'["reasoning"]
      /\ first'["assistant"] = first["assistant"]
  BY <1>1 DEF SayUpTo
<1>5. OutOf(told', whole') = o
  BY <1>4 DEF OutOf
<1>6. Remembered
  BY <1>4 DEF Remembered, OnceInv
<1>7. Parse(n)
  OBVIOUS
<1>. HIDE DEF u, o, p, f, q, g
<1>8. Touches(builder, n, "reasoning")
  BY <1>1, <1>3, DeltaTouches
<1>. HIDE DEF n
<1>9. ASSUME turn = "first" PROVE \A c \in Channel : Talking(n, c, q, Never, g)
  <2>1. /\ Talking(builder, "assistant", p, Never, f)
        /\ Talking(builder, "reasoning", p, Never, f)
    BY <1>1, <1>9 DEF OnceInv, p, f
  <2>2. /\ p \in [Channel -> Text]
        /\ p["assistant"] = o.assistant
        /\ p["reasoning"] = told["reasoning"] \o o.reasoning
        /\ o.reasoning \in Text
    BY <1>1, HeardTyped DEF p, o
  <2>3. /\ f \in [Channel -> BOOLEAN] /\ Never \in [Channel -> BOOLEAN]
        /\ f["assistant"] <=> first["assistant"]
        /\ f["reasoning"] <=> (first["assistant"]
                               /\ (told["reasoning"] = <<>> \/ o.reasoning = <<>>))
    BY <1>1, OnceTyped DEF f, o
  <2>4. /\ q \in [Channel -> Text]
        /\ q["assistant"] = OutOf(told', whole').assistant
        /\ q["reasoning"] = told'["reasoning"] \o OutOf(told', whole').reasoning
    BY <1>4, HeardTyped DEF q
  <2>5. /\ g \in [Channel -> BOOLEAN]
        /\ g["assistant"] <=> first'["assistant"]
        /\ g["reasoning"] <=>
             (first'["assistant"]
              /\ (told'["reasoning"] = <<>> \/ OutOf(told', whole').reasoning = <<>>))
    BY <1>4, OnceTyped DEF g
  <2>6. q["assistant"] = p["assistant"] /\ (g["assistant"] <=> f["assistant"])
    BY <1>4, <1>5, <2>2, <2>3, <2>4, <2>5
  <2>7. g["reasoning"] => f["reasoning"] /\ p["reasoning"] \o u = q["reasoning"]
    <3> SUFFICES ASSUME g["reasoning"]
                 PROVE  f["reasoning"] /\ p["reasoning"] \o u = q["reasoning"]
      OBVIOUS
    <3>1. first["assistant"] /\ o.reasoning = <<>>
      BY <1>1, <1>4, <1>5, <2>5
    <3>2. p["reasoning"] = told["reasoning"]
      BY <1>2, <2>2, <3>1, TextFacts
    <3>3. q["reasoning"] = t
      BY <1>1, <1>4, <1>5, <2>4, <3>1, TextFacts
    <3>. QED
      BY <1>3, <2>3, <3>1, <3>2, <3>3
  <2>8. ~Never["reasoning"] /\ ~Never["assistant"]
    BY <1>1 DEF Never
  <2>9. Talking(AppendDelta(builder, "reasoning", u), "reasoning", q, Never, g)
    BY <1>1, <1>3, <2>1, <2>2, <2>3, <2>4, <2>5, <2>7, <2>8, DeltaTalks
  <2>10. Talking(n, "reasoning", q, Never, g)
    BY <2>9 DEF n
  <2>11. Talking(n, "assistant", q, Never, g)
    <3>1. /\ n.text["assistant"] = builder.text["assistant"]
          /\ n.open["assistant"] = builder.open["assistant"]
          /\ n.emitted["assistant"] = builder.emitted["assistant"]
          /\ Shows(n)["assistant"] = Shows(builder)["assistant"]
      BY <1>1, <1>8 DEF Touches
    <3>. QED
      BY <2>1, <2>6, <2>8, <3>1 DEF Talking
  <2>. QED
    BY <1>1, <2>10, <2>11
<1>. QED
  BY <1>6, <1>7, <1>9, OnceParses DEF q, g

LEMMA InlineDeltaOnce == QwenInv /\ OnceInv /\ InlineDelta => OnceInv'
<1> SUFFICES ASSUME QwenInv, OnceInv, NEW t \in Beginnings \ {<<>>}, SayUpTo("assistant", t),
                    LET d == AppendInline(inlineThink, Piece("assistant", t))
                        b == AppendDelta(builder, "reasoning", d.reasoning)
                    IN  /\ Parse(AppendDelta(b, "assistant", d.assistant))
                        /\ inlineThink' = d.stream
             PROVE  OnceInv'
  BY DEF InlineDelta
<1> DEFINE u == Piece("assistant", t)
<1> DEFINE d == AppendInline(inlineThink, u)
<1> DEFINE b == AppendDelta(builder, "reasoning", d.reasoning)
<1> DEFINE n == AppendDelta(b, "assistant", d.assistant)
<1> DEFINE o == OutOf(told, whole)
<1> DEFINE v == OutOf(told', whole')
<1> DEFINE p == HeardOf(told, whole)
<1> DEFINE f == OnceOf(told, whole, first)
<1> DEFINE q == HeardOf(told', whole')
<1> DEFINE g == OnceOf(told', whole', first')
<1>1. /\ "assistant" \in Channel /\ "reasoning" \in Channel /\ "assistant" # "reasoning"
      /\ Channel = {"assistant", "reasoning"}
      /\ t \in Text /\ Ready(builder) /\ inlineThink \in Stream
      /\ told \in [Channel -> Text] /\ whole \in [Channel -> BOOLEAN]
      /\ first \in [Channel -> BOOLEAN]
      /\ told["assistant"] \in Text /\ told["reasoning"] \in Text
  BY Kinds, BeginningsAreTexts DEF QwenInv, QwenTalk, OnceInv
<1>2. u \in Text
  BY <1>1, PieceIsText
<1>3. /\ told' \in [Channel -> Text] /\ whole' \in [Channel -> BOOLEAN]
      /\ first' \in [Channel -> BOOLEAN]
      /\ told'["assistant"] = t /\ told'["reasoning"] = told["reasoning"]
      /\ ~whole'["assistant"] /\ whole'["reasoning"] = whole["reasoning"]
      /\ first'["assistant"] <=> (first["assistant"] /\ ~whole["assistant"])
  BY <1>1 DEF SayUpTo
<1>4. Parse(n) /\ inlineThink' = d.stream
  OBVIOUS
<1>. HIDE DEF u
<1>5. d \in Division
  BY <1>1, <1>2, AppendInlineKeeps
<1>6. d.stream \in Stream /\ d.reasoning \in Text /\ d.assistant \in Text
  BY <1>5 DEF Division
(* The stream takes the piece on from where the pieces before left it.     *)
<1>7. ASSUME first'["assistant"], turn # "later"
      PROVE  /\ v.stream = d.stream /\ v.reasoning = o.reasoning \o d.reasoning
             /\ v.assistant = o.assistant \o d.assistant
  <2>1. first["assistant"] /\ ~whole["assistant"]
    BY <1>3, <1>7
  <2>2. told["assistant"] \o u = t
    <3>1. Begun("assistant") = told["assistant"] /\ IsPrefix(told["assistant"], t)
      BY <2>1 DEF Begun, SayUpTo
    <3>. QED
      BY <1>1, <3>1, PrefixAndRest DEF Piece, u
  <2>3. /\ o = AppendInline(NewStream, told["assistant"])
        /\ v = AppendInline(NewStream, t)
        /\ inlineThink = o.stream
    BY <1>3, <1>7, <2>1 DEF OutOf, OnceInv
  <2>4. o \in Division
    BY <1>1, HeardTyped
  <2>5. o.reasoning \in Text /\ o.assistant \in Text
    BY <2>4 DEF Division
  <2> DEFINE x == AppendInline(NewStream, told["assistant"])
  <2>6. AppendInline(NewStream, told["assistant"] \o u)
          = After(x.reasoning, x.assistant, AppendInline(x.stream, u))
    BY <1>1, <1>2, NewStreamFacts, AppendInlineTwice
  <2>7. x = o
    BY <2>3
  <2>. HIDE DEF x, o, v
  <2>8. v = After(o.reasoning, o.assistant, d)
    BY <2>2, <2>3, <2>6, <2>7
  <2>. HIDE DEF d
  <2>. QED
    BY <1>5, <2>5, <2>8, AfterFields
<1>8. Remembered
  <2>1. ASSUME turn # "later", first'["assistant"]
        PROVE  inlineThink' = AppendInline(NewStream, told'["assistant"]).stream
    <3>1. v = AppendInline(NewStream, told'["assistant"])
      BY <1>3 DEF OutOf
    <3>. HIDE DEF v, d
    <3>2. v.stream = d.stream
      BY <1>7, <2>1
    <3>. QED
      BY <1>4, <3>1, <3>2
  <2>. QED
    BY <1>3, <2>1 DEF Remembered, OnceInv
<1>. HIDE DEF d, o, v, p, f, q, g
<1>9. Touches(builder, b, "reasoning")
  BY <1>1, <1>6, DeltaTouches
<1>10. Touches(b, n, "assistant")
  <2>1. Ready(b)
    BY <1>9 DEF Touches
  <2>. HIDE DEF b
  <2>. QED
    BY <1>1, <1>6, <2>1, DeltaTouches
<1>11. ASSUME turn = "first" PROVE \A c \in Channel : Talking(n, c, q, Never, g)
  <2>1. /\ Talking(builder, "assistant", p, Never, f)
        /\ Talking(builder, "reasoning", p, Never, f)
    BY <1>1, <1>11 DEF OnceInv, p, f
  <2>2. /\ p \in [Channel -> Text]
        /\ p["assistant"] = o.assistant
        /\ p["reasoning"] = told["reasoning"] \o o.reasoning
        /\ o.reasoning \in Text
    BY <1>1, HeardTyped DEF p, o
  <2>3. /\ f \in [Channel -> BOOLEAN] /\ Never \in [Channel -> BOOLEAN]
        /\ f["assistant"] <=> first["assistant"]
        /\ f["reasoning"] <=> (first["assistant"]
                               /\ (told["reasoning"] = <<>> \/ o.reasoning = <<>>))
    BY <1>1, OnceTyped DEF f, o
  <2>4. /\ q \in [Channel -> Text]
        /\ q["assistant"] = v.assistant
        /\ q["reasoning"] = told'["reasoning"] \o v.reasoning
    BY <1>3, HeardTyped DEF q, v
  <2>5. /\ g \in [Channel -> BOOLEAN]
        /\ g["assistant"] <=> first'["assistant"]
        /\ g["reasoning"] <=> (first'["assistant"]
                               /\ (told'["reasoning"] = <<>> \/ v.reasoning = <<>>))
    BY <1>3, OnceTyped DEF g, v
  <2>6. g["assistant"] => f["assistant"] /\ p["assistant"] \o d.assistant = q["assistant"]
    BY <1>3, <1>7, <1>11, <2>2, <2>3, <2>4, <2>5
  <2>7. g["reasoning"] => f["reasoning"] /\ p["reasoning"] \o d.reasoning = q["reasoning"]
    <3> SUFFICES ASSUME g["reasoning"]
                 PROVE  f["reasoning"] /\ p["reasoning"] \o d.reasoning = q["reasoning"]
      OBVIOUS
    <3>1. /\ first["assistant"] /\ (told["reasoning"] = <<>> \/ v.reasoning = <<>>)
          /\ v.reasoning = o.reasoning \o d.reasoning
      BY <1>3, <1>7, <1>11, <2>5
    <3>2. IsPrefix(o.reasoning, o.reasoning \o d.reasoning)
      BY <1>6, <2>2, JoinPrefix
    <3>3. v.reasoning = <<>> => o.reasoning = <<>>
      BY <2>2, <3>1, <3>2, NothingBegins
    <3>4. (told["reasoning"] \o o.reasoning) \o d.reasoning
            = told["reasoning"] \o (o.reasoning \o d.reasoning)
      <4> DEFINE x == told["reasoning"]
      <4> DEFINE y == o.reasoning
      <4> DEFINE z == d.reasoning
      <4>1. x \in Text /\ y \in Text /\ z \in Text
        BY <1>1, <1>6, <2>2
      <4>. HIDE DEF x, y, z
      <4>2. (x \o y) \o z = x \o (y \o z)
        BY <4>1, JoinThree, Zenon
      <4>. QED
        BY <4>2 DEF x, y, z
    <3>. QED
      BY <1>3, <2>2, <2>3, <2>4, <3>1, <3>3, <3>4
  <2>8. ~Never["reasoning"] /\ ~Never["assistant"]
    BY <1>1 DEF Never
  <2>9. Talking(AppendDelta(builder, "reasoning", d.reasoning), "reasoning", q, Never, g)
    BY <1>1, <1>6, <2>1, <2>2, <2>3, <2>4, <2>5, <2>7, <2>8, DeltaTalks
  <2>10. Talking(b, "reasoning", q, Never, g)
    BY <2>9 DEF b
  <2>. HIDE DEF b
  <2>11. Talking(b, "assistant", p, Never, f) /\ Ready(b)
    BY <1>1, <1>9, <2>1, <2>2, <2>3, BesideTalks DEF Touches
  <2>12. Talking(AppendDelta(b, "assistant", d.assistant), "assistant", q, Never, g)
    BY <1>1, <1>6, <2>2, <2>3, <2>4, <2>5, <2>6, <2>8, <2>11, DeltaTalks
  <2>13. Talking(n, "assistant", q, Never, g)
    BY <2>12 DEF n
  <2>. HIDE DEF n
  <2>14. Talking(n, "reasoning", q, Never, g)
    BY <1>1, <1>10, <2>3, <2>4, <2>5, <2>10, BesideTalks DEF Touches
  <2>. QED
    BY <1>1, <2>13, <2>14
<1>. QED
  BY <1>4, <1>8, <1>11, OnceParses DEF q, g

LEMMA InlineTextOnce ==
  ASSUME Continuing, QwenInv, OnceInv, NEW t \in Message, NEW another \in BOOLEAN,
         SayWhole("assistant", t, another), UNCHANGED inlineThink,
         NEW n, Beside(SyncInline(builder, t), n), Parse(n)
  PROVE  OnceInv'
<1> DEFINE d == SplitInlineThinking(t)
<1> DEFINE b == Sync(builder, "reasoning", d.reasoning)
<1> DEFINE a == Sync(b, "assistant", d.assistant)
<1> DEFINE p == HeardOf(told, whole)
<1> DEFINE f == OnceOf(told, whole, first)
<1> DEFINE q == HeardOf(told', whole')
<1> DEFINE g == OnceOf(told', whole', first')
<1>1. /\ "assistant" \in Channel /\ "reasoning" \in Channel /\ "assistant" # "reasoning"
      /\ Channel = {"assistant", "reasoning"}
      /\ t \in Text /\ Ready(builder)
      /\ told \in [Channel -> Text] /\ whole \in [Channel -> BOOLEAN]
      /\ first \in [Channel -> BOOLEAN] /\ ~whole["reasoning"]
  BY Kinds, BeginningsAreTexts DEF QwenInv, QwenTalk, OnceInv
<1>2. d.reasoning \in Text /\ d.assistant \in Text
  BY <1>1, SplitFacts
<1>3. /\ told' \in [Channel -> Text] /\ whole' \in [Channel -> BOOLEAN]
      /\ first' \in [Channel -> BOOLEAN]
      /\ told'["assistant"] = t /\ whole'["assistant"] /\ ~whole'["reasoning"]
  BY <1>1 DEF SayWhole, SayAtOnce
<1>4. Remembered
  BY <1>3 DEF Remembered
<1>5. /\ Follows("assistant", p, f, q, g, d.assistant)
      /\ Follows("reasoning", p, f, q, g, d.reasoning)
  BY WholeFollows
<1>6. p \in [Channel -> Text] /\ q \in [Channel -> Text]
  BY <1>1, <1>3, HeardTyped
<1>7. /\ f \in [Channel -> BOOLEAN] /\ g \in [Channel -> BOOLEAN]
      /\ Never \in [Channel -> BOOLEAN]
  BY <1>1, <1>3, OnceTyped
<1>8. Beside(a, n)
  BY DEF SyncInline
<1>. HIDE DEF d, p, f, q, g
<1>9. Touches(builder, b, "reasoning")
  BY <1>1, <1>2, SyncTouches
<1>10. Touches(b, a, "assistant")
  <2>1. Ready(b)
    BY <1>9 DEF Touches
  <2>. HIDE DEF b
  <2>. QED
    BY <1>1, <1>2, <2>1, SyncTouches
<1>11. ASSUME turn = "first" PROVE \A c \in Channel : Talking(n, c, q, Never, g)
  <2>1. /\ Talking(builder, "assistant", p, Never, f)
        /\ Talking(builder, "reasoning", p, Never, f)
    BY <1>1, <1>11 DEF OnceInv, p, f
  <2>2. Talking(b, "reasoning", q, Never, g)
    BY <1>1, <1>2, <1>5, <1>6, <1>7, <2>1, SyncFollows
  <2>. HIDE DEF b
  <2>3. Talking(b, "assistant", p, Never, f) /\ Ready(b)
    BY <1>1, <1>6, <1>7, <1>9, <2>1, BesideTalks DEF Touches
  <2>4. Talking(a, "assistant", q, Never, g)
    BY <1>1, <1>2, <1>5, <1>6, <1>7, <2>3, SyncFollows
  <2>. HIDE DEF a
  <2>5. Talking(a, "reasoning", q, Never, g)
    BY <1>1, <1>6, <1>7, <1>10, <2>2, BesideTalks DEF Touches
  <2>6. \A c \in Channel : Talking(a, c, q, Never, g)
    BY <1>1, <2>4, <2>5
  <2>. QED
    BY <1>6, <1>7, <1>8, <2>6, BesideTalks DEF Beside
<1>. QED
  BY <1>4, <1>11, OnceParses DEF q, g

LEMMA QuietOnce ==
  ASSUME QwenInv, OnceInv, SayNothing, UNCHANGED inlineThink, NEW n, Beside(builder, n), Parse(n)
  PROVE  OnceInv'
<1>1. told' = told /\ whole' = whole /\ first' = first
  BY DEF SayNothing, history
<1>2. /\ told \in [Channel -> Text] /\ whole \in [Channel -> BOOLEAN]
      /\ first \in [Channel -> BOOLEAN]
  BY DEF QwenInv, QwenTalk, OnceInv
<1>3. Remembered
  BY <1>1 DEF Remembered, OnceInv
<1> DEFINE p == HeardOf(told, whole)
<1> DEFINE f == OnceOf(told, whole, first)
<1>4. p \in [Channel -> Text]
  BY <1>2, HeardTyped
<1>5. f \in [Channel -> BOOLEAN] /\ Never \in [Channel -> BOOLEAN]
  BY <1>2, OnceTyped
<1>6. turn = "first" => \A c \in Channel : Talking(builder, c, p, Never, f)
  BY DEF OnceInv
<1>7. p = HeardOf(told', whole') /\ f = OnceOf(told', whole', first')
  BY <1>1
<1>. HIDE DEF p, f
<1>8. turn = "first" => \A c \in Channel : Talking(n, c, p, Never, f)
  BY <1>4, <1>5, <1>6, BesideTalks DEF Beside
<1>. QED
  BY <1>3, <1>7, <1>8, OnceParses

LEMMA InlineAssistantOnce == Continuing /\ QwenInv /\ OnceInv /\ ParseInlineAssistant => OnceInv'
<1> SUFFICES ASSUME Continuing, QwenInv, OnceInv,
                    NEW says \in BOOLEAN, NEW t \in Message, NEW another \in BOOLEAN,
                    NEW calls \in BOOLEAN, NEW call \in CallId, NEW counts \in BOOLEAN,
                    LET text == IF says THEN ParseInlineBlock(builder, TextBlock(t))
                                        ELSE builder
                        tool == IF calls THEN ParseInlineBlock(text, ToolBlock(call)) ELSE text
                        done == TurnUsage(tool, counts)
                    IN  /\ IF says THEN SayWhole("assistant", t, another) ELSE SayNothing
                        /\ Parse(done.builder)
                        /\ usageEmitted' = done.emitted,
                    UNCHANGED inlineThink
             PROVE  OnceInv'
  BY DEF ParseInlineAssistant
<1> DEFINE text == IF says THEN SyncInline(builder, t) ELSE builder
<1> DEFINE tool == IF calls THEN ToolCall(text, TRUE, call) ELSE text
<1> DEFINE n == TurnUsage(tool, counts).builder
<1>1. /\ IF says THEN SayWhole("assistant", t, another) ELSE SayNothing
      /\ Parse(n)
  BY DEF ParseInlineBlock, TextBlock, ToolBlock
<1>2. Beside(text, n)
  <2>1. UsageInv /\ Silent(text)
    BY InlineTextSilent DEF QwenInv
  <2>. HIDE DEF text
  <2>. QED
    BY <2>1, ToolAndUsage
<1>. HIDE DEF n
<1>3. CASE says
  BY <1>1, <1>2, <1>3, InlineTextOnce
<1>4. CASE ~says
  BY <1>1, <1>2, <1>4, QuietOnce
<1>. QED
  BY <1>3, <1>4

LEMMA InlineResultOnce == Continuing /\ QwenInv /\ OnceInv /\ ParseInlineResult => OnceInv'
<1> SUFFICES ASSUME Continuing, QwenInv, OnceInv,
                    NEW t \in Message \cup {<<>>}, NEW counts \in BOOLEAN,
                    IF t = <<>> THEN SayNothing ELSE SayWhole("assistant", t, FALSE),
                    EndTurn(TurnUsage(EmitInline(builder, t), counts).builder),
                    UNCHANGED inlineThink
             PROVE  OnceInv'
  BY DEF ParseInlineResult
<1> DEFINE d == SplitInlineThinking(t)
<1> DEFINE b == EmitResult(builder, "reasoning", d.reasoning)
<1> DEFINE a == EmitResult(b, "assistant", d.assistant)
<1> DEFINE n == TurnUsage(a, counts).builder
<1> DEFINE p == HeardOf(told, whole)
<1> DEFINE f == OnceOf(told, whole, first)
<1> DEFINE q == HeardOf(told', whole')
<1> DEFINE g == OnceOf(told', whole', first')
<1>1. /\ "assistant" \in Channel /\ "reasoning" \in Channel /\ "assistant" # "reasoning"
      /\ Channel = {"assistant", "reasoning"}
      /\ t \in Text /\ Ready(builder) /\ Silent(builder)
      /\ told \in [Channel -> Text] /\ whole \in [Channel -> BOOLEAN]
      /\ first \in [Channel -> BOOLEAN] /\ ~whole["reasoning"]
  BY Kinds, BeginningsAreTexts DEF QwenInv, QwenTalk, OnceInv, Silent
<1>2. d.reasoning \in Text /\ d.assistant \in Text
  BY <1>1, SplitFacts
<1>3. /\ told' \in [Channel -> Text] /\ whole' \in [Channel -> BOOLEAN]
      /\ first' \in [Channel -> BOOLEAN]
      /\ t # <<>> => told'["assistant"] = t /\ whole'["assistant"] /\ ~whole'["reasoning"]
      /\ t = <<>> => told' = told /\ whole' = whole /\ first' = first
  BY <1>1 DEF SayWhole, SayAtOnce, SayNothing, history
<1>4. Remembered
  BY <1>3 DEF Remembered, OnceInv
<1>5. /\ Follows("assistant", p, f, q, g, d.assistant)
      /\ Follows("reasoning", p, f, q, g, d.reasoning)
  <2>1. CASE t = <<>>
    <3>1. d.reasoning = <<>> /\ d.assistant = <<>>
      BY <2>1, AppendNothing
    <3>2. p = q /\ f = g
      BY <1>3, <2>1
    <3>. HIDE DEF d, p, f, q, g
    <3>. QED
      BY <3>1, <3>2 DEF Follows
  <2>2. CASE t # <<>>
    BY <2>2, WholeFollows
  <2>. QED
    BY <2>1, <2>2
<1>6. p \in [Channel -> Text] /\ q \in [Channel -> Text]
  BY <1>1, <1>3, HeardTyped
<1>7. /\ f \in [Channel -> BOOLEAN] /\ g \in [Channel -> BOOLEAN]
      /\ Never \in [Channel -> BOOLEAN]
  BY <1>1, <1>3, OnceTyped
<1>8. EndTurn(n)
  BY DEF EmitInline
<1>. HIDE DEF d, p, f, q, g
<1>9. Touches(builder, b, "reasoning")
  BY <1>1, <1>2, EmitTouches
<1>10. Touches(b, a, "assistant")
  <2>1. Ready(b)
    BY <1>9 DEF Touches
  <2>. HIDE DEF b
  <2>. QED
    BY <1>1, <1>2, <2>1, EmitTouches
<1>11. Beside(a, n)
  <2>. HIDE DEF b
  <2>1. Silent(b)
    BY <1>1, <1>9, TouchesSilent
  <2>. HIDE DEF a
  <2>2. Silent(a)
    BY <1>10, <2>1, TouchesSilent
  <2>. QED
    BY <2>2, TurnUsageEffect DEF QwenInv
<1>. HIDE DEF n
<1>12. ASSUME turn = "first" PROVE \A c \in Channel : Told(n, c, q, Never, g)
  <2>1. /\ Talking(builder, "assistant", p, Never, f)
        /\ Talking(builder, "reasoning", p, Never, f)
    BY <1>1, <1>12 DEF OnceInv, p, f
  <2>2. Told(b, "reasoning", q, Never, g)
    BY <1>1, <1>2, <1>5, <1>6, <1>7, <2>1, EmitFollows
  <2>. HIDE DEF b
  <2>3. Talking(b, "assistant", p, Never, f) /\ Ready(b)
    BY <1>1, <1>6, <1>7, <1>9, <2>1, BesideTalks DEF Touches
  <2>4. Told(a, "assistant", q, Never, g)
    BY <1>1, <1>2, <1>5, <1>6, <1>7, <2>3, EmitFollows
  <2>. HIDE DEF a
  <2>5. Told(a, "reasoning", q, Never, g)
    BY <1>1, <1>6, <1>7, <1>10, <2>2, BesideTalks DEF Touches
  <2>6. \A c \in Channel : Told(a, c, q, Never, g)
    BY <1>1, <2>4, <2>5
  <2>. QED
    BY <1>6, <1>7, <1>11, <2>6, BesideTalks DEF Beside
<1>. QED
  BY <1>4, <1>8, <1>12, OnceEnds DEF q, g

LEMMA OnceInit == QwenInit => OnceInv
<1> SUFFICES ASSUME QwenInit PROVE OnceInv
  OBVIOUS
<1>1. /\ BlockInv /\ turn = "first" /\ inlineThink = NewStream
      /\ told = [c \in Channel |-> <<>>] /\ whole = [c \in Channel |-> FALSE]
      /\ first = [c \in Channel |-> TRUE]
  BY BlockInitInv DEF QwenInit, BlockInit, TalkInit
<1>2. /\ told \in [Channel -> Text] /\ whole \in [Channel -> BOOLEAN]
      /\ first \in [Channel -> BOOLEAN]
      /\ Channel = {"assistant", "reasoning"} /\ <<>> \in Text /\ <<>> \o <<>> = <<>>
  BY <1>1, Kinds, TextFacts DEF BlockInv, TalkInv
<1> DEFINE o == OutOf(told, whole)
<1> DEFINE p == HeardOf(told, whole)
<1> DEFINE f == OnceOf(told, whole, first)
<1>3. o = AppendInline(NewStream, <<>>)
  BY <1>1, <1>2 DEF OutOf
<1>4. o.reasoning = <<>> /\ o.assistant = <<>> /\ o.stream = NewStream
  BY <1>3, AppendNothing
<1>5. p["assistant"] = o.assistant /\ p["reasoning"] = told["reasoning"] \o o.reasoning
  BY <1>2, HeardTyped
<1>6. p["assistant"] = <<>> /\ p["reasoning"] = <<>>
  BY <1>1, <1>2, <1>4, <1>5
<1>7. inlineThink = AppendInline(NewStream, told["assistant"]).stream
  BY <1>1, <1>2, <1>3, <1>4
<1>. HIDE DEF o, p, f
<1>8. ASSUME NEW c \in Channel PROVE Talking(builder, c, p, Never, f)
  <2>1. Talking(builder, c, told, whole, first)
    BY <1>1 DEF BlockInv, TalkInv
  <2>2. ~Never[c] /\ first[c] /\ told[c] = p[c]
    BY <1>1, <1>2, <1>6 DEF Never
  <2>. QED
    BY <2>1, <2>2 DEF Talking
<1>. QED
  BY <1>1, <1>2, <1>7, <1>8 DEF OnceInv, p, f

LEMMA OnceKeeps == Continuing /\ QwenInv /\ OnceInv /\ [QwenNext]_qwenVars => OnceInv'
<1> SUFFICES ASSUME Continuing, QwenInv, OnceInv, [QwenNext]_qwenVars PROVE OnceInv'
  OBVIOUS
<1>1. Ready(builder) /\ Beside(builder, builder)
  BY BesideItself DEF QwenInv, QwenTalk
<1>2. CASE ToolUseStart /\ UNCHANGED inlineThink
  <2>1. PICK named \in BOOLEAN, call \in CallId :
           SayNothing /\ Parse(ToolCall(builder, named, call))
    BY <1>2 DEF ToolUseStart
  <2> DEFINE n == ToolCall(builder, named, call)
  <2>2. Beside(builder, n) /\ Parse(n)
    BY <1>1, <2>1, ToolCallBeside
  <2>. HIDE DEF n
  <2>. QED
    BY <1>2, <2>1, <2>2, QuietOnce
<1>3. CASE ParseErrorResult /\ UNCHANGED inlineThink
  BY <1>1, <1>3, QuietOnce DEF ParseErrorResult
<1>4. CASE UNCHANGED qwenVars
  BY <1>4 DEF OnceInv, qwenVars, blockVars, vars, history
<1>. QED
  BY <1>2, <1>3, <1>4, ThinkingApartOnce, InlineDeltaOnce, InlineAssistantOnce,
     InlineResultOnce DEF QwenNext

LEMMA OnceSuffices == QwenInv /\ OnceInv => DividedOnce
<1> SUFFICES ASSUME QwenInv, OnceInv, turn # "later", first["assistant"], OneWay
             PROVE  LET heard == [stream    |-> inlineThink,
                                  reasoning |-> Shown["reasoning"].all,
                                  assistant |-> Shown["assistant"].all]
                        all   == IF whole["assistant"] THEN heard
                                 ELSE Say(heard, inlineThink.pending)
                    IN  /\ all.reasoning = told["reasoning"] \o Divided.reasoning
                        /\ all.assistant = Divided.assistant
                        /\ \A c \in Channel : Shown[c].started <= 1
  BY DEF DividedOnce
<1> DEFINE r == told["reasoning"]
<1> DEFINE t == told["assistant"]
<1> DEFINE o == OutOf(told, whole)
<1> DEFINE p == HeardOf(told, whole)
<1> DEFINE f == OnceOf(told, whole, first)
<1>1. /\ Channel = {"assistant", "reasoning"} /\ "assistant" # "reasoning"
      /\ told \in [Channel -> Text] /\ whole \in [Channel -> BOOLEAN]
      /\ first \in [Channel -> BOOLEAN] /\ r \in Text /\ t \in Text
      /\ Divided = SplitInlineThinking(t)
      /\ inlineThink \in Stream
  BY Kinds DEF QwenInv, QwenTalk, OnceInv, Divided
<1>2. /\ o \in Division /\ o.reasoning \in Text /\ o.assistant \in Text
      /\ p["assistant"] = o.assistant /\ p["reasoning"] = r \o o.reasoning
  BY <1>1, HeardTyped
<1>3. r = <<>> \/ o.reasoning = <<>>
  <2>1. CASE whole["assistant"]
    BY <1>1, <2>1 DEF OneWay, OutOf
  <2>2. CASE ~whole["assistant"]
    <3>1. o = AppendInline(NewStream, t)
      BY <2>2 DEF OutOf
    <3>2. IsPrefix(t, t)
      BY <1>1, JoinPrefix
    <3>3. IsPrefix(o.reasoning, Divided.reasoning)
      BY <1>1, <3>1, <3>2, StreamBeginsSplit
    <3>4. Divided.reasoning = <<>> => o.reasoning = <<>>
      BY <1>2, <3>3, NothingBegins
    <3>. QED
      BY <3>4 DEF OneWay
  <2>. QED
    BY <2>1, <2>2
<1>4. f["assistant"] /\ f["reasoning"]
  BY <1>1, <1>3, OnceTyped
<1>5. \A c \in Channel : Told(builder, c, p, Never, f)
  BY DEF OnceInv, QwenInv, QwenTalk, Talking, Told
<1>. HIDE DEF o, p, f
<1>6. /\ Shown["assistant"].all = o.assistant /\ Shown["reasoning"].all = r \o o.reasoning
      /\ \A c \in Channel : Shown[c].started <= 1
  BY <1>1, <1>2, <1>4, <1>5 DEF Told, Shown, Shows
<1>7. CASE whole["assistant"]
  <2>1. o = Divided
    BY <1>1, <1>7 DEF o, OutOf
  <2>. QED
    BY <1>6, <1>7, <2>1
<1>8. CASE ~whole["assistant"]
  <2> DEFINE heard == [stream    |-> inlineThink,
                       reasoning |-> Shown["reasoning"].all,
                       assistant |-> Shown["assistant"].all]
  <2> DEFINE x == o.stream.pending
  <2>1. o = AppendInline(NewStream, t) /\ inlineThink = o.stream
    BY <1>8 DEF o, OutOf, OnceInv
  <2>2. Divided = Say(o, x)
    BY <1>1, <2>1 DEF SplitInlineThinking
  <2>3. /\ After(r, <<>>, o) \in Division
        /\ After(r, <<>>, o).stream = o.stream
        /\ After(r, <<>>, o).reasoning = r \o o.reasoning
        /\ After(r, <<>>, o).assistant = o.assistant
    BY <1>1, <1>2, AfterNothing
  <2>4. heard = After(r, <<>>, o)
    <3> DEFINE y == After(r, <<>>, o)
    <3>1. y \in Division /\ y.stream = inlineThink
          /\ y.reasoning = Shown["reasoning"].all /\ y.assistant = Shown["assistant"].all
      BY <1>6, <2>1, <2>3
    <3>. HIDE DEF y
    <3>2. heard = y
      BY <3>1 DEF Division
    <3>. QED
      BY <3>2 DEF y
  <2>. HIDE DEF heard
  <2>5. Say(heard, x) = After(r, <<>>, Divided)
    <3>1. x \in Text
      BY <1>2 DEF Division, Stream
    <3>. QED
      BY <1>1, <1>2, <2>2, <2>4, <3>1, NothingIsText, SayAfter
  <2>6. Divided \in Division /\ Divided.assistant \in Text
    BY <1>1, SplitFacts
  <2>7. /\ Say(heard, x).reasoning = r \o Divided.reasoning
        /\ Say(heard, x).assistant = Divided.assistant
    <3> DEFINE y == Divided
    <3>1. y = Divided /\ y \in Division
      BY <2>6
    <3>. HIDE DEF y
    <3>2. /\ After(r, <<>>, y).reasoning = r \o y.reasoning
          /\ After(r, <<>>, y).assistant = y.assistant
      BY <1>1, <3>1, AfterNothing
    <3>. QED
      BY <2>5, <3>1, <3>2
  <2>8. x = inlineThink.pending
    BY <2>1
  <2>. QED
    BY <1>6, <1>8, <2>7, <2>8 DEF heard
<1>. QED
  BY <1>7, <1>8

(* The first message of the answer, divided into thinking and answer, is   *)
(* heard once and wholly, but for what the stream keeps back.              *)
THEOREM QwenDividedOnce ==
  ASSUME Continuing
  PROVE  QwenSpec => []DividedOnce
<1>1. OnceInv /\ QwenInv /\ [QwenNext]_qwenVars => OnceInv'
  BY OnceKeeps
<1>. QED
  BY <1>1, OnceInit, OnceSuffices, QwenInvariant, PTL DEF QwenSpec
================================================================================
