-------------------------- MODULE InlineThinkingProofs --------------------------
(***************************************************************************)
(* Proofs about the inline thinking stream, for all tags and all texts: it *)
(* keeps back only what may still become the tag it waits for, what it     *)
(* gives out does not depend on where the deltas cut the text, and it is   *)
(* the division of the text by definition.                                 *)
(***************************************************************************)
EXTENDS InlineThinkingStream, Recursion, SequenceTheorems

--------------------------------------------------------------------------------
(* Texts and their parts *)

LEMMA TextFacts ==
  ASSUME NEW s \in Text
  PROVE  /\ Len(s) \in Nat /\ <<>> \in Text /\ Len(<<>>) = 0
         /\ (s = <<>>) <=> (Len(s) = 0)
         /\ s \o <<>> = s /\ <<>> \o s = s
         /\ \A i \in 1..Len(s) : s[i] \in Char
BY LenProperties, EmptySeq, ConcatEmptySeq, ElementOfSeq DEF Text

LEMMA JoinFacts ==
  ASSUME NEW s \in Text, NEW t \in Text
  PROVE  /\ s \o t \in Text /\ Len(s \o t) = Len(s) + Len(t)
         /\ \A i \in 1..(Len(s) + Len(t)) :
              (s \o t)[i] = IF i <= Len(s) THEN s[i] ELSE t[i - Len(s)]
BY ConcatProperties DEF Text

LEMMA JoinThree ==
  ASSUME NEW s \in Text, NEW t \in Text, NEW u \in Text
  PROVE  (s \o t) \o u = s \o (t \o u)
BY ConcatAssociative DEF Text

LEMMA SameText ==
  ASSUME NEW s \in Text, NEW t \in Text, Len(s) = Len(t), \A i \in 1..Len(s) : s[i] = t[i]
  PROVE  s = t
BY SeqEqual DEF Text

LEMMA TakeFacts ==
  ASSUME NEW t \in Text, NEW n \in 0..Len(t)
  PROVE  /\ Take(t, n) \in Text /\ Len(Take(t, n)) = n
         /\ \A i \in 1..n : Take(t, n)[i] = t[i]
<1>1. Len(t) \in Nat /\ \A i \in 1..n : t[i] \in Char
  BY TextFacts
<1>. QED
  BY <1>1, SubSeqProperties DEF Text, Take

LEMMA DropFacts ==
  ASSUME NEW t \in Text, NEW n \in 0..Len(t)
  PROVE  /\ Drop(t, n) \in Text /\ Len(Drop(t, n)) = Len(t) - n
         /\ \A i \in 1..(Len(t) - n) : Drop(t, n)[i] = t[n + i]
<1>1. Len(t) \in Nat /\ \A i \in (n + 1)..Len(t) : t[i] \in Char
  BY TextFacts
<1>. QED
  BY <1>1, SubSeqProperties DEF Text, Drop

LEMMA TakeDropJoin ==
  ASSUME NEW t \in Text, NEW n \in 0..Len(t)
  PROVE  /\ Take(t, n) \o Drop(t, n) = t
         /\ Take(t, 0) = <<>> /\ Drop(t, 0) = t
         /\ Take(t, Len(t)) = t /\ Drop(t, Len(t)) = <<>>
<1>1. Len(t) \in Nat /\ 0 \in 0..Len(t) /\ Len(t) \in 0..Len(t)
  BY TextFacts
<1>2. Take(t, n) \o Drop(t, n) = t
  <2> DEFINE p == Take(t, n)
  <2> DEFINE q == Drop(t, n)
  <2>1. p \in Text /\ Len(p) = n /\ \A i \in 1..n : p[i] = t[i]
    BY TakeFacts
  <2>2. q \in Text /\ Len(q) = Len(t) - n /\ \A i \in 1..(Len(t) - n) : q[i] = t[n + i]
    BY DropFacts
  <2>. HIDE DEF p, q
  <2>3. /\ p \o q \in Text /\ Len(p \o q) = Len(p) + Len(q)
        /\ \A i \in 1..(Len(p) + Len(q)) :
             (p \o q)[i] = IF i <= Len(p) THEN p[i] ELSE q[i - Len(p)]
    BY <2>1, <2>2, JoinFacts
  <2>4. Len(p \o q) = Len(t)
    BY <1>1, <2>1, <2>2, <2>3
  <2>5. ASSUME NEW i \in 1..Len(t) PROVE (p \o q)[i] = t[i]
    BY <1>1, <2>1, <2>2, <2>3
  <2>6. p \o q = t
    BY <2>3, <2>4, <2>5, SameText
  <2>. QED
    BY <2>6 DEF p, q
<1>3. Take(t, 0) = <<>> /\ Drop(t, Len(t)) = <<>>
  <2>1. Take(t, 0) \in Text /\ Len(Take(t, 0)) = 0
    BY <1>1, TakeFacts
  <2>2. Drop(t, Len(t)) \in Text /\ Len(Drop(t, Len(t))) = Len(t) - Len(t)
    BY <1>1, DropFacts
  <2>3. Len(t) - Len(t) = 0
    BY <1>1
  <2>. QED
    BY <2>1, <2>2, <2>3, TextFacts
<1>4. Take(t, Len(t)) = t
  BY <1>1, TakeFacts, SameText
<1>5. Drop(t, 0) = t
  <2>1. /\ Drop(t, 0) \in Text /\ Len(Drop(t, 0)) = Len(t)
        /\ \A i \in 1..Len(t) : Drop(t, 0)[i] = t[i]
    BY <1>1, DropFacts
  <2>. QED
    BY <2>1, SameText
<1>. QED
  BY <1>2, <1>3, <1>4, <1>5

LEMMA TakeDropOfJoin ==
  ASSUME NEW s \in Text, NEW t \in Text, NEW n \in 0..Len(s)
  PROVE  Take(s \o t, n) = Take(s, n) /\ Drop(s \o t, n) = Drop(s, n) \o t
<1>1. /\ Len(s) \in Nat /\ Len(t) \in Nat /\ s \o t \in Text
      /\ Len(s \o t) = Len(s) + Len(t) /\ n \in 0..Len(s \o t)
  BY TextFacts, JoinFacts
<1>2. Take(s \o t, n) = Take(s, n)
  <2>1. Take(s \o t, n) \in Text /\ Take(s, n) \in Text
        /\ Len(Take(s \o t, n)) = n /\ Len(Take(s, n)) = n
    BY <1>1, TakeFacts
  <2>2. \A i \in 1..n : Take(s \o t, n)[i] = (s \o t)[i] /\ Take(s, n)[i] = s[i]
    BY <1>1, TakeFacts
  <2>3. \A i \in 1..n : (s \o t)[i] = s[i]
    BY <1>1, JoinFacts
  <2>. QED
    BY <2>1, <2>2, <2>3, SameText
<1>3. Drop(s \o t, n) = Drop(s, n) \o t
  <2>1. /\ Drop(s \o t, n) \in Text /\ Len(Drop(s \o t, n)) = Len(s) + Len(t) - n
        /\ \A i \in 1..(Len(s) + Len(t) - n) : Drop(s \o t, n)[i] = (s \o t)[n + i]
    <3> DEFINE w == s \o t
    <3>1. w \in Text /\ n \in 0..Len(w) /\ Len(w) = Len(s) + Len(t)
      BY <1>1
    <3>. HIDE DEF w
    <3>2. /\ Drop(w, n) \in Text /\ Len(Drop(w, n)) = Len(w) - n
          /\ \A i \in 1..(Len(w) - n) : Drop(w, n)[i] = w[n + i]
      BY <3>1, DropFacts
    <3>3. /\ Drop(w, n) \in Text /\ Len(Drop(w, n)) = Len(s) + Len(t) - n
          /\ \A i \in 1..(Len(s) + Len(t) - n) : Drop(w, n)[i] = w[n + i]
      BY <3>1, <3>2
    <3>. QED
      BY <3>3 DEF w
  <2>2. /\ Drop(s, n) \in Text /\ Len(Drop(s, n)) = Len(s) - n
        /\ \A i \in 1..(Len(s) - n) : Drop(s, n)[i] = s[n + i]
    BY DropFacts
  <2> DEFINE u == Drop(s, n)
  <2>3. /\ u \o t \in Text /\ Len(u \o t) = Len(s) + Len(t) - n
        /\ \A i \in 1..(Len(s) + Len(t) - n) :
             (u \o t)[i] = IF i <= Len(s) - n THEN u[i] ELSE t[i - (Len(s) - n)]
    <3>0. u \in Text /\ Len(u) = Len(s) - n
      BY <2>2
    <3>. HIDE DEF u
    <3>1. /\ u \in Text /\ Len(u) + Len(t) = Len(s) + Len(t) - n
          /\ u \o t \in Text /\ Len(u \o t) = Len(u) + Len(t)
          /\ \A i \in 1..(Len(u) + Len(t)) :
               (u \o t)[i] = IF i <= Len(u) THEN u[i] ELSE t[i - Len(u)]
      <4>1. /\ u \o t \in Text /\ Len(u \o t) = Len(u) + Len(t)
            /\ \A i \in 1..(Len(u) + Len(t)) :
                 (u \o t)[i] = IF i <= Len(u) THEN u[i] ELSE t[i - Len(u)]
        BY <3>0, JoinFacts
      <4>2. Len(u) + Len(t) = Len(s) + Len(t) - n
        BY <1>1, <3>0
      <4>. QED
        BY <3>0, <4>1, <4>2
    <3>. QED
      BY <1>1, <2>2, <3>1 DEF u
  <2>4. \A i \in 1..(Len(s) + Len(t) - n) :
          (s \o t)[n + i] = IF n + i <= Len(s) THEN s[n + i] ELSE t[n + i - Len(s)]
    <3>1. \A j \in 1..(Len(s) + Len(t)) :
            (s \o t)[j] = IF j <= Len(s) THEN s[j] ELSE t[j - Len(s)]
      BY JoinFacts
    <3>2. \A i \in 1..(Len(s) + Len(t) - n) : n + i \in 1..(Len(s) + Len(t))
      BY <1>1
    <3>. QED
      BY <3>1, <3>2
  <2>5. ASSUME NEW i \in 1..(Len(s) + Len(t) - n) PROVE Drop(s \o t, n)[i] = (u \o t)[i]
    <3>. HIDE DEF u
    <3>1. CASE i <= Len(s) - n
      BY <1>1, <2>1, <2>2, <2>3, <2>4, <3>1 DEF u
    <3>2. CASE ~(i <= Len(s) - n)
      <4>1. i - (Len(s) - n) = n + i - Len(s) /\ ~(n + i <= Len(s))
        BY <1>1, <3>2
      <4>. QED
        BY <1>1, <2>1, <2>3, <2>4, <3>2, <4>1
    <3>. QED
      BY <3>1, <3>2
  <2>. HIDE DEF u
  <2>6. Drop(s \o t, n) = u \o t
    BY <2>1, <2>3, <2>5, SameText
  <2>. QED
    BY <2>6 DEF u
<1>. QED
  BY <1>2, <1>3

(* Dropping in two steps, and taking across one.                           *)
LEMMA DropTwice ==
  ASSUME NEW t \in Text, NEW n \in 0..Len(t), NEW m \in 0..(Len(t) - n)
  PROVE  /\ n + m \in 0..Len(t)
         /\ Drop(Drop(t, n), m) = Drop(t, n + m)
         /\ Take(t, n) \o Take(Drop(t, n), m) = Take(t, n + m)
<1> DEFINE u == Drop(t, n)
<1>1. /\ Len(t) \in Nat /\ n + m \in 0..Len(t) /\ u \in Text /\ Len(u) = Len(t) - n
      /\ m \in 0..Len(u) /\ \A i \in 1..(Len(t) - n) : u[i] = t[n + i]
  <2>1. Len(t) \in Nat
    BY TextFacts
  <2>2. /\ u \in Text /\ Len(u) = Len(t) - n
        /\ \A i \in 1..(Len(t) - n) : u[i] = t[n + i]
    BY DropFacts
  <2>. HIDE DEF u
  <2>. QED
    BY <2>1, <2>2
<1>2. Drop(u, m) = Drop(t, n + m)
  <2>. HIDE DEF u
  <2>1. /\ Drop(u, m) \in Text /\ Len(Drop(u, m)) = Len(t) - n - m
        /\ \A i \in 1..(Len(t) - n - m) : Drop(u, m)[i] = u[m + i]
    BY <1>1, DropFacts
  <2>2. /\ Drop(t, n + m) \in Text /\ Len(Drop(t, n + m)) = Len(t) - n - m
        /\ \A i \in 1..(Len(t) - n - m) : Drop(t, n + m)[i] = t[n + m + i]
    <3> DEFINE k == n + m
    <3>1. k \in 0..Len(t) /\ Len(t) - k = Len(t) - n - m
      BY <1>1
    <3>. HIDE DEF k
    <3>2. /\ Drop(t, k) \in Text /\ Len(Drop(t, k)) = Len(t) - n - m
          /\ \A i \in 1..(Len(t) - n - m) : Drop(t, k)[i] = t[k + i]
      BY <3>1, DropFacts
    <3>. QED
      BY <3>2 DEF k
  <2>3. \A i \in 1..(Len(t) - n - m) : u[m + i] = t[n + m + i]
    BY <1>1
  <2>. QED
    BY <2>1, <2>2, <2>3, SameText
<1>3. Take(t, n) \o Take(u, m) = Take(t, n + m)
  <2>. HIDE DEF u
  <2> DEFINE p == Take(t, n)
  <2> DEFINE q == Take(u, m)
  <2>1. /\ p \in Text /\ q \in Text /\ Len(p) = n /\ Len(q) = m
        /\ \A i \in 1..n : p[i] = t[i]
        /\ \A i \in 1..m : q[i] = u[i]
    BY <1>1, TakeFacts
  <2>2. /\ Take(t, n + m) \in Text /\ Len(Take(t, n + m)) = n + m
        /\ \A i \in 1..(n + m) : Take(t, n + m)[i] = t[i]
    BY <1>1, TakeFacts
  <2>. HIDE DEF p, q
  <2>3. /\ p \o q \in Text /\ Len(p \o q) = n + m
        /\ \A i \in 1..(n + m) : (p \o q)[i] = IF i <= n THEN p[i] ELSE q[i - n]
    BY <2>1, JoinFacts
  <2>4. ASSUME NEW i \in 1..(n + m) PROVE (p \o q)[i] = Take(t, n + m)[i]
    <3>1. CASE i <= n
      BY <2>1, <2>2, <2>3, <3>1
    <3>2. CASE ~(i <= n)
      <4>1. i - n \in 1..m /\ i - n \in 1..(Len(t) - n) /\ n + (i - n) = i
        BY <1>1, <3>2
      <4>2. (p \o q)[i] = q[i - n]
        BY <2>3, <3>2
      <4>3. q[i - n] = u[i - n]
        BY <2>1, <4>1
      <4>4. u[i - n] = t[n + (i - n)]
        BY <1>1, <4>1
      <4>. QED
        BY <2>2, <4>1, <4>2, <4>3, <4>4
    <3>. QED
      BY <3>1, <3>2
  <2>5. p \o q = Take(t, n + m)
    BY <2>2, <2>3, <2>4, SameText
  <2>. QED
    BY <2>5 DEF p, q
<1>. QED
  BY <1>1, <1>2, <1>3

--------------------------------------------------------------------------------
(* Where a tag starts *)

LEMMA MinIs ==
  ASSUME NEW T, T \subseteq Nat, NEW x \in T, \A y \in T : x <= y
  PROVE  Min(T) = x
<1>1. \A z \in T : (\A y \in T : z <= y) => z = x
  OBVIOUS
<1>. QED
  BY <1>1 DEF Min

LEMMA MaxIs ==
  ASSUME NEW T, T \subseteq Nat, NEW x \in T, \A y \in T : y <= x
  PROVE  Max(T) = x
<1>1. \A z \in T : (\A y \in T : z >= y) => z = x
  OBVIOUS
<1>2. \A y \in T : x >= y
  OBVIOUS
<1>. QED
  BY <1>1, <1>2 DEF Max

LEMMA TagFacts ==
  ASSUME NEW s \in Stream
  PROVE  /\ AwaitedTag(s) \in Text /\ Len(AwaitedTag(s)) \in Nat \ {0}
         /\ AwaitedTag(s) = IF s.inThink THEN CloseTag ELSE OpenTag
<1>1. \A tag \in {OpenTag, CloseTag} : tag \in Text /\ Len(tag) \in Nat \ {0}
  BY TagAssumption, TextFacts DEF Text
<1>. QED
  BY <1>1 DEF AwaitedTag

(* From place n on, t is the tag or the beginning of it.                   *)
Starts(t, tag, n) == \A i \in 1..Len(tag) : n + i <= Len(t) => t[n + i] = tag[i]

IsFirst(t, tag, n) ==
  n \in 0..Len(t) /\ Starts(t, tag, n) /\ \A j \in 0..(n - 1) : ~Starts(t, tag, j)

LEMMA FirstExists ==
  ASSUME NEW t \in Text, NEW tag \in Text
  PROVE  \E n \in 0..Len(t) : IsFirst(t, tag, n)
<1> DEFINE T == {n \in 0..Len(t) : Starts(t, tag, n)}
<1>1. Len(t) \in Nat /\ Len(tag) \in Nat
  BY TextFacts
<1>2. Len(t) \in T
  <2>1. \A i \in 1..Len(tag) : ~(Len(t) + i <= Len(t))
    BY <1>1
  <2>. QED
    BY <1>1, <2>1 DEF Starts
<1>3. T \subseteq Nat
  BY <1>1
<1>4. PICK n \in T : \A j \in T : n <= j
  <2>. HIDE DEF T
  <2>. QED
    BY <1>2, <1>3, LeastNumber
<1>5. ASSUME NEW j \in 0..(n - 1) PROVE ~Starts(t, tag, j)
  <2>1. j \in 0..Len(t) /\ ~(n <= j)
    BY <1>1, <1>4
  <2>. QED
    BY <1>4, <2>1
<1>. QED
  BY <1>4, <1>5 DEF IsFirst

(* The whole tag is at place n.                                            *)
LEMMA PlaceStarts ==
  ASSUME NEW t \in Text, NEW tag \in Text, NEW n \in Nat
  PROVE  n \in Places(t, tag) <=> n + Len(tag) <= Len(t) /\ Starts(t, tag, n)
<1>1. Len(t) \in Nat /\ Len(tag) \in Nat
  BY TextFacts
<1>2. CASE ~(n + Len(tag) <= Len(t))
  <2>1. n \notin 0..(Len(t) - Len(tag))
    BY <1>1, <1>2
  <2>. QED
    BY <1>2, <2>1 DEF Places
<1>3. CASE n + Len(tag) <= Len(t)
  <2> DEFINE u == Drop(t, n)
  <2> DEFINE v == Take(u, Len(tag))
  <2>1. n \in 0..(Len(t) - Len(tag)) /\ n \in 0..Len(t)
    BY <1>1, <1>3
  <2>2. /\ u \in Text /\ Len(u) = Len(t) - n
        /\ \A i \in 1..(Len(t) - n) : u[i] = t[n + i]
    BY <2>1, DropFacts
  <2>3. Len(tag) \in 0..Len(u)
    BY <1>1, <1>3, <2>2
  <2>4. v \in Text /\ Len(v) = Len(tag) /\ \A i \in 1..Len(tag) : v[i] = u[i]
    <3>. HIDE DEF u
    <3>. QED
      BY <2>2, <2>3, TakeFacts
  <2>5. \A i \in 1..Len(tag) : v[i] = t[n + i] /\ n + i <= Len(t)
    <3>1. \A i \in 1..Len(tag) : i \in 1..(Len(t) - n) /\ n + i <= Len(t)
      BY <1>1, <1>3
    <3>. HIDE DEF u, v
    <3>. QED
      BY <2>2, <2>4, <3>1
  <2>6. n \in Places(t, tag) <=> v = tag
    BY <2>1 DEF Places
  <2>. HIDE DEF u, v
  <2>7. v = tag <=> \A i \in 1..Len(tag) : v[i] = tag[i]
    BY <2>4, SameText
  <2>8. Starts(t, tag, n) <=> \A i \in 1..Len(tag) : v[i] = tag[i]
    BY <2>5 DEF Starts
  <2>. QED
    BY <1>3, <2>6, <2>7, <2>8
<1>. QED
  BY <1>2, <1>3

(* A beginning of the tag that t ends with.                                *)
LEMMA SuffixStarts ==
  ASSUME NEW t \in Text, NEW tag \in Text, NEW k \in 0..Len(t), k <= Len(tag)
  PROVE  Drop(t, Len(t) - k) = Take(tag, k) <=> Starts(t, tag, Len(t) - k)
<1> DEFINE n == Len(t) - k
<1> DEFINE u == Drop(t, n)
<1> DEFINE v == Take(tag, k)
<1>1. /\ Len(t) \in Nat /\ Len(tag) \in Nat /\ k \in Nat /\ n \in 0..Len(t)
      /\ Len(t) - n = k /\ k \in 0..Len(tag)
  BY TextFacts
<1>. HIDE DEF n
<1>2. u \in Text /\ Len(u) = k /\ \A i \in 1..k : u[i] = t[n + i]
  BY <1>1, DropFacts
<1>3. v \in Text /\ Len(v) = k /\ \A i \in 1..k : v[i] = tag[i]
  BY <1>1, TakeFacts
<1>. HIDE DEF u, v
<1>4. u = v <=> \A i \in 1..k : u[i] = v[i]
  BY <1>2, <1>3, SameText
<1>5. /\ \A i \in 1..Len(tag) : n + i <= Len(t) => i \in 1..k
      /\ \A i \in 1..k : i \in 1..Len(tag) /\ n + i <= Len(t)
  BY <1>1
<1>6. Starts(t, tag, n) <=> \A i \in 1..k : t[n + i] = tag[i]
  BY <1>5, Zenon DEF Starts
<1>7. u = v <=> Starts(t, tag, n)
  BY <1>2, <1>3, <1>4, <1>6
<1>. QED
  BY <1>7 DEF n, u, v

LEMMA FirstIsPlace ==
  ASSUME NEW t \in Text, NEW tag \in Text, NEW n, IsFirst(t, tag, n),
         n + Len(tag) <= Len(t)
  PROVE  Places(t, tag) # {} /\ Min(Places(t, tag)) = n
<1>1. Len(t) \in Nat /\ Len(tag) \in Nat /\ n \in Nat
  BY TextFacts DEF IsFirst
<1>2. n \in Places(t, tag)
  BY <1>1, PlaceStarts DEF IsFirst
<1>3. Places(t, tag) \subseteq Nat
  BY <1>1 DEF Places
<1>4. ASSUME NEW j \in Places(t, tag) PROVE n <= j
  <2>1. j \in Nat /\ Starts(t, tag, j)
    BY <1>3, PlaceStarts
  <2>2. j \notin 0..(n - 1)
    BY <2>1 DEF IsFirst
  <2>. QED
    BY <1>1, <2>1, <2>2
<1>. QED
  BY <1>2, <1>3, <1>4, MinIs

LEMMA FirstIsKept ==
  ASSUME NEW t \in Text, NEW tag \in Text, NEW n, IsFirst(t, tag, n),
         ~(n + Len(tag) <= Len(t))
  PROVE  Places(t, tag) = {} /\ TrailingTagPrefixLen(t, tag) = Len(t) - n
<1>1. /\ Len(t) \in Nat /\ Len(tag) \in Nat /\ n \in 0..Len(t)
      /\ Starts(t, tag, n) /\ \A j \in 0..(n - 1) : ~Starts(t, tag, j)
  BY TextFacts DEF IsFirst
<1>2. ASSUME NEW j \in Places(t, tag) PROVE FALSE
  <2>1. j \in Nat
    BY <1>1 DEF Places
  <2>2. j + Len(tag) <= Len(t) /\ Starts(t, tag, j)
    BY <2>1, PlaceStarts
  <2>3. j \in 0..(n - 1)
    BY <1>1, <2>1, <2>2
  <2>. QED
    BY <1>1, <2>2, <2>3
<1> DEFINE sizes == {k \in 1..(Len(tag) - 1) :
                       k <= Len(t) /\ Drop(t, Len(t) - k) = Take(tag, k)}
<1> DEFINE T == sizes \cup {0}
<1> DEFINE m == Len(t) - n
<1>3. m \in Nat /\ m < Len(tag) /\ m <= Len(t) /\ Len(t) - m = n
  BY <1>1
<1>4. T \subseteq Nat
  BY <1>1
<1>5. m \in T
  <2>1. Drop(t, Len(t) - m) = Take(tag, m)
    <3>. HIDE DEF m
    <3>1. m \in 0..Len(t) /\ m <= Len(tag) /\ Starts(t, tag, Len(t) - m)
      BY <1>1, <1>3
    <3>. QED
      BY <3>1, SuffixStarts
  <2>. HIDE DEF m
  <2>. QED
    BY <1>1, <1>3, <2>1
<1>6. ASSUME NEW k \in T PROVE k <= m
  <2>. SUFFICES ASSUME k > m PROVE FALSE
    BY <1>3, <1>4
  <2>1. k \in sizes
    BY <1>3
  <2>2. /\ k \in 0..Len(t) /\ k <= Len(tag) /\ Len(t) - k \in 0..(n - 1)
        /\ Drop(t, Len(t) - k) = Take(tag, k)
    BY <1>1, <1>3, <2>1
  <2>3. Starts(t, tag, Len(t) - k)
    BY <2>2, SuffixStarts
  <2>. QED
    BY <1>1, <2>2, <2>3
<1>. HIDE DEF m, T, sizes
<1>7. Max(T) = m
  BY <1>4, <1>5, <1>6, MaxIs
<1>. QED
  BY <1>2, <1>7 DEF TrailingTagPrefixLen, T, sizes, m

--------------------------------------------------------------------------------
(* Leading blanks *)

Blanks(t, n) == n \in 0..Len(t) /\ \A i \in 1..n : t[i] \in Blank

(* Exactly n blanks come first.                                            *)
AllBlanks(t, n) == Blanks(t, n) /\ (n < Len(t) => t[n + 1] \notin Blank)

LEMMA BlanksExist ==
  ASSUME NEW t \in Text
  PROVE  \E n \in 0..Len(t) : AllBlanks(t, n)
<1> DEFINE T == {n \in 0..Len(t) : n < Len(t) => t[n + 1] \notin Blank}
<1>1. Len(t) \in Nat
  BY TextFacts
<1>2. Len(t) \in T /\ T \subseteq Nat
  BY <1>1
<1>3. PICK n \in T : \A j \in T : n <= j
  <2>. HIDE DEF T
  <2>. QED
    BY <1>2, LeastNumber
<1>4. ASSUME NEW i \in 1..n PROVE t[i] \in Blank
  <2>1. n \in 0..Len(t)
    OBVIOUS
  <2>2. i - 1 \in 0..Len(t) /\ ~(n <= i - 1) /\ i - 1 + 1 = i
    BY <1>1, <2>1
  <2>3. i - 1 \notin T
    <3>. HIDE DEF T
    <3>. QED
      BY <1>3, <2>2
  <2>. QED
    BY <2>2, <2>3
<1>. QED
  BY <1>3, <1>4 DEF AllBlanks, Blanks

LEMMA TrimLeftIs ==
  ASSUME NEW t \in Text, NEW n, AllBlanks(t, n)
  PROVE  /\ n \in 0..Len(t) /\ TrimLeft(t) = Drop(t, n)
         /\ TrimLeft(t) \in Text
         /\ TrimLeft(t) = <<>> <=> n = Len(t)
<1> DEFINE T == {k \in 0..Len(t) : \A i \in 1..k : t[i] \in Blank}
<1>1. Len(t) \in Nat /\ n \in 0..Len(t)
  BY TextFacts DEF AllBlanks, Blanks
<1>2. T \subseteq Nat /\ n \in T
  BY <1>1 DEF AllBlanks, Blanks
<1>3. ASSUME NEW k \in T PROVE k <= n
  <2>. SUFFICES ASSUME k > n PROVE FALSE
    BY <1>1, <1>2
  <2>1. n + 1 \in 1..k /\ n < Len(t)
    BY <1>1
  <2>. QED
    BY <2>1 DEF AllBlanks
<1>. HIDE DEF T
<1>4. Max(T) = n
  BY <1>2, <1>3, MaxIs
<1>5. TrimLeft(t) = Drop(t, n)
  BY <1>4 DEF TrimLeft, T
<1>6. Drop(t, n) \in Text /\ Len(Drop(t, n)) = Len(t) - n
  BY <1>1, DropFacts
<1>7. Drop(t, n) = <<>> <=> Len(Drop(t, n)) = 0
  BY <1>6, TextFacts
<1>. QED
  BY <1>1, <1>5, <1>6, <1>7

LEMMA TrimLeftText ==
  ASSUME NEW t \in Text
  PROVE  TrimLeft(t) \in Text /\ TrimLeft(<<>>) = <<>>
<1>1. <<>> \in Text /\ Len(<<>>) = 0
  BY TextFacts
<1>2. PICK n \in 0..Len(t) : AllBlanks(t, n)
  BY BlanksExist
<1>3. PICK m \in 0..Len(<<>>) : AllBlanks(<<>>, m)
  BY <1>1, BlanksExist
<1>4. m = Len(<<>>)
  BY <1>1
<1>5. TrimLeft(<<>>) = <<>>
  BY <1>1, <1>3, <1>4, TrimLeftIs
<1>. QED
  BY <1>2, <1>5, TrimLeftIs

(* Trimming a text in two parts.                                           *)
LEMMA TrimLeftOfJoin ==
  ASSUME NEW s \in Text, NEW t \in Text
  PROVE  TrimLeft(s \o t) = IF TrimLeft(s) = <<>> THEN TrimLeft(t) ELSE TrimLeft(s) \o t
<1>1. /\ Len(s) \in Nat /\ Len(t) \in Nat /\ s \o t \in Text
      /\ Len(s \o t) = Len(s) + Len(t)
      /\ \A i \in 1..(Len(s) + Len(t)) :
           (s \o t)[i] = IF i <= Len(s) THEN s[i] ELSE t[i - Len(s)]
  BY TextFacts, JoinFacts
<1>2. PICK n \in 0..Len(s) : AllBlanks(s, n)
  BY BlanksExist
<1>3. PICK m \in 0..Len(t) : AllBlanks(t, m)
  BY BlanksExist
<1>4. /\ TrimLeft(s) = Drop(s, n) /\ TrimLeft(t) = Drop(t, m)
      /\ TrimLeft(s) = <<>> <=> n = Len(s)
  BY <1>2, <1>3, TrimLeftIs
<1> DEFINE w == s \o t
<1>5. CASE n = Len(s)
  <2>1. ASSUME NEW i \in 1..(n + m) PROVE w[i] \in Blank
    <3>1. CASE i <= Len(s)
      BY <1>1, <1>2, <1>5, <3>1 DEF AllBlanks, Blanks
    <3>2. CASE ~(i <= Len(s))
      <4>1. i - Len(s) \in 1..m /\ i \in 1..(Len(s) + Len(t))
        BY <1>1, <1>5, <3>2
      <4>2. t[i - Len(s)] \in Blank
        BY <1>3, <4>1 DEF AllBlanks, Blanks
      <4>. QED
        BY <1>1, <3>2, <4>1, <4>2
    <3>. QED
      BY <3>1, <3>2
  <2>2. ASSUME n + m < Len(s) + Len(t) PROVE w[n + m + 1] \notin Blank
    <3>1. m < Len(t) /\ n + m + 1 \in 1..(Len(s) + Len(t)) /\ ~(n + m + 1 <= Len(s))
          /\ n + m + 1 - Len(s) = m + 1
      BY <1>1, <1>5, <2>2
    <3>2. t[m + 1] \notin Blank
      BY <1>3, <3>1 DEF AllBlanks
    <3>. QED
      BY <1>1, <3>1, <3>2
  <2>3. n + m \in 0..(Len(s) + Len(t))
    BY <1>1
  <2>. HIDE DEF w
  <2>4. AllBlanks(w, n + m)
    BY <1>1, <2>1, <2>2, <2>3 DEF AllBlanks, Blanks, w
  <2>5. TrimLeft(w) = Drop(w, n + m)
    BY <1>1, <2>4, TrimLeftIs DEF w
  <2>6. Drop(w, n) = t
    <3>1. Drop(w, n) = Drop(s, n) \o t
      BY TakeDropOfJoin DEF w
    <3>2. Drop(s, n) = <<>>
      BY <1>5, TakeDropJoin
    <3>. QED
      BY <3>1, <3>2, TextFacts
  <2>7. Drop(Drop(w, n), m) = Drop(w, n + m)
    <3>1. w \in Text /\ n \in 0..Len(w) /\ m \in 0..(Len(w) - n)
      BY <1>1, <1>5 DEF w
    <3>. QED
      BY <3>1, DropTwice
  <2>. QED
    BY <1>4, <1>5, <2>5, <2>6, <2>7 DEF w
<1>6. CASE n # Len(s)
  <2>1. n \in 0..(Len(s) + Len(t)) /\ n < Len(s) /\ n < Len(s) + Len(t)
    BY <1>1, <1>6
  <2>2. \A i \in 1..(n + 1) : w[i] = s[i]
    <3>1. \A i \in 1..(n + 1) : i \in 1..(Len(s) + Len(t)) /\ i <= Len(s)
      BY <1>1, <2>1
    <3>. QED
      BY <1>1, <3>1
  <2>3. Blanks(w, n) /\ w[n + 1] \notin Blank
    <3>1. n + 1 \in 1..(n + 1) /\ \A i \in 1..n : i \in 1..(n + 1)
      BY <2>1
    <3>2. (\A i \in 1..n : s[i] \in Blank) /\ s[n + 1] \notin Blank
      BY <1>2, <2>1 DEF AllBlanks, Blanks
    <3>3. \A i \in 1..n : w[i] \in Blank
      BY <2>2, <3>1, <3>2
    <3>4. w[n + 1] \notin Blank
      BY <2>2, <3>1, <3>2
    <3>. HIDE DEF w
    <3>. QED
      BY <1>1, <2>1, <3>3, <3>4 DEF Blanks, w
  <2>. HIDE DEF w
  <2>4. TrimLeft(w) = Drop(w, n)
    BY <1>1, <2>3, TrimLeftIs DEF AllBlanks, w
  <2>. QED
    BY <1>4, <1>6, <2>4, TakeDropOfJoin DEF w
<1>. QED
  BY <1>5, <1>6

--------------------------------------------------------------------------------
(* What is said *)

LEMMA SayIsDivision ==
  ASSUME NEW d \in Division, NEW t \in Text
  PROVE  /\ Say(d, t) \in Division
         /\ Say(d, t).stream.inThink = d.stream.inThink
         /\ Say(d, t).stream.pending = d.stream.pending
<1>1. /\ d.stream \in Stream /\ d.reasoning \in Text /\ d.assistant \in Text
      /\ d.stream.inThink \in BOOLEAN /\ d.stream.pending \in Text
  BY DEF Division, Stream
<1>2. CASE d.stream.inThink
  <2>1. d.reasoning \o t \in Text
    BY <1>1, JoinFacts
  <2>2. Say(d, t) = [d EXCEPT !.reasoning = @ \o t]
    BY <1>2 DEF Say
  <2> DEFINE r == d.reasoning \o t
  <2>. HIDE DEF r
  <2>3. Say(d, t) = [d EXCEPT !.reasoning = r] /\ r \in Text
    BY <2>1, <2>2 DEF r
  <2>. QED
    BY <2>3 DEF Division
<1>3. CASE ~d.stream.inThink
  <2> DEFINE said == IF d.stream.trimAssistantPrefix THEN TrimLeft(t) ELSE t
  <2> DEFINE r == d.assistant \o said
  <2>1. said \in Text
    BY TrimLeftText
  <2>2. Say(d, t) = IF said = <<>> THEN d
                    ELSE [d EXCEPT !.stream.trimAssistantPrefix = FALSE, !.assistant = r]
    BY <1>3 DEF Say, SayAssistant
  <2>. HIDE DEF said
  <2>3. r \in Text
    BY <1>1, <2>1, JoinFacts
  <2>. HIDE DEF r
  <2>. QED
    BY <1>1, <2>2, <2>3 DEF Division, Stream
<1>. QED
  BY <1>2, <1>3

LEMMA SayNoText ==
  ASSUME NEW d \in Division
  PROVE  Say(d, <<>>) = d
<1>1. d.reasoning \in Text /\ d.reasoning \o <<>> = d.reasoning /\ <<>> \in Text
  BY TextFacts DEF Division
<1>2. TrimLeft(<<>>) = <<>>
  BY <1>1, TrimLeftText
<1>3. [d EXCEPT !.reasoning = d.reasoning] = d
  BY DEF Division
<1>. QED
  BY <1>1, <1>2, <1>3 DEF Say, SayAssistant

(* A text said in two parts is said as one.                                *)
LEMMA SayTwice ==
  ASSUME NEW d \in Division, NEW s \in Text, NEW t \in Text
  PROVE  Say(Say(d, s), t) = Say(d, s \o t)
<1>1. /\ d.stream \in Stream /\ d.reasoning \in Text /\ d.assistant \in Text
      /\ d.stream.inThink \in BOOLEAN /\ d.stream.trimAssistantPrefix \in BOOLEAN
      /\ s \o t \in Text
  BY JoinFacts DEF Division, Stream
<1>2. CASE d.stream.inThink
  <2> DEFINE r == d.reasoning \o s
  <2>1. r \in Text /\ r \o t = d.reasoning \o (s \o t)
    <3>1. r \in Text
      BY <1>1, JoinFacts
    <3>2. r \o t = d.reasoning \o (s \o t)
      BY <1>1, JoinThree
    <3>. QED
      BY <3>1, <3>2
  <2>2. Say(d, s) = [d EXCEPT !.reasoning = r]
    BY <1>2 DEF Say
  <2>3. Say(d, s \o t) = [d EXCEPT !.reasoning = r \o t]
    BY <1>2, <2>1 DEF Say
  <2>. HIDE DEF r
  <2>4. Say(d, s).stream = d.stream /\ Say(d, s).reasoning = r
    BY <2>2 DEF Division
  <2>5. Say(Say(d, s), t) = [Say(d, s) EXCEPT !.reasoning = r \o t]
    BY <1>2, <2>4 DEF Say
  <2>. QED
    BY <2>2, <2>3, <2>5 DEF Division
<1>3. CASE ~d.stream.inThink
  <2> DEFINE trim == d.stream.trimAssistantPrefix
  <2> DEFINE a == IF trim THEN TrimLeft(s) ELSE s
  <2> DEFINE b == IF trim /\ a = <<>> THEN TrimLeft(t) ELSE t
  <2> DEFINE A == d.assistant
  <2>1. a \in Text /\ b \in Text /\ A \in Text
    BY <1>1, TrimLeftText
  <2>2. (IF trim THEN TrimLeft(s \o t) ELSE s \o t) = a \o b
    <3>1. CASE trim /\ a = <<>>
      BY <2>1, <3>1, TrimLeftOfJoin, TextFacts
    <3>2. CASE ~(trim /\ a = <<>>)
      BY <3>2, TrimLeftOfJoin
    <3>. QED
      BY <3>1, <3>2
  <2> DEFINE Out(x) == [d EXCEPT !.stream.trimAssistantPrefix = FALSE, !.assistant = x]
  <2>3. Say(d, s) = IF a = <<>> THEN d ELSE Out(A \o a)
    BY <1>3 DEF Say, SayAssistant
  <2>4. Say(d, s \o t) = IF a \o b = <<>> THEN d ELSE Out(A \o (a \o b))
    BY <1>3, <2>2 DEF Say, SayAssistant
  <2>5. CASE a = <<>>
    <3>1. Say(Say(d, s), t) = Say(d, t)
      BY <2>3, <2>5
    <3>2. (IF trim THEN TrimLeft(t) ELSE t) = b
      BY <2>5
    <3>3. Say(d, t) = IF b = <<>> THEN d ELSE Out(A \o b)
      BY <1>3, <3>2 DEF Say, SayAssistant
    <3>4. a \o b = b
      BY <2>1, <2>5, TextFacts
    <3>. QED
      BY <2>4, <3>1, <3>3, <3>4
  <2>6. CASE a # <<>>
    <3> DEFINE e == Out(A \o a)
    <3>1. Say(d, s) = e /\ b = t
      BY <2>3, <2>6
    <3>. HIDE DEF a, b
    <3>2. /\ ~e.stream.inThink /\ ~e.stream.trimAssistantPrefix /\ e.assistant = A \o a
      BY <1>1, <1>3 DEF Division, Stream
    <3>3. Say(e, t) = IF t = <<>> THEN e
                      ELSE [e EXCEPT !.stream.trimAssistantPrefix = FALSE,
                                     !.assistant = (A \o a) \o t]
      <4>. HIDE DEF e
      <4>. QED
        BY <3>2 DEF Say, SayAssistant
    <3>4. (A \o a) \o t = A \o (a \o t) /\ a \o <<>> = a
      BY <2>1, JoinThree, TextFacts
    <3>5. a \o t # <<>>
      BY <2>1, <2>6, JoinFacts, TextFacts
    <3>6. Say(d, s \o t) = Out(A \o (a \o t))
      BY <2>4, <3>1, <3>5
    <3>7. CASE t = <<>>
      BY <3>1, <3>3, <3>4, <3>6, <3>7
    <3>8. CASE t # <<>>
      <4> DEFINE x == A \o a
      <4> DEFINE y == A \o (a \o t)
      <4>1. Say(e, t) = [Out(x) EXCEPT !.stream.trimAssistantPrefix = FALSE, !.assistant = y]
        BY <3>3, <3>4, <3>8
      <4>. HIDE DEF x, y
      <4>2. [Out(x) EXCEPT !.stream.trimAssistantPrefix = FALSE, !.assistant = y] = Out(y)
        BY <1>1 DEF Division, Stream
      <4>. QED
        BY <3>1, <3>6, <4>1, <4>2 DEF y
    <3>. QED
      BY <3>7, <3>8
  <2>. QED
    BY <2>5, <2>6
<1>. QED
  BY <1>2, <1>3

LEMMA SwitchIsDivision ==
  ASSUME NEW d \in Division
  PROVE  Switch(d) \in Division /\ Switch(d).stream.pending = d.stream.pending
BY DEF Switch, Division, Stream

--------------------------------------------------------------------------------
(* The loop *)

(* One turn of the loop over what is left, and its end.                    *)
Passes(w) == w[2] # <<>> /\ Places(w[2], AwaitedTag(w[1].stream)) # {}
AfterTag(w) ==
  LET tag    == AwaitedTag(w[1].stream)
      before == Min(Places(w[2], tag))
  IN  <<Switch(Say(w[1], Take(w[2], before))), Drop(w[2], before + Len(tag))>>
AtEnd(w) ==
  LET kept  == TrailingTagPrefixLen(w[2], AwaitedTag(w[1].stream))
      given == Len(w[2]) - kept
  IN  IF w[2] = <<>> THEN w[1]
      ELSE [Say(w[1], Take(w[2], given)) EXCEPT !.stream.pending = Drop(w[2], given)]

LEMMA ScanTurn ==
  ASSUME NEW w \in Division \X Text
  PROVE  /\ ~Passes(w) => AtEnd(w) \in Division
         /\ Passes(w) => AfterTag(w) \in Division \X Text /\ Len(AfterTag(w)[2]) < Len(w[2])
<1> DEFINE d == w[1]
<1> DEFINE t == w[2]
<1> DEFINE tag == AwaitedTag(d.stream)
<1>1. d \in Division /\ t \in Text /\ d.stream \in Stream
  BY DEF Division
<1>2. tag \in Text /\ Len(tag) \in Nat \ {0} /\ Len(t) \in Nat
  BY <1>1, TagFacts, TextFacts
<1>. HIDE DEF d, t, tag
<1>3. PICK n \in 0..Len(t) : IsFirst(t, tag, n)
  BY <1>1, <1>2, FirstExists
<1>4. Take(t, n) \in Text /\ Drop(t, n) \in Text
  BY <1>1, TakeFacts, DropFacts
<1>5. Say(d, Take(t, n)) \in Division
  BY <1>1, <1>4, SayIsDivision
<1>6. CASE n + Len(tag) <= Len(t)
  <2>1. Places(t, tag) # {} /\ Min(Places(t, tag)) = n
    BY <1>1, <1>2, <1>3, <1>6, FirstIsPlace
  <2>2. n + Len(tag) \in 0..Len(t)
    BY <1>2, <1>6
  <2>3. /\ Drop(t, n + Len(tag)) \in Text
        /\ Len(Drop(t, n + Len(tag))) = Len(t) - (n + Len(tag))
    BY <1>1, <2>2, DropFacts
  <2>4. t # <<>>
    BY <1>2, <1>6, <1>1, TextFacts
  <2>5. Switch(Say(d, Take(t, n))) \in Division
    BY <1>5, SwitchIsDivision
  <2>6. AfterTag(w) = <<Switch(Say(d, Take(t, n))), Drop(t, n + Len(tag))>>
    BY <2>1 DEF AfterTag, d, t, tag
  <2>7. Len(Drop(t, n + Len(tag))) < Len(t)
    BY <1>2, <2>3
  <2>8. Passes(w)
    BY <2>1, <2>4 DEF Passes, d, t, tag
  <2>. QED
    BY <2>3, <2>5, <2>6, <2>7, <2>8 DEF t
<1>7. CASE ~(n + Len(tag) <= Len(t))
  <2>1. Places(t, tag) = {} /\ TrailingTagPrefixLen(t, tag) = Len(t) - n
    BY <1>1, <1>2, <1>3, <1>7, FirstIsKept
  <2>2. Len(t) - (Len(t) - n) = n
    BY <1>2
  <2>3. AtEnd(w) = IF t = <<>> THEN d
                   ELSE [Say(d, Take(t, n)) EXCEPT !.stream.pending = Drop(t, n)]
    BY <2>1, <2>2 DEF AtEnd, d, t, tag
  <2>4. [Say(d, Take(t, n)) EXCEPT !.stream.pending = Drop(t, n)] \in Division
    BY <1>4, <1>5 DEF Division, Stream
  <2>5. ~Passes(w)
    BY <2>1 DEF Passes, d, t, tag
  <2>. QED
    BY <1>1, <2>3, <2>4, <2>5
<1>. QED
  BY <1>6, <1>7

LEMMA ScanDefined ==
  \A w \in Division \X Text :
    Scan[w] = IF Passes(w) THEN Scan[AfterTag(w)] ELSE AtEnd(w)
<1> DEFINE D == Division \X Text
<1> DEFINE size == [w \in D |-> Len(w[2])]
<1> DEFINE stop == {w \in D : ~Passes(w)}
<1> DEFINE base == [w \in stop |-> AtEnd(w)]
<1> DEFINE step == [w \in D |-> [v \in Division |-> v]]
<1> DEFINE next == [w \in D |-> AfterTag(w)]
<1>1. size \in [D -> Nat]
  BY TextFacts
<1>2. \A w \in stop : base[w] \in Division
  BY ScanTurn
<1>3. \A w \in D \ stop : next[w] \in D /\ size[next[w]] < size[w]
  BY ScanTurn
<1>4. \A w \in D \ stop, v \in Division : step[w][v] \in Division
  OBVIOUS
<1>5. Division # {}
  <2>1. NewStream \in Stream /\ <<>> \in Text
    BY EmptySeq DEF NewStream, Stream, Text
  <2>2. [stream |-> NewStream, reasoning |-> <<>>, assistant |-> <<>>] \in Division
    BY <2>1 DEF Division
  <2>. QED
    BY <2>2
<1>6. PICK f \in [D -> Division] : Recurs(f, D, stop, base, step, next)
  <2>. HIDE DEF D, size, stop, base, step, next
  <2>. QED
    BY <1>1, <1>2, <1>3, <1>4, <1>5, RecursionExists
<1> DEFINE Value(g, w) ==
             LET d      == w[1]
                 data   == w[2]
                 tag    == AwaitedTag(d.stream)
                 before == Min(Places(data, tag))
                 kept   == TrailingTagPrefixLen(data, tag)
                 given  == Len(data) - kept
             IN  IF data = <<>> THEN d
                 ELSE IF Places(data, tag) # {}
                   THEN g[<<Switch(Say(d, Take(data, before))), Drop(data, before + Len(tag))>>]
                   ELSE [Say(d, Take(data, given)) EXCEPT !.stream.pending = Drop(data, given)]
<1> DEFINE Body(g) == [w \in D |-> Value(g, w)]
<1>7. ASSUME NEW g, NEW w \in D
      PROVE  Value(g, w) = IF Passes(w) THEN g[AfterTag(w)] ELSE AtEnd(w)
  BY DEF Passes, AfterTag, AtEnd
<1>8. Scan = CHOOSE g : g = Body(g)
  BY DEF Scan
<1>. HIDE DEF Value
<1>9. ASSUME NEW w \in D PROVE f[w] = Value(f, w)
  <2>1. f[w] = IF w \in stop THEN base[w] ELSE step[w][f[next[w]]]
    BY <1>6 DEF Recurs
  <2>2. CASE Passes(w)
    <3>1. f[AfterTag(w)] \in Division
      BY <1>6, <2>2, ScanTurn
    <3>. QED
      BY <1>7, <2>1, <2>2, <3>1
  <2>3. CASE ~Passes(w)
    BY <1>7, <2>1, <2>3
  <2>. QED
    BY <2>2, <2>3
<1>10. f = Body(f)
  BY <1>6, <1>9
<1>. HIDE DEF Body
<1>11. Scan = Body(Scan)
  BY <1>8, <1>10
<1>12. ASSUME NEW w \in D PROVE Scan[w] = Value(Scan, w)
  <2>1. Body(Scan)[w] = Value(Scan, w)
    BY DEF Body
  <2>. HIDE DEF D
  <2>. QED
    BY <1>11, <2>1
<1>. QED
  BY <1>7, <1>12

(* The same, said with the first place where the awaited tag starts.       *)
LEMMA ScanStep ==
  ASSUME NEW d \in Division, NEW t \in Text, NEW n, IsFirst(t, AwaitedTag(d.stream), n)
  PROVE  LET m == Len(AwaitedTag(d.stream)) IN
         /\ t = <<>> => Scan[<<d, t>>] = d
         /\ Passes(<<d, t>>) <=> n + m <= Len(t)
         /\ n + m <= Len(t) =>
              /\ n + m \in 0..Len(t)
              /\ AfterTag(<<d, t>>) = <<Switch(Say(d, Take(t, n))), Drop(t, n + m)>>
              /\ Switch(Say(d, Take(t, n))) \in Division
              /\ Scan[<<d, t>>] = Scan[<<Switch(Say(d, Take(t, n))), Drop(t, n + m)>>]
         /\ t # <<>> /\ ~(n + m <= Len(t)) =>
              Scan[<<d, t>>] = [Say(d, Take(t, n)) EXCEPT !.stream.pending = Drop(t, n)]
<1> DEFINE tag == AwaitedTag(d.stream)
<1> DEFINE m == Len(tag)
<1> DEFINE w == <<d, t>>
<1>1. d.stream \in Stream /\ w \in Division \X Text /\ w[1] = d /\ w[2] = t
  BY DEF Division
<1>2. tag \in Text /\ m \in Nat \ {0} /\ Len(t) \in Nat /\ n \in 0..Len(t)
  BY <1>1, TagFacts, TextFacts DEF IsFirst
<1>3. IsFirst(t, tag, n)
  OBVIOUS
<1>4. Scan[w] = IF Passes(w) THEN Scan[AfterTag(w)] ELSE AtEnd(w)
  BY <1>1, ScanDefined
<1>. HIDE DEF tag, w
<1>5. ASSUME t = <<>> PROVE Scan[w] = d
  <2>1. ~Passes(w) /\ AtEnd(w) = d
    BY <1>1, <1>5 DEF Passes, AtEnd
  <2>. QED
    BY <1>4, <2>1
<1>6. ASSUME n + m <= Len(t)
      PROVE  /\ n + m \in 0..Len(t) /\ Passes(w)
             /\ AfterTag(w) = <<Switch(Say(d, Take(t, n))), Drop(t, n + m)>>
             /\ Switch(Say(d, Take(t, n))) \in Division
             /\ Scan[w] = Scan[<<Switch(Say(d, Take(t, n))), Drop(t, n + m)>>]
  <2>1. Places(t, tag) # {} /\ Min(Places(t, tag)) = n
    BY <1>2, <1>3, <1>6, FirstIsPlace
  <2>2. t # <<>> /\ n + m \in 0..Len(t)
    BY <1>2, <1>6, TextFacts
  <2>3. Passes(w)
    BY <1>1, <2>1, <2>2 DEF Passes, tag
  <2>4. AfterTag(w) = <<Switch(Say(d, Take(t, n))), Drop(t, n + m)>>
    BY <1>1, <2>1 DEF AfterTag, tag
  <2>5. Switch(Say(d, Take(t, n))) \in Division
    BY <1>2, TakeFacts, SayIsDivision, SwitchIsDivision
  <2>. QED
    BY <1>4, <2>2, <2>3, <2>4, <2>5
<1>7. ASSUME t # <<>>, ~(n + m <= Len(t))
      PROVE  Scan[w] = [Say(d, Take(t, n)) EXCEPT !.stream.pending = Drop(t, n)]
  <2>1. Places(t, tag) = {} /\ TrailingTagPrefixLen(t, tag) = Len(t) - n
    BY <1>2, <1>3, <1>7, FirstIsKept
  <2>2. Len(t) - (Len(t) - n) = n
    BY <1>2
  <2>3. ~Passes(w)
    BY <1>1, <2>1 DEF Passes, tag
  <2>4. AtEnd(w) = [Say(d, Take(t, n)) EXCEPT !.stream.pending = Drop(t, n)]
    BY <1>1, <1>7, <2>1, <2>2 DEF AtEnd, tag
  <2>. QED
    BY <1>4, <2>3, <2>4
<1>8. ASSUME ~(n + m <= Len(t)) PROVE ~Passes(w)
  <2>1. Places(t, tag) = {}
    BY <1>2, <1>3, <1>8, FirstIsKept
  <2>. QED
    BY <1>1, <2>1 DEF Passes, tag
<1>. QED
  BY <1>5, <1>6, <1>7, <1>8 DEF w, tag

LEMMA ScanPass ==
  ASSUME NEW d \in Division, NEW t \in Text, NEW tag, tag = AwaitedTag(d.stream),
         NEW n, IsFirst(t, tag, n), n + Len(tag) <= Len(t)
  PROVE  /\ n + Len(tag) \in 0..Len(t) /\ Passes(<<d, t>>)
         /\ AfterTag(<<d, t>>) = <<Switch(Say(d, Take(t, n))), Drop(t, n + Len(tag))>>
         /\ Scan[<<d, t>>] = Scan[<<Switch(Say(d, Take(t, n))), Drop(t, n + Len(tag))>>]
BY ScanStep

LEMMA ScanEnd ==
  ASSUME NEW d \in Division, NEW t \in Text, NEW tag, tag = AwaitedTag(d.stream),
         NEW n, IsFirst(t, tag, n), ~(n + Len(tag) <= Len(t))
  PROVE  /\ ~Passes(<<d, t>>)
         /\ t = <<>> => Scan[<<d, t>>] = d
         /\ t # <<>> => Scan[<<d, t>>]
                            = [Say(d, Take(t, n)) EXCEPT !.stream.pending = Drop(t, n)]
BY ScanStep

(* What holds at the end of the loop, and before a turn when after it,     *)
(* holds for every text.                                                   *)
LEMMA ScanInduction ==
  ASSUME NEW T,
         \A w \in Division \X Text : ~Passes(w) => w \in T,
         \A w \in Division \X Text : Passes(w) /\ AfterTag(w) \in T => w \in T
  PROVE  \A w \in Division \X Text : w \in T
<1> DEFINE Bad == {Len(w[2]) : w \in {v \in Division \X Text : v \notin T}}
<1> SUFFICES ASSUME Bad # {} PROVE FALSE
  OBVIOUS
<1>1. Bad \subseteq Nat
  BY TextFacts
<1>2. PICK k \in Bad : \A j \in Bad : k <= j
  BY <1>1, LeastNumber
<1>3. PICK w \in Division \X Text : w \notin T /\ Len(w[2]) = k
  BY <1>2
<1>4. Passes(w) /\ AfterTag(w) \notin T
  BY <1>3
<1> DEFINE v == AfterTag(w)
<1>5. v \in Division \X Text /\ Len(v[2]) < Len(w[2])
  BY <1>4, ScanTurn
<1>6. Len(v[2]) \in Nat /\ Len(w[2]) \in Nat
  BY <1>5, TextFacts
<1>7. Len(v[2]) \in Bad
  BY <1>4, <1>5
<1>. HIDE DEF Bad, v
<1>. QED
  BY <1>2, <1>3, <1>5, <1>6, <1>7

--------------------------------------------------------------------------------
(* What the loop leaves *)

Clear(d) == [d EXCEPT !.stream.pending = <<>>]

KeepsBeginning(s) == IsStrictPrefix(s.pending, AwaitedTag(s))

LEMMA StrictBeginning ==
  ASSUME NEW tag \in Text, NEW k \in 0..Len(tag), k < Len(tag)
  PROVE  IsStrictPrefix(Take(tag, k), tag)
<1> DEFINE p == Take(tag, k)
<1>1. p \in Text /\ Len(p) = k /\ p = Take(tag, k)
  BY TakeFacts
<1>. HIDE DEF p
<1>2. Take(p, Len(p)) = p
  BY <1>1, TextFacts, TakeDropJoin
<1>3. Len(tag) \in Nat /\ Len(p) <= Len(tag) /\ Len(p) # Len(tag)
  BY <1>1, TextFacts
<1>4. SubSeq(p, 1, Len(p)) = SubSeq(tag, 1, Len(p))
  BY <1>1, <1>2 DEF Take
<1>5. IsStrictPrefix(p, tag)
  BY <1>3, <1>4 DEF IsStrictPrefix, IsPrefix
<1>. QED
  BY <1>1, <1>5

LEMMA NoBeginning ==
  ASSUME NEW s \in Stream, s.pending = <<>>
  PROVE  KeepsBeginning(s)
<1>1. AwaitedTag(s) \in Text /\ Len(AwaitedTag(s)) \in Nat \ {0}
  BY TagFacts
<1>2. 0 \in 0..Len(AwaitedTag(s)) /\ 0 < Len(AwaitedTag(s))
  BY <1>1
<1>3. Take(AwaitedTag(s), 0) = <<>>
  BY <1>1, <1>2, TakeDropJoin
<1>. QED
  BY <1>1, <1>2, <1>3, StrictBeginning DEF KeepsBeginning

LEMMA AfterTagParts ==
  ASSUME NEW w \in Division \X Text, Passes(w)
  PROVE  LET d   == w[1]
             t   == w[2]
             tag == AwaitedTag(d.stream)
         IN  \E n \in 0..Len(t) :
               /\ IsFirst(t, tag, n) /\ n + Len(tag) <= Len(t) /\ n + Len(tag) \in 0..Len(t)
               /\ AfterTag(w)[1] = Switch(Say(d, Take(t, n)))
               /\ AfterTag(w)[2] = Drop(t, n + Len(tag))
<1> DEFINE d == w[1]
<1> DEFINE t == w[2]
<1> DEFINE tag == AwaitedTag(d.stream)
<1>1. /\ d \in Division /\ t \in Text /\ d.stream \in Stream /\ w = <<d, t>>
      /\ tag \in Text
  BY TagFacts DEF Division
<1>2. PICK n \in 0..Len(t) : IsFirst(t, tag, n)
  BY <1>1, FirstExists
<1>. HIDE DEF d, t
<1>3. Passes(<<d, t>>)
  BY <1>1
<1>4. n + Len(tag) <= Len(t)
  BY <1>1, <1>2, <1>3, ScanStep
<1>5. /\ AfterTag(<<d, t>>) = <<Switch(Say(d, Take(t, n))), Drop(t, n + Len(tag))>>
      /\ n + Len(tag) \in 0..Len(t)
  BY <1>1, <1>2, <1>4, ScanStep
<1>6. /\ AfterTag(w)[1] = Switch(Say(d, Take(t, n)))
      /\ AfterTag(w)[2] = Drop(t, n + Len(tag))
  BY <1>1, <1>5
<1>. QED
  BY <1>2, <1>4, <1>5, <1>6 DEF d, t

LEMMA AfterTagClear ==
  ASSUME NEW w \in Division \X Text, Passes(w), w[1].stream.pending = <<>>
  PROVE  AfterTag(w)[1].stream.pending = <<>>
<1>1. w[1] \in Division /\ w[2] \in Text
  OBVIOUS
<1>2. PICK n \in 0..Len(w[2]) : AfterTag(w)[1] = Switch(Say(w[1], Take(w[2], n)))
  BY AfterTagParts
<1>3. Take(w[2], n) \in Text
  BY <1>1, TakeFacts
<1> DEFINE r == Say(w[1], Take(w[2], n))
<1>4. r \in Division /\ r.stream.pending = <<>>
  BY <1>1, <1>3, SayIsDivision
<1>. HIDE DEF r
<1>5. Switch(r).stream.pending = <<>>
  BY <1>4, SwitchIsDivision
<1>. QED
  BY <1>2, <1>5 DEF r

(* What is kept back is the beginning of the awaited tag.                  *)
LEMMA ScanKeeps ==
  ASSUME NEW d \in Division, d.stream.pending = <<>>, NEW t \in Text
  PROVE  Scan[<<d, t>>] \in Division /\ KeepsBeginning(Scan[<<d, t>>].stream)
<1> DEFINE Good(w) == Scan[w] \in Division /\ KeepsBeginning(Scan[w].stream)
<1> DEFINE T == {w \in Division \X Text : w[1].stream.pending = <<>> => Good(w)}
<1>1. ASSUME NEW w \in Division \X Text, ~Passes(w) PROVE w \in T
  <2> DEFINE e == w[1]
  <2> DEFINE x == w[2]
  <2> DEFINE tag == AwaitedTag(e.stream)
  <2>. SUFFICES ASSUME e.stream.pending = <<>> PROVE Good(w)
    OBVIOUS
  <2>1. /\ e \in Division /\ x \in Text /\ e.stream \in Stream /\ w = <<e, x>>
        /\ tag \in Text /\ Len(tag) \in Nat \ {0} /\ Len(x) \in Nat
    BY TagFacts, TextFacts DEF Division
  <2>2. PICK n \in 0..Len(x) : IsFirst(x, tag, n)
    BY <2>1, FirstExists
  <2>. HIDE DEF e, x
  <2>3. ~(n + Len(tag) <= Len(x))
    BY <1>1, <2>1, <2>2, ScanStep
  <2>4. CASE x = <<>>
    <3>1. Scan[w] = e
      BY <2>1, <2>2, <2>4, ScanStep
    <3>. QED
      BY <2>1, <3>1, NoBeginning
  <2>5. CASE x # <<>>
    <3> DEFINE p == Drop(x, n)
    <3> DEFINE r == Say(e, Take(x, n))
    <3>1. Scan[w] = [r EXCEPT !.stream.pending = p]
      BY <2>1, <2>2, <2>3, <2>5, ScanStep
    <3>2. p \in Text /\ r \in Division /\ r.stream.inThink = e.stream.inThink
      BY <2>1, TakeFacts, DropFacts, SayIsDivision
    <3> DEFINE k == Len(x) - n
    <3>3. k \in 0..Len(x) /\ k \in 0..Len(tag) /\ k < Len(tag) /\ Len(x) - k = n
      BY <2>1, <2>3
    <3>4. Drop(x, Len(x) - k) = Take(tag, k)
      <4>. HIDE DEF k, tag
      <4>. QED
        BY <2>1, <2>2, <3>3, SuffixStarts DEF IsFirst
    <3>5. IsStrictPrefix(p, tag)
      <4>. HIDE DEF k, tag
      <4>. QED
        BY <2>1, <3>3, <3>4, StrictBeginning
    <3>. HIDE DEF p, r
    <3>6. /\ Scan[w] \in Division /\ Scan[w].stream.pending = p
          /\ Scan[w].stream.inThink = e.stream.inThink
      BY <3>1, <3>2 DEF Division, Stream
    <3>7. AwaitedTag(Scan[w].stream) = tag
      BY <3>6 DEF AwaitedTag
    <3>. QED
      BY <3>5, <3>6, <3>7 DEF KeepsBeginning
  <2>. QED
    BY <2>4, <2>5
<1>2. ASSUME NEW w \in Division \X Text, Passes(w), AfterTag(w) \in T PROVE w \in T
  <2>. SUFFICES ASSUME w[1].stream.pending = <<>> PROVE Good(w)
    OBVIOUS
  <2>1. Scan[w] = Scan[AfterTag(w)]
    BY <1>2, ScanDefined
  <2>2. AfterTag(w)[1].stream.pending = <<>>
    BY <1>2, AfterTagClear
  <2>. QED
    BY <1>2, <2>1, <2>2
<1>3. <<d, t>> \in T
  <2>. HIDE DEF T
  <2>. QED
    BY <1>1, <1>2, ScanInduction
<1>. QED
  BY <1>3

--------------------------------------------------------------------------------
(* A text cut in two *)

(* Whether the tag starts at a place depends on what follows it only.      *)
LEMMA StartsAfter ==
  ASSUME NEW t \in Text, NEW tag \in Text, NEW n \in 0..Len(t), NEW i \in 0..(Len(t) - n)
  PROVE  Starts(Drop(t, n), tag, i) <=> Starts(t, tag, n + i)
<1> DEFINE u == Drop(t, n)
<1>1. Len(t) \in Nat /\ Len(tag) \in Nat
  BY TextFacts
<1>2. Len(u) = Len(t) - n /\ \A k \in 1..(Len(t) - n) : u[k] = t[n + k]
  BY DropFacts
<1>. HIDE DEF u
<1>3. \A k \in 1..Len(tag) : i + k <= Len(u) <=> n + i + k <= Len(t)
  BY <1>1, <1>2
<1>4. \A k \in 1..Len(tag) : i + k <= Len(u) => u[i + k] = t[n + i + k]
  <2>1. ASSUME NEW k \in 1..Len(tag), i + k <= Len(u)
        PROVE  i + k \in 1..(Len(t) - n) /\ n + (i + k) = n + i + k
    BY <1>1, <1>2, <2>1
  <2>2. ASSUME NEW k \in 1..Len(tag), i + k <= Len(u) PROVE u[i + k] = t[n + (i + k)]
    BY <1>2, <2>1, <2>2
  <2>. QED
    BY <2>1, <2>2
<1>5. Starts(u, tag, i) <=> Starts(t, tag, n + i)
  BY <1>3, <1>4 DEF Starts
<1>. QED
  BY <1>5 DEF u

LEMMA StartsInJoin ==
  ASSUME NEW s \in Text, NEW t \in Text, NEW tag \in Text, NEW n \in 0..Len(s)
  PROVE  /\ Starts(s \o t, tag, n) => Starts(s, tag, n)
         /\ n + Len(tag) <= Len(s) /\ Starts(s, tag, n) => Starts(s \o t, tag, n)
<1>1. /\ Len(s) \in Nat /\ Len(t) \in Nat /\ Len(tag) \in Nat
      /\ Len(s \o t) = Len(s) + Len(t)
      /\ \A i \in 1..(Len(s) + Len(t)) :
           (s \o t)[i] = IF i <= Len(s) THEN s[i] ELSE t[i - Len(s)]
  BY TextFacts, JoinFacts
<1>2. ASSUME NEW k \in 1..Len(tag), n + k <= Len(s)
      PROVE  n + k <= Len(s \o t) /\ (s \o t)[n + k] = s[n + k]
  <2>1. n + k \in 1..(Len(s) + Len(t)) /\ n + k <= Len(s)
    BY <1>1, <1>2
  <2>. QED
    BY <1>1, <2>1
<1>3. ASSUME n + Len(tag) <= Len(s), NEW k \in 1..Len(tag) PROVE n + k <= Len(s)
  BY <1>1, <1>3
<1>. QED
  BY <1>2, <1>3 DEF Starts

(* Where no tag starts, the text may as well be said beforehand.           *)
LEMMA SaidBefore ==
  ASSUME NEW d \in Division, d.stream.pending = <<>>, NEW t \in Text, NEW n \in 0..Len(t),
         \A j \in 0..(n - 1) : ~Starts(t, AwaitedTag(d.stream), j)
  PROVE  Scan[<<d, t>>] = Scan[<<Say(d, Take(t, n)), Drop(t, n)>>]
<1> DEFINE tag == AwaitedTag(d.stream)
<1> DEFINE m == Len(tag)
<1> DEFINE u == Drop(t, n)
<1> DEFINE e == Say(d, Take(t, n))
<1>1. /\ d.stream \in Stream /\ tag \in Text /\ m \in Nat \ {0} /\ Len(t) \in Nat
      /\ Take(t, n) \in Text /\ u \in Text /\ Len(u) = Len(t) - n
  BY TagFacts, TextFacts, TakeFacts, DropFacts DEF Division
<1>2. /\ e \in Division /\ e.stream.inThink = d.stream.inThink
      /\ e.stream.pending = <<>>
  BY <1>1, SayIsDivision
<1>3. AwaitedTag(e.stream) = tag
  BY <1>2 DEF AwaitedTag
<1>4. PICK g \in 0..Len(u) : IsFirst(u, tag, g)
  BY <1>1, FirstExists
<1>5. IsFirst(t, tag, n + g)
  <2>1. g \in 0..(Len(t) - n) /\ n + g \in 0..Len(t)
    BY <1>1
  <2>2. Starts(t, tag, n + g)
    BY <1>1, <1>4, <2>1, StartsAfter DEF IsFirst
  <2>3. ASSUME NEW j \in 0..(n + g - 1), ~(j < n) PROVE ~Starts(t, tag, j)
    <3>1. j - n \in 0..(Len(t) - n) /\ j - n \in 0..(g - 1) /\ n + (j - n) = j
      BY <1>1, <2>1, <2>3
    <3>2. ~Starts(u, tag, j - n)
      BY <1>4, <3>1 DEF IsFirst
    <3>. HIDE DEF tag
    <3>3. Starts(u, tag, j - n) <=> Starts(t, tag, n + (j - n))
      BY <1>1, <3>1, StartsAfter
    <3>. QED
      BY <3>1, <3>2, <3>3
  <2>4. ASSUME NEW j \in 0..(n + g - 1), j < n PROVE ~Starts(t, tag, j)
    BY <2>4
  <2>. QED
    BY <2>1, <2>2, <2>3, <2>4 DEF IsFirst
<1>6. /\ n + g \in 0..Len(t) /\ Drop(u, g) = Drop(t, n + g)
      /\ Take(t, n) \o Take(u, g) = Take(t, n + g)
  BY <1>1, DropTwice
<1>7. Say(e, Take(u, g)) = Say(d, Take(t, n + g))
  <2> DEFINE v == Take(u, g)
  <2> DEFINE x == Take(t, n)
  <2>1. v \in Text /\ x \in Text
    BY <1>1, TakeFacts
  <2>2. x \o v = Take(t, n + g) /\ e = Say(d, x)
    BY <1>6
  <2>. HIDE DEF v, x, e, u, tag
  <2>3. Say(Say(d, x), v) = Say(d, x \o v)
    BY <2>1, SayTwice
  <2>. QED
    BY <2>2, <2>3 DEF v
<1>. HIDE DEF tag, e, u
<1>8. CASE n + g + m <= Len(t)
  <2>1. g + m <= Len(u) /\ g + m \in 0..Len(u) /\ g + m \in 0..(Len(t) - n)
        /\ n + (g + m) = n + g + m
    BY <1>1, <1>8
  <2>2. Scan[<<d, t>>] = Scan[<<Switch(Say(d, Take(t, n + g))), Drop(t, n + g + m)>>]
    BY <1>1, <1>5, <1>8, ScanStep DEF tag
  <2>3. Scan[<<e, u>>] = Scan[<<Switch(Say(e, Take(u, g))), Drop(u, g + m)>>]
    <3>1. IsFirst(u, AwaitedTag(e.stream), g) /\ g + Len(AwaitedTag(e.stream)) <= Len(u)
      BY <1>3, <1>4, <2>1
    <3>2. Scan[<<e, u>>] = Scan[<<Switch(Say(e, Take(u, g))),
                                  Drop(u, g + Len(AwaitedTag(e.stream)))>>]
      BY <1>1, <1>2, <3>1, ScanStep
    <3>. QED
      BY <1>3, <3>2
  <2>4. Drop(u, g + m) = Drop(t, n + (g + m))
    BY <2>1, DropTwice DEF u
  <2>. QED
    BY <1>7, <2>1, <2>2, <2>3, <2>4 DEF e, u
<1>9. CASE ~(n + g + m <= Len(t)) /\ t # <<>>
  <2>1. ~(g + m <= Len(u))
    BY <1>1, <1>9
  <2>2. Scan[<<d, t>>] = [Say(d, Take(t, n + g)) EXCEPT !.stream.pending = Drop(t, n + g)]
    BY <1>1, <1>5, <1>9, ScanStep DEF tag
  <2>3. CASE u # <<>>
    <3>1. Scan[<<e, u>>] = [Say(e, Take(u, g)) EXCEPT !.stream.pending = Drop(u, g)]
      BY <1>1, <1>2, <1>3, <1>4, <2>1, <2>3, ScanStep
    <3>. QED
      BY <1>6, <1>7, <2>2, <3>1 DEF e, u
  <2>4. CASE u = <<>>
    <3>1. Scan[<<e, u>>] = e
      BY <1>1, <1>2, <1>3, <1>4, <2>4, ScanStep
    <3>2. g = 0 /\ n + g = Len(t) /\ n + g = n
      BY <1>1, <2>4, TextFacts
    <3>3. Drop(t, n + g) = <<>>
      BY <3>2, <1>6, TakeDropJoin
    <3>4. [e EXCEPT !.stream.pending = <<>>] = e
      BY <1>2 DEF Division, Stream
    <3>5. Say(d, Take(t, n + g)) = e
      BY <3>2 DEF e
    <3>. QED
      BY <2>2, <3>1, <3>3, <3>4, <3>5 DEF e, u
  <2>. QED
    BY <2>3, <2>4
<1>10. CASE t = <<>>
  <2>1. n = 0 /\ 0 \in 0..Len(t)
    BY <1>1, <1>10, TextFacts
  <2>2. Take(t, n) = <<>> /\ Drop(t, n) = t
    BY <2>1, TakeDropJoin
  <2>3. Say(d, Take(t, n)) = d
    BY <2>2, SayNoText
  <2>. QED
    BY <2>2, <2>3
<1>. QED
  BY <1>8, <1>9, <1>10

(* The loop goes on where an earlier one stopped: with what was kept back, *)
(* and with what had been given out.                                       *)
LEMMA ScanResumes ==
  ASSUME NEW d \in Division, d.stream.pending = <<>>, NEW s \in Text, NEW t \in Text
  PROVE  LET r == Scan[<<d, s>>] IN
         Scan[<<d, s \o t>>] = Scan[<<Clear(r), r.stream.pending \o t>>]
<1> DEFINE Resumed(w) == Scan[<<Clear(Scan[w]), Scan[w].stream.pending \o t>>]
<1> DEFINE T == {w \in Division \X Text :
                   w[1].stream.pending = <<>> => Scan[<<w[1], w[2] \o t>>] = Resumed(w)}
<1>1. ASSUME NEW w \in Division \X Text, ~Passes(w) PROVE w \in T
  <2> DEFINE e == w[1]
  <2> DEFINE x == w[2]
  <2> DEFINE tag == AwaitedTag(e.stream)
  <2>. SUFFICES ASSUME e.stream.pending = <<>> PROVE Scan[<<e, x \o t>>] = Resumed(w)
    OBVIOUS
  <2>1. /\ e \in Division /\ x \in Text /\ e.stream \in Stream /\ w = <<e, x>>
        /\ e.stream.pending = <<>>
        /\ tag \in Text /\ Len(tag) \in Nat \ {0} /\ Len(x) \in Nat
    BY TagFacts, TextFacts DEF Division
  <2>2. PICK n \in 0..Len(x) : IsFirst(x, tag, n)
    BY <2>1, FirstExists
  <2>. HIDE DEF e, x
  <2>3. ~Passes(<<e, x>>)
    BY <1>1, <2>1
  <2>4. ~(n + Len(tag) <= Len(x))
    BY <2>1, <2>2, <2>3, ScanStep
  <2>5. CASE x = <<>>
    <3>1. Scan[w] = e
      BY <2>1, <2>2, <2>5, ScanStep
    <3>2. Clear(e) = e
      BY <2>1 DEF Clear, Division, Stream
    <3>. QED
      BY <2>1, <2>5, <3>1, <3>2
  <2>6. CASE x # <<>>
    <3> DEFINE p == Drop(x, n)
    <3> DEFINE r == Say(e, Take(x, n))
    <3> DEFINE y == x \o t
    <3>1. Scan[w] = [r EXCEPT !.stream.pending = p]
      <4>. HIDE DEF tag
      <4>1. Scan[<<e, x>>] = [r EXCEPT !.stream.pending = p]
        BY <2>1, <2>2, <2>4, <2>6, ScanEnd DEF tag
      <4>. QED
        BY <2>1, <4>1
    <3>2. p \in Text /\ r \in Division /\ r.stream.pending = <<>>
      BY <2>1, TakeFacts, DropFacts, SayIsDivision
    <3>3. Clear(Scan[w]) = r /\ Scan[w].stream.pending = p
      <4>. HIDE DEF p, r
      <4> DEFINE z == Scan[w]
      <4>1. z = [r EXCEPT !.stream.pending = p]
        BY <3>1
      <4>. HIDE DEF z
      <4>2. z.stream.pending = p
        BY <3>2, <4>1 DEF Division, Stream
      <4>3. [z EXCEPT !.stream.pending = <<>>] = r
        BY <3>2, <4>1 DEF Division, Stream
      <4>. QED
        BY <4>2, <4>3 DEF z, Clear
    <3>4. y \in Text /\ Len(y) = Len(x) + Len(t) /\ Len(t) \in Nat
      BY <2>1, JoinFacts, TextFacts
    <3>5. Take(y, n) = Take(x, n) /\ Drop(y, n) = p \o t
      BY <2>1, TakeDropOfJoin
    <3>6. \A j \in 0..(n - 1) : ~Starts(y, tag, j)
      <4>. SUFFICES ASSUME NEW j \in 0..(n - 1), Starts(y, tag, j) PROVE FALSE
        OBVIOUS
      <4>1. j \in 0..Len(x)
        BY <2>1
      <4>2. Starts(x, tag, j)
        BY <2>1, <4>1, StartsInJoin
      <4>. QED
        BY <2>2, <4>2 DEF IsFirst
    <3>7. n \in 0..Len(y)
      BY <2>1, <3>4
    <3>. HIDE DEF y
    <3>8. Scan[<<e, y>>] = Scan[<<Say(e, Take(y, n)), Drop(y, n)>>]
      BY <2>1, <3>4, <3>6, <3>7, SaidBefore
    <3>. QED
      BY <3>3, <3>5, <3>8 DEF y
  <2>. QED
    BY <2>5, <2>6
<1>2. ASSUME NEW w \in Division \X Text, Passes(w), AfterTag(w) \in T PROVE w \in T
  <2> DEFINE e == w[1]
  <2> DEFINE x == w[2]
  <2> DEFINE tag == AwaitedTag(e.stream)
  <2>. SUFFICES ASSUME e.stream.pending = <<>> PROVE Scan[<<e, x \o t>>] = Resumed(w)
    OBVIOUS
  <2>1. /\ e \in Division /\ x \in Text /\ e.stream \in Stream /\ w = <<e, x>>
        /\ e.stream.pending = <<>>
        /\ tag \in Text /\ Len(tag) \in Nat \ {0} /\ Len(x) \in Nat
    BY TagFacts, TextFacts DEF Division
  <2> DEFINE v == AfterTag(w)
  <2>2. PICK n \in 0..Len(x) :
          /\ IsFirst(x, tag, n) /\ n + Len(tag) <= Len(x) /\ n + Len(tag) \in 0..Len(x)
          /\ v[1] = Switch(Say(e, Take(x, n)))
          /\ v[2] = Drop(x, n + Len(tag))
    BY <1>2, AfterTagParts
  <2>3. Scan[w] = Scan[v] /\ v[1].stream.pending = <<>>
    BY <1>2, ScanDefined, AfterTagClear
  <2>4. Scan[<<v[1], v[2] \o t>>] = Resumed(w)
    BY <1>2, <2>3
  <2>. HIDE DEF e, x
  <2> DEFINE a == Switch(Say(e, Take(x, n)))
  <2> DEFINE b == Drop(x, n + Len(tag))
  <2>8. v[1] = a /\ v[2] = b
    BY <2>2
  <2> DEFINE y == x \o t
  <2>9. y \in Text /\ Len(y) = Len(x) + Len(t) /\ Len(t) \in Nat
    BY <2>1, JoinFacts, TextFacts
  <2>10. Take(y, n) = Take(x, n) /\ Drop(y, n + Len(tag)) = b \o t
    BY <2>1, <2>2, TakeDropOfJoin
  <2>11. IsFirst(y, tag, n)
    <3>1. n \in 0..Len(y)
      BY <2>1, <2>9
    <3>2. Starts(y, tag, n)
      BY <2>1, <2>2, StartsInJoin DEF IsFirst
    <3>3. ASSUME NEW j \in 0..(n - 1), Starts(y, tag, j) PROVE FALSE
      <4>1. j \in 0..Len(x)
        BY <2>1
      <4>2. Starts(x, tag, j)
        BY <2>1, <3>3, <4>1, StartsInJoin
      <4>. QED
        BY <2>2, <4>2 DEF IsFirst
    <3>. HIDE DEF y
    <3>. QED
      BY <3>1, <3>2, <3>3 DEF IsFirst
  <2>12. n + Len(tag) <= Len(y)
    BY <2>1, <2>2, <2>9
  <2>. HIDE DEF y, b, v
  <2>13. Scan[<<e, y>>] = Scan[<<Switch(Say(e, Take(y, n))), Drop(y, n + Len(tag))>>]
    <3>. HIDE DEF tag
    <3>. QED
      BY <2>1, <2>9, <2>11, <2>12, ScanPass DEF tag
  <2>. QED
    BY <2>4, <2>8, <2>10, <2>13 DEF y
<1>3. <<d, s>> \in T
  <2>. HIDE DEF T
  <2>. QED
    BY <1>1, <1>2, ScanInduction
<1>. QED
  BY <1>3

(* What was given out before makes no difference.                          *)
After(r, a, d) == [d EXCEPT !.reasoning = r \o @, !.assistant = a \o @]

LEMMA AfterFields ==
  ASSUME NEW r \in Text, NEW a \in Text, NEW d \in Division
  PROVE  /\ After(r, a, d) \in Division /\ After(r, a, d).stream = d.stream
         /\ After(r, a, d).reasoning = r \o d.reasoning
         /\ After(r, a, d).assistant = a \o d.assistant
<1>1. r \o d.reasoning \in Text /\ a \o d.assistant \in Text
  BY JoinFacts DEF Division
<1> DEFINE x == r \o d.reasoning
<1> DEFINE y == a \o d.assistant
<1>2. After(r, a, d) = [d EXCEPT !.reasoning = x, !.assistant = y]
  BY DEF After
<1>. HIDE DEF x, y
<1>3. x \in Text /\ y \in Text
  BY <1>1 DEF x, y
<1>4. After(r, a, d) \in Division /\ After(r, a, d).stream = d.stream
      /\ After(r, a, d).reasoning = x /\ After(r, a, d).assistant = y
  BY <1>2, <1>3 DEF Division
<1>. QED
  BY <1>4 DEF x, y

LEMMA SayAfter ==
  ASSUME NEW r \in Text, NEW a \in Text, NEW d \in Division, NEW t \in Text
  PROVE  Say(After(r, a, d), t) = After(r, a, Say(d, t))
<1> DEFINE e == After(r, a, d)
<1>1. /\ e \in Division /\ e.stream = d.stream
      /\ e.reasoning = r \o d.reasoning /\ e.assistant = a \o d.assistant
  BY AfterFields
<1> DEFINE R == d.reasoning
<1> DEFINE A == d.assistant
<1>2. /\ R \in Text /\ A \in Text /\ d.stream \in Stream
      /\ e.reasoning = r \o R /\ e.assistant = a \o A
  BY <1>1 DEF Division
<1>. SUFFICES Say(e, t) = After(r, a, Say(d, t))
  OBVIOUS
<1>. HIDE DEF e
<1>3. CASE d.stream.inThink
  <2> DEFINE x == d.reasoning \o t
  <2>1. e.reasoning \o t = r \o x
    <3>. HIDE DEF R
    <3>1. (r \o R) \o t = r \o (R \o t)
      BY <1>2, JoinThree
    <3>. QED
      BY <1>2, <3>1 DEF R
  <2>2. Say(e, t) = [e EXCEPT !.reasoning = r \o x]
    BY <1>1, <1>3, <2>1 DEF Say
  <2>3. Say(d, t) = [d EXCEPT !.reasoning = x]
    BY <1>3 DEF Say
  <2>. HIDE DEF x
  <2>4. After(r, a, Say(d, t)) = [d EXCEPT !.reasoning = r \o x, !.assistant = a \o @]
    BY <2>3 DEF After, Division
  <2> DEFINE y == r \o x
  <2> DEFINE z == a \o d.assistant
  <2>5. /\ After(r, a, Say(d, t)) = [d EXCEPT !.reasoning = y, !.assistant = z]
        /\ Say(e, t) = [e EXCEPT !.reasoning = y] /\ e.assistant = z
    BY <1>1, <2>2, <2>4
  <2>. HIDE DEF y, z
  <2>. QED
    BY <1>1, <2>5 DEF Division
<1>4. CASE ~d.stream.inThink
  <2> DEFINE said == IF d.stream.trimAssistantPrefix THEN TrimLeft(t) ELSE t
  <2> DEFINE x == d.assistant \o said
  <2>1. said \in Text
    BY TrimLeftText
  <2>2. Say(d, t) = IF said = <<>> THEN d
                    ELSE [d EXCEPT !.stream.trimAssistantPrefix = FALSE, !.assistant = x]
    BY <1>4 DEF Say, SayAssistant
  <2>3. Say(e, t) = IF said = <<>> THEN e
                    ELSE [e EXCEPT !.stream.trimAssistantPrefix = FALSE,
                                   !.assistant = e.assistant \o said]
    BY <1>1, <1>4 DEF Say, SayAssistant
  <2>. HIDE DEF said
  <2>4. e.assistant \o said = a \o x
    <3>. HIDE DEF A
    <3>1. (a \o A) \o said = a \o (A \o said)
      BY <1>2, <2>1, JoinThree
    <3>. QED
      BY <1>2, <3>1 DEF A
  <2>. HIDE DEF x
  <2>5. CASE said = <<>>
    BY <2>2, <2>3, <2>5 DEF e
  <2>6. CASE said # <<>>
    <3> DEFINE y == a \o x
    <3> DEFINE z == r \o d.reasoning
    <3> DEFINE n == Say(d, t)
    <3>1. n = [d EXCEPT !.stream.trimAssistantPrefix = FALSE, !.assistant = x]
      BY <2>2, <2>6
    <3>2. n.reasoning = d.reasoning /\ n.assistant = x
      <4>. HIDE DEF n
      <4>. QED
        BY <3>1 DEF Division
    <3>3. After(r, a, n) = [n EXCEPT !.reasoning = z, !.assistant = y]
      <4>. HIDE DEF n
      <4>. QED
        BY <3>2 DEF After
    <3>4. Say(e, t) = [e EXCEPT !.stream.trimAssistantPrefix = FALSE, !.assistant = y]
      BY <2>3, <2>4, <2>6
    <3>5. e.reasoning = z
      BY <1>1
    <3>. HIDE DEF y, z, n
    <3>6. Say(e, t) = After(r, a, n)
      <4>1. e = [d EXCEPT !.reasoning = z, !.assistant = e.assistant]
        BY <1>1, <3>5 DEF Division
      <4> DEFINE q == e.assistant
      <4>. HIDE DEF q
      <4>2. e = [d EXCEPT !.reasoning = z, !.assistant = q]
        BY <4>1 DEF q
      <4>. QED
        BY <1>2, <3>1, <3>3, <3>4, <4>2 DEF Division, Stream
    <3>. QED
      BY <3>6 DEF n
  <2>. QED
    BY <2>5, <2>6
<1>. QED
  BY <1>3, <1>4

LEMMA SwitchAfter ==
  ASSUME NEW r \in Text, NEW a \in Text, NEW d \in Division
  PROVE  Switch(After(r, a, d)) = After(r, a, Switch(d))
<1> DEFINE x == r \o d.reasoning
<1> DEFINE y == a \o d.assistant
<1>1. After(r, a, d) = [d EXCEPT !.reasoning = x, !.assistant = y]
  BY DEF After
<1>2. Switch(d).reasoning = d.reasoning /\ Switch(d).assistant = d.assistant
  BY DEF Switch, Division
<1>3. After(r, a, Switch(d)) = [Switch(d) EXCEPT !.reasoning = x, !.assistant = y]
  BY <1>2 DEF After
<1>. HIDE DEF x, y
<1>. QED
  BY <1>1, <1>3 DEF Switch, Division, Stream

LEMMA ScanAfter ==
  ASSUME NEW r \in Text, NEW a \in Text, NEW d \in Division, NEW t \in Text
  PROVE  Scan[<<After(r, a, d), t>>] = After(r, a, Scan[<<d, t>>])
<1> DEFINE T == {w \in Division \X Text :
                   Scan[<<After(r, a, w[1]), w[2]>>] = After(r, a, Scan[w])}
<1>1. ASSUME NEW e \in Division, NEW x \in Text
      PROVE  /\ After(r, a, e) \in Division
             /\ AwaitedTag(After(r, a, e).stream) = AwaitedTag(e.stream)
             /\ AwaitedTag(e.stream) \in Text
             /\ \A n \in 0..Len(x) : /\ Take(x, n) \in Text
                                    /\ Say(e, Take(x, n)) \in Division
                                    /\ Say(After(r, a, e), Take(x, n))
                                          = After(r, a, Say(e, Take(x, n)))
  <2>1. After(r, a, e) \in Division /\ After(r, a, e).stream = e.stream /\ e.stream \in Stream
    BY AfterFields DEF Division
  <2>2. ASSUME NEW n \in 0..Len(x)
        PROVE  /\ Take(x, n) \in Text /\ Say(e, Take(x, n)) \in Division
               /\ Say(After(r, a, e), Take(x, n)) = After(r, a, Say(e, Take(x, n)))
    BY TakeFacts, SayIsDivision, SayAfter
  <2>. QED
    BY <2>1, <2>2, TagFacts
<1>2. ASSUME NEW w \in Division \X Text, ~Passes(w) PROVE w \in T
  <2> DEFINE e == w[1]
  <2> DEFINE x == w[2]
  <2> DEFINE tag == AwaitedTag(e.stream)
  <2> DEFINE f == After(r, a, e)
  <2>. SUFFICES Scan[<<f, x>>] = After(r, a, Scan[w])
    OBVIOUS
  <2>1. e \in Division /\ x \in Text /\ w = <<e, x>>
    OBVIOUS
  <2>. HIDE DEF e, x
  <2>2. f \in Division /\ tag = AwaitedTag(f.stream) /\ tag \in Text
    BY <1>1, <2>1
  <2>3. PICK n \in 0..Len(x) : IsFirst(x, tag, n)
    BY <2>1, <2>2, FirstExists
  <2>. HIDE DEF f
  <2>4. ~(n + Len(tag) <= Len(x))
    BY <1>2, <2>1, <2>3, ScanStep
  <2> DEFINE s == Say(e, Take(x, n))
  <2> DEFINE p == Drop(x, n)
  <2>5. Say(f, Take(x, n)) = After(r, a, s) /\ s \in Division
    BY <1>1, <2>1 DEF f
  <2>. HIDE DEF tag, s, p
  <2>6. CASE x = <<>>
    <3>1. Scan[<<e, x>>] = e /\ Scan[<<f, x>>] = f
      BY <2>1, <2>2, <2>3, <2>4, <2>6, ScanEnd DEF tag
    <3>. QED
      BY <2>1, <3>1 DEF f
  <2>7. CASE x # <<>>
    <3>1. Scan[<<e, x>>] = [s EXCEPT !.stream.pending = p]
      BY <2>1, <2>2, <2>3, <2>4, <2>7, ScanEnd DEF tag, s, p
    <3>2. Scan[<<f, x>>] = [After(r, a, s) EXCEPT !.stream.pending = p]
      BY <2>1, <2>2, <2>3, <2>4, <2>5, <2>7, ScanEnd DEF p
    <3>3. [After(r, a, s) EXCEPT !.stream.pending = p]
             = After(r, a, [s EXCEPT !.stream.pending = p])
      <4> DEFINE y == r \o s.reasoning
      <4> DEFINE z == a \o s.assistant
      <4> DEFINE q == [s EXCEPT !.stream.pending = p]
      <4>1. After(r, a, s) = [s EXCEPT !.reasoning = y, !.assistant = z]
        BY DEF After
      <4>2. q.reasoning = s.reasoning /\ q.assistant = s.assistant
        BY <2>5 DEF Division
      <4>3. After(r, a, q) = [q EXCEPT !.reasoning = y, !.assistant = z]
        <5>. HIDE DEF q
        <5>. QED
          BY <4>2 DEF After
      <4>. HIDE DEF y, z
      <4>4. [[s EXCEPT !.reasoning = y, !.assistant = z] EXCEPT !.stream.pending = p]
              = [q EXCEPT !.reasoning = y, !.assistant = z]
        BY <2>5 DEF Division, Stream
      <4>. QED
        BY <4>1, <4>3, <4>4
    <3>. QED
      BY <2>1, <3>1, <3>2, <3>3
  <2>. QED
    BY <2>6, <2>7
<1>3. ASSUME NEW w \in Division \X Text, Passes(w), AfterTag(w) \in T PROVE w \in T
  <2> DEFINE e == w[1]
  <2> DEFINE x == w[2]
  <2> DEFINE tag == AwaitedTag(e.stream)
  <2> DEFINE f == After(r, a, e)
  <2> DEFINE v == AfterTag(w)
  <2>. SUFFICES Scan[<<f, x>>] = After(r, a, Scan[w])
    OBVIOUS
  <2>1. e \in Division /\ x \in Text /\ w = <<e, x>>
    OBVIOUS
  <2>2. PICK n \in 0..Len(x) :
          /\ IsFirst(x, tag, n) /\ n + Len(tag) <= Len(x) /\ n + Len(tag) \in 0..Len(x)
          /\ v[1] = Switch(Say(e, Take(x, n)))
          /\ v[2] = Drop(x, n + Len(tag))
    BY <1>3, AfterTagParts
  <2>3. Scan[w] = Scan[v] /\ Scan[<<After(r, a, v[1]), v[2]>>] = After(r, a, Scan[v])
    BY <1>3, ScanDefined
  <2>. HIDE DEF e, x, v
  <2>4. f \in Division /\ tag = AwaitedTag(f.stream)
    BY <1>1, <2>1
  <2> DEFINE s == Say(e, Take(x, n))
  <2>5. Say(f, Take(x, n)) = After(r, a, s) /\ s \in Division
    BY <1>1, <2>1
  <2>. HIDE DEF tag, f, s
  <2>6. Scan[<<f, x>>] = Scan[<<Switch(Say(f, Take(x, n))), Drop(x, n + Len(tag))>>]
    BY <2>1, <2>2, <2>4, ScanPass
  <2>7. Switch(After(r, a, s)) = After(r, a, Switch(s))
    BY <2>5, SwitchAfter
  <2>8. v[1] = Switch(s)
    BY <2>2 DEF s
  <2>. QED
    BY <2>2, <2>3, <2>5, <2>6, <2>7, <2>8
<1>4. <<d, t>> \in T
  <2>. HIDE DEF T
  <2>. QED
    BY <1>2, <1>3, ScanInduction
<1>. QED
  BY <1>4

--------------------------------------------------------------------------------
(* Append and splitInlineThinking *)

Start(s) == [stream    |-> [s EXCEPT !.pending = <<>>],
             reasoning |-> <<>>,
             assistant |-> <<>>]

LEMMA StartFacts ==
  ASSUME NEW s \in Stream
  PROVE  /\ Start(s) \in Division /\ Start(s).stream.pending = <<>>
         /\ s.pending \in Text /\ <<>> \in Text
         /\ \A t : AppendInline(s, t) = Scan[<<Start(s), s.pending \o t>>]
<1>1. <<>> \in Text
  BY EmptySeq DEF Text
<1>2. Start(s) \in Division /\ Start(s).stream.pending = <<>> /\ s.pending \in Text
  BY <1>1 DEF Start, Division, Stream
<1>3. \A t : AppendInline(s, t) = Scan[<<Start(s), s.pending \o t>>]
  BY DEF AppendInline, Start
<1>. QED
  BY <1>1, <1>2, <1>3

LEMMA AppendInlineKeeps ==
  ASSUME NEW s \in Stream, NEW t \in Text
  PROVE  AppendInline(s, t) \in Division /\ KeepsBeginning(AppendInline(s, t).stream)
<1>1. s.pending \o t \in Text
  BY StartFacts, JoinFacts
<1>. QED
  BY <1>1, StartFacts, ScanKeeps

(* A text appended in two deltas comes out as it does in one.              *)
LEMMA AppendInlineTwice ==
  ASSUME NEW s \in Stream, NEW t \in Text, NEW u \in Text
  PROVE  LET d == AppendInline(s, t) IN
         AppendInline(s, t \o u)
           = After(d.reasoning, d.assistant, AppendInline(d.stream, u))
<1> DEFINE d == AppendInline(s, t)
<1> DEFINE p == s.pending
<1> DEFINE b == Start(s)
<1>1. d \in Division /\ t \o u \in Text
  BY AppendInlineKeeps, JoinFacts
<1>2. /\ d.stream \in Stream /\ d.reasoning \in Text /\ d.assistant \in Text
      /\ d.stream.pending \in Text
  BY <1>1 DEF Division, Stream
<1>3. b \in Division /\ b.stream.pending = <<>> /\ p \in Text /\ <<>> \in Text
  BY StartFacts
<1>4. /\ AppendInline(s, t \o u) = Scan[<<b, p \o (t \o u)>>]
      /\ d = Scan[<<b, p \o t>>]
  BY StartFacts
<1>. HIDE DEF d, p, b
<1>5. p \o t \in Text /\ (p \o t) \o u = p \o (t \o u)
  <2>1. p \o t \in Text
    BY <1>3, JoinFacts
  <2>2. (p \o t) \o u = p \o (t \o u)
    BY <1>3, JoinThree
  <2>. QED
    BY <2>1, <2>2
<1>6. Scan[<<b, (p \o t) \o u>>] = Scan[<<Clear(d), d.stream.pending \o u>>]
  <2> DEFINE x == p \o t
  <2>1. x \in Text /\ d = Scan[<<b, x>>]
    BY <1>4, <1>5
  <2>. HIDE DEF x
  <2>2. Scan[<<b, x \o u>>] = Scan[<<Clear(d), d.stream.pending \o u>>]
    BY <1>3, <2>1, ScanResumes
  <2>. QED
    BY <2>2 DEF x
<1>7. Clear(d) = After(d.reasoning, d.assistant, Start(d.stream))
  <2> DEFINE z == [d.stream EXCEPT !.pending = <<>>]
  <2>1. Clear(d) = [d EXCEPT !.stream = z]
    BY <1>1 DEF Clear, Division
  <2>2. d.reasoning \o <<>> = d.reasoning /\ d.assistant \o <<>> = d.assistant
    BY <1>2, TextFacts
  <2>3. Start(d.stream) = [stream |-> z, reasoning |-> <<>>, assistant |-> <<>>]
    BY DEF Start
  <2>. HIDE DEF z
  <2> DEFINE b0 == Start(d.stream)
  <2>4. /\ b0 \in Division /\ b0.stream = z /\ b0.reasoning = <<>> /\ b0.assistant = <<>>
    BY <1>2, <2>3, StartFacts
  <2>5. After(d.reasoning, d.assistant, b0)
          = [b0 EXCEPT !.reasoning = d.reasoning, !.assistant = d.assistant]
    <3>. HIDE DEF b0
    <3>. QED
      BY <2>2, <2>4 DEF After
  <2>. HIDE DEF b0
  <2>. QED
    BY <1>1, <2>1, <2>4, <2>5 DEF Division, b0
<1>8. Scan[<<Clear(d), d.stream.pending \o u>>]
        = After(d.reasoning, d.assistant, Scan[<<Start(d.stream), d.stream.pending \o u>>])
  <2>1. d.stream.pending \o u \in Text
    BY <1>2, JoinFacts
  <2>2. Start(d.stream) \in Division
    BY <1>2, StartFacts
  <2> DEFINE b0 == Start(d.stream)
  <2> DEFINE x == d.stream.pending \o u
  <2> DEFINE R == d.reasoning
  <2> DEFINE A == d.assistant
  <2>3. b0 \in Division /\ x \in Text /\ R \in Text /\ A \in Text
    BY <1>2, <2>1, <2>2
  <2>4. Clear(d) = After(R, A, b0)
    BY <1>7
  <2>. HIDE DEF b0, x, R, A
  <2>5. Scan[<<After(R, A, b0), x>>] = After(R, A, Scan[<<b0, x>>])
    BY <2>3, ScanAfter
  <2>. QED
    BY <2>4, <2>5 DEF b0, x, R, A
<1>9. AppendInline(d.stream, u) = Scan[<<Start(d.stream), d.stream.pending \o u>>]
  BY <1>2, StartFacts
<1>. QED
  BY <1>4, <1>5, <1>6, <1>8, <1>9 DEF d

LEMMA JoinPrefix ==
  ASSUME NEW s \in Text, NEW t \in Text
  PROVE  IsPrefix(s, s \o t) /\ IsPrefix(s, s)
<1>1. /\ Len(s) \in Nat /\ Len(t) \in Nat /\ Len(s \o t) = Len(s) + Len(t)
      /\ Len(s) \in 0..Len(s)
  BY TextFacts, JoinFacts
<1>2. Take(s \o t, Len(s)) = Take(s, Len(s))
  BY <1>1, TakeDropOfJoin
<1>3. SubSeq(s \o t, 1, Len(s)) = SubSeq(s, 1, Len(s))
  BY <1>2 DEF Take
<1>. QED
  BY <1>1, <1>3 DEF IsPrefix

(* Saying more only adds to what was said, on one side.                    *)
LEMMA SayAdds ==
  ASSUME NEW d \in Division, NEW t \in Text
  PROVE  /\ IsPrefix(d.reasoning, Say(d, t).reasoning)
         /\ IsPrefix(d.assistant, Say(d, t).assistant)
<1>1. /\ d.reasoning \in Text /\ d.assistant \in Text
      /\ IsPrefix(d.reasoning, d.reasoning) /\ IsPrefix(d.assistant, d.assistant)
  <2>1. d.reasoning \in Text /\ d.assistant \in Text
    BY DEF Division
  <2>. QED
    BY <2>1, JoinPrefix
<1>2. CASE d.stream.inThink
  <2> DEFINE x == d.reasoning \o t
  <2>1. IsPrefix(d.reasoning, x)
    BY <1>1, JoinPrefix
  <2>2. Say(d, t) = [d EXCEPT !.reasoning = x]
    BY <1>2 DEF Say
  <2>. HIDE DEF x
  <2>3. Say(d, t).reasoning = x /\ Say(d, t).assistant = d.assistant
    BY <2>2 DEF Division
  <2>. QED
    BY <1>1, <2>1, <2>3
<1>3. CASE ~d.stream.inThink
  <2> DEFINE said == IF d.stream.trimAssistantPrefix THEN TrimLeft(t) ELSE t
  <2> DEFINE x == d.assistant \o said
  <2>1. said \in Text
    BY TrimLeftText
  <2>2. Say(d, t) = IF said = <<>> THEN d
                    ELSE [d EXCEPT !.stream.trimAssistantPrefix = FALSE, !.assistant = x]
    BY <1>3 DEF Say, SayAssistant
  <2>. HIDE DEF said
  <2>3. IsPrefix(d.assistant, x)
    BY <1>1, <2>1, JoinPrefix
  <2>. HIDE DEF x
  <2>4. /\ Say(d, t).reasoning = d.reasoning
        /\ Say(d, t).assistant = IF said = <<>> THEN d.assistant ELSE x
    BY <2>2 DEF Division
  <2>. QED
    BY <1>1, <2>3, <2>4
<1>. QED
  BY <1>2, <1>3

LEMMA SplitFacts ==
  ASSUME NEW t \in Text
  PROVE  /\ SplitInlineThinking(t) \in Division
         /\ SplitInlineThinking(t).reasoning \in Text
         /\ SplitInlineThinking(t).assistant \in Text
<1> DEFINE d == AppendInline(NewStream, t)
<1>1. NewStream \in Stream
  BY EmptySeq DEF NewStream, Stream, Text
<1>2. d \in Division
  BY <1>1, AppendInlineKeeps
<1>. HIDE DEF d
<1>3. d.stream.pending \in Text
  BY <1>2 DEF Division, Stream
<1>4. SplitInlineThinking(t) \in Division
  BY <1>2, <1>3, SayIsDivision DEF SplitInlineThinking, d
<1>. QED
  BY <1>4 DEF Division

LEMMA AppendNothing ==
  /\ AppendInline(NewStream, <<>>)
       = [stream |-> NewStream, reasoning |-> <<>>, assistant |-> <<>>]
  /\ SplitInlineThinking(<<>>).reasoning = <<>>
  /\ SplitInlineThinking(<<>>).assistant = <<>>
<1>1. NewStream \in Stream /\ <<>> \in Text /\ NewStream.pending = <<>>
  BY EmptySeq DEF NewStream, Stream, Text
<1> DEFINE b == Start(NewStream)
<1>2. b = [stream |-> NewStream, reasoning |-> <<>>, assistant |-> <<>>]
  <2>1. [NewStream EXCEPT !.pending = <<>>] = NewStream
    BY <1>1 DEF Stream
  <2>. QED
    BY <2>1 DEF Start
<1>3. b \in Division /\ AppendInline(NewStream, <<>>) = Scan[<<b, <<>> \o <<>>>>]
  BY <1>1, StartFacts
<1>4. <<>> \o <<>> = <<>>
  BY <1>1, TextFacts
<1>5. PICK n \in 0..Len(<<>>) : IsFirst(<<>>, AwaitedTag(b.stream), n)
  BY <1>1, <1>2, TagFacts, FirstExists
<1>. HIDE DEF b
<1>6. Scan[<<b, <<>>>>] = b
  BY <1>1, <1>3, <1>5, ScanStep
<1>7. AppendInline(NewStream, <<>>) = b
  BY <1>3, <1>4, <1>6
<1>8. b.stream.pending = <<>> /\ b.reasoning = <<>> /\ b.assistant = <<>>
  BY <1>1, <1>2
<1>9. SplitInlineThinking(<<>>) = b
  BY <1>3, <1>7, <1>8, SayNoText DEF SplitInlineThinking
<1>. QED
  BY <1>2, <1>7, <1>8, <1>9

--------------------------------------------------------------------------------
(* Texts at some of their places *)

(* The recursive definition defines a function.                            *)
LEMMA TextAtDefined ==
  ASSUME NEW t \in Text, NEW I
  PROVE  LET f == TextAt(t, I) IN
         /\ f[0] = <<>>
         /\ \A n \in 0..Len(t) : f[n] \in Text
         /\ \A n \in 1..Len(t) : f[n] = IF n \in I THEN f[n - 1] \o <<t[n]>> ELSE f[n - 1]
<1> DEFINE D == 0..Len(t)
<1> DEFINE size == [n \in D |-> n]
<1> DEFINE stop == {0}
<1> DEFINE base == [n \in stop |-> <<>>]
<1> DEFINE step == [n \in D |-> [x \in Text |-> IF n \in I THEN Append(x, t[n]) ELSE x]]
<1> DEFINE next == [n \in D |-> n - 1]
<1>1. Len(t) \in Nat /\ <<>> \in Text /\ \A n \in 1..Len(t) : t[n] \in Char
  BY TextFacts
<1>2. \A x \in Text, c \in Char : Append(x, c) \in Text /\ Append(x, c) = x \o <<c>>
  BY AppendProperties, AppendIsConcat DEF Text
<1>3. size \in [D -> Nat] /\ Text # {} /\ \A n \in stop : base[n] \in Text
  BY <1>1
<1>4. \A n \in D \ stop : next[n] \in D /\ size[next[n]] < size[n]
  BY <1>1
<1>5. ASSUME NEW n \in D \ stop, NEW x \in Text PROVE step[n][x] \in Text
  <2>1. n \in D /\ n \in 1..Len(t) /\ t[n] \in Char
    BY <1>1
  <2>2. Append(x, t[n]) \in Text
    BY <1>2, <2>1
  <2>. QED
    BY <2>1, <2>2
<1>6. PICK f \in [D -> Text] : Recurs(f, D, stop, base, step, next)
  <2>. HIDE DEF D, size, stop, base, step, next
  <2>. QED
    BY <1>3, <1>4, <1>5, RecursionExists
<1> DEFINE Body(g) == [n \in 0..Len(t) |->
                        IF n = 0 THEN <<>>
                        ELSE IF n \in I THEN Append(g[n - 1], t[n]) ELSE g[n - 1]]
<1>7. ASSUME NEW n \in D
      PROVE  f[n] = IF n = 0 THEN <<>> ELSE IF n \in I THEN Append(f[n - 1], t[n]) ELSE f[n - 1]
  <2>1. f[n] = IF n \in stop THEN base[n] ELSE step[n][f[next[n]]]
    BY <1>6 DEF Recurs
  <2>2. CASE n = 0
    BY <2>1, <2>2
  <2>3. CASE n # 0
    <3>1. n - 1 \in D /\ n \in D \ stop
      BY <1>1, <2>3
    <3>2. f[n - 1] \in Text
      BY <1>6, <3>1
    <3>. QED
      BY <2>1, <2>3, <3>1, <3>2
  <2>. QED
    BY <2>2, <2>3
<1>8. f = Body(f)
  BY <1>6, <1>7
<1> DEFINE g == TextAt(t, I)
<1>9. g = CHOOSE h : h = Body(h)
  BY DEF TextAt
<1>. HIDE DEF Body, g
<1>10. g = Body(g)
  BY <1>8, <1>9
<1>11. \A n \in D : g[n] = IF n = 0 THEN <<>> ELSE IF n \in I THEN Append(g[n - 1], t[n])
                                                   ELSE g[n - 1]
  BY <1>10 DEF Body
<1> DEFINE T == {n \in Nat : n <= Len(t) => g[n] \in Text}
<1>12. 0 \in T
  BY <1>1, <1>11
<1>13. ASSUME NEW n \in Nat, n \in T PROVE n + 1 \in T
  <2> SUFFICES ASSUME n + 1 <= Len(t) PROVE g[n + 1] \in Text
    OBVIOUS
  <2>1. g[n] \in Text /\ n + 1 \in 1..Len(t) /\ n + 1 \in D /\ n + 1 # 0 /\ n + 1 - 1 = n
    BY <1>1, <1>13
  <2>2. g[n + 1] = IF n + 1 \in I THEN Append(g[n], t[n + 1]) ELSE g[n]
    BY <1>11, <2>1
  <2>3. Append(g[n], t[n + 1]) \in Text
    BY <1>1, <1>2, <2>1
  <2>. QED
    BY <2>1, <2>2, <2>3
<1>14. \A n \in Nat : n \in T
  <2>. HIDE DEF T
  <2>. QED
    BY <1>12, <1>13, Induction
<1>15. \A n \in 0..Len(t) : g[n] \in Text
  BY <1>1, <1>14
<1>16. \A n \in 1..Len(t) : g[n] = IF n \in I THEN g[n - 1] \o <<t[n]>> ELSE g[n - 1]
  <2> TAKE n \in 1..Len(t)
  <2>1. n \in D /\ n # 0 /\ n - 1 \in 0..Len(t) /\ g[n - 1] \in Text
    BY <1>1, <1>15
  <2>. QED
    BY <1>1, <1>2, <1>11, <2>1
<1>17. g[0] = <<>>
  BY <1>1, <1>11
<1>. QED
  BY <1>15, <1>16, <1>17 DEF g

(* It depends on the characters and places up to there only.               *)
LEMMA TextAtAgrees ==
  ASSUME NEW t \in Text, NEW u \in Text, NEW I, NEW J, NEW n \in Nat,
         n <= Len(t), n <= Len(u),
         \A i \in 1..n : t[i] = u[i] /\ (i \in I <=> i \in J)
  PROVE  TextAt(t, I)[n] = TextAt(u, J)[n]
<1> DEFINE f == TextAt(t, I)
<1> DEFINE g == TextAt(u, J)
<1>1. Len(t) \in Nat /\ Len(u) \in Nat
  BY TextFacts
<1>2. f[0] = <<>> /\ \A k \in 1..Len(t) : f[k] = IF k \in I THEN f[k - 1] \o <<t[k]>> ELSE f[k - 1]
  BY TextAtDefined
<1>3. g[0] = <<>> /\ \A k \in 1..Len(u) : g[k] = IF k \in J THEN g[k - 1] \o <<u[k]>> ELSE g[k - 1]
  BY TextAtDefined
<1>. HIDE DEF f, g
<1> DEFINE T == {k \in Nat : k <= n => f[k] = g[k]}
<1>4. 0 \in T
  BY <1>2, <1>3
<1>5. ASSUME NEW k \in Nat, k \in T PROVE k + 1 \in T
  <2> SUFFICES ASSUME k + 1 <= n PROVE f[k + 1] = g[k + 1]
    OBVIOUS
  <2>1. /\ f[k] = g[k] /\ k + 1 \in 1..n /\ k + 1 \in 1..Len(t) /\ k + 1 \in 1..Len(u)
        /\ k + 1 - 1 = k
    BY <1>1, <1>5
  <2>2. f[k + 1] = IF k + 1 \in I THEN f[k] \o <<t[k + 1]>> ELSE f[k]
    BY <1>2, <2>1
  <2>3. g[k + 1] = IF k + 1 \in J THEN g[k] \o <<u[k + 1]>> ELSE g[k]
    BY <1>3, <2>1
  <2>. QED
    BY <2>1, <2>2, <2>3
<1>6. \A k \in Nat : k \in T
  <2>. HIDE DEF T
  <2>. QED
    BY <1>4, <1>5, Induction
<1>. QED
  BY <1>6 DEF f, g

(* Places that are left out add nothing.                                   *)
LEMMA TextAtNothing ==
  ASSUME NEW t \in Text, NEW I, NEW n \in Nat, NEW m \in Nat, n <= m, m <= Len(t),
         \A i \in (n + 1)..m : i \notin I
  PROVE  TextAt(t, I)[m] = TextAt(t, I)[n]
<1> DEFINE f == TextAt(t, I)
<1>1. Len(t) \in Nat
  BY TextFacts
<1>2. \A k \in 1..Len(t) : f[k] = IF k \in I THEN f[k - 1] \o <<t[k]>> ELSE f[k - 1]
  BY TextAtDefined
<1>. HIDE DEF f
<1> DEFINE T == {k \in Nat : n + k <= m => f[n + k] = f[n]}
<1>3. 0 \in T
  OBVIOUS
<1>4. ASSUME NEW k \in Nat, k \in T PROVE k + 1 \in T
  <2> SUFFICES ASSUME n + (k + 1) <= m PROVE f[n + (k + 1)] = f[n]
    OBVIOUS
  <2> DEFINE j == n + (k + 1)
  <2>1. /\ j \in 1..Len(t) /\ j \in (n + 1)..m /\ j - 1 = n + k
        /\ f[n + k] = f[n]
    BY <1>1, <1>4
  <2>. HIDE DEF j
  <2>2. f[j] = f[n]
    BY <1>2, <2>1
  <2>. QED
    BY <2>2 DEF j
<1>5. \A k \in Nat : k \in T
  <2>. HIDE DEF T
  <2>. QED
    BY <1>3, <1>4, Induction
<1>6. m - n \in Nat /\ n + (m - n) = m
  OBVIOUS
<1>7. f[n + (m - n)] = f[n]
  BY <1>5, <1>6
<1>. QED
  BY <1>6, <1>7 DEF f

--------------------------------------------------------------------------------
(* Tags by definition *)

Tags == {OpenTag, CloseTag}

LEMMA TagsAreTexts ==
  /\ \A x \in Tags : x \in Text /\ Len(x) \in Nat \ {0}
  /\ OpenTag \in Tags /\ CloseTag \in Tags /\ OpenTag # CloseTag
<1>1. \A x \in Tags : x \in Text /\ Len(x) \in Nat \ {0}
  BY TagAssumption, TextFacts DEF Text, Tags
<1>2. IsPrefix(OpenTag, OpenTag)
  BY <1>1 DEF IsPrefix, Tags
<1>. QED
  BY <1>1, <1>2, TagsApart DEF Tags

LEMMA EndsIs ==
  ASSUME NEW t \in Text, NEW x \in Tags, NEW e
  PROVE  e \in Ends(t, x) <=> /\ e \in Nat /\ Len(x) <= e /\ e <= Len(t)
                              /\ Starts(t, x, e - Len(x))
<1>1. x \in Text /\ Len(x) \in Nat \ {0} /\ Len(t) \in Nat
  BY TagsAreTexts, TextFacts
<1>2. ASSUME e \in Ends(t, x)
      PROVE  e \in Nat /\ Len(x) <= e /\ e <= Len(t) /\ Starts(t, x, e - Len(x))
  <2>1. PICK n \in Places(t, x) : e = n + Len(x)
    BY <1>2 DEF Ends
  <2>2. n \in Nat
    BY <1>1, <2>1 DEF Places
  <2>3. n + Len(x) <= Len(t) /\ Starts(t, x, n)
    BY <1>1, <2>1, <2>2, PlaceStarts
  <2>4. e - Len(x) = n
    BY <1>1, <2>1, <2>2
  <2>. QED
    BY <1>1, <2>1, <2>2, <2>3, <2>4
<1>3. ASSUME e \in Nat, Len(x) <= e, e <= Len(t), Starts(t, x, e - Len(x))
      PROVE  e \in Ends(t, x)
  <2> DEFINE n == e - Len(x)
  <2>1. n \in Nat /\ n + Len(x) = e /\ n + Len(x) <= Len(t) /\ Starts(t, x, n)
    BY <1>1, <1>3
  <2>. HIDE DEF n
  <2>2. n \in Places(t, x)
    BY <1>1, <2>1, PlaceStarts
  <2>. QED
    BY <2>1, <2>2 DEF Ends
<1>. QED
  BY <1>2, <1>3

(* A tag that starts behind another starts behind its end, ...             *)
LEMMA StartsBehind ==
  ASSUME NEW t \in Text, NEW x \in Tags, NEW y \in Tags, NEW i \in Nat, NEW j \in Nat,
         Starts(t, x, i), Starts(t, y, j), j < i, i < Len(t)
  PROVE  j + Len(y) <= i
<1>1. Len(x) \in Nat \ {0} /\ Len(y) \in Nat \ {0} /\ Len(t) \in Nat
  BY TagsAreTexts, TextFacts
<1> SUFFICES ASSUME ~(j + Len(y) <= i) PROVE FALSE
  OBVIOUS
<1> DEFINE k == i + 1 - j
<1>2. k \in 2..Len(y) /\ k \in 1..Len(y) /\ j + k = i + 1 /\ i + 1 <= Len(t) /\ 1 \in 1..Len(x)
  BY <1>1
<1>. HIDE DEF k
<1>3. t[i + 1] = x[1]
  BY <1>2 DEF Starts
<1>4. t[i + 1] = y[k]
  BY <1>2 DEF Starts
<1>. QED
  BY <1>2, <1>3, <1>4, TagsApart DEF Tags

(* ... and only one tag starts at a place.                                 *)
LEMMA StartsAlone ==
  ASSUME NEW t \in Text, NEW x \in Tags, NEW y \in Tags, NEW i \in Nat,
         Starts(t, x, i), Starts(t, y, i), i + Len(x) <= Len(t)
  PROVE  x = y
<1>1. /\ x \in Text /\ Len(x) \in Nat \ {0}
      /\ y \in Text /\ Len(y) \in Nat \ {0} /\ Len(t) \in Nat
  BY TagsAreTexts, TextFacts
<1>2. ASSUME NEW a \in Tags, NEW b \in Tags, Starts(t, a, i), Starts(t, b, i),
             i + Len(a) <= Len(t), Len(a) <= Len(b)
      PROVE  IsPrefix(a, b)
  <2>1. a \in Text /\ b \in Text /\ Len(a) \in Nat /\ Len(b) \in Nat
    BY TagsAreTexts
  <2>2. Len(a) \in 0..Len(b) /\ Len(a) \in 0..Len(a)
    BY <1>2, <2>1
  <2>3. ASSUME NEW k \in 1..Len(a) PROVE a[k] = b[k]
    <3>1. k \in 1..Len(b) /\ i + k <= Len(t)
      BY <1>1, <1>2, <2>1
    <3>2. t[i + k] = a[k]
      BY <1>2, <3>1 DEF Starts
    <3>3. t[i + k] = b[k]
      BY <1>2, <3>1 DEF Starts
    <3>. QED
      BY <3>2, <3>3
  <2> DEFINE p == Take(b, Len(a))
  <2>4. p \in Text /\ Len(p) = Len(a) /\ \A k \in 1..Len(a) : p[k] = b[k]
    BY <2>1, <2>2, TakeFacts
  <2>5. p = a
    <3>. HIDE DEF p
    <3>. QED
      BY <2>1, <2>3, <2>4, SameText
  <2>6. Take(a, Len(a)) = a
    BY <2>1, <2>2, TakeDropJoin
  <2>. QED
    BY <1>2, <2>5, <2>6 DEF Take, IsPrefix
<1>3. CASE Len(x) <= Len(y)
  <2>1. IsPrefix(x, y)
    BY <1>2, <1>3
  <2>. QED
    BY <2>1, TagsApart DEF Tags
<1>4. CASE ~(Len(x) <= Len(y))
  <2>1. Len(y) <= Len(x) /\ i + Len(y) <= Len(t)
    BY <1>1, <1>4
  <2>2. IsPrefix(y, x)
    BY <1>2, <2>1
  <2>. QED
    BY <2>2, TagsApart DEF Tags
<1>. QED
  BY <1>3, <1>4

(* So no tag ends inside another one, and no two end at the same place.    *)
LEMMA EndsApart ==
  ASSUME NEW t \in Text, NEW x \in Tags, NEW y \in Tags,
         NEW e \in Ends(t, x), NEW f \in Ends(t, y)
  PROVE  /\ e < f => e <= f - Len(y)
         /\ e = f => x = y
<1>1. Len(x) \in Nat \ {0} /\ Len(y) \in Nat \ {0} /\ Len(t) \in Nat
  BY TagsAreTexts, TextFacts
<1>2. e \in Nat /\ Len(x) <= e /\ e <= Len(t) /\ Starts(t, x, e - Len(x))
  BY EndsIs
<1>3. f \in Nat /\ Len(y) <= f /\ f <= Len(t) /\ Starts(t, y, f - Len(y))
  BY EndsIs
<1> DEFINE i == e - Len(x)
<1> DEFINE j == f - Len(y)
<1>4. /\ i \in Nat /\ j \in Nat /\ e = i + Len(x) /\ f = j + Len(y)
      /\ i < Len(t) /\ j < Len(t) /\ Starts(t, x, i) /\ Starts(t, y, j)
      /\ i + Len(x) <= Len(t)
  BY <1>1, <1>2, <1>3
<1>. HIDE DEF i, j
<1>5. CASE i < j
  <2>1. i + Len(x) <= j
    BY <1>4, <1>5, StartsBehind
  <2>. QED
    BY <1>1, <1>4, <2>1 DEF j
<1>6. CASE j < i
  <2>1. j + Len(y) <= i
    BY <1>4, <1>6, StartsBehind
  <2>. QED
    BY <1>1, <1>4, <2>1
<1>7. CASE i = j
  <2>1. x = y
    BY <1>4, <1>7, StartsAlone
  <2>. QED
    BY <1>1, <1>4, <1>7, <2>1
<1>. QED
  BY <1>4, <1>5, <1>6, <1>7

(* Where no tag ends a text stays inside or outside.                       *)
LEMMA InsideSteady ==
  ASSUME NEW t \in Text, NEW a \in Nat, NEW b \in Nat, a <= b,
         \A x \in Tags : \A e \in Ends(t, x) : ~(a < e /\ e <= b)
  PROVE  Inside(t, a) <=> Inside(t, b)
<1>1. \A x \in Tags : \A e \in Ends(t, x) : e \in Nat
  BY EndsIs
<1>2. \A x \in Tags : \A e \in Ends(t, x) : e <= a <=> e <= b
  BY <1>1
<1>3. \A o \in Ends(t, OpenTag) : o <= a <=> o <= b
  BY <1>2, TagsAreTexts
<1>4. \A c \in Ends(t, CloseTag) : c <= a <=> c <= b
  BY <1>2, TagsAreTexts
<1>. QED
  BY <1>3, <1>4 DEF Inside

LEMMA InsideAfterTag ==
  ASSUME NEW t \in Text, NEW x \in Tags, NEW e \in Ends(t, x)
  PROVE  Inside(t, e) <=> x = OpenTag
<1>1. \A y \in Tags : \A f \in Ends(t, y) : f \in Nat /\ (e = f => x = y)
  BY EndsIs, EndsApart
<1>2. e \in Nat
  BY <1>1
<1>3. CASE x = OpenTag
  <2>1. ASSUME NEW c \in Ends(t, CloseTag), c <= e PROVE c < e
    <3>1. c \in Nat /\ c # e
      BY <1>1, <1>3, TagsAreTexts
    <3>. QED
      BY <1>2, <2>1, <3>1
  <2>. QED
    BY <1>2, <1>3, <2>1 DEF Inside
<1>4. CASE x = CloseTag
  <2>1. ASSUME NEW o \in Ends(t, OpenTag), o <= e, e < o PROVE FALSE
    <3>1. o \in Nat
      BY <1>1, TagsAreTexts
    <3>. QED
      BY <1>2, <2>1, <3>1
  <2>2. ~Inside(t, e)
    BY <1>2, <1>4, <2>1 DEF Inside
  <2>. QED
    BY <1>4, <2>2, TagsAreTexts
<1>. QED
  BY <1>3, <1>4 DEF Tags

(* Whether a tag counts is already settled where it starts.                *)
LEMMA InsideBeforeTag ==
  ASSUME NEW t \in Text, NEW x \in Tags, NEW e \in Ends(t, x)
  PROVE  Inside(t, e - Len(x)) <=> Inside(t, e - 1)
<1>1. Len(x) \in Nat \ {0} /\ e \in Nat /\ Len(x) <= e
  BY TagsAreTexts, EndsIs
<1>2. e - Len(x) \in Nat /\ e - 1 \in Nat /\ e - Len(x) <= e - 1
  BY <1>1
<1>3. ASSUME NEW y \in Tags, NEW f \in Ends(t, y), e - Len(x) < f, f <= e - 1 PROVE FALSE
  <2>1. f \in Nat /\ f < e
    BY <1>1, <1>3, EndsIs
  <2>2. f <= e - Len(x)
    BY <2>1, EndsApart
  <2>. QED
    BY <1>1, <1>3, <2>1, <2>2
<1>. QED
  BY <1>2, <1>3, InsideSteady

--------------------------------------------------------------------------------
(* A text and one character more *)

Longer(t, u) ==
  t \in Text /\ u \in Text /\ Len(u) = Len(t) + 1 /\ \A i \in 1..Len(t) : u[i] = t[i]

LEMMA LongerStarts ==
  ASSUME NEW t, NEW u, Longer(t, u), NEW x \in Tags, NEW n \in Nat
  PROVE  /\ Starts(u, x, n) => Starts(t, x, n)
         /\ Starts(t, x, n) /\ n + Len(x) <= Len(t) => Starts(u, x, n)
<1>1. Len(t) \in Nat /\ Len(u) = Len(t) + 1 /\ Len(x) \in Nat \ {0}
  BY TextFacts, TagsAreTexts DEF Longer
<1>2. ASSUME NEW i \in 1..Len(x), n + i <= Len(t) PROVE n + i <= Len(u) /\ u[n + i] = t[n + i]
  BY <1>1, <1>2 DEF Longer
<1>3. ASSUME n + Len(x) <= Len(t), NEW i \in 1..Len(x) PROVE n + i <= Len(t)
  BY <1>1, <1>3
<1>. QED
  BY <1>2, <1>3 DEF Starts

LEMMA LongerEnds ==
  ASSUME NEW t, NEW u, Longer(t, u), NEW x \in Tags
  PROVE  /\ \A e : e # Len(t) + 1 => (e \in Ends(u, x) <=> e \in Ends(t, x))
         /\ \A e \in Ends(t, x) : e \in 1..Len(t)
         /\ \A e \in Ends(u, x) : e \in 1..(Len(t) + 1)
<1>1. /\ t \in Text /\ u \in Text /\ Len(t) \in Nat /\ Len(u) = Len(t) + 1
      /\ Len(x) \in Nat \ {0}
  BY TextFacts, TagsAreTexts DEF Longer
<1>2. ASSUME NEW e, e # Len(t) + 1 PROVE e \in Ends(u, x) <=> e \in Ends(t, x)
  <2>1. CASE e \in Nat /\ Len(x) <= e
    <3> DEFINE n == e - Len(x)
    <3>1. n \in Nat /\ n + Len(x) = e
      BY <1>1, <2>1
    <3>. HIDE DEF n
    <3>2. Starts(u, x, n) => Starts(t, x, n)
      BY <3>1, LongerStarts
    <3>3. Starts(t, x, n) /\ e <= Len(t) => Starts(u, x, n)
      BY <3>1, LongerStarts
    <3>4. e <= Len(u) <=> e <= Len(t)
      BY <1>1, <1>2, <2>1
    <3>5. e \in Ends(u, x) <=> e <= Len(u) /\ Starts(u, x, n)
      BY <1>1, <2>1, EndsIs DEF n
    <3>6. e \in Ends(t, x) <=> e <= Len(t) /\ Starts(t, x, n)
      BY <1>1, <2>1, EndsIs DEF n
    <3>. QED
      BY <3>2, <3>3, <3>4, <3>5, <3>6
  <2>2. CASE ~(e \in Nat /\ Len(x) <= e)
    BY <1>1, <2>2, EndsIs
  <2>. QED
    BY <2>1, <2>2
<1>3. ASSUME NEW e \in Ends(t, x) PROVE e \in 1..Len(t)
  <2>1. e \in Nat /\ Len(x) <= e /\ e <= Len(t)
    BY <1>1, EndsIs
  <2>. QED
    BY <1>1, <2>1
<1>4. ASSUME NEW e \in Ends(u, x) PROVE e \in 1..(Len(t) + 1)
  <2>1. e \in Nat /\ Len(x) <= e /\ e <= Len(u)
    BY <1>1, EndsIs
  <2>. QED
    BY <1>1, <2>1
<1>. QED
  BY <1>2, <1>3, <1>4

LEMMA LongerInside ==
  ASSUME NEW t, NEW u, Longer(t, u), NEW i \in 0..Len(t)
  PROVE  Inside(u, i) <=> Inside(t, i)
<1>1. Len(t) \in Nat
  BY TextFacts DEF Longer
<1>2. ASSUME NEW x \in Tags, NEW e
      PROVE  e \in Ends(u, x) /\ e <= i <=> e \in Ends(t, x) /\ e <= i
  BY <1>1, LongerEnds
<1>3. \A o : o \in Ends(u, OpenTag) /\ o <= i <=> o \in Ends(t, OpenTag) /\ o <= i
  BY <1>2, TagsAreTexts
<1>4. \A c : c \in Ends(u, CloseTag) /\ c <= i <=> c \in Ends(t, CloseTag) /\ c <= i
  BY <1>2, TagsAreTexts
<1>. QED
  BY <1>3, <1>4 DEF Inside

(* The tag that counts if it ends next.                                    *)
NextTag(t) == IF Inside(t, Len(t)) THEN CloseTag ELSE OpenTag
Counts(t, u) == Len(u) \in Ends(u, NextTag(t))

LEMMA LongerEndsInside ==
  ASSUME NEW t, NEW u, Longer(t, u)
  PROVE  Inside(u, Len(u)) <=> (Inside(t, Len(t)) <=> ~Counts(t, u))
<1>1. /\ t \in Text /\ u \in Text /\ Len(t) \in Nat /\ Len(u) = Len(t) + 1
      /\ Len(t) \in 0..Len(t) /\ Len(u) \in Nat
  BY TextFacts DEF Longer
<1>2. Inside(u, Len(t)) <=> Inside(t, Len(t))
  BY <1>1, LongerInside
<1>3. \A x \in Tags : Len(u) \in Ends(u, x) => (Inside(u, Len(u)) <=> x = OpenTag)
  BY <1>1, InsideAfterTag
<1>4. CASE \E x \in Tags : Len(u) \in Ends(u, x)
  <2>1. PICK x \in Tags : Len(u) \in Ends(u, x)
    BY <1>4
  <2>2. Inside(u, Len(u)) <=> x = OpenTag
    BY <1>3, <2>1
  <2>3. NextTag(t) \in Tags
    BY DEF NextTag, Tags
  <2>4. Counts(t, u) <=> x = NextTag(t)
    BY <1>1, <2>1, <2>3, EndsApart DEF Counts
  <2>. QED
    BY <2>1, <2>2, <2>4, TagsAreTexts DEF NextTag, Tags
<1>5. CASE ~\E x \in Tags : Len(u) \in Ends(u, x)
  <2>1. ~Counts(t, u)
    BY <1>5 DEF Counts, NextTag, Tags
  <2>2. ASSUME NEW x \in Tags, NEW e \in Ends(u, x), Len(t) < e, e <= Len(u) PROVE FALSE
    <3>1. e \in Nat
      BY <1>1, EndsIs
    <3>2. e = Len(u)
      BY <1>1, <2>2, <3>1
    <3>. QED
      BY <1>5, <2>2, <3>2
  <2>3. Inside(u, Len(t)) <=> Inside(u, Len(u))
    BY <1>1, <2>2, InsideSteady
  <2>. QED
    BY <1>2, <2>1, <2>3
<1>. QED
  BY <1>4, <1>5

(* The tags that count, and the text in them.                              *)
CountsAs(t, x) == IF x = OpenTag THEN Opening(t) ELSE Closing(t)

LEMMA CountsAsIs ==
  ASSUME NEW t \in Text, NEW x \in Tags, NEW e
  PROVE  e \in CountsAs(t, x) <=>
           e \in Ends(t, x) /\ (Inside(t, e - 1) <=> x = CloseTag)
<1>1. e \in Ends(t, x) => (Inside(t, e - Len(x)) <=> Inside(t, e - 1))
  BY InsideBeforeTag
<1>2. CASE x = OpenTag
  BY <1>1, <1>2, TagsAreTexts DEF CountsAs, Opening
<1>3. CASE x = CloseTag
  BY <1>1, <1>3, TagsAreTexts DEF CountsAs, Closing
<1>. QED
  BY <1>2, <1>3 DEF Tags

LEMMA LongerCounts ==
  ASSUME NEW t, NEW u, Longer(t, u), NEW x \in Tags, NEW e
  PROVE  /\ e \in CountsAs(u, x) <=> \/ e \in CountsAs(t, x)
                                     \/ e = Len(u) /\ Counts(t, u) /\ x = NextTag(t)
         /\ e \in CountsAs(t, x) => e \in 1..Len(t)
<1>1. /\ t \in Text /\ u \in Text /\ Len(t) \in Nat /\ Len(u) = Len(t) + 1
      /\ Len(t) \in 0..Len(t)
  BY TextFacts DEF Longer
<1>2. e \in CountsAs(t, x) => e \in 1..Len(t)
  BY <1>1, CountsAsIs, LongerEnds
<1>3. CASE e = Len(u)
  <2>1. e \notin CountsAs(t, x) /\ e - 1 = Len(t)
    BY <1>1, <1>2, <1>3
  <2>2. Inside(u, e - 1) <=> Inside(t, Len(t))
    BY <1>1, <2>1, LongerInside
  <2>3. e \in CountsAs(u, x) <=> e \in Ends(u, x) /\ (Inside(t, Len(t)) <=> x = CloseTag)
    BY <1>1, <2>2, CountsAsIs
  <2>4. x = NextTag(t) <=> (Inside(t, Len(t)) <=> x = CloseTag)
    BY TagsAreTexts DEF NextTag, Tags
  <2>5. e \in CountsAs(u, x) <=> Counts(t, u) /\ x = NextTag(t)
    BY <1>3, <2>3, <2>4 DEF Counts
  <2>. QED
    BY <1>2, <1>3, <2>1, <2>5
<1>4. CASE e # Len(u)
  <2>1. e \in Ends(u, x) <=> e \in Ends(t, x)
    BY <1>1, <1>4, LongerEnds
  <2>2. e \in Ends(t, x) => (Inside(u, e - 1) <=> Inside(t, e - 1))
    <3> SUFFICES ASSUME e \in Ends(t, x) PROVE Inside(u, e - 1) <=> Inside(t, e - 1)
      OBVIOUS
    <3>1. e - 1 \in 0..Len(t)
      BY <1>1, LongerEnds
    <3>. QED
      BY <3>1, LongerInside
  <2>3. e \in CountsAs(u, x) <=> e \in CountsAs(t, x)
    BY <1>1, <2>1, <2>2, CountsAsIs
  <2>. QED
    BY <1>2, <1>4, <2>3
<1>. QED
  BY <1>3, <1>4

LEMMA MarkupIs ==
  ASSUME NEW t \in Text, NEW i
  PROVE  i \in Markup(t) <=> \E x \in Tags : \E e \in CountsAs(t, x) : i \in (e - Len(x) + 1)..e
<1>1. CountsAs(t, OpenTag) = Opening(t) /\ CountsAs(t, CloseTag) = Closing(t)
  BY TagsAreTexts DEF CountsAs
<1>2. i \in Markup(t) <=> \/ \E e \in Opening(t) : i \in (e - Len(OpenTag) + 1)..e
                          \/ \E e \in Closing(t) : i \in (e - Len(CloseTag) + 1)..e
  BY Zenon DEF Markup
<1>3. (\E x \in Tags : \E e \in CountsAs(t, x) : i \in (e - Len(x) + 1)..e)
        <=> \/ \E e \in Opening(t) : i \in (e - Len(OpenTag) + 1)..e
            \/ \E e \in Closing(t) : i \in (e - Len(CloseTag) + 1)..e
  BY <1>1, Zenon DEF Tags
<1>. QED
  BY <1>2, <1>3

LEMMA LongerMarkup ==
  ASSUME NEW t, NEW u, Longer(t, u), NEW i
  PROVE  /\ i \in Markup(u) <=>
              \/ i \in Markup(t)
              \/ Counts(t, u) /\ i \in (Len(u) - Len(NextTag(t)) + 1)..Len(u)
         /\ i \in Markup(t) => i \in 1..Len(t)
<1>1. t \in Text /\ u \in Text /\ Len(t) \in Nat
  BY TextFacts DEF Longer
<1>2. i \in Markup(u) <=> \E x \in Tags : \E e \in CountsAs(u, x) : i \in (e - Len(x) + 1)..e
  BY <1>1, MarkupIs
<1>3. i \in Markup(t) <=> \E x \in Tags : \E e \in CountsAs(t, x) : i \in (e - Len(x) + 1)..e
  BY <1>1, MarkupIs
<1>4. NextTag(t) \in Tags
  BY DEF NextTag, Tags
<1>5. \A x \in Tags : \A e : e \in CountsAs(u, x) <=>
        e \in CountsAs(t, x) \/ (e = Len(u) /\ Counts(t, u) /\ x = NextTag(t))
  BY LongerCounts
<1>6. i \in Markup(t) => i \in 1..Len(t)
  <2> SUFFICES ASSUME i \in Markup(t) PROVE i \in 1..Len(t)
    OBVIOUS
  <2>1. PICK x \in Tags : \E e \in CountsAs(t, x) : i \in (e - Len(x) + 1)..e
    BY <1>3
  <2>. PICK e \in CountsAs(t, x) : i \in (e - Len(x) + 1)..e
    BY <2>1
  <2>2. e \in 1..Len(t)
    BY LongerCounts
  <2>3. e \in Ends(t, x)
    BY <1>1, CountsAsIs
  <2>4. Len(x) \in Nat /\ Len(x) <= e
    BY <1>1, <2>3, EndsIs, TagsAreTexts
  <2>. QED
    BY <1>1, <2>1, <2>2, <2>4
<1>. QED
  BY <1>2, <1>3, <1>4, <1>5, <1>6, Zenon

--------------------------------------------------------------------------------
(* Giving out a text *)

(* Only blanks of the answer lie between a counted closing tag and n.      *)
Trimming(t, n) ==
  \E e \in Closing(t) : e <= n /\ \A j \in Answer(t) : e <= j /\ j <= n => t[j] \in Blank

(* What was given out are the first n characters, divided by definition.   *)
Given(t, n, d) ==
  /\ d.reasoning = TextAt(t, Thought(t))[n]
  /\ d.assistant = TextAt(t, Answer(t) \ Trimmed(t))[n]
  /\ d.stream.trimAssistantPrefix <=> Trimming(t, n)

LEMMA ClosingIsMarkup ==
  ASSUME NEW t \in Text, NEW e \in Closing(t)
  PROVE  e \in Nat /\ e \in Markup(t)
<1>1. e \in CountsAs(t, CloseTag) /\ e \in Ends(t, CloseTag)
  BY TagsAreTexts DEF CountsAs, Closing
<1>2. Len(CloseTag) \in Nat \ {0} /\ e \in Nat
  BY <1>1, TagsAreTexts, EndsIs
<1>3. e \in (e - Len(CloseTag) + 1)..e
  BY <1>2
<1>. QED
  BY <1>1, <1>2, <1>3, MarkupIs, TagsAreTexts

(* A place of the answer is trimmed if everything so far and itself is.    *)
LEMMA TrimmedIs ==
  ASSUME NEW t \in Text, NEW n \in Nat, n + 1 \in Answer(t)
  PROVE  n + 1 \in Trimmed(t) <=> Trimming(t, n) /\ t[n + 1] \in Blank
<1>1. \A e \in Closing(t) : e \in Nat /\ e # n + 1
  BY ClosingIsMarkup DEF Answer
<1>2. \A j \in Answer(t) : j \in Nat
  BY TextFacts DEF Answer
<1>3. ASSUME NEW e \in Closing(t)
      PROVE  (e < n + 1 /\ \A j \in Answer(t) \cap (e..(n + 1)) : t[j] \in Blank)
               <=> /\ e <= n /\ \A j \in Answer(t) : e <= j /\ j <= n => t[j] \in Blank
                   /\ t[n + 1] \in Blank
  <2>1. e \in Nat /\ (e < n + 1 <=> e <= n)
    BY <1>1
  <2>2. CASE e <= n
    <3>1. \A j \in Answer(t) : j \in e..(n + 1) <=> j = n + 1 \/ (e <= j /\ j <= n)
      BY <1>2, <2>1, <2>2
    <3>. QED
      BY <2>1, <2>2, <3>1
  <2>3. CASE ~(e <= n)
    BY <2>1, <2>3
  <2>. QED
    BY <2>2, <2>3
<1>4. n + 1 \in Trimmed(t) <=>
        \E e \in Closing(t) : e < n + 1 /\ \A j \in Answer(t) \cap (e..(n + 1)) : t[j] \in Blank
  BY DEF Trimmed
<1>. QED
  BY <1>3, <1>4 DEF Trimming

(* One more place that is no markup ...                                    *)
LEMMA TrimmingGoesOn ==
  ASSUME NEW t \in Text, NEW n \in Nat, n + 1 <= Len(t), n + 1 \notin Markup(t)
  PROVE  Trimming(t, n + 1) <=> Trimming(t, n) /\ (n + 1 \in Answer(t) => t[n + 1] \in Blank)
<1>1. \A e \in Closing(t) : e \in Nat /\ e # n + 1
  BY ClosingIsMarkup
<1>2. \A j \in Answer(t) : j \in Nat
  BY TextFacts DEF Answer
<1>3. ASSUME NEW e \in Closing(t)
      PROVE  (e <= n + 1 /\ \A j \in Answer(t) : e <= j /\ j <= n + 1 => t[j] \in Blank)
               <=> /\ e <= n /\ \A j \in Answer(t) : e <= j /\ j <= n => t[j] \in Blank
                   /\ n + 1 \in Answer(t) => t[n + 1] \in Blank
  <2>1. e \in Nat /\ (e <= n + 1 <=> e <= n)
    BY <1>1
  <2>2. CASE e <= n
    <3>1. \A j \in Answer(t) : (e <= j /\ j <= n + 1) <=> j = n + 1 \/ (e <= j /\ j <= n)
      BY <1>2, <2>1, <2>2
    <3>. QED
      BY <2>1, <2>2, <3>1
  <2>3. CASE ~(e <= n)
    BY <2>1, <2>3
  <2>. QED
    BY <2>2, <2>3
<1>. QED
  BY <1>3 DEF Trimming

(* ... is said on the side where it is, and trimmed if it must be.         *)
LEMMA SayOne ==
  ASSUME NEW t \in Text, NEW n \in Nat, n + 1 <= Len(t), NEW d \in Division, Given(t, n, d),
         n + 1 \notin Markup(t), Inside(t, n + 1) <=> d.stream.inThink
  PROVE  Given(t, n + 1, Say(d, <<t[n + 1]>>))
<1> DEFINE c == t[n + 1]
<1> DEFINE x == <<c>>
<1> DEFINE R == TextAt(t, Thought(t))
<1> DEFINE A == TextAt(t, Answer(t) \ Trimmed(t))
<1>1. /\ Len(t) \in Nat /\ n + 1 \in 1..Len(t) /\ c \in Char /\ n + 1 - 1 = n
      /\ d.stream \in Stream /\ d.stream.inThink \in BOOLEAN
      /\ d.stream.trimAssistantPrefix \in BOOLEAN
  BY TextFacts DEF Division, Stream
<1>2. x \in Text /\ Len(x) = 1 /\ x[1] = c
  BY <1>1 DEF Text
<1>3. R[n + 1] = IF n + 1 \in Thought(t) THEN R[n] \o x ELSE R[n]
  BY <1>1, TextAtDefined
<1>4. A[n + 1] = IF n + 1 \in Answer(t) \ Trimmed(t) THEN A[n] \o x ELSE A[n]
  <2> DEFINE I == Answer(t) \ Trimmed(t)
  <2>. HIDE DEF I
  <2>1. \A k \in 1..Len(t) : TextAt(t, I)[k] = IF k \in I THEN TextAt(t, I)[k - 1] \o <<t[k]>>
                                               ELSE TextAt(t, I)[k - 1]
    BY TextAtDefined
  <2>2. TextAt(t, I)[n + 1] = IF n + 1 \in I THEN TextAt(t, I)[n] \o x ELSE TextAt(t, I)[n]
    BY <1>1, <2>1
  <2>. QED
    BY <2>2 DEF I
<1>5. TrimLeft(x) = IF c \in Blank THEN <<>> ELSE x
  <2>1. CASE c \in Blank
    <3>1. AllBlanks(x, 1)
      BY <1>2, <2>1 DEF AllBlanks, Blanks
    <3>. QED
      BY <1>2, <2>1, <3>1, TrimLeftIs
  <2>2. CASE c \notin Blank
    <3>1. AllBlanks(x, 0)
      BY <1>2, <2>2 DEF AllBlanks, Blanks
    <3>2. TrimLeft(x) = Drop(x, 0) /\ 0 \in 0..Len(x)
      BY <1>2, <3>1, TrimLeftIs
    <3>. QED
      BY <1>2, <2>2, <3>2, TakeDropJoin
  <2>. QED
    BY <2>1, <2>2
<1>6. Trimming(t, n + 1) <=> Trimming(t, n) /\ (n + 1 \in Answer(t) => c \in Blank)
  BY TrimmingGoesOn
<1>7. x # <<>>
  BY <1>2
<1>. HIDE DEF x, R, A
<1>8. CASE d.stream.inThink
  <2>1. n + 1 \in Thought(t) /\ n + 1 \notin Answer(t)
    BY <1>1, <1>8 DEF Thought, Answer
  <2>2. /\ Say(d, x).reasoning = d.reasoning \o x /\ Say(d, x).assistant = d.assistant
        /\ Say(d, x).stream = d.stream
    BY <1>8 DEF Say, Division
  <2>. QED
    BY <1>3, <1>4, <1>6, <2>1, <2>2 DEF Given, R, A, x
<1>9. CASE ~d.stream.inThink
  <2>1. n + 1 \notin Thought(t) /\ n + 1 \in Answer(t)
    BY <1>1, <1>9 DEF Thought, Answer
  <2>2. n + 1 \in Trimmed(t) <=> Trimming(t, n) /\ c \in Blank
    BY <2>1, TrimmedIs
  <2>3. d.stream.trimAssistantPrefix <=> Trimming(t, n)
    BY DEF Given
  <2> DEFINE s == Say(d, x)
  <2>4. CASE d.stream.trimAssistantPrefix /\ c \in Blank
    <3>1. s = d
      BY <1>5, <1>9, <2>4 DEF Say, SayAssistant
    <3>. HIDE DEF s
    <3>2. Given(t, n + 1, s)
      BY <1>3, <1>4, <1>6, <2>1, <2>2, <2>3, <2>4, <3>1 DEF Given, R, A
    <3>. QED
      BY <3>2 DEF s, x
  <2>5. CASE ~(d.stream.trimAssistantPrefix /\ c \in Blank)
    <3>1. s = [d EXCEPT !.stream.trimAssistantPrefix = FALSE, !.assistant = @ \o x]
      BY <1>5, <1>7, <1>9, <2>5 DEF Say, SayAssistant
    <3>2. s.reasoning = d.reasoning /\ s.assistant = d.assistant \o x
          /\ s.stream.trimAssistantPrefix = FALSE
      BY <1>1, <3>1 DEF Division, Stream
    <3>. HIDE DEF s
    <3>3. ~Trimming(t, n + 1)
      BY <1>6, <2>1, <2>3, <2>5
    <3>4. Given(t, n + 1, s)
      BY <1>3, <1>4, <2>1, <2>2, <2>3, <2>5, <3>2, <3>3 DEF Given, R, A
    <3>. QED
      BY <3>4 DEF s, x
  <2>. QED
    BY <2>4, <2>5
<1>. QED
  BY <1>8, <1>9

LEMMA SayStretch ==
  ASSUME NEW t \in Text, NEW n \in 0..Len(t), NEW m \in n..Len(t),
         NEW d \in Division, Given(t, n, d),
         \A i \in (n + 1)..m : i \notin Markup(t) /\ (Inside(t, i) <=> d.stream.inThink)
  PROVE  Given(t, m, Say(d, Take(Drop(t, n), m - n)))
<1> DEFINE u == Drop(t, n)
<1> DEFINE said(k) == Say(d, Take(u, k))
<1>1. Len(t) \in Nat /\ n \in Nat /\ m \in Nat /\ m - n \in Nat /\ n + (m - n) = m
  BY TextFacts
<1>2. u \in Text /\ Len(u) = Len(t) - n /\ \A i \in 1..(Len(t) - n) : u[i] = t[n + i]
  BY DropFacts
<1>. HIDE DEF u
<1> DEFINE T == {k \in Nat : n + k <= m => Given(t, n + k, said(k))}
<1>3. 0 \in T
  <2>1. Take(u, 0) = <<>>
    <3>1. Len(u) \in 0..Len(u)
      BY <1>1, <1>2
    <3>. QED
      BY <1>2, <3>1, TakeDropJoin
  <2>2. said(0) = d
    BY <2>1, SayNoText
  <2>3. n + 0 = n
    BY <1>1
  <2>. QED
    BY <2>2, <2>3
<1>4. ASSUME NEW k \in Nat, k \in T PROVE k + 1 \in T
  <2> SUFFICES ASSUME n + (k + 1) <= m PROVE Given(t, n + (k + 1), said(k + 1))
    OBVIOUS
  <2> DEFINE j == n + k
  <2>1. /\ j \in Nat /\ j + 1 <= Len(t) /\ j + 1 \in (n + 1)..m /\ j + 1 = n + (k + 1)
        /\ k \in 0..Len(u) /\ k + 1 \in 0..Len(u) /\ k + 1 \in 1..(Len(t) - n)
        /\ Given(t, j, said(k))
    BY <1>1, <1>2, <1>4
  <2>2. Take(u, k) \in Text /\ Take(u, k + 1) \in Text
    BY <1>2, <2>1, TakeFacts
  <2> DEFINE e == said(k)
  <2>3. e \in Division /\ (e.stream.inThink <=> d.stream.inThink)
    BY <2>2, SayIsDivision
  <2>4. u[k + 1] = t[j + 1]
    BY <1>2, <2>1
  <2>5. Take(u, k + 1) = Take(u, k) \o <<t[j + 1]>>
    <3>1. Take(u, k) = SubSeq(u, 1, k) /\ Take(u, k + 1) = SubSeq(u, 1, k + 1)
      BY DEF Take
    <3> DEFINE p == Take(u, k)
    <3> DEFINE q == Take(u, k + 1)
    <3> DEFINE c == t[j + 1]
    <3>2. /\ p \in Text /\ Len(p) = k /\ \A i \in 1..k : p[i] = u[i]
          /\ q \in Text /\ Len(q) = k + 1 /\ \A i \in 1..(k + 1) : q[i] = u[i]
      BY <1>2, <2>1, TakeFacts
    <3>3. c \in Char
      BY <1>1, <2>1, TextFacts
    <3>4. <<c>> \in Text /\ Len(<<c>>) = 1 /\ <<c>>[1] = c
      BY <3>3 DEF Text
    <3>5. u[k + 1] = c
      BY <2>4
    <3>. HIDE DEF p, q, c
    <3>6. /\ p \o <<c>> \in Text /\ Len(p \o <<c>>) = k + 1
          /\ \A i \in 1..(k + 1) : (p \o <<c>>)[i] = IF i <= k THEN p[i] ELSE <<c>>[i - k]
      BY <3>2, <3>4, JoinFacts
    <3>7. ASSUME NEW i \in 1..(k + 1) PROVE q[i] = (p \o <<c>>)[i]
      <4>1. CASE i <= k
        BY <3>2, <3>6, <4>1
      <4>2. CASE ~(i <= k)
        <5>1. i = k + 1 /\ i - k = 1
          BY <4>2
        <5>. QED
          BY <3>2, <3>4, <3>5, <3>6, <5>1
      <4>. QED
        BY <4>1, <4>2
    <3>8. q = p \o <<c>>
      <4> DEFINE r == p \o <<c>>
      <4>1. /\ r \in Text /\ Len(r) = k + 1 /\ q \in Text /\ Len(q) = k + 1
            /\ \A i \in 1..(k + 1) : q[i] = r[i]
        BY <3>2, <3>6, <3>7
      <4>. HIDE DEF r
      <4>2. q = r
        BY <4>1, SameText
      <4>. QED
        BY <4>2 DEF r
    <3>. QED
      BY <3>8 DEF p, q, c
  <2>6. <<t[j + 1]>> \in Text
    <3>1. t[j + 1] \in Char
      BY <1>1, <2>1, TextFacts
    <3>. QED
      BY <3>1 DEF Text
  <2>7. said(k + 1) = Say(e, <<t[j + 1]>>)
    <3> DEFINE p == Take(u, k)
    <3> DEFINE x == <<t[j + 1]>>
    <3>1. p \in Text /\ x \in Text /\ Take(u, k + 1) = p \o x
      BY <2>2, <2>5, <2>6
    <3>. HIDE DEF p, x
    <3>2. Say(Say(d, p), x) = Say(d, p \o x)
      BY <3>1, SayTwice
    <3>. QED
      BY <3>1, <3>2 DEF p, x
  <2>8. j + 1 \notin Markup(t) /\ (Inside(t, j + 1) <=> e.stream.inThink)
    BY <2>1, <2>3
  <2>. HIDE DEF e, j
  <2>9. Given(t, j + 1, Say(e, <<t[j + 1]>>))
    BY <2>1, <2>3, <2>8, SayOne DEF e
  <2>. QED
    BY <2>1, <2>7, <2>9
<1>5. \A k \in Nat : k \in T
  <2>. HIDE DEF T
  <2>. QED
    BY <1>3, <1>4, Induction
<1>6. n + (m - n) <= m => Given(t, n + (m - n), said(m - n))
  BY <1>1, <1>5
<1>. QED
  BY <1>1, <1>6 DEF u

(* A character more changes nothing before the tag it may complete.        *)
LEMMA LongerAnswer ==
  ASSUME NEW t, NEW u, Longer(t, u), NEW n \in 0..Len(t),
         Counts(t, u) => n + Len(NextTag(t)) <= Len(u)
  PROVE  /\ \A i \in 1..n : /\ u[i] = t[i]
                            /\ i \in Thought(u) <=> i \in Thought(t)
                            /\ i \in Answer(u) <=> i \in Answer(t)
         /\ \A e : e <= n => (e \in Closing(u) <=> e \in Closing(t))
<1>1. /\ t \in Text /\ u \in Text /\ Len(t) \in Nat /\ Len(u) = Len(t) + 1 /\ n \in Nat
      /\ Len(NextTag(t)) \in Nat
  BY TextFacts, TagsAreTexts DEF Longer, NextTag
<1>2. ASSUME NEW i \in 1..n
      PROVE  /\ u[i] = t[i] /\ i \in 1..Len(t) /\ i \in 1..Len(u)
             /\ i \in Markup(u) <=> i \in Markup(t)
             /\ Inside(u, i) <=> Inside(t, i)
  <2>1. i \in 1..Len(t) /\ i \in 1..Len(u) /\ i \in 0..Len(t)
    BY <1>1
  <2>2. u[i] = t[i]
    BY <2>1 DEF Longer
  <2>3. Counts(t, u) => i \notin (Len(u) - Len(NextTag(t)) + 1)..Len(u)
    BY <1>1
  <2>4. i \in Markup(u) <=> i \in Markup(t)
    BY <2>3, LongerMarkup
  <2>. QED
    BY <2>1, <2>2, <2>4, LongerInside
<1>3. ASSUME NEW e, e <= n PROVE e \in Closing(u) <=> e \in Closing(t)
  <2>1. CountsAs(t, CloseTag) = Closing(t) /\ CountsAs(u, CloseTag) = Closing(u)
    BY TagsAreTexts DEF CountsAs
  <2>2. e # Len(u)
    BY <1>1, <1>3
  <2>. QED
    BY <2>1, <2>2, LongerCounts, TagsAreTexts
<1>. QED
  BY <1>2, <1>3 DEF Thought, Answer

LEMMA LongerTrimming ==
  ASSUME NEW t, NEW u, Longer(t, u), NEW n \in 0..Len(t),
         Counts(t, u) => n + Len(NextTag(t)) <= Len(u)
  PROVE  Trimming(u, n) <=> Trimming(t, n)
<1>1. t \in Text /\ u \in Text /\ Len(t) \in Nat
  BY TextFacts DEF Longer
<1>2. \A e : e <= n => (e \in Closing(u) <=> e \in Closing(t))
  BY LongerAnswer
<1>3. \A j : j \in Answer(u) /\ j <= n <=> j \in Answer(t) /\ j <= n
  <2>1. \A j : j \in Answer(u) \/ j \in Answer(t) => j \in Nat \ {0}
    BY <1>1, TextFacts DEF Answer
  <2>2. \A j \in 1..n : j \in Answer(u) <=> j \in Answer(t)
    BY LongerAnswer
  <2>. QED
    BY <1>1, <2>1, <2>2
<1>4. \A j \in Answer(t) : j <= n => u[j] = t[j]
  <2>1. \A j \in Answer(t) : j \in Nat \ {0}
    BY <1>1, TextFacts DEF Answer
  <2>2. \A j \in 1..n : u[j] = t[j]
    BY LongerAnswer
  <2>. QED
    BY <1>1, <2>1, <2>2
<1>5. ASSUME NEW e
      PROVE  (\A j \in Answer(u) : e <= j /\ j <= n => u[j] \in Blank)
               <=> \A j \in Answer(t) : e <= j /\ j <= n => t[j] \in Blank
  BY <1>3, <1>4
<1>. QED
  BY <1>2, <1>5 DEF Trimming

LEMMA LongerGiven ==
  ASSUME NEW t, NEW u, Longer(t, u), NEW n \in 0..Len(t),
         Counts(t, u) => n + Len(NextTag(t)) <= Len(u),
         NEW d, Given(t, n, d)
  PROVE  Given(u, n, d)
<1>1. /\ t \in Text /\ u \in Text /\ Len(t) \in Nat /\ Len(u) = Len(t) + 1 /\ n \in Nat
      /\ n <= Len(t) /\ n <= Len(u)
  BY TextFacts DEF Longer
<1>2. \A i \in 1..n : /\ t[i] = u[i]
                      /\ i \in Thought(t) <=> i \in Thought(u)
                      /\ i \in Answer(t) <=> i \in Answer(u)
  BY LongerAnswer
<1>3. ASSUME NEW i \in 1..n PROVE i \in Trimmed(t) <=> i \in Trimmed(u)
  <2> DEFINE k == i - 1
  <2>1. /\ k \in Nat /\ k \in 0..Len(t) /\ k + 1 = i
        /\ Counts(t, u) => k + Len(NextTag(t)) <= Len(u)
    <3>1. Len(NextTag(t)) \in Nat
      BY TagsAreTexts DEF NextTag, Tags
    <3>. QED
      BY <1>1, <3>1
  <2>. HIDE DEF k
  <2>2. CASE i \in Answer(t)
    <3>1. i \in Answer(u) /\ u[i] = t[i]
      BY <1>2, <2>2
    <3>2. k + 1 \in Trimmed(t) <=> Trimming(t, k) /\ t[k + 1] \in Blank
      BY <1>1, <2>1, <2>2, TrimmedIs
    <3>3. k + 1 \in Trimmed(u) <=> Trimming(u, k) /\ u[k + 1] \in Blank
      BY <1>1, <2>1, <3>1, TrimmedIs
    <3>4. Trimming(u, k) <=> Trimming(t, k)
      BY <2>1, LongerTrimming
    <3>. QED
      BY <2>1, <3>1, <3>2, <3>3, <3>4
  <2>3. CASE i \notin Answer(t)
    BY <1>2, <2>3 DEF Trimmed
  <2>. QED
    BY <2>2, <2>3
<1>4. TextAt(t, Thought(t))[n] = TextAt(u, Thought(u))[n]
  <2> DEFINE I == Thought(t)
  <2> DEFINE J == Thought(u)
  <2>1. \A i \in 1..n : t[i] = u[i] /\ (i \in I <=> i \in J)
    BY <1>2
  <2>. HIDE DEF I, J
  <2>2. TextAt(t, I)[n] = TextAt(u, J)[n]
    BY <1>1, <2>1, TextAtAgrees, SMTT(60)
  <2>. QED
    BY <2>2 DEF I, J
<1>5. TextAt(t, Answer(t) \ Trimmed(t))[n] = TextAt(u, Answer(u) \ Trimmed(u))[n]
  <2> DEFINE I == Answer(t) \ Trimmed(t)
  <2> DEFINE J == Answer(u) \ Trimmed(u)
  <2>1. \A i \in 1..n : t[i] = u[i] /\ (i \in I <=> i \in J)
    BY <1>2, <1>3
  <2>. HIDE DEF I, J
  <2>2. TextAt(t, I)[n] = TextAt(u, J)[n]
    BY <1>1, <2>1, TextAtAgrees, SMTT(60)
  <2>. QED
    BY <2>2 DEF I, J
<1>6. Trimming(u, n) <=> Trimming(t, n)
  BY LongerTrimming
<1>. QED
  BY <1>4, <1>5, <1>6 DEF Given

(* Passing over a tag gives out nothing, and a closing one starts trimming. *)
LEMMA SwitchGives ==
  ASSUME NEW t, NEW u, Longer(t, u), Counts(t, u),
         NEW n \in Nat, n + Len(NextTag(t)) = Len(u),
         \A i \in (n + 1)..Len(t) : i \notin Markup(t),
         NEW d \in Division, d.stream.inThink <=> Inside(t, Len(t)), Given(u, n, d)
  PROVE  Given(u, Len(u), Switch(d))
<1>1. /\ t \in Text /\ u \in Text /\ Len(t) \in Nat /\ Len(u) = Len(t) + 1 /\ Len(u) \in Nat
      /\ NextTag(t) \in Tags /\ Len(NextTag(t)) \in Nat \ {0} /\ n < Len(u)
      /\ n + 1 = Len(u) - Len(NextTag(t)) + 1
  <2>1. /\ t \in Text /\ u \in Text /\ Len(t) \in Nat /\ Len(u) = Len(t) + 1 /\ Len(u) \in Nat
    BY TextFacts DEF Longer
  <2>2. NextTag(t) \in Tags
    BY DEF NextTag, Tags
  <2>3. Len(NextTag(t)) \in Nat \ {0}
    BY <2>2, TagsAreTexts
  <2>. QED
    BY <2>1, <2>2, <2>3
<1>2. \A i \in (n + 1)..Len(u) : i \in Markup(u)
  BY <1>1, LongerMarkup
<1>3. \A i \in (n + 1)..Len(u) : i \notin Thought(u) /\ i \notin Answer(u)
  BY <1>2 DEF Thought, Answer
<1>4. TextAt(u, Thought(u))[Len(u)] = TextAt(u, Thought(u))[n]
  BY <1>1, <1>3, TextAtNothing
<1>5. TextAt(u, Answer(u) \ Trimmed(u))[Len(u)] = TextAt(u, Answer(u) \ Trimmed(u))[n]
  <2> DEFINE I == Answer(u) \ Trimmed(u)
  <2>1. \A i \in (n + 1)..Len(u) : i \notin I
    BY <1>3
  <2>. HIDE DEF I
  <2>2. TextAt(u, I)[Len(u)] = TextAt(u, I)[n]
    BY <1>1, <2>1, TextAtNothing
  <2>. QED
    BY <2>2 DEF I
<1> DEFINE s == Switch(d)
<1>6. /\ s.reasoning = d.reasoning /\ s.assistant = d.assistant
      /\ s.stream.trimAssistantPrefix
           = (d.stream.trimAssistantPrefix \/ d.stream.inThink)
  BY DEF Switch, Division, Stream
<1>. HIDE DEF s
<1>7. Trimming(u, Len(u)) <=> Trimming(u, n) \/ d.stream.inThink
  <2>1. \A j \in Answer(u) : j \in Nat /\ j <= n
    BY <1>1, <1>3 DEF Answer
  <2>2. CASE d.stream.inThink
    <3>1. Len(u) \in Closing(u)
      <4>1. NextTag(t) = CloseTag
        BY <2>2 DEF NextTag
      <4>2. Len(u) \in CountsAs(u, CloseTag)
        BY <4>1, LongerCounts, TagsAreTexts
      <4>. QED
        BY <4>2, TagsAreTexts DEF CountsAs
    <3>2. \A j \in Answer(u) : ~(Len(u) <= j)
      BY <1>1, <2>1
    <3>. QED
      BY <1>1, <2>2, <3>1, <3>2 DEF Trimming
  <2>3. CASE ~d.stream.inThink
    <3>1. ASSUME NEW e \in Closing(u) PROVE e \in Nat /\ e <= n
      <4>1. NextTag(t) # CloseTag
        BY <2>3, TagsAreTexts DEF NextTag
      <4>2. e \in CountsAs(u, CloseTag)
        BY TagsAreTexts DEF CountsAs
      <4>3. e \in CountsAs(t, CloseTag) /\ e \in 1..Len(t)
        BY <4>1, <4>2, LongerCounts, TagsAreTexts
      <4>4. e \in Closing(t)
        BY <4>3, TagsAreTexts DEF CountsAs
      <4>5. e \in Markup(t)
        BY <1>1, <4>4, ClosingIsMarkup
      <4>. QED
        BY <1>1, <4>3, <4>5
    <3>2. ASSUME NEW e \in Closing(u)
          PROVE  (e <= Len(u) /\ \A j \in Answer(u) : e <= j /\ j <= Len(u) => u[j] \in Blank)
                   <=> e <= n /\ \A j \in Answer(u) : e <= j /\ j <= n => u[j] \in Blank
      <4>1. e <= n /\ e <= Len(u) /\ \A j \in Answer(u) : j <= n /\ j <= Len(u)
        BY <1>1, <2>1, <3>1
      <4>. QED
        BY <4>1
    <3>. QED
      BY <2>3, <3>2 DEF Trimming
  <2>. QED
    BY <2>2, <2>3
<1>. QED
  BY <1>4, <1>5, <1>6, <1>7 DEF Given, s

--------------------------------------------------------------------------------
(* What the stream stands for after a text *)

(* The first n characters of t were given out as defined, and the rest is  *)
(* kept back: from n on t may still become the tag that counts next, and   *)
(* from no earlier place.                                                  *)
Means(t, d, n) ==
  LET tag == AwaitedTag(d.stream) IN
  /\ d \in Division /\ n \in 0..Len(t)
  /\ d.stream.pending = Drop(t, n)
  /\ d.stream.inThink <=> Inside(t, Len(t))
  /\ Starts(t, tag, n) /\ Len(t) - n < Len(tag)
  /\ \A j \in 0..(n - 1) : Len(t) - j < Len(tag) => ~Starts(t, tag, j)
  /\ Given(t, n, d)
  /\ \A i \in (n + 1)..Len(t) : i \notin Markup(t) /\ (Inside(t, i) <=> Inside(t, Len(t)))

LEMMA MeansTag ==
  ASSUME NEW t, NEW d, NEW n, Means(t, d, n)
  PROVE  /\ AwaitedTag(d.stream) = NextTag(t) /\ NextTag(t) \in Tags
         /\ NextTag(t) \in Text /\ Len(NextTag(t)) \in Nat \ {0}
<1>1. AwaitedTag(d.stream) = NextTag(t) /\ NextTag(t) \in Tags
  BY DEF Means, AwaitedTag, NextTag, Tags
<1>. QED
  BY <1>1, TagsAreTexts

(* The awaited tag, looked for in what was kept back and one character     *)
(* more.                                                                   *)
LEMMA MeansFirst ==
  ASSUME NEW t, NEW u, Longer(t, u), NEW d, NEW n, Means(t, d, n),
         NEW tag, tag = NextTag(t), NEW k, IsFirst(Drop(u, n), tag, k), NEW m, m = n + k
  PROVE  /\ k \in Nat /\ m \in n..Len(u) /\ Starts(u, tag, m)
         /\ \A j \in 0..(m - 1) : Len(u) - j < Len(tag) => ~Starts(u, tag, j)
         /\ m + Len(tag) <= Len(u) => k = 0 /\ n + Len(tag) = Len(u)
         /\ Counts(t, u) <=> m + Len(tag) <= Len(u)
<1>1. /\ t \in Text /\ u \in Text /\ Len(t) \in Nat /\ Len(u) = Len(t) + 1 /\ Len(u) \in Nat
      /\ n \in 0..Len(t) /\ n \in 0..Len(u) /\ Len(Drop(u, n)) = Len(u) - n
  <2>1. /\ t \in Text /\ u \in Text /\ Len(t) \in Nat /\ Len(u) = Len(t) + 1 /\ Len(u) \in Nat
        /\ n \in 0..Len(t)
    BY TextFacts DEF Longer, Means
  <2>2. n \in 0..Len(u)
    BY <2>1
  <2>. QED
    BY <2>1, <2>2, DropFacts
<1>2. tag \in Tags /\ tag \in Text /\ Len(tag) \in Nat \ {0} /\ tag = AwaitedTag(d.stream)
  BY MeansTag
<1>3. /\ Len(t) - n < Len(tag)
      /\ \A j \in 0..(n - 1) : Len(t) - j < Len(tag) => ~Starts(t, tag, j)
  BY <1>2 DEF Means
<1>4. k \in 0..(Len(u) - n) /\ Starts(Drop(u, n), tag, k)
      /\ \A j \in 0..(k - 1) : ~Starts(Drop(u, n), tag, j)
  BY <1>1 DEF IsFirst
<1>5. \A i \in 0..(Len(u) - n) : Starts(Drop(u, n), tag, i) <=> Starts(u, tag, n + i)
  BY <1>1, <1>2, StartsAfter
<1>6. k \in Nat /\ m \in n..Len(u) /\ m \in Nat /\ Starts(u, tag, m)
  BY <1>1, <1>4, <1>5
<1>7. ASSUME NEW j \in n..(m - 1) PROVE ~Starts(u, tag, j)
  <2> DEFINE i == j - n
  <2>1. i \in 0..(k - 1) /\ i \in 0..(Len(u) - n) /\ n + i = j
    BY <1>1, <1>4
  <2>. HIDE DEF i
  <2>2. ~Starts(u, tag, n + i)
    BY <1>4, <1>5, <2>1
  <2>. QED
    BY <2>1, <2>2
<1>8. ASSUME NEW j \in Nat PROVE Starts(u, tag, j) => Starts(t, tag, j)
  BY <1>2, LongerStarts
<1>9. ASSUME NEW j \in 0..(m - 1), Len(u) - j < Len(tag) PROVE ~Starts(u, tag, j)
  <2>1. CASE n <= j
    <3>1. j \in n..(m - 1)
      BY <1>1, <1>6, <2>1
    <3>. QED
      BY <1>7, <3>1
  <2>2. CASE j < n
    <3>1. j \in Nat /\ j \in 0..(n - 1) /\ Len(t) - j < Len(tag)
      BY <1>1, <1>2, <1>9, <2>2
    <3>. QED
      BY <1>3, <1>8, <3>1
  <2>. QED
    BY <1>1, <1>6, <2>1, <2>2
<1>10. m + Len(tag) <= Len(u) => k = 0 /\ n + Len(tag) = Len(u)
  BY <1>1, <1>2, <1>3, <1>6
<1>11. Counts(t, u) <=> Len(tag) <= Len(u) /\ Starts(u, tag, Len(u) - Len(tag))
  <2> DEFINE e == Len(u)
  <2>1. e \in Nat /\ e <= Len(u)
    BY <1>1
  <2>. HIDE DEF e
  <2>2. e \in Ends(u, tag) <=> Len(tag) <= e /\ Starts(u, tag, e - Len(tag))
    BY <1>1, <1>2, <2>1, EndsIs
  <2>. QED
    BY <2>2 DEF Counts, e
<1>12. ASSUME m + Len(tag) <= Len(u) PROVE Counts(t, u)
  <2>1. m = n /\ Len(u) - Len(tag) = m /\ Len(tag) <= Len(u)
    BY <1>1, <1>2, <1>6, <1>10, <1>12
  <2>. QED
    BY <1>6, <1>11, <2>1
<1>13. ASSUME ~(m + Len(tag) <= Len(u)), Counts(t, u) PROVE FALSE
  <2> DEFINE p == Len(u) - Len(tag)
  <2>1. p \in Nat /\ Starts(u, tag, p) /\ p \in 0..(m - 1) /\ Len(u) - p = Len(tag)
    BY <1>1, <1>2, <1>6, <1>11, <1>13
  <2>2. p <= n /\ Len(t) - p < Len(tag)
    BY <1>1, <1>2, <1>3
  <2>. HIDE DEF p
  <2>3. CASE p = n
    <3>1. p \in n..(m - 1)
      BY <1>1, <1>6, <2>1, <2>3
    <3>. QED
      BY <1>7, <2>1, <3>1
  <2>4. CASE p # n
    <3>1. p \in 0..(n - 1)
      BY <1>1, <2>1, <2>2, <2>4
    <3>. QED
      BY <1>3, <1>8, <2>1, <2>2, <3>1
  <2>. QED
    BY <2>3, <2>4
<1>. QED
  BY <1>6, <1>9, <1>10, <1>12, <1>13

(* The character completes the tag: it is passed over.                     *)
LEMMA MeansPassed ==
  ASSUME NEW t, NEW u, Longer(t, u), NEW d, NEW n, Means(t, d, n),
         Counts(t, u), n + Len(NextTag(t)) = Len(u), Starts(u, NextTag(t), n)
  PROVE  Means(u, Switch(Clear(d)), Len(u))
<1> DEFINE tag == NextTag(t)
<1> DEFINE e == Switch(Clear(d))
<1> DEFINE other == AwaitedTag(e.stream)
<1>1. /\ t \in Text /\ u \in Text /\ Len(t) \in Nat /\ Len(u) = Len(t) + 1 /\ Len(u) \in Nat
      /\ n \in 0..Len(t) /\ d \in Division /\ Len(u) \in 0..Len(u)
  BY TextFacts DEF Longer, Means
<1>2. tag \in Tags /\ tag \in Text /\ Len(tag) \in Nat \ {0} /\ tag = AwaitedTag(d.stream)
  BY MeansTag
<1>3. <<>> \in Text /\ d.stream \in Stream
  BY <1>1, TextFacts DEF Division
<1>4. /\ Clear(d) \in Division /\ Clear(d).stream.pending = <<>>
      /\ Clear(d).stream.inThink = d.stream.inThink
      /\ Clear(d).stream.trimAssistantPrefix = d.stream.trimAssistantPrefix
      /\ Clear(d).reasoning = d.reasoning /\ Clear(d).assistant = d.assistant
  BY <1>1, <1>3 DEF Clear, Division, Stream
<1>5. e \in Division /\ e.stream.pending = <<>> /\ (e.stream.inThink <=> ~d.stream.inThink)
  <2>1. e \in Division /\ e.stream.pending = <<>>
    BY <1>4, SwitchIsDivision
  <2> DEFINE c == Clear(d)
  <2>2. c \in Division /\ c.stream.inThink = d.stream.inThink /\ e = Switch(c)
    BY <1>4
  <2>. HIDE DEF c, e
  <2>3. e.stream.inThink = ~c.stream.inThink
    BY <2>2 DEF Switch, Division, Stream
  <2>. QED
    BY <2>1, <2>2, <2>3
<1>. HIDE DEF e
<1>6. d.stream.inThink <=> Inside(t, Len(t))
  BY DEF Means
<1>7. e.stream.inThink <=> Inside(u, Len(u))
  BY <1>5, <1>6, LongerEndsInside
<1>8. other \in Tags /\ other # tag /\ other \in Text /\ Len(other) \in Nat \ {0}
  <2>1. other \in Tags /\ other # tag
    BY <1>2, <1>5, TagsAreTexts DEF AwaitedTag, Tags
  <2>. QED
    BY <2>1, TagsAreTexts
<1>. HIDE DEF other
<1>9. Drop(u, Len(u)) = <<>>
  BY <1>1, TakeDropJoin
<1>10. Starts(u, other, Len(u)) /\ Len(u) - Len(u) < Len(other)
  BY <1>1, <1>8 DEF Starts
<1>11. ASSUME NEW j \in 0..(Len(u) - 1), Len(u) - j < Len(other), Starts(u, other, j)
       PROVE  FALSE
  <2>1. j \in Nat /\ n \in Nat /\ j < Len(u) /\ n < Len(u) /\ Starts(u, tag, n)
    BY <1>1
  <2>2. CASE n < j
    <3>1. n + Len(tag) <= j
      BY <1>1, <1>2, <1>8, <1>11, <2>1, <2>2, StartsBehind
    <3>. QED
      BY <2>1, <3>1
  <2>3. CASE j < n
    <3>1. j + Len(other) <= n
      BY <1>1, <1>2, <1>8, <1>11, <2>1, <2>3, StartsBehind
    <3>. QED
      BY <1>1, <1>8, <1>11, <2>1, <3>1
  <2>4. CASE j = n
    <3>1. tag = other
      BY <1>1, <1>2, <1>8, <1>11, <2>1, <2>4, StartsAlone
    <3>. QED
      BY <1>8, <3>1
  <2>. QED
    BY <2>1, <2>2, <2>3, <2>4
<1>12. Given(u, Len(u), e)
  <2>1. Given(t, n, d) /\ \A i \in (n + 1)..Len(t) : i \notin Markup(t)
    BY DEF Means
  <2>2. Given(u, n, d)
    <3>1. Counts(t, u) => n + Len(NextTag(t)) <= Len(u)
      BY <1>1
    <3>. QED
      BY <1>1, <2>1, <3>1, LongerGiven
  <2>3. Given(u, n, Clear(d))
    BY <1>4, <2>2 DEF Given
  <2> DEFINE c == Clear(d)
  <2>4. c \in Division /\ Given(u, n, c) /\ (c.stream.inThink <=> Inside(t, Len(t))) /\ n \in Nat
    BY <1>1, <1>4, <1>6, <2>3
  <2>. HIDE DEF c
  <2>5. Given(u, Len(u), Switch(c))
    BY <2>1, <2>4, SwitchGives
  <2>. QED
    BY <2>5 DEF c, e
<1>13. \A i \in (Len(u) + 1)..Len(u) : FALSE
  BY <1>1
<1>14. Means(u, e, Len(u))
  BY <1>1, <1>5, <1>7, <1>9, <1>10, <1>11, <1>12, <1>13 DEF Means, other
<1>. QED
  BY <1>14 DEF e

(* It does not: what cannot become the tag any more is said.               *)
LEMMA MeansKept ==
  ASSUME NEW t, NEW u, Longer(t, u), NEW d, NEW n, Means(t, d, n),
         NEW k, IsFirst(Drop(u, n), NextTag(t), k), ~Counts(t, u)
  PROVE  Means(u, [Say(Clear(d), Take(Drop(u, n), k)) EXCEPT !.stream.pending = Drop(Drop(u, n), k)],
               n + k)
<1> DEFINE tag == NextTag(t)
<1> DEFINE m == n + k
<1>1. /\ t \in Text /\ u \in Text /\ Len(t) \in Nat /\ Len(u) = Len(t) + 1 /\ Len(u) \in Nat
      /\ n \in 0..Len(t) /\ n \in 0..Len(u) /\ d \in Division
  <2>1. /\ t \in Text /\ u \in Text /\ Len(t) \in Nat /\ Len(u) = Len(t) + 1
        /\ n \in 0..Len(t) /\ d \in Division
    BY TextFacts DEF Longer, Means
  <2>. QED
    BY <2>1
<1>2. tag \in Tags /\ tag \in Text /\ Len(tag) \in Nat \ {0} /\ tag = AwaitedTag(d.stream)
  BY MeansTag
<1>3. /\ k \in Nat /\ m \in n..Len(u) /\ Starts(u, tag, m)
      /\ \A j \in 0..(m - 1) : Len(u) - j < Len(tag) => ~Starts(u, tag, j)
      /\ ~(m + Len(tag) <= Len(u))
  <2>. HIDE DEF tag, m
  <2>. QED
    BY MeansFirst DEF tag, m
<1> DEFINE data == Drop(u, n)
<1> DEFINE c == Clear(d)
<1> DEFINE s == Say(c, Take(data, k))
<1> DEFINE rest == Drop(data, k)
<1> DEFINE e == [s EXCEPT !.stream.pending = rest]
<1>4. /\ data \in Text /\ Len(data) = Len(u) - n /\ k \in 0..Len(data) /\ m - n = k
      /\ k \in 0..(Len(u) - n) /\ m \in 0..Len(u)
  <2>1. data \in Text /\ Len(data) = Len(u) - n
    BY <1>1, DropFacts
  <2>2. m \in 0..Len(u) /\ k \in 0..(Len(u) - n) /\ m - n = k
    BY <1>1, <1>3
  <2>. QED
    BY <2>1, <2>2
<1>5. Take(data, k) \in Text /\ rest \in Text /\ rest = Drop(u, m)
  BY <1>1, <1>4, TakeFacts, DropFacts, DropTwice
<1>6. /\ c \in Division /\ c.stream.inThink = d.stream.inThink
      /\ c.stream.trimAssistantPrefix = d.stream.trimAssistantPrefix
      /\ c.reasoning = d.reasoning /\ c.assistant = d.assistant
  <2>1. <<>> \in Text /\ d.stream \in Stream
    BY <1>1, TextFacts DEF Division
  <2>. QED
    BY <1>1, <2>1 DEF Clear, Division, Stream
<1>. HIDE DEF c, rest, data, m
<1>7. s \in Division /\ s.stream.inThink = d.stream.inThink
  BY <1>5, <1>6, SayIsDivision
<1>8. /\ d.stream.inThink <=> Inside(t, Len(t))
      /\ Given(t, n, d)
      /\ \A i \in (n + 1)..Len(t) : i \notin Markup(t) /\ (Inside(t, i) <=> Inside(t, Len(t)))
  BY DEF Means
<1>9. Inside(u, Len(u)) <=> Inside(t, Len(t))
  BY LongerEndsInside
<1>10. ASSUME NEW i \in (n + 1)..Len(u)
       PROVE  i \notin Markup(u) /\ (Inside(u, i) <=> Inside(u, Len(u)))
  <2>1. i \in Markup(u) => i \in Markup(t) /\ i \in 1..Len(t)
    BY LongerMarkup
  <2>2. CASE i = Len(u)
    BY <1>1, <2>1, <2>2
  <2>3. CASE i # Len(u)
    <3>1. i \in (n + 1)..Len(t) /\ i \in 0..Len(t)
      BY <1>1, <2>3
    <3>2. Inside(u, i) <=> Inside(t, i)
      BY <3>1, LongerInside
    <3>. QED
      BY <1>8, <1>9, <2>1, <3>1, <3>2
  <2>. QED
    BY <2>2, <2>3
<1>11. Given(u, m, s)
  <2>1. Given(u, n, d)
    BY <1>1, <1>8, LongerGiven
  <2>2. Given(u, n, c)
    BY <1>6, <2>1 DEF Given
  <2>3. \A i \in (n + 1)..m : i \notin Markup(u) /\ (Inside(u, i) <=> c.stream.inThink)
    <3>1. \A i \in (n + 1)..m : i \in (n + 1)..Len(u)
      BY <1>1, <1>4
    <3>. QED
      BY <1>6, <1>8, <1>9, <1>10, <3>1
  <2>4. Given(u, m, Say(c, Take(Drop(u, n), m - n)))
    BY <1>1, <1>3, <1>6, <2>2, <2>3, SayStretch DEF m
  <2>. QED
    BY <1>4, <2>4 DEF data
<1>. HIDE DEF s
<1>12. /\ e \in Division /\ e.stream.pending = rest /\ e.stream.inThink = s.stream.inThink
       /\ e.stream.trimAssistantPrefix = s.stream.trimAssistantPrefix
       /\ e.reasoning = s.reasoning /\ e.assistant = s.assistant
  BY <1>5, <1>7 DEF Division, Stream
<1>. HIDE DEF e
<1>13. Given(u, m, e)
  BY <1>11, <1>12 DEF Given
<1>14. AwaitedTag(e.stream) = tag
  BY <1>2, <1>7, <1>12 DEF AwaitedTag
<1>15. e.stream.inThink <=> Inside(u, Len(u))
  BY <1>7, <1>8, <1>9, <1>12
<1>16. Len(u) - m < Len(tag) /\ \A i \in (m + 1)..Len(u) : i \in (n + 1)..Len(u)
  BY <1>1, <1>2, <1>3, <1>4
<1>17. Means(u, e, m)
  <2>. HIDE DEF tag
  <2>. QED
    BY <1>3, <1>4, <1>5, <1>10, <1>12, <1>13, <1>14, <1>15, <1>16 DEF Means
<1>. QED
  BY <1>17 DEF e, s, rest, data, c, m

LEMMA MeansNothing == Means(<<>>, AppendInline(NewStream, <<>>), 0)
<1> DEFINE t == <<>>
<1> DEFINE d == [stream |-> NewStream, reasoning |-> t, assistant |-> t]
<1>1. t \in Text /\ Len(t) = 0
  BY EmptySeq DEF Text
<1>2. /\ d \in Division /\ d.stream = NewStream /\ d.reasoning = t /\ d.assistant = t
      /\ NewStream.pending = t /\ NewStream.inThink = FALSE
      /\ NewStream.trimAssistantPrefix = FALSE /\ AwaitedTag(NewStream) = OpenTag
  BY <1>1 DEF Division, Stream, NewStream, AwaitedTag
<1>3. d = AppendInline(NewStream, <<>>)
  BY AppendNothing
<1>. HIDE DEF d, t
<1>4. \A x \in Tags : Len(x) \in Nat \ {0} /\ ~\E e : e \in Ends(t, x)
  BY <1>1, EndsIs, TagsAreTexts
<1>5. ~Inside(t, Len(t)) /\ ~\E e : e \in Closing(t)
  BY <1>4, TagsAreTexts DEF Inside, Closing
<1>6. Given(t, 0, d)
  <2>1. \A I : TextAt(t, I)[0] = <<>>
    BY <1>1, TextAtDefined
  <2>2. ~Trimming(t, 0)
    BY <1>5 DEF Trimming
  <2>. QED
    BY <1>2, <2>1, <2>2 DEF Given, t
<1>7. Drop(t, 0) = t
  BY <1>1, TakeDropJoin
<1>8. Starts(t, OpenTag, 0) /\ Len(t) - 0 < Len(OpenTag)
  BY <1>1, <1>4, TagsAreTexts DEF Starts
<1>9. 0 \in 0..Len(t) /\ (\A j \in 0..(0 - 1) : FALSE) /\ \A i \in (0 + 1)..Len(t) : FALSE
  BY <1>1
<1>10. Means(t, d, 0)
  BY <1>2, <1>5, <1>6, <1>7, <1>8, <1>9 DEF Means
<1>. QED
  BY <1>3, <1>10 DEF t

LEMMA MeansNext ==
  ASSUME NEW t \in Text, NEW c \in Char, NEW n, Means(t, AppendInline(NewStream, t), n)
  PROVE  \E m : Means(t \o <<c>>, AppendInline(NewStream, t \o <<c>>), m)
<1> DEFINE d == AppendInline(NewStream, t)
<1> DEFINE x == <<c>>
<1> DEFINE u == t \o x
<1> DEFINE b == Start(NewStream)
<1> DEFINE tag == NextTag(t)
<1>1. /\ NewStream \in Stream /\ NewStream.pending = <<>>
      /\ x \in Text /\ Len(x) = 1
  BY EmptySeq DEF NewStream, Stream, Text
<1>2. Means(t, d, n)
  OBVIOUS
<1>3. /\ b \in Division /\ b.stream.pending = <<>>
      /\ \A s : AppendInline(NewStream, s) = Scan[<<b, <<>> \o s>>]
  BY <1>1, StartFacts
<1>. HIDE DEF x, b
<1>4. u \in Text /\ Len(u) = Len(t) + 1 /\ Longer(t, u) /\ Len(t) \in Nat
  <2>1. /\ u \in Text /\ Len(u) = Len(t) + 1 /\ Len(t) \in Nat
        /\ \A i \in 1..Len(t) : u[i] = t[i]
    <3>1. Len(t) \in Nat /\ Len(u) = Len(t) + Len(x) /\ u \in Text
      BY <1>1, JoinFacts, TextFacts
    <3>2. \A i \in 1..(Len(t) + Len(x)) : u[i] = IF i <= Len(t) THEN t[i] ELSE x[i - Len(t)]
      BY <1>1, JoinFacts
    <3>. HIDE DEF u
    <3>. QED
      BY <1>1, <3>1, <3>2
  <2>. HIDE DEF u
  <2>. QED
    BY <2>1 DEF Longer
<1>5. AppendInline(NewStream, u) = Scan[<<b, u>>] /\ d = Scan[<<b, t>>]
  BY <1>3, <1>4, TextFacts
<1>6. /\ d \in Division /\ n \in 0..Len(t) /\ n \in 0..Len(u) /\ n \in Nat
      /\ d.stream.pending = Drop(t, n) /\ AwaitedTag(d.stream) = tag
  BY <1>2, <1>4, MeansTag DEF Means
<1> DEFINE data == Drop(u, n)
<1>7. data = Drop(t, n) \o x /\ data \in Text /\ Len(data) = Len(u) - n
  BY <1>1, <1>4, <1>6, TakeDropOfJoin, DropFacts
<1>8. data # <<>>
  BY <1>4, <1>6, <1>7, TextFacts
<1>. HIDE DEF d
<1>9. Scan[<<b, t \o x>>] = Scan[<<Clear(d), d.stream.pending \o x>>]
  BY <1>1, <1>3, <1>5, ScanResumes
<1>10. AppendInline(NewStream, u) = Scan[<<Clear(d), data>>]
  BY <1>5, <1>6, <1>7, <1>9
<1>11. Clear(d) \in Division /\ AwaitedTag(Clear(d).stream) = tag /\ Clear(d).stream \in Stream
  <2>1. <<>> \in Text /\ d.stream \in Stream
    BY <1>6, TextFacts DEF Division
  <2>2. Clear(d) \in Division /\ Clear(d).stream.inThink = d.stream.inThink
    BY <1>6, <2>1 DEF Clear, Division, Stream
  <2>. QED
    BY <1>6, <2>2 DEF AwaitedTag, Division
<1>12. tag \in Text /\ Len(tag) \in Nat \ {0}
  BY <1>2, MeansTag
<1>. HIDE DEF u, data, tag
<1>13. PICK k \in 0..Len(data) : IsFirst(data, tag, k)
  BY <1>7, <1>12, FirstExists
<1> DEFINE m == n + k
<1>14. /\ k \in Nat /\ m \in n..Len(u) /\ Starts(u, tag, m)
       /\ m + Len(tag) <= Len(u) => k = 0 /\ n + Len(tag) = Len(u)
       /\ Counts(t, u) <=> m + Len(tag) <= Len(u)
  <2>. HIDE DEF m
  <2>. QED
    BY <1>2, <1>4, <1>13, MeansFirst DEF m, data, tag
<1>15. m + Len(tag) <= Len(u) <=> k + Len(tag) <= Len(data)
  BY <1>4, <1>6, <1>7, <1>12
<1>16. CASE Counts(t, u)
  <2>1. /\ k = 0 /\ n + Len(tag) = Len(u) /\ k + Len(tag) <= Len(data) /\ Len(tag) = Len(data)
        /\ Starts(u, tag, n)
    BY <1>4, <1>6, <1>7, <1>12, <1>14, <1>15, <1>16
  <2>2. Scan[<<Clear(d), data>>]
          = Scan[<<Switch(Say(Clear(d), Take(data, k))), Drop(data, k + Len(tag))>>]
    <3> DEFINE s == Clear(d)
    <3>1. s \in Division /\ data \in Text /\ tag = AwaitedTag(s.stream) /\ IsFirst(data, tag, k)
      BY <1>7, <1>11, <1>13
    <3>. HIDE DEF s
    <3>2. Scan[<<s, data>>]
            = Scan[<<Switch(Say(s, Take(data, k))), Drop(data, k + Len(tag))>>]
      BY <2>1, <3>1, ScanPass
    <3>. QED
      BY <3>2 DEF s
  <2>3. Take(data, k) = <<>> /\ Drop(data, k + Len(tag)) = <<>>
    <3>1. Len(data) \in 0..Len(data) /\ k + Len(tag) = Len(data)
      BY <1>7, <1>12, <2>1, TextFacts
    <3>. QED
      BY <1>7, <2>1, <3>1, TakeDropJoin
  <2> DEFINE e == Switch(Clear(d))
  <2>4. Scan[<<Clear(d), data>>] = Scan[<<e, <<>>>>]
    BY <1>11, <2>2, <2>3, SayNoText
  <2>5. e \in Division /\ AwaitedTag(e.stream) \in Text
    <3>1. e \in Division
      BY <1>11, SwitchIsDivision
    <3>2. e.stream \in Stream
      BY <3>1 DEF Division
    <3>. QED
      BY <3>1, <3>2, TagFacts
  <2>. HIDE DEF e
  <2>6. Scan[<<e, <<>>>>] = e
    <3>1. <<>> \in Text
      BY TextFacts, <1>1
    <3>2. PICK j \in 0..Len(<<>>) : IsFirst(<<>>, AwaitedTag(e.stream), j)
      BY <2>5, <3>1, FirstExists
    <3>. QED
      BY <2>5, <3>1, <3>2, ScanStep
  <2>7. Means(u, Switch(Clear(d)), Len(u))
    BY <1>2, <1>4, <1>16, <2>1, MeansPassed DEF tag
  <2>8. Means(u, AppendInline(NewStream, u), Len(u))
    BY <1>10, <2>4, <2>6, <2>7 DEF e
  <2>. QED
    BY <2>8 DEF u, x
<1>17. CASE ~Counts(t, u)
  <2>1. ~(k + Len(tag) <= Len(data))
    BY <1>14, <1>15, <1>17
  <2>2. Scan[<<Clear(d), data>>]
          = [Say(Clear(d), Take(data, k)) EXCEPT !.stream.pending = Drop(data, k)]
    <3> DEFINE s == Clear(d)
    <3>1. s \in Division /\ data \in Text /\ tag = AwaitedTag(s.stream) /\ IsFirst(data, tag, k)
      BY <1>7, <1>11, <1>13
    <3>. HIDE DEF s
    <3>2. Scan[<<s, data>>] = [Say(s, Take(data, k)) EXCEPT !.stream.pending = Drop(data, k)]
      BY <1>8, <2>1, <3>1, ScanEnd
    <3>. QED
      BY <3>2 DEF s
  <2>3. Means(u, [Say(Clear(d), Take(data, k)) EXCEPT !.stream.pending = Drop(data, k)], n + k)
    BY <1>2, <1>4, <1>13, <1>17, MeansKept DEF data, tag
  <2>4. Means(u, AppendInline(NewStream, u), n + k)
    BY <1>10, <2>2, <2>3
  <2>. QED
    BY <2>4 DEF u, x
<1>. QED
  BY <1>16, <1>17

LEMMA MeansAll ==
  \A t \in Text : \E n : Means(t, AppendInline(NewStream, t), n)
<1> DEFINE T == {k \in Nat : \A t \in Text : Len(t) = k
                               => \E n : Means(t, AppendInline(NewStream, t), n)}
<1>1. 0 \in T
  <2>1. \A t \in Text : Len(t) = 0 => t = <<>>
    BY TextFacts
  <2>. QED
    BY <2>1, MeansNothing
<1>2. ASSUME NEW k \in Nat, k \in T PROVE k + 1 \in T
  <2> SUFFICES ASSUME NEW t \in Text, Len(t) = k + 1
               PROVE  \E n : Means(t, AppendInline(NewStream, t), n)
    OBVIOUS
  <2> DEFINE s == Take(t, k)
  <2> DEFINE c == t[k + 1]
  <2>1. k \in 0..Len(t) /\ k + 1 \in 1..Len(t)
    OBVIOUS
  <2>2. s \in Text /\ Len(s) = k /\ (\A i \in 1..k : s[i] = t[i]) /\ c \in Char
    BY <2>1, TakeFacts, TextFacts
  <2>3. <<c>> \in Text /\ Len(<<c>>) = 1 /\ <<c>>[1] = c
    BY <2>2 DEF Text
  <2>4. t[k + 1] = c
    OBVIOUS
  <2>. HIDE DEF s, c
  <2> DEFINE u == s \o <<c>>
  <2>5. /\ u \in Text /\ Len(u) = k + 1
        /\ \A i \in 1..(k + 1) : u[i] = IF i <= k THEN s[i] ELSE <<c>>[i - k]
    BY <2>2, <2>3, JoinFacts
  <2>6. ASSUME NEW i \in 1..(k + 1) PROVE u[i] = t[i]
    <3>1. CASE i <= k
      BY <2>2, <2>5, <3>1
    <3>2. CASE ~(i <= k)
      <4>1. i = k + 1 /\ i - k = 1
        BY <3>2
      <4>. QED
        BY <2>3, <2>4, <2>5, <4>1
    <3>. QED
      BY <3>1, <3>2
  <2>. HIDE DEF u
  <2>7. u = t
    BY <2>5, <2>6, SameText
  <2>8. PICK n : Means(s, AppendInline(NewStream, s), n)
    BY <1>2, <2>2
  <2>9. \E m : Means(s \o <<c>>, AppendInline(NewStream, s \o <<c>>), m)
    BY <2>2, <2>8, MeansNext
  <2>. QED
    BY <2>7, <2>9 DEF u
<1>3. \A k \in Nat : k \in T
  <2>. HIDE DEF T
  <2>. QED
    BY <1>1, <1>2, Induction
<1>. QED
  BY <1>3, TextFacts

(* splitInlineThinking divides every text as the definition does.          *)
THEOREM SplitIsDivision ==
  \A t \in Text : DivisionOf(t) = [reasoning |-> SplitInlineThinking(t).reasoning,
                                   assistant |-> SplitInlineThinking(t).assistant]
<1> TAKE t \in Text
<1> DEFINE d == AppendInline(NewStream, t)
<1>1. PICK n : Means(t, d, n)
  BY MeansAll
<1>2. SplitInlineThinking(t) = Say(d, d.stream.pending)
  BY DEF SplitInlineThinking
<1>. HIDE DEF d
<1>3. /\ d \in Division /\ n \in 0..Len(t) /\ d.stream.pending = Drop(t, n) /\ Given(t, n, d)
      /\ d.stream.inThink <=> Inside(t, Len(t))
      /\ \A i \in (n + 1)..Len(t) : i \notin Markup(t) /\ (Inside(t, i) <=> Inside(t, Len(t)))
  BY <1>1 DEF Means
<1>4. Len(t) \in Nat /\ Len(t) \in n..Len(t)
  BY <1>3, TextFacts
<1>5. Given(t, Len(t), Say(d, Take(Drop(t, n), Len(t) - n)))
  BY <1>3, <1>4, SayStretch
<1>6. Take(Drop(t, n), Len(t) - n) = Drop(t, n)
  <2> DEFINE p == Drop(t, n)
  <2>1. p \in Text /\ Len(p) = Len(t) - n /\ Len(p) \in 0..Len(p)
    BY <1>3, <1>4, DropFacts
  <2>. HIDE DEF p
  <2>2. Take(p, Len(p)) = p
    BY <2>1, TakeDropJoin
  <2>. QED
    BY <2>1, <2>2 DEF p
<1>7. Given(t, Len(t), SplitInlineThinking(t))
  BY <1>2, <1>3, <1>5, <1>6
<1>. QED
  BY <1>7 DEF Given, DivisionOf

--------------------------------------------------------------------------------
(* The stream *)

(* What the stream has given out and keeps, put together, is what one      *)
(* Append of everything fed gives.  It is inductive by itself.             *)
StreamInv ==
  /\ fed \in Text
  /\ [stream |-> stream, reasoning |-> reasoning, assistant |-> assistant]
       = AppendInline(NewStream, fed)

LEMMA StreamInvInit ==
  ASSUME StreamInit
  PROVE  StreamInv
<1>1. <<>> \in Text
  BY EmptySeq DEF Text
<1>. QED
  BY <1>1, AppendNothing DEF StreamInit, StreamInv

LEMMA StreamInvNext ==
  ASSUME StreamInv, FeedDelta
  PROVE  StreamInv'
<1> DEFINE r == AppendInline(NewStream, fed)
<1>1. NewStream \in Stream
  BY EmptySeq DEF NewStream, Stream, Text
<1>2. PICK t \in Delta :
        LET d == AppendInline(stream, t) IN
        /\ stream' = d.stream
        /\ reasoning' = reasoning \o d.reasoning
        /\ assistant' = assistant \o d.assistant
        /\ fed' = fed \o t
  BY DEF FeedDelta
<1>3. fed \in Text /\ t \in Text
  BY DeltaAssumption DEF StreamInv
<1> DEFINE d == AppendInline(stream, t)
<1>4. r \in Division /\ r.stream = stream /\ r.reasoning = reasoning /\ r.assistant = assistant
  <2>1. r \in Division
    BY <1>1, <1>3, AppendInlineKeeps
  <2>. QED
    BY <2>1 DEF StreamInv
<1>5. stream \in Stream /\ reasoning \in Text /\ assistant \in Text
  BY <1>4 DEF Division
<1>6. d \in Division
  BY <1>3, <1>5, AppendInlineKeeps
<1>7. AppendInline(NewStream, fed \o t) = After(reasoning, assistant, d)
  <2>1. AppendInline(NewStream, fed \o t)
          = After(r.reasoning, r.assistant, AppendInline(r.stream, t))
    BY <1>1, <1>3, AppendInlineTwice
  <2>. HIDE DEF r
  <2>. QED
    BY <1>4, <2>1
<1>8. /\ stream' = d.stream /\ reasoning' = reasoning \o d.reasoning
      /\ assistant' = assistant \o d.assistant /\ fed' = fed \o t
  BY <1>2
<1> DEFINE e == After(reasoning, assistant, d)
<1>9. /\ e \in Division /\ e.stream = stream' /\ e.reasoning = reasoning'
      /\ e.assistant = assistant'
  <2>. HIDE DEF d
  <2>. QED
    BY <1>5, <1>6, <1>8, AfterFields
<1>10. fed' \in Text
  BY <1>3, <1>8, JoinFacts
<1>. HIDE DEF d, e
<1>11. e = [stream |-> stream', reasoning |-> reasoning', assistant |-> assistant']
  BY <1>9 DEF Division
<1>. QED
  BY <1>7, <1>8, <1>10, <1>11 DEF StreamInv, e

LEMMA StreamInvFacts ==
  ASSUME StreamInv
  PROVE  TypeOK /\ SplitContinuesStream
<1> DEFINE d == [stream |-> stream, reasoning |-> reasoning, assistant |-> assistant]
<1>1. NewStream \in Stream /\ fed \in Text
  BY EmptySeq DEF NewStream, Stream, Text, StreamInv
<1>2. d = AppendInline(NewStream, fed)
  BY DEF StreamInv
<1>3. d \in Division /\ KeepsBeginning(d.stream)
  BY <1>1, <1>2, AppendInlineKeeps
<1>4. TypeOK
  BY <1>1, <1>3 DEF TypeOK, Division, KeepsBeginning
<1>5. d.stream = stream /\ d.reasoning = reasoning /\ d.assistant = assistant
  OBVIOUS
<1>6. stream.pending \in Text
  BY <1>3, <1>5 DEF Division, Stream
<1>7. SplitInlineThinking(fed) = Say(d, stream.pending)
  <2>1. SplitInlineThinking(fed)
          = Say(AppendInline(NewStream, fed), AppendInline(NewStream, fed).stream.pending)
    BY DEF SplitInlineThinking
  <2>. QED
    BY <1>2, <1>5, <2>1
<1>. HIDE DEF d
<1>8. /\ IsPrefix(reasoning, Say(d, stream.pending).reasoning)
      /\ IsPrefix(assistant, Say(d, stream.pending).assistant)
  BY <1>3, <1>5, <1>6, SayAdds
<1>. QED
  BY <1>2, <1>4, <1>7, <1>8 DEF SplitContinuesStream, d

LEMMA StreamInvariant == StreamSpec => []StreamInv
<1>1. StreamInit => StreamInv
  BY StreamInvInit
<1>2. StreamInv /\ [FeedDelta]_streamVars => StreamInv'
  <2>1. StreamInv /\ FeedDelta => StreamInv'
    BY StreamInvNext
  <2>2. StreamInv /\ UNCHANGED streamVars => StreamInv'
    BY DEF streamVars, StreamInv
  <2>. QED
    BY <2>1, <2>2
<1>. QED
  BY <1>1, <1>2, PTL DEF StreamSpec

(* inlineThinkingStream keeps back only a beginning of the tag it waits    *)
(* for, whatever the tags are and however the deltas are cut.              *)
THEOREM StreamTypeCorrect == StreamSpec => []TypeOK
<1>1. StreamInv => TypeOK
  BY StreamInvFacts
<1>. QED
  BY <1>1, StreamInvariant, PTL

(* Feeding deltas and appending the whole text come to the same, and       *)
(* splitInlineThinking of the whole text continues what was given out.     *)
THEOREM StreamContinued == StreamSpec => []SplitContinuesStream
<1>1. StreamInv => SplitContinuesStream
  BY StreamInvFacts
<1>. QED
  BY <1>1, StreamInvariant, PTL

LEMMA StreamInvDivision ==
  ASSUME StreamInv
  PROVE  CutsDoNotMatter
<1> DEFINE d == [stream |-> stream, reasoning |-> reasoning, assistant |-> assistant]
<1>1. fed \in Text /\ d = AppendInline(NewStream, fed) /\ d.stream = stream
  BY DEF StreamInv
<1>2. SplitInlineThinking(fed) = Say(d, stream.pending)
  BY <1>1 DEF SplitInlineThinking
<1>. HIDE DEF d
<1>. QED
  BY <1>1, <1>2, SplitIsDivision DEF CutsDoNotMatter, d

(* However the deltas cut the text, what was given out and what is kept    *)
(* back are the division of the text by definition, for all tags that do   *)
(* not overlap and texts of any length.                                    *)
THEOREM CutsDoNotMatterCorrect == StreamSpec => []CutsDoNotMatter
<1>1. StreamInv => CutsDoNotMatter
  BY StreamInvDivision
<1>. QED
  BY <1>1, StreamInvariant, PTL
================================================================================
