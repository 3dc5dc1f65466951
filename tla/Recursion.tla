------------------------------- MODULE Recursion -------------------------------
(***************************************************************************)
(* Induction and recursion for the proofs about texts and outputs of any   *)
(* length.  The library's induction theorems take an operator, which the   *)
(* provers cannot instantiate; the lemmas below take sets and functions    *)
(* and rest on the one of its theorems that does so too, WFMin.            *)
(***************************************************************************)
EXTENDS Naturals, WellFoundedInduction, TLAPS

(* A set of numbers that is not empty has a least one.                     *)
LEMMA LeastNumber ==
  ASSUME NEW T, T \subseteq Nat, T # {}
  PROVE  \E x \in T : \A y \in T : x <= y
<1>1. PICK x \in T : \A y \in T : ~(<<y, x>> \in OpToRel(<, Nat))
  BY NatLessThanWellFounded, WFMin, Zenon
<1>2. \A y \in T : ~(y < x)
  BY <1>1 DEF OpToRel
<1>. QED
  BY <1>2

(* Induction, for the numbers that are in a set.                           *)
LEMMA Induction ==
  ASSUME NEW T, 0 \in T, \A n \in Nat : n \in T => n + 1 \in T
  PROVE  \A n \in Nat : n \in T
<1> DEFINE B == Nat \ T
<1> SUFFICES ASSUME B # {} PROVE FALSE
  OBVIOUS
<1>1. PICK x \in B : \A y \in B : x <= y
  BY LeastNumber
<1>2. x \in Nat /\ x # 0 /\ x - 1 \in Nat /\ ~(x <= x - 1)
  BY <1>1
<1>3. x - 1 \in T
  BY <1>1, <1>2
<1>4. x - 1 + 1 = x
  BY <1>2
<1>. QED
  BY <1>2, <1>3, <1>4

(***************************************************************************)
(* Recursion on a set D whose elements have a size: at a stop the value is *)
(* base[x], anywhere else it comes from the value at next[x], which is     *)
(* smaller.  There is such a function, and only one.                       *)
(***************************************************************************)
Recurs(f, D, stop, base, step, next) ==
  \A x \in D : f[x] = IF x \in stop THEN base[x] ELSE step[x][f[next[x]]]

(* The same for the elements smaller than n only.                          *)
RecursBelow(f, n, D, size, stop, base, step, next) ==
  \A x \in D : size[x] < n =>
    f[x] = IF x \in stop THEN base[x] ELSE step[x][f[next[x]]]

LEMMA RecursionUnique ==
  ASSUME NEW D, NEW size \in [D -> Nat], NEW stop, NEW base, NEW step, NEW next,
         \A x \in D \ stop : next[x] \in D /\ size[next[x]] < size[x],
         NEW n \in Nat, NEW f, NEW g,
         RecursBelow(f, n, D, size, stop, base, step, next),
         RecursBelow(g, n, D, size, stop, base, step, next)
  PROVE  \A x \in D : size[x] < n => f[x] = g[x]
<1> DEFINE Bad == {size[x] : x \in {y \in D : size[y] < n /\ f[y] # g[y]}}
<1> SUFFICES ASSUME Bad # {} PROVE FALSE
  OBVIOUS
<1>1. Bad \subseteq Nat
  OBVIOUS
<1>2. PICK k \in Bad : \A j \in Bad : k <= j
  BY <1>1, LeastNumber
<1>3. PICK x \in D : size[x] < n /\ f[x] # g[x] /\ size[x] = k
  BY <1>2
<1>4. x \notin stop
  BY <1>3 DEF RecursBelow
<1>5. next[x] \in D /\ size[next[x]] < size[x] /\ size[next[x]] \in Nat /\ size[x] \in Nat
  BY <1>4
<1>6. f[next[x]] # g[next[x]]
  BY <1>3, <1>4 DEF RecursBelow
<1>7. size[next[x]] \in Bad
  BY <1>3, <1>5, <1>6
<1>. HIDE DEF Bad
<1>. QED
  BY <1>2, <1>3, <1>5, <1>7

LEMMA RecursionExists ==
  ASSUME NEW D, NEW V, NEW size \in [D -> Nat], NEW stop,
         NEW base, NEW step, NEW next,
         \A x \in stop : base[x] \in V,
         \A x \in D \ stop : next[x] \in D /\ size[next[x]] < size[x],
         \A x \in D \ stop, v \in V : step[x][v] \in V,
         V # {}
  PROVE  \E f \in [D -> V] : Recurs(f, D, stop, base, step, next)
<1> DEFINE Up(f, n) == RecursBelow(f, n, D, size, stop, base, step, next)
<1> DEFINE T == {n \in Nat : \E f \in [D -> V] : Up(f, n)}
<1>1. 0 \in T
  <2>1. PICK v : v \in V
    OBVIOUS
  <2>2. [x \in D |-> v] \in [D -> V] /\ \A x \in D : ~(size[x] < 0)
    BY <2>1
  <2>. QED
    BY <2>2 DEF RecursBelow
<1>2. ASSUME NEW n \in Nat, n \in T PROVE n + 1 \in T
  <2>1. PICK f \in [D -> V] : Up(f, n)
    BY <1>2
  <2> DEFINE g == [x \in D |-> IF x \in stop THEN base[x] ELSE step[x][f[next[x]]]]
  <2>2. g \in [D -> V]
    OBVIOUS
  <2>3. ASSUME NEW x \in D, size[x] < n + 1, x \notin stop
        PROVE  g[x] = step[x][g[next[x]]]
    <3>1. next[x] \in D /\ size[next[x]] < n
      BY <2>3
    <3>2. f[next[x]] = g[next[x]]
      BY <2>1, <3>1 DEF RecursBelow
    <3>. QED
      BY <2>3, <3>2
  <2>4. Up(g, n + 1)
    BY <2>3 DEF RecursBelow
  <2>. HIDE DEF g, Up
  <2>. QED
    BY <2>2, <2>4
<1>3. \A n \in Nat : n \in T
  <2>. HIDE DEF T
  <2>. QED
    BY <1>1, <1>2, Induction
<1> DEFINE part(n) == CHOOSE f \in [D -> V] : Up(f, n)
<1>4. \A n \in Nat : part(n) \in [D -> V] /\ Up(part(n), n)
  BY <1>3
<1> DEFINE h == [x \in D |-> part(size[x] + 1)[x]]
<1>. HIDE DEF part
<1>5. h \in [D -> V]
  BY <1>4
<1>6. ASSUME NEW x \in D
      PROVE  h[x] = IF x \in stop THEN base[x] ELSE step[x][h[next[x]]]
  <2>1. size[x] \in Nat /\ size[x] + 1 \in Nat /\ size[x] < size[x] + 1
    OBVIOUS
  <2>2. h[x] = IF x \in stop THEN base[x] ELSE step[x][part(size[x] + 1)[next[x]]]
    BY <1>4, <2>1 DEF RecursBelow
  <2>3. CASE x \in stop
    BY <2>2, <2>3
  <2>4. CASE x \notin stop
    <3>1. next[x] \in D /\ size[next[x]] \in Nat /\ size[next[x]] < size[x]
      BY <2>4
    <3> DEFINE k == size[next[x]] + 1
    <3> DEFINE f == part(size[x] + 1)
    <3> DEFINE g == part(k)
    <3>2. k \in Nat /\ Up(g, k) /\ Up(f, k)
      <4>1. k \in Nat /\ k <= size[x] + 1
        BY <2>1, <3>1
      <4>2. \A y \in D : size[y] < k => size[y] < size[x] + 1
        BY <2>1, <4>1
      <4>. QED
        BY <1>4, <2>1, <4>1, <4>2 DEF RecursBelow
    <3>. HIDE DEF f, g
    <3>. HIDE DEF k
    <3>3. \A y \in D : size[y] < k => f[y] = g[y]
      BY <3>2, RecursionUnique
    <3>4. f[next[x]] = g[next[x]]
      BY <3>1, <3>3 DEF k
    <3>5. g[next[x]] = h[next[x]]
      BY <3>1 DEF g, k
    <3>. QED
      BY <2>2, <2>4, <3>4, <3>5 DEF f
  <2>. QED
    BY <2>3, <2>4
<1>. QED
  BY <1>5, <1>6 DEF Recurs
================================================================================
