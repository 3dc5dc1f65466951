------------------------------ MODULE Subscriber -------------------------------
(***************************************************************************)
(* What a subscriber shows of a run: for each thread how many outputs it   *)
(* has received, how many messages were started, all deltas put together,  *)
(* and those of the message started last.                                  *)
(***************************************************************************)
EXTENDS OutputBuilder

Display ==
  [Thread -> [received : Nat, started : Nat, all : Text, last : Text]]

EmptyDisplay ==
  [id \in Thread |-> [received |-> 0, started |-> 0, all |-> <<>>, last |-> <<>>]]

(* One more output is shown, a message from its start on.                  *)
Show(d, o) ==
  LET start == o.type = "START" IN
  [d EXCEPT ![o.id] = [received |-> @.received + 1,
                       started  |-> @.started + IF start THEN 1 ELSE 0,
                       all      |-> @.all \o o.delta,
                       last     |-> IF start THEN o.delta ELSE @.last \o o.delta]]

Displayed[s \in Seq(Output)] ==
  IF s = <<>> THEN EmptyDisplay ELSE Show(Displayed[Front(s)], Last(s))

(* What one shows who hears only what comes after the k-th output.         *)
Since(s, k) == Displayed[SubSeq(s, k + 1, Len(s))]
================================================================================
