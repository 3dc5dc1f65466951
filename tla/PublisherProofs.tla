---------------------------- MODULE PublisherProofs ----------------------------
(***************************************************************************)
(* Proofs about Publisher, for any number of goroutines and connections.   *)
(***************************************************************************)
EXTENDS Publisher, TLAPS

(* The mutex is held by the goroutine between Lock and its release.        *)
MutexInv ==
  \A g \in Goroutine : mu = g <=> pc[g] \in {"check", "setup", "closing"}

(* The two fields change together; what they name was made, and its        *)
(* streams ensured.                                                        *)
KeptInv ==
  /\ nc = js
  /\ js # NoConn => conn[js] # "unmade" /\ ensured[js] = Streams

(* A call has something to publish, and what it holds was made; while it   *)
(* sets a connection up there is no other.                                 *)
CallInv ==
  \A g \in Goroutine :
    /\ pc[g] \in {"lock", "check", "setup", "send"} => left[g] > 0
    /\ pc[g] \in {"setup", "send"} => held[g] \in Conn /\ conn[held[g]] # "unmade"
    /\ pc[g] = "setup" => js = NoConn

IInv == TypeOK /\ MutexInv /\ KeptInv /\ CallInv /\ NoLeak /\ StreamsFirst

--------------------------------------------------------------------------------

LEMMA Conns == NoConn \notin Conn /\ Streams \in Nat /\ 0 \in 0..Streams
BY DEF NoConn, Conn, Streams

LEMMA InitInv == Init => IInv
BY Conns, GoroutineAssumption
   DEF Init, IInv, TypeOK, MutexInv, KeptInv, CallInv, NoLeak, StreamsFirst, Label

(* Two open connections would both have to be the publisher's or the one   *)
(* being set up, and these two exclude each other.                         *)
LEMMA OneOfNoLeak == IInv => OneConnection
BY Conns, GoroutineAssumption DEF IInv, TypeOK, KeptInv, CallInv, NoLeak, OneConnection

(* Steps that leave the connections alone.                                 *)
LEMMA CallStep == ASSUME IInv, NEW g \in Goroutine, Call(g) PROVE IInv'
<1>1. \A n \in 1..MaxOutputs : n \in Nat /\ n > 0
  BY BoundAssumption
<1>2. TypeOK'
  BY <1>1 DEF IInv, TypeOK, Call, Goto, Label
<1>3. MutexInv' /\ KeptInv' /\ NoLeak' /\ StreamsFirst'
  BY GoroutineAssumption
     DEF IInv, TypeOK, MutexInv, KeptInv, NoLeak, StreamsFirst, Call, Goto, Label
<1>4. CallInv'
  BY <1>1 DEF IInv, TypeOK, CallInv, Call, Goto
<1>. QED
  BY <1>2, <1>3, <1>4 DEF IInv

LEMMA LockSteps ==
  ASSUME IInv, NEW g \in Goroutine, Lock(g) \/ UseClient(g) \/ ConnectFails(g)
  PROVE  IInv'
<1>1. CASE Lock(g)
  BY <1>1, GoroutineAssumption
     DEF IInv, TypeOK, MutexInv, KeptInv, CallInv, NoLeak, StreamsFirst, Lock, Goto, Label
<1>2. CASE UseClient(g)
  BY <1>2, GoroutineAssumption
     DEF IInv, TypeOK, MutexInv, KeptInv, CallInv, NoLeak, StreamsFirst, UseClient, Goto, Hold, Label
<1>3. CASE ConnectFails(g)
  BY <1>3, GoroutineAssumption
     DEF IInv, TypeOK, MutexInv, KeptInv, CallInv, NoLeak, StreamsFirst, ConnectFails, Goto, Label
<1>. QED
  BY <1>1, <1>2, <1>3

(* Setting a connection up, under the mutex.                               *)
LEMMA SetupSteps ==
  ASSUME IInv, NEW g \in Goroutine,
         Connect(g) \/ EnsureStream(g) \/ SetupFails(g) \/ Keep(g)
  PROVE  IInv'
<1>1. CASE Connect(g)
  <2>1. mu = g /\ js = NoConn /\ nc = NoConn
    BY <1>1 DEF IInv, MutexInv, KeptInv, Connect, Goto
  <2>2. PICK c \in Conn : /\ conn[c] = "unmade"
                          /\ conn' = [conn EXCEPT ![c] = "open"]
                          /\ held' = [held EXCEPT ![g] = c]
    BY <1>1 DEF Connect, Hold
  <2>3. TypeOK' /\ MutexInv' /\ KeptInv'
    BY <1>1, <2>1, <2>2 DEF IInv, TypeOK, MutexInv, KeptInv, Connect, Goto, Label
  <2>4. CallInv'
    BY <1>1, <2>1, <2>2 DEF IInv, TypeOK, CallInv, Connect, Goto
  <2>5. \A d \in Conn : conn[d] # "open"
    BY <1>1, <2>1, Conns DEF IInv, NoLeak, Connect, Goto
  <2>6. NoLeak'
    BY <1>1, <2>1, <2>2, <2>5, GoroutineAssumption DEF IInv, TypeOK, NoLeak, Connect, Goto
  <2>7. StreamsFirst'
    BY <1>1, <2>2 DEF IInv, TypeOK, StreamsFirst, Connect, Goto
  <2>. QED
    BY <2>3, <2>4, <2>6, <2>7 DEF IInv
<1>2. CASE EnsureStream(g)
  <2>1. held[g] \in Conn /\ js = NoConn
    BY <1>2 DEF IInv, CallInv, EnsureStream
  <2>2. ensured[held[g]] + 1 \in 0..Streams
    BY <1>2, <2>1 DEF IInv, TypeOK, EnsureStream, Streams
  <2>3. TypeOK'
    BY <1>2, <2>1, <2>2 DEF IInv, TypeOK, EnsureStream
  <2>4. MutexInv' /\ KeptInv' /\ CallInv' /\ NoLeak'
    BY <1>2, <2>1 DEF IInv, MutexInv, KeptInv, CallInv, NoLeak, EnsureStream
  <2>5. StreamsFirst'
    BY <1>2, <2>1 DEF IInv, TypeOK, CallInv, StreamsFirst, EnsureStream
  <2>. QED
    BY <2>3, <2>4, <2>5 DEF IInv
<1>3. CASE SetupFails(g)
  <2>1. held[g] \in Conn /\ js = NoConn /\ mu = g
    BY <1>3 DEF IInv, MutexInv, CallInv, SetupFails, Goto
  <2>2. TypeOK' /\ MutexInv' /\ KeptInv'
    BY <1>3, <2>1, GoroutineAssumption
       DEF IInv, TypeOK, MutexInv, KeptInv, SetupFails, Goto, Hold, Label
  <2>3. CallInv' /\ StreamsFirst'
    BY <1>3, <2>1 DEF IInv, TypeOK, CallInv, StreamsFirst, SetupFails, Goto, Hold
  <2>4. NoLeak'
    BY <1>3, <2>1 DEF IInv, TypeOK, NoLeak, SetupFails, Goto
  <2>. QED
    BY <2>2, <2>3, <2>4 DEF IInv
<1>4. CASE Keep(g)
  <2>1. held[g] \in Conn /\ mu = g
    BY <1>4 DEF IInv, MutexInv, CallInv, Keep, Goto
  <2>2. TypeOK' /\ MutexInv'
    BY <1>4, <2>1, GoroutineAssumption DEF IInv, TypeOK, MutexInv, Keep, Goto, Label
  <2>3. KeptInv'
    BY <1>4, <2>1 DEF IInv, CallInv, KeptInv, Keep, Goto
  <2>4. CallInv'
    <3>1. \A h \in Goroutine : pc'[h] # "setup"
      BY <1>4, <2>1 DEF IInv, TypeOK, MutexInv, Keep, Goto
    <3>. QED
      BY <1>4, <3>1 DEF IInv, TypeOK, CallInv, Keep, Goto
  <2>5. NoLeak'
    BY <1>4, <2>1, Conns DEF IInv, CallInv, KeptInv, NoLeak, Keep, Goto
  <2>6. StreamsFirst'
    BY <1>4 DEF IInv, TypeOK, StreamsFirst, Keep, Goto
  <2>. QED
    BY <2>2, <2>3, <2>4, <2>5, <2>6 DEF IInv
<1>. QED
  BY <1>1, <1>2, <1>3, <1>4

LEMMA SendSteps ==
  ASSUME IInv, NEW g \in Goroutine, Send(g) \/ SendFails(g)
  PROVE  IInv'
<1>1. CASE Send(g)
  <2>1. left[g] \in Nat /\ left[g] > 0
    BY <1>1 DEF IInv, TypeOK, CallInv, Send
  <2>2. left[g] - 1 \in Nat /\ (left[g] > 1 => left[g] - 1 > 0)
    BY <2>1
  <2>3. TypeOK'
    BY <1>1, <2>2 DEF IInv, TypeOK, Send, Hold, Label
  <2>4. MutexInv' /\ KeptInv' /\ StreamsFirst'
    BY <1>1 DEF IInv, TypeOK, MutexInv, KeptInv, StreamsFirst, Send, Hold
  <2>5. CallInv'
    BY <1>1, <2>1, <2>2 DEF IInv, TypeOK, CallInv, Send, Hold
  <2>6. NoLeak'
    BY <1>1, GoroutineAssumption DEF IInv, TypeOK, MutexInv, NoLeak, Send, Hold
  <2>. QED
    BY <2>3, <2>4, <2>5, <2>6 DEF IInv
<1>2. CASE SendFails(g)
  <2>1. TypeOK' /\ MutexInv' /\ KeptInv' /\ StreamsFirst'
    BY <1>2 DEF IInv, TypeOK, MutexInv, KeptInv, StreamsFirst, SendFails, Goto, Hold, Label
  <2>2. CallInv' /\ NoLeak'
    BY <1>2, GoroutineAssumption
       DEF IInv, TypeOK, MutexInv, CallInv, NoLeak, SendFails, Goto, Hold
  <2>. QED
    BY <2>1, <2>2 DEF IInv
<1>. QED
  BY <1>1, <1>2

(* Closing, and connections that end by themselves.                        *)
LEMMA CloseSteps ==
  ASSUME IInv, Close \/ CloseLock \/ CloseConn \/ ConnEnds
  PROVE  IInv'
<1>1. CASE Close
  BY <1>1, GoroutineAssumption
     DEF IInv, TypeOK, MutexInv, KeptInv, CallInv, NoLeak, StreamsFirst, Close, Goto, Label
<1>2. CASE CloseLock
  BY <1>2, GoroutineAssumption
     DEF IInv, TypeOK, MutexInv, KeptInv, CallInv, NoLeak, StreamsFirst, CloseLock, Goto, Label
<1>3. CASE CloseConn
  <2>1. mu = Main
    BY <1>3, GoroutineAssumption DEF IInv, MutexInv, CloseConn, Goto
  <2>2. TypeOK' /\ MutexInv' /\ KeptInv'
    BY <1>3, <2>1, GoroutineAssumption, Conns
       DEF IInv, TypeOK, MutexInv, KeptInv, CloseConn, Goto, Label
  <2>3. CallInv' /\ StreamsFirst'
    BY <1>3, GoroutineAssumption
       DEF IInv, TypeOK, CallInv, StreamsFirst, CloseConn, Goto
  <2>4. NoLeak'
    BY <1>3, <2>1, GoroutineAssumption DEF IInv, TypeOK, NoLeak, CloseConn, Goto
  <2>. QED
    BY <2>2, <2>3, <2>4 DEF IInv
<1>4. CASE ConnEnds
  <2>1. PICK c \in Conn : conn' = [conn EXCEPT ![c] = "ended"]
    BY <1>4 DEF ConnEnds
  <2>2. TypeOK' /\ MutexInv' /\ StreamsFirst'
    BY <1>4, <2>1 DEF IInv, TypeOK, MutexInv, StreamsFirst, ConnEnds
  <2>3. KeptInv' /\ CallInv' /\ NoLeak'
    BY <1>4, <2>1 DEF IInv, TypeOK, KeptInv, CallInv, NoLeak, ConnEnds
  <2>. QED
    BY <2>2, <2>3 DEF IInv
<1>. QED
  BY <1>1, <1>2, <1>3, <1>4

LEMMA NextInv == IInv /\ [Next]_vars => IInv'
<1> SUFFICES ASSUME IInv, [Next]_vars PROVE IInv'
  OBVIOUS
<1>1. ASSUME NEW g \in Goroutine, Call(g) \/ Publish(g) PROVE IInv'
  BY <1>1, CallStep, LockSteps, SetupSteps, SendSteps DEF Publish
<1>2. CASE Close \/ CloseLock \/ CloseConn \/ ConnEnds
  BY <1>2, CloseSteps
<1>3. CASE UNCHANGED vars
  BY <1>3 DEF vars, IInv, TypeOK, MutexInv, KeptInv, CallInv, NoLeak, StreamsFirst
<1>. QED
  BY <1>1, <1>2, <1>3 DEF Next

LEMMA Invariant == Spec => []IInv
BY InitInv, NextInv, PTL DEF Spec

--------------------------------------------------------------------------------

(* publish, jetStream and Close keep their fields well typed.              *)
THEOREM TypeCorrect == Spec => []TypeOK
<1>1. IInv => TypeOK
  BY DEF IInv
<1>. QED
  BY <1>1, Invariant, PTL

(* jetStream and Close leave no connection behind that a Close, if one     *)
(* comes, would not reach, for any number of goroutines and connections.   *)
THEOREM NoLeakCorrect == Spec => []NoLeak
<1>1. IInv => NoLeak
  BY DEF IInv
<1>. QED
  BY <1>1, Invariant, PTL

(* jetStream never makes a second connection next to an open one.          *)
THEOREM OneConnectionCorrect == Spec => []OneConnection
BY OneOfNoLeak, Invariant, PTL

(* publish only hands messages to a client whose streams were ensured.     *)
THEOREM StreamsFirstCorrect == Spec => []StreamsFirst
<1>1. IInv => StreamsFirst
  BY DEF IInv
<1>. QED
  BY <1>1, Invariant, PTL
================================================================================
