------------------------------- MODULE Publisher -------------------------------
(***************************************************************************)
(* events/publisher.go and streams.go: one connection to the server, made  *)
(* by the first publish under the publisher's mutex and used by all.  The  *)
(* consumer, the watcher, Stop calls and Run publish concurrently; Run's   *)
(* shutdown closes, and a publish after that connects again.  Messages go  *)
(* out without the mutex, so a connection may end while it is being used.  *)
(***************************************************************************)
EXTENDS Naturals, FiniteSets

CONSTANTS
  Goroutine,    \* what publishes
  Main,         \* the one of them that closes, Run
  Nobody,
  MaxConns,     \* bound: connections made
  MaxOutputs    \* bound: messages of one call

ASSUME GoroutineAssumption == Main \in Goroutine /\ Nobody \notin Goroutine
ASSUME BoundAssumption == MaxConns \in Nat /\ MaxOutputs \in Nat

NoConn == 0
Conn == 1..MaxConns
Streams == 3    \* RUN_DELTA, RUN_RESULT, RUN_STATUS, ensured in this order

VARIABLES
  mu,         \* who holds the mutex
  nc, js,     \* the connection, and the one the JetStream client is for
  conn,       \* each connection: "unmade", "open" or "ended"
  ensured,    \* how many of the streams were ensured over it
  pc,         \* where each goroutine is
  left,       \* how many messages its call still has to publish
  held        \* the connection in its hands

vars == <<mu, nc, js, conn, ensured, pc, left, held>>

Label == {"idle", "lock", "check", "setup", "send", "closelock", "closing", "closed"}

TypeOK ==
  /\ mu \in Goroutine \cup {Nobody}
  /\ nc \in Conn \cup {NoConn} /\ js \in Conn \cup {NoConn}
  /\ conn \in [Conn -> {"unmade", "open", "ended"}]
  /\ ensured \in [Conn -> 0..Streams]
  /\ pc \in [Goroutine -> Label]
  /\ left \in [Goroutine -> Nat]
  /\ held \in [Goroutine -> Conn \cup {NoConn}]

Init ==
  /\ mu = Nobody
  /\ nc = NoConn /\ js = NoConn
  /\ conn = [c \in Conn |-> "unmade"]
  /\ ensured = [c \in Conn |-> 0]
  /\ pc = [g \in Goroutine |-> "idle"]
  /\ left = [g \in Goroutine |-> 0]
  /\ held = [g \in Goroutine |-> NoConn]

--------------------------------------------------------------------------------

Goto(g, from, to) == pc[g] = from /\ pc' = [pc EXCEPT ![g] = to]
Hold(g, c) == held' = [held EXCEPT ![g] = c]

(* PublishOutputs with some outputs, PublishStatus or PublishTerminal.     *)
Call(g) ==
  /\ Goto(g, "idle", "lock")
  /\ \E n \in 1..MaxOutputs : left' = [left EXCEPT ![g] = n]
  /\ UNCHANGED <<mu, nc, js, conn, ensured, held>>

Lock(g) ==
  /\ Goto(g, "lock", "check")
  /\ mu = Nobody
  /\ mu' = g
  /\ UNCHANGED <<nc, js, conn, ensured, left, held>>

UseClient(g) ==
  /\ Goto(g, "check", "send")
  /\ js # NoConn
  /\ Hold(g, js)
  /\ mu' = Nobody
  /\ UNCHANGED <<nc, js, conn, ensured, left>>

(* Deviation: the mutex is not held while the connection is set up.        *)
ConnectUnlocked(g) ==
  /\ Goto(g, "check", "setup")
  /\ js = NoConn
  /\ \E c \in Conn :
       /\ conn[c] = "unmade"
       /\ conn' = [conn EXCEPT ![c] = "open"]
       /\ Hold(g, c)
  /\ mu' = Nobody
  /\ UNCHANGED <<nc, js, ensured, left>>

(* Deviation: the client is kept before its streams are ensured.           *)
ConnectKeepsEarly(g) ==
  /\ Goto(g, "check", "setup")
  /\ js = NoConn
  /\ \E c \in Conn :
       /\ conn[c] = "unmade"
       /\ conn' = [conn EXCEPT ![c] = "open"]
       /\ Hold(g, c)
       /\ nc' = c
       /\ js' = c
  /\ UNCHANGED <<mu, ensured, left>>

Connect(g) ==
  /\ Goto(g, "check", "setup")
  /\ js = NoConn
  /\ \E c \in Conn :
       /\ conn[c] = "unmade"
       /\ conn' = [conn EXCEPT ![c] = "open"]
       /\ Hold(g, c)
  /\ UNCHANGED <<mu, nc, js, ensured, left>>

ConnectFails(g) ==
  /\ Goto(g, "check", "idle")
  /\ js = NoConn
  /\ mu' = Nobody
  /\ UNCHANGED <<nc, js, conn, ensured, left, held>>

EnsureStream(g) ==
  /\ pc[g] = "setup"
  /\ conn[held[g]] = "open"
  /\ ensured[held[g]] < Streams
  /\ ensured' = [ensured EXCEPT ![held[g]] = @ + 1]
  /\ UNCHANGED <<mu, nc, js, conn, pc, left, held>>

(* Deviation: the connection is left open.                                 *)
SetupFailsOpen(g) ==
  /\ Goto(g, "setup", "idle")
  /\ ensured[held[g]] < Streams
  /\ Hold(g, NoConn)
  /\ mu' = Nobody
  /\ UNCHANGED <<nc, js, conn, ensured, left>>

(* Deviation: the error path returns without unlocking.                    *)
SetupFailsLocked(g) ==
  /\ Goto(g, "setup", "idle")
  /\ ensured[held[g]] < Streams
  /\ conn' = [conn EXCEPT ![held[g]] = "ended"]
  /\ Hold(g, NoConn)
  /\ UNCHANGED <<mu, nc, js, ensured, left>>

(* jetstream.New or ensureStreams fails: nc.Close, and an error.           *)
SetupFails(g) ==
  /\ Goto(g, "setup", "idle")
  /\ ensured[held[g]] < Streams
  /\ conn' = [conn EXCEPT ![held[g]] = "ended"]
  /\ Hold(g, NoConn)
  /\ mu' = Nobody
  /\ UNCHANGED <<nc, js, ensured, left>>

Keep(g) ==
  /\ Goto(g, "setup", "send")
  /\ ensured[held[g]] = Streams
  /\ nc' = held[g] /\ js' = held[g]
  /\ mu' = Nobody
  /\ UNCHANGED <<conn, ensured, left, held>>

(* js.Publish: the next output of the call follows, from jetStream on.     *)
Send(g) ==
  /\ pc[g] = "send"
  /\ conn[held[g]] = "open"
  /\ left' = [left EXCEPT ![g] = @ - 1]
  /\ pc' = [pc EXCEPT ![g] = IF left[g] > 1 THEN "lock" ELSE "idle"]
  /\ Hold(g, NoConn)
  /\ UNCHANGED <<mu, nc, js, conn, ensured>>

(* The connection has ended or the answer does not come in time; the call  *)
(* gives up.                                                               *)
SendFails(g) ==
  /\ Goto(g, "send", "idle")
  /\ Hold(g, NoConn)
  /\ UNCHANGED <<mu, nc, js, conn, ensured, left>>

Close ==
  /\ Goto(Main, "idle", "closelock")
  /\ UNCHANGED <<mu, nc, js, conn, ensured, left, held>>

CloseLock ==
  /\ Goto(Main, "closelock", "closing")
  /\ mu = Nobody
  /\ mu' = Main
  /\ UNCHANGED <<nc, js, conn, ensured, left, held>>

(* A connection that has ended by itself may be closed as well.            *)
CloseConn ==
  /\ Goto(Main, "closing", "closed")
  /\ conn' = IF nc = NoConn THEN conn ELSE [conn EXCEPT ![nc] = "ended"]
  /\ nc' = NoConn /\ js' = NoConn
  /\ mu' = Nobody
  /\ UNCHANGED <<ensured, left, held>>

(* The NATS client reconnects by itself, and gives up after a while.       *)
ConnEnds ==
  /\ \E c \in Conn : conn[c] = "open" /\ conn' = [conn EXCEPT ![c] = "ended"]
  /\ UNCHANGED <<mu, nc, js, ensured, pc, left, held>>

Publish(g) ==
  \/ Lock(g) \/ UseClient(g) \/ Connect(g) \/ ConnectFails(g)
  \/ EnsureStream(g) \/ SetupFails(g) \/ Keep(g) \/ Send(g) \/ SendFails(g)

Next ==
  \/ \E g \in Goroutine : Call(g) \/ Publish(g)
  \/ Close \/ CloseLock \/ CloseConn \/ ConnEnds

Spec == Init /\ [][Next]_vars

(* A Go mutex starves nobody, and the library's calls have timeouts.       *)
FairSpec ==
  /\ Spec
  /\ \A g \in Goroutine : SF_vars(Lock(g)) /\ WF_vars(Publish(g))
  /\ SF_vars(CloseLock) /\ WF_vars(CloseConn)

--------------------------------------------------------------------------------
(* Properties *)

(* Every open connection is the one the publisher keeps, or is being set   *)
(* up by the one that holds the mutex: no failure on the way and no other  *)
(* first publish makes one that nobody can close any more.  A publish that *)
(* comes after Close connects again, and that connection is kept, without  *)
(* a Close to come.                                                        *)
NoLeak ==
  \A c \in Conn : conn[c] = "open" =>
    nc = c \/ (mu # Nobody /\ pc[mu] = "setup" /\ held[mu] = c)

(* However many publish at the same time, fail, or publish after Close,    *)
(* there is never a second connection next to an open one.                 *)
OneConnection ==
  \A c, d \in Conn : conn[c] = "open" /\ conn[d] = "open" => c = d

(* A message only goes out over a connection over which all three streams  *)
(* were ensured, so that the server has where to store it.                 *)
StreamsFirst ==
  \A g \in Goroutine : pc[g] = "send" => ensured[held[g]] = Streams

(* Publishing and Close return, whoever else holds or wants the mutex.     *)
CallsReturn ==
  /\ \A g \in Goroutine : pc[g] = "lock" ~> pc[g] = "idle"
  /\ pc[Main] = "closelock" ~> pc[Main] = "closed"
================================================================================
