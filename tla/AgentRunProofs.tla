----------------------------- MODULE AgentRunProofs -----------------------------
(***************************************************************************)
(* Proofs about AgentRun, for any number of Stop calls, restarts and lines *)
(* and any size of the pipe.  The streams are looked at as sets of entries *)
(* wherever their order does not matter.                                   *)
(***************************************************************************)
EXTENDS AgentRun, SequencesExt, TLAPS

Phase == {"STARTING", "PARSER_READY", "RUNNING", "STOPPING"} \cup Report!TerminalPhase

StreamsOK ==
  /\ run \in Nat
  /\ statuses \in Seq([run : Nat, phase : Phase])
  /\ outputs \in Seq([run : Nat, line : Nat])
  /\ results \in Seq([run : Nat, result : Report!Result])
  /\ asked \subseteq [run : Nat, force : BOOLEAN, early : BOOLEAN]

(* TypeOK in parts.                                                        *)
FlagsOK ==
  /\ ready \in BOOLEAN /\ reading \in BOOLEAN /\ writing \in BOOLEAN
  /\ sigterm \in BOOLEAN /\ announced \in BOOLEAN

QueuesOK == fifo \in Seq(Nat) /\ buffer \in Seq(Nat) /\ line \in Nat /\ spoken \in Nat

CallsOK ==
  /\ call \in [Stoppers -> {"idle", "write", "status", "accepted", "error"}]
  /\ force \in [Stoppers -> BOOLEAN]

LabelsOK ==
  /\ app \in {"down", "new", "starting", "ready", "parserReady", "select",
              "close", "drain", "exited"}
  /\ consumer \in {"down", "open", "scan", "running", "outputs", "failed"}
  /\ watcher \in {"down", "tick", "decode", "stat", "result", "phase", "done", "failed"}
  /\ verdict \in {"none", "COMPLETED", "INTERRUPTED", "CANCELLED", "FAILED"}
  /\ stop \in {"none", "plain", "force"}
  /\ terminal \in {"none", "zero", "nonzero"}
  /\ shell \in {"wait", "running", "reaped", "done", "gaveUp"}
  /\ child \in {"none", "opening", "running", "exited"}
  /\ code \in {"unset", "zero", "nonzero"}
  /\ stopWatcher \in {"none", "poll", "grep", "done"}
  /\ signal \in {"none", "INT", "TERM"}

TypeInv == StreamsOK /\ FlagsOK /\ QueuesOK /\ CallsOK /\ LabelsOK

Started == Sidecar!Started
Served == Started \/ app = "starting"    \* New has returned
Fresh == app \in {"new", "starting"}
Watching == watcher \in {"tick", "decode", "stat", "result", "phase"}
Now(phase) == [run |-> run, phase |-> phase] \in ToSet(statuses)
Told(r) == [run |-> run, result |-> r] \in ToSet(results)

(* Goroutines and calls exist between STARTING and the end.                *)
LifeInv ==
  /\ ~Started => /\ consumer = "down" /\ watcher = "down" /\ ~announced
                 /\ \A p \in Stoppers : call[p] \notin {"write", "status"}
  /\ consumer = "running" => ~announced
  /\ consumer = "outputs" => announced
  /\ watcher \in {"result", "phase"} => verdict \in Report!Result

(* What the incarnation has published of its phases.                       *)
StatusInv ==
  /\ \A e \in ToSet(statuses) : IF Fresh THEN e.run < run ELSE e.run <= run
  /\ Started => Now("STARTING")
  /\ app \in {"ready", "parserReady"} => ~Now("PARSER_READY")
  /\ announced => Now("RUNNING")
  /\ consumer \in {"open", "scan", "running"} /\ ~announced => ~Now("RUNNING")
  /\ Watching => \A phase \in Report!TerminalPhase : ~Now(phase)

(* The CLI's exit is recorded once it has exited and never changes.        *)
ExitInv ==
  /\ shell = "wait" => child = "none"
  /\ child \in {"none", "opening", "running"} <=> code = "unset"
  /\ shell \in {"reaped", "done"} => child = "exited"
  /\ terminal # "none" => terminal = code /\ shell = "done"
  /\ watcher \in {"decode", "stat", "result", "phase"} \/ results # <<>> => terminal # "none"
  /\ watcher = "stat" => terminal = "nonzero"

(* What the incarnation has published of the result.                       *)
ResultInv ==
  /\ \A e \in ToSet(results) : IF Fresh THEN e.run < run ELSE e.run <= run
  /\ watcher \in {"tick", "decode", "stat", "result"} => \A r \in Report!Result : ~Told(r)
  /\ watcher = "phase" => Told(verdict)
  /\ watcher \in {"result", "phase"} => (verdict = "COMPLETED" <=> terminal = "zero")
  /\ \A e \in ToSet(results) : e.result = "COMPLETED" <=> terminal = "zero"

(* When the sidecar ends by itself it has published result and phase.      *)
Reported == \E r \in Report!Result : Told(r) /\ Now(Report!PhaseOf(r))

EndInv == (watcher = "done" \/ app \in {"close", "drain"}) /\ ~sigterm => Reported

(* The stop file stands for the Stop calls of this incarnation.            *)
Mine(n) == {a \in asked : a.run = n}

StopInv ==
  /\ \A a \in asked : a.run <= run
  /\ app = "new" => Mine(run) = {}
  /\ Served => /\ Mine(run) = {} <=> stop = "none"
               /\ stop = "force" => \E a \in Mine(run) : a.force
  /\ stop # "none" \/ stopWatcher = "grep" => asked # {}
  /\ stop = "force" => \E a \in asked : a.force

(* A verdict or a result agrees with the calls made so far ...             *)
Explained(r, n) ==
  /\ r = "INTERRUPTED" => \E a \in Mine(n) : a.force
  /\ r = "CANCELLED" => Mine(n) # {}
  /\ r = "FAILED" => \A a \in Mine(n) : ~a.early

VerdictInv ==
  /\ watcher \in {"result", "phase"} => Explained(verdict, run)
  /\ \A e \in ToSet(results) : Explained(e.result, e.run)

(* Lines wait in the pipe, in the scanner and at the publisher in the      *)
(* order they were written, after those that were published.               *)
Sorted(s) == \A i, j \in 1..Len(s) : i < j => s[i] < s[j]

LineInv ==
  /\ Sorted(fifo) /\ Sorted(buffer)
  /\ \A x \in ToSet(fifo) \cup ToSet(buffer) : x <= spoken
  /\ \A x \in ToSet(buffer), y \in ToSet(fifo) : x < y
  /\ \A o \in ToSet(outputs) : 
       /\ o.line <= spoken
       /\ \A x \in ToSet(fifo) \cup ToSet(buffer) : o.line < x
       /\ consumer \in {"running", "outputs"} => o.line < line
  /\ consumer \in {"running", "outputs"} =>
       line <= spoken /\ \A x \in ToSet(fifo) \cup ToSet(buffer) : line < x

LaunchInv ==
  ready \/ child # "none" => \E e \in ToSet(statuses) : e.phase = "STARTING"

IInv == TypeInv /\ LifeInv /\ StatusInv /\ ExitInv /\ ResultInv /\ EndInv /\ StopInv
        /\ VerdictInv /\ LineInv /\ LaunchInv /\ SignalsExplained

--------------------------------------------------------------------------------
(* Sequences and their entries *)

LEMMA Entries ==
  ASSUME NEW S, NEW s \in Seq(S)
  PROVE  /\ ToSet(s) \subseteq S
         /\ ToSet(<<>>) = {}
         /\ \A e \in S : Append(s, e) \in Seq(S) /\ ToSet(Append(s, e)) = ToSet(s) \cup {e}
         /\ s # <<>> => /\ Head(s) \in ToSet(s) /\ Tail(s) \in Seq(S)
                        /\ ToSet(Tail(s)) \subseteq ToSet(s)
<1>1. DOMAIN s = 1..Len(s) /\ Len(s) \in Nat
  OBVIOUS
<1>2. ASSUME NEW e \in S
      PROVE  Append(s, e) \in Seq(S) /\ ToSet(Append(s, e)) = ToSet(s) \cup {e}
  <2>1. Append(s, e) \in Seq(S) /\ DOMAIN Append(s, e) = 1..Len(s) + 1
    BY <1>1
  <2>2. Append(s, e)[Len(s) + 1] = e /\ \A i \in 1..Len(s) : Append(s, e)[i] = s[i]
    BY <1>1
  <2>. QED
    BY <1>1, <2>1, <2>2 DEF ToSet
<1>3. ASSUME s # <<>> PROVE Head(s) \in ToSet(s) /\ Tail(s) \in Seq(S) /\ ToSet(Tail(s)) \subseteq ToSet(s)
  <2>1. Len(s) > 0 /\ Tail(s) \in Seq(S) /\ Len(Tail(s)) = Len(s) - 1 /\ Head(s) = s[1]
    BY <1>3
  <2>2. \A i \in 1..Len(Tail(s)) : Tail(s)[i] = s[i + 1] /\ i + 1 \in 1..Len(s)
    BY <1>1, <2>1
  <2>3. DOMAIN Tail(s) = 1..Len(Tail(s))
    BY <2>1
  <2>. QED
    BY <1>1, <2>1, <2>2, <2>3 DEF ToSet
<1>4. ToSet(s) \subseteq S /\ ToSet(<<>>) = {}
  BY <1>1 DEF ToSet
<1>. QED
  BY <1>2, <1>3, <1>4

LEMMA SortedAppend ==
  ASSUME NEW s \in Seq(Nat), NEW n \in Nat, Sorted(s), \A x \in ToSet(s) : x < n
  PROVE  Sorted(Append(s, n))
<1>1. Len(Append(s, n)) = Len(s) + 1 /\ Len(s) \in Nat
  OBVIOUS
<1>2. Append(s, n)[Len(s) + 1] = n /\ \A i \in 1..Len(s) : Append(s, n)[i] = s[i]
  OBVIOUS
<1>3. \A i \in 1..Len(s) : s[i] \in Nat /\ s[i] < n
  <2>1. \A i \in 1..Len(s) : s[i] \in ToSet(s)
    BY DEF ToSet
  <2>. QED
    BY <2>1
<1>. QED
  <2>. SUFFICES ASSUME NEW i \in 1..Len(s) + 1, NEW j \in 1..Len(s) + 1, i < j
                PROVE  Append(s, n)[i] < Append(s, n)[j]
    BY <1>1 DEF Sorted
  <2>1. i \in 1..Len(s)
    BY <1>1
  <2>2. CASE j = Len(s) + 1
    BY <1>2, <1>3, <2>1, <2>2
  <2>3. CASE j \in 1..Len(s)
    BY <1>2, <2>1, <2>3 DEF Sorted
  <2>. QED
    BY <1>1, <2>2, <2>3

LEMMA SortedTail ==
  ASSUME NEW s \in Seq(Nat), Sorted(s), s # <<>>
  PROVE  Sorted(Tail(s)) /\ \A x \in ToSet(Tail(s)) : Head(s) < x
<1>1. Len(s) \in Nat /\ Len(s) > 0 /\ Tail(s) \in Seq(Nat) /\ Len(Tail(s)) = Len(s) - 1 /\ Head(s) = s[1]
  OBVIOUS
<1>2. \A i \in 1..Len(Tail(s)) : Tail(s)[i] = s[i + 1] /\ i + 1 \in 1..Len(s)
  BY <1>1
<1>3. DOMAIN Tail(s) = 1..Len(Tail(s))
  BY <1>1
<1>4. Sorted(Tail(s))
  BY <1>1, <1>2 DEF Sorted
<1>5. \A i \in 1..Len(Tail(s)) : Head(s) < Tail(s)[i]
  BY <1>1, <1>2 DEF Sorted
<1>. QED
  BY <1>3, <1>4, <1>5 DEF ToSet

LEMMA TypeOfParts == TypeInv => TypeOK
BY DEF TypeInv, TypeOK, Sidecar!TypeOK, Agent!TypeOK, FlagsOK, QueuesOK, CallsOK, LabelsOK

(* The entries of the streams and the lines in the two queues.             *)
LEMMA Types ==
  ASSUME TypeInv
  PROVE  /\ ToSet(statuses) \subseteq [run : Nat, phase : Phase]
         /\ ToSet(outputs) \subseteq [run : Nat, line : Nat]
         /\ ToSet(results) \subseteq [run : Nat, result : Report!Result]
         /\ ToSet(fifo) \subseteq Nat /\ ToSet(buffer) \subseteq Nat
BY Entries DEF TypeInv, StreamsOK, QueuesOK

LEMMA Empty == ToSet(<<>>) = {} /\ <<>> \in Seq(Nat) /\ Sorted(<<>>)
BY DEF ToSet, Sorted

(* What appending an event does to the entries of its stream.              *)
LEMMA StatusAppended ==
  ASSUME TypeInv, NEW phase \in Phase, statuses' = Append(statuses, [run |-> run, phase |-> phase])
  PROVE  /\ statuses' \in Seq([run : Nat, phase : Phase])
         /\ ToSet(statuses') = ToSet(statuses) \cup {[run |-> run, phase |-> phase]}
<1>. DEFINE S == [run : Nat, phase : Phase]
           e == [run |-> run, phase |-> phase]
<1>1. e \in S
  BY DEF TypeInv, StreamsOK
<1>2. statuses \in Seq(S)
  BY DEF TypeInv, StreamsOK
<1>. HIDE DEF S, e
<1>3. Append(statuses, e) \in Seq(S) /\ ToSet(Append(statuses, e)) = ToSet(statuses) \cup {e}
  BY <1>1, <1>2, Entries
<1>. QED
  BY <1>3 DEF S, e

LEMMA PhaseAppended ==
  ASSUME TypeInv, run' = run, NEW phase \in Phase,
         statuses' = Append(statuses, [run |-> run, phase |-> phase])
  PROVE  /\ Now(phase)'
         /\ \A q \in Phase \ {phase} : Now(q)' <=> Now(q)
         /\ \A e \in ToSet(statuses') : e \in ToSet(statuses) \/ e.run = run
BY StatusAppended DEF Now

LEMMA OutputAppended ==
  ASSUME TypeInv, outputs' = Append(outputs, [run |-> run, line |-> line])
  PROVE  /\ outputs' \in Seq([run : Nat, line : Nat])
         /\ ToSet(outputs') = ToSet(outputs) \cup {[run |-> run, line |-> line]}
<1>. DEFINE S == [run : Nat, line : Nat]
           e == [run |-> run, line |-> line]
<1>1. e \in S
  BY DEF TypeInv, StreamsOK, QueuesOK
<1>2. outputs \in Seq(S)
  BY DEF TypeInv, StreamsOK
<1>. HIDE DEF S, e
<1>3. Append(outputs, e) \in Seq(S) /\ ToSet(Append(outputs, e)) = ToSet(outputs) \cup {e}
  BY <1>1, <1>2, Entries
<1>. QED
  BY <1>3 DEF S, e

LEMMA ResultAppended ==
  ASSUME TypeInv, verdict \in Report!Result, results' = Append(results, [run |-> run, result |-> verdict])
  PROVE  /\ results' \in Seq([run : Nat, result : Report!Result])
         /\ ToSet(results') = ToSet(results) \cup {[run |-> run, result |-> verdict]}
<1>. DEFINE S == [run : Nat, result : Report!Result]
           e == [run |-> run, result |-> verdict]
<1>1. e \in S
  BY DEF TypeInv, StreamsOK
<1>2. results \in Seq(S)
  BY DEF TypeInv, StreamsOK
<1>. HIDE DEF S, e
<1>3. Append(results, e) \in Seq(S) /\ ToSet(Append(results, e)) = ToSet(results) \cup {e}
  BY <1>1, <1>2, Entries
<1>. QED
  BY <1>3 DEF S, e

LEMMA InitInv == Init => IInv
<1>. USE DEF Init, Sidecar!Init, Agent!Init
<1>2. Init => TypeInv
  <2>1. Init => StreamsOK /\ LabelsOK
    BY DEF StreamsOK, LabelsOK
  <2>2. Init => FlagsOK
    BY DEF FlagsOK
  <2>3. Init => QueuesOK
    BY Empty DEF QueuesOK
  <2>4. Init => CallsOK
    BY DEF CallsOK
  <2>. QED
    BY <2>1, <2>2, <2>3, <2>4 DEF TypeInv
<1>3. Init => LifeInv /\ StatusInv /\ ExitInv /\ ResultInv /\ EndInv /\ StopInv
  BY Empty DEF LifeInv, StatusInv, ExitInv, ResultInv, EndInv, StopInv, Started, Sidecar!Started,
    Served, Fresh, Watching, Mine
<1>4. Init => VerdictInv /\ LineInv /\ LaunchInv /\ SignalsExplained
  BY Empty DEF VerdictInv, LineInv, LaunchInv, SignalsExplained, Sorted
<1>. QED
  BY <1>2, <1>3, <1>4 DEF IInv

--------------------------------------------------------------------------------
(* The agent container *)

LEMMA AgentStep == ASSUME IInv, Agent!Next, UNCHANGED sidecar, asked' = Recorded PROVE IInv'
<1>. USE DEF IInv, Agent!Next, sidecar, Agent!volume, Agent!Launch, Agent!GiveUp, Agent!Reap,
       Agent!WriteTerminal, Agent!TerminalFails, Agent!PollStop, Agent!Signal, Agent!OpenPipe,
       Agent!Speak, Agent!ChildExit, Agent!KilledOpening
<1>1. asked' = asked /\ UNCHANGED sidecar
  BY DEF Recorded
<1>2. TypeInv'
  <2>1. StreamsOK' /\ CallsOK'
    BY <1>1 DEF TypeInv, StreamsOK, CallsOK
  <2>2. FlagsOK'
    BY <1>1 DEF TypeInv, FlagsOK
  <2>3. QueuesOK'
    <3>1. fifo' \in {fifo, <<>>, Append(fifo, spoken + 1)} /\ spoken' \in {spoken, spoken + 1}
      OBVIOUS
    <3>2. fifo \in Seq(Nat) /\ Append(fifo, spoken + 1) \in Seq(Nat)
      BY DEF TypeInv, QueuesOK
    <3>3. buffer' \in Seq(Nat) /\ line' \in Nat /\ spoken' \in Nat
      BY <1>1, <3>1 DEF TypeInv, QueuesOK
    <3>. QED
      BY <3>1, <3>2, <3>3, Empty DEF QueuesOK
  <2>4. LabelsOK'
    BY <1>1 DEF TypeInv, LabelsOK, ExitInv
  <2>. QED
    BY <2>1, <2>2, <2>3, <2>4 DEF TypeInv
<1>3. LifeInv' /\ StatusInv' /\ EndInv'
  BY <1>1 DEF LifeInv, StatusInv, EndInv, Started, Sidecar!Started, Fresh, Watching, Now, Told, Reported
<1>4. ExitInv'
  BY <1>1 DEF ExitInv, TypeInv, LabelsOK
<1>5. ResultInv'
  BY <1>1, Types, Empty DEF ResultInv, ExitInv, TypeInv, LabelsOK, Fresh, Told
<1>6. StopInv' /\ VerdictInv' /\ SignalsExplained'
  BY <1>1 DEF StopInv, VerdictInv, SignalsExplained, Mine, Explained, Served, Started, Sidecar!Started,
    TypeInv, LabelsOK
<1>7. LineInv'
  <2>1. CASE Agent!Speak
    <3>1. spoken \in Nat /\ fifo \in Seq(Nat) /\ spoken' = spoken + 1
      BY <2>1 DEF TypeInv, QueuesOK
    <3>2. \A x \in ToSet(fifo) : x \in Nat /\ x < spoken'
      BY <3>1, Types DEF LineInv
    <3>3. Sorted(fifo')
      BY <2>1, <3>1, <3>2, SortedAppend DEF LineInv
    <3>4. ToSet(fifo') = ToSet(fifo) \cup {spoken'}
      BY <2>1, <3>1, Entries
    <3>5. line \in Nat
      BY DEF TypeInv, QueuesOK
    <3>. QED
      BY <1>1, <3>1, <3>2, <3>3, <3>4, <3>5, Types DEF LineInv
  <2>2. CASE fifo' = <<>> /\ spoken' = spoken
    BY <2>2, <1>1, Empty DEF LineInv, Sorted
  <2>3. CASE fifo' = fifo /\ spoken' = spoken
    BY <2>3, <1>1 DEF LineInv, Sorted
  <2>. QED
    BY <2>1, <2>2, <2>3
<1>8. LaunchInv'
  BY <1>1 DEF LaunchInv, ExitInv
<1>. QED
  BY <1>2, <1>3, <1>4, <1>5, <1>6, <1>7, <1>8

--------------------------------------------------------------------------------
(* The consumer *)

LEMMA ConsumeStep == ASSUME IInv, Sidecar!Consume, UNCHANGED agent, asked' = Recorded PROVE IInv'
<1>. USE DEF IInv, agent, Sidecar!OpenFIFO, Sidecar!FillBuffer,
       Sidecar!ParseSilentLine, Sidecar!ParseLine, Sidecar!PublishRunning, Sidecar!PublishOutputs,
       Sidecar!ConsumerFails, Sidecar!ClosePipe, Sidecar!volume, Sidecar!streams, Sidecar!watch,
       Sidecar!calls, Sidecar!Stored, Sidecar!Doubtful, Sidecar!StatusEvent, Sidecar!OutputEvent
<1>1. asked' = asked /\ UNCHANGED <<shell, child, code, spoken, stopWatcher, signal, ready, stop,
        terminal, writing, run, results, app, sigterm, watcher, verdict, call, force>>
  BY DEF Recorded, Sidecar!Consume
<1>2. LifeInv'
  BY <1>1 DEF LifeInv, Started, Sidecar!Started, Sidecar!Consume
<1>3. \/ statuses' = statuses
      \/ statuses' = Append(statuses, [run |-> run, phase |-> "RUNNING"])
  BY DEF Sidecar!Consume
<1>4. \/ outputs' = outputs
      \/ outputs' = Append(outputs, [run |-> run, line |-> line]) /\ consumer = "outputs"
  BY DEF Sidecar!Consume
<1>5. "RUNNING" \in Phase
  BY DEF Phase
<1>6. StreamsOK'
  BY <1>1, <1>3, <1>4, <1>5, StatusAppended, OutputAppended DEF TypeInv, StreamsOK
<1>7. FlagsOK' /\ CallsOK'
  BY <1>1 DEF TypeInv, FlagsOK, CallsOK, Sidecar!Consume
<1>8. LabelsOK'
  BY <1>1 DEF TypeInv, LabelsOK, Sidecar!Consume
<1>9. QueuesOK'
  <2>1. fifo' \in {fifo, <<>>}
    BY DEF Sidecar!Consume
  <2>2. buffer' \in {buffer, <<>>, fifo} \/ (buffer # <<>> /\ buffer' = Tail(buffer))
    BY DEF Sidecar!Consume
  <2>3. line' \in {line, 0} \/ (buffer # <<>> /\ line' = Head(buffer))
    BY DEF Sidecar!Consume
  <2>4. buffer # <<>> => Head(buffer) \in Nat /\ Tail(buffer) \in Seq(Nat)
    BY DEF TypeInv, QueuesOK
  <2>5. fifo' \in Seq(Nat) /\ spoken' \in Nat
    BY <1>1, <2>1, Empty DEF TypeInv, QueuesOK
  <2>6. buffer' \in Seq(Nat)
    BY <2>2, <2>4, Empty DEF TypeInv, QueuesOK
  <2>7. line' \in Nat
    BY <2>3, <2>4 DEF TypeInv, QueuesOK
  <2>. QED
    BY <2>5, <2>6, <2>7 DEF QueuesOK
<1>10. StatusInv'
  <2>1. CASE UNCHANGED <<statuses, announced>> /\ consumer' \in {consumer, "scan", "running", "outputs", "failed"}
    BY <1>1, <2>1 DEF StatusInv, LifeInv, Started, Sidecar!Started, Fresh, Watching, Now, Sidecar!Consume
  <2>2. CASE /\ statuses' = Append(statuses, [run |-> run, phase |-> "RUNNING"])
             /\ announced' \/ (consumer' = "failed" /\ announced' = announced)
    <3>1. consumer \notin {"down", "open", "scan"} /\ consumer' \notin {"open", "scan", "running"}
      BY <2>2 DEF Sidecar!Consume
    <3>2. Started /\ ~Fresh /\ UNCHANGED <<Fresh, Started, Watching>>
      BY <1>1, <3>1 DEF LifeInv, Started, Sidecar!Started, Fresh, Watching
    <3>3. /\ Now("RUNNING")' /\ \A q \in Phase \ {"RUNNING"} : Now(q)' <=> Now(q)
          /\ \A e \in ToSet(statuses') : e \in ToSet(statuses) \/ e.run = run
      BY <1>1, <1>5, <2>2, PhaseAppended
    <3>4. \A e \in ToSet(statuses') : e.run <= run
      BY <3>2, <3>3 DEF StatusInv, TypeInv, StreamsOK
    <3>5. \A q \in Report!TerminalPhase \cup {"STARTING", "PARSER_READY"} : Now(q)' <=> Now(q)
      BY <3>3 DEF Phase, Report!TerminalPhase
    <3>. QED
      BY <1>1, <3>1, <3>2, <3>3, <3>4, <3>5 DEF StatusInv
  <2>. QED
    BY <2>1, <2>2 DEF Sidecar!Consume
<1>11. ExitInv' /\ ResultInv'
  BY <1>1 DEF ExitInv, ResultInv, Fresh, Told
<1>12. StopInv' /\ VerdictInv' /\ SignalsExplained'
  BY <1>1 DEF StopInv, VerdictInv, SignalsExplained, Mine, Explained, Served, Started, Sidecar!Started
<1>13. EndInv' /\ LaunchInv'
  BY <1>1, <1>3, <1>5, StatusAppended DEF EndInv, Reported, Told, Now, LaunchInv
<1>14. LineInv'
  <2>1. spoken' = spoken /\ fifo \in Seq(Nat) /\ buffer \in Seq(Nat) /\ line \in Nat /\ spoken \in Nat
    BY <1>1 DEF TypeInv, QueuesOK
  <2>2. CASE Sidecar!FillBuffer
    BY <2>1, <2>2, Types, Empty DEF LineInv
  <2>3. CASE Sidecar!ParseSilentLine \/ Sidecar!ParseLine
    <3>1. /\ Head(buffer) \in ToSet(buffer) /\ ToSet(buffer') \subseteq ToSet(buffer)
          /\ Sorted(buffer') /\ \A x \in ToSet(buffer') : Head(buffer) < x
      <4>1. buffer # <<>> /\ buffer' = Tail(buffer) /\ Sorted(buffer)
        BY <2>3 DEF LineInv
      <4>2. Head(buffer) \in ToSet(buffer) /\ ToSet(Tail(buffer)) \subseteq ToSet(buffer)
        BY <2>1, <4>1, Entries
      <4>3. Sorted(Tail(buffer)) /\ \A x \in ToSet(Tail(buffer)) : Head(buffer) < x
        BY <2>1, <4>1, SortedTail
      <4>. QED
        BY <4>1, <4>2, <4>3
    <3>2. fifo' = fifo /\ outputs' = outputs
      BY <2>3
    <3>3. consumer' \in {"running", "outputs"} => line' = Head(buffer)
      BY <2>3
    <3>. HIDE DEF Sidecar!ParseSilentLine, Sidecar!ParseLine
    <3>. QED
      BY <2>1, <3>1, <3>2, <3>3, Types DEF LineInv
  <2>4. CASE Sidecar!PublishOutputs \/ Sidecar!ConsumerFails
    <3>1. /\ fifo' = fifo \/ fifo' = <<>>
          /\ buffer' = buffer \/ buffer' = <<>>
          /\ consumer' \notin {"running", "outputs"}
      BY <2>4
    <3>2. \/ ToSet(outputs') = ToSet(outputs)
          \/ /\ consumer = "outputs"
             /\ ToSet(outputs') = ToSet(outputs) \cup {[run |-> run, line |-> line]}
      BY <1>4, OutputAppended
    <3>. HIDE DEF Sidecar!PublishOutputs, Sidecar!ConsumerFails
    <3>. QED
      BY <2>1, <3>1, <3>2, Types, Empty DEF LineInv
  <2>5. CASE Sidecar!OpenFIFO \/ Sidecar!PublishRunning
    BY <2>1, <2>5 DEF LineInv
  <2>. QED
    BY <2>2, <2>3, <2>4, <2>5 DEF Sidecar!Consume
<1>. QED
  BY <1>2, <1>6, <1>7, <1>8, <1>9, <1>10, <1>11, <1>12, <1>13, <1>14 DEF TypeInv

--------------------------------------------------------------------------------
(* The watcher *)

LEMMA WatchStep == ASSUME IInv, Sidecar!Watch, UNCHANGED agent, asked' = Recorded PROVE IInv'
<1>. USE DEF IInv, agent, Sidecar!SeeTerminal, Sidecar!WatcherCancelled, Sidecar!DecodeFiles,
       Sidecar!StatStop, Sidecar!PublishTerminal, Sidecar!PublishPhase, Sidecar!WatcherFails,
       Sidecar!WatcherGoto, Sidecar!volume, Sidecar!streams, Sidecar!consume, Sidecar!calls,
       Sidecar!Stored, Sidecar!Doubtful, Sidecar!StatusEvent, Sidecar!TerminalEvent
<1>. DEFINE P == Sidecar!PhaseOf(verdict)
<1>1. asked' = asked /\ UNCHANGED <<shell, child, code, spoken, stopWatcher, signal, ready, stop,
        terminal, fifo, reading, writing, run, outputs, app, sigterm, consumer, buffer, line,
        announced, call, force>>
  BY DEF Recorded, Sidecar!Watch
<1>2. LifeInv'
  BY <1>1 DEF LifeInv, Started, Sidecar!Started, Report!Result, Sidecar!Watch
<1>3. /\ Started /\ ~Fresh /\ UNCHANGED <<Fresh, Started, Served>>
      /\ watcher \in {"result", "phase"} => /\ verdict \in Report!Result
                                            /\ P \in Phase \cap Report!TerminalPhase
                                            /\ P = Report!PhaseOf(verdict)
  BY <1>1 DEF LifeInv, Started, Sidecar!Started, Served, Fresh, Phase, Report!Result,
       Report!TerminalPhase, Sidecar!PhaseOf, Report!PhaseOf, Sidecar!Watch
<1>4. \/ statuses' = statuses
      \/ /\ statuses' = Append(statuses, [run |-> run, phase |-> P])
         /\ watcher = "phase" /\ watcher' \in {"done", "failed"}
  BY DEF Sidecar!Watch
<1>5. \/ results' = results
      \/ /\ results' = Append(results, [run |-> run, result |-> verdict])
         /\ watcher = "result" /\ watcher' \in {"phase", "failed"} /\ verdict' = verdict
  BY DEF Sidecar!Watch
<1>. HIDE DEF P
<1>6. \/ ToSet(results') = ToSet(results)
      \/ ToSet(results') = ToSet(results) \cup {[run |-> run, result |-> verdict]}
         /\ watcher = "result" /\ watcher' \in {"phase", "failed"} /\ verdict' = verdict
  BY <1>3, <1>5, ResultAppended
<1>7. StreamsOK'
  BY <1>1, <1>3, <1>4, <1>5, StatusAppended, ResultAppended DEF TypeInv, StreamsOK
<1>8. FlagsOK' /\ CallsOK' /\ QueuesOK'
  BY <1>1 DEF TypeInv, FlagsOK, CallsOK, QueuesOK
<1>9. LabelsOK'
  BY <1>1 DEF TypeInv, LabelsOK, Sidecar!Watch
<1>10. StatusInv'
  <2>1. CASE statuses' = statuses
    <3>1. Watching' => Watching
      BY DEF Watching, Sidecar!Watch
    <3>. QED
      BY <1>1, <1>3, <2>1, <3>1 DEF StatusInv, Now
  <2>2. CASE statuses' = Append(statuses, [run |-> run, phase |-> P]) /\ watcher = "phase" /\ ~Watching'
    <3>1. /\ \A q \in Phase \ {P} : Now(q)' <=> Now(q)
          /\ \A e \in ToSet(statuses') : e \in ToSet(statuses) \/ e.run = run
      BY <1>1, <1>3, <2>2, PhaseAppended
    <3>2. \A e \in ToSet(statuses') : e.run <= run
      BY <1>3, <3>1 DEF StatusInv, TypeInv, StreamsOK
    <3>3. \A q \in {"STARTING", "PARSER_READY", "RUNNING"} : Now(q)' <=> Now(q)
      BY <1>3, <2>2, <3>1 DEF Phase, Report!TerminalPhase
    <3>. QED
      BY <1>1, <1>3, <2>2, <3>2, <3>3 DEF StatusInv
  <2>. QED
    BY <1>4, <2>1, <2>2 DEF Watching
<1>11. ExitInv'
  BY <1>1, <1>5 DEF ExitInv, TypeInv, LabelsOK, Sidecar!Watch
<1>12. ResultInv'
  <2>1. CASE results' = results
    <3>1. CASE watcher' \in {"result", "phase"}
      BY <1>1, <1>3, <2>1, <3>1 DEF ResultInv, Told, Report!Result, ExitInv, Sidecar!Watch
    <3>2. CASE watcher' \notin {"result", "phase"}
      BY <1>1, <1>3, <2>1, <3>2 DEF ResultInv, Told, Sidecar!Watch
    <3>. QED
      BY <3>1, <3>2
  <2>2. CASE ToSet(results') = ToSet(results) \cup {[run |-> run, result |-> verdict]}
               /\ watcher = "result" /\ watcher' \in {"phase", "failed"} /\ verdict' = verdict
    <3>1. terminal \in {"zero", "nonzero"} /\ (verdict = "COMPLETED" <=> terminal = "zero")
      BY <2>2 DEF ResultInv, ExitInv, TypeInv, LabelsOK
    <3>2. \A e \in ToSet(results') : e.run <= run /\ (e.result = "COMPLETED" <=> terminal = "zero")
      BY <1>3, <2>2, <3>1 DEF ResultInv, TypeInv, StreamsOK
    <3>3. Told(verdict)'
      BY <1>1, <2>2 DEF Told
    <3>. HIDE DEF Sidecar!SeeTerminal, Sidecar!WatcherCancelled, Sidecar!DecodeFiles,
           Sidecar!StatStop, Sidecar!PublishTerminal, Sidecar!PublishPhase, Sidecar!WatcherFails
    <3>. QED
      BY <1>1, <1>3, <2>2, <3>1, <3>2, <3>3 DEF ResultInv
  <2>. QED
    BY <1>3, <1>5, <2>1, <2>2, ResultAppended
<1>13. EndInv'
  <2>1. Reported => Reported'
    <3>1. /\ ToSet(statuses) \subseteq ToSet(statuses')
          /\ ToSet(results) \subseteq ToSet(results')
      BY <1>3, <1>4, <1>6, StatusAppended
    <3>. QED
      BY <1>1, <3>1 DEF Reported, Told, Now
  <2>2. CASE watcher' = "done" /\ watcher # "done"
    <3>1. CASE watcher = "tick"
      BY <1>1, <2>2, <3>1 DEF EndInv, Sidecar!Watch
    <3>2. CASE watcher = "phase"
      <4>1. Sidecar!PublishPhase
        BY <2>2, <3>2 DEF Sidecar!Watch
      <4>2. statuses' = Append(statuses, [run |-> run, phase |-> P]) /\ results' = results
        BY <4>1 DEF P
      <4>3. verdict \in Report!Result /\ P \in Phase /\ P = Report!PhaseOf(verdict)
        BY <1>3, <3>2
      <4>4. [run |-> run, phase |-> P] \in ToSet(statuses')
        BY <4>2, <4>3, StatusAppended
      <4>5. [run |-> run, result |-> verdict] \in ToSet(results')
        BY <3>2, <4>2 DEF ResultInv, Told
      <4>. QED
        BY <1>1, <4>3, <4>4, <4>5 DEF EndInv, Reported, Told, Now
    <3>. QED
      BY <2>2, <3>1, <3>2 DEF Sidecar!Watch
  <2>3. CASE ~(watcher' = "done" /\ watcher # "done")
    BY <1>1, <2>1, <2>3 DEF EndInv
  <2>. QED
    BY <2>2, <2>3
<1>14. VerdictInv'
  <2>1. \A r, n : Explained(r, n)' <=> Explained(r, n)
    BY <1>1 DEF Explained, Mine
  <2>2. watcher' \in {"result", "phase"} => Explained(verdict', run)
    <3>1. CASE watcher \in {"result", "phase"}
      BY <3>1 DEF VerdictInv, Sidecar!Watch
    <3>2. CASE watcher \in {"decode", "stat"}
      <4>1. Served
        BY <1>3 DEF Served
      <4>2. stop \in {"none", "plain", "force"}
        BY DEF TypeInv, LabelsOK
      <4>. QED
        BY <3>2, <4>1, <4>2 DEF StopInv, Explained, Sidecar!Watch
    <3>3. CASE watcher = "tick"
      BY <3>3 DEF Sidecar!Watch
    <3>. QED
      BY <3>1, <3>2, <3>3 DEF Sidecar!Watch
  <2>3. \A e \in ToSet(results') : Explained(e.result, e.run)
    BY <1>6 DEF VerdictInv
  <2>. QED
    BY <1>1, <2>1, <2>2, <2>3 DEF VerdictInv, Explained, Mine
<1>15. StopInv' /\ SignalsExplained' /\ LineInv'
  BY <1>1, <1>3 DEF StopInv, SignalsExplained, Mine, LineInv, Sorted
<1>16. LaunchInv'
  BY <1>1, <1>3, <1>4, StatusAppended DEF LaunchInv
<1>. QED
  BY <1>2, <1>7, <1>8, <1>9, <1>10, <1>11, <1>12, <1>13, <1>14, <1>15, <1>16 DEF TypeInv

--------------------------------------------------------------------------------
(* The process begins, and is told to end *)

LEMMA BeginStep ==
  ASSUME IInv, Sidecar!Start \/ Sidecar!New \/ Sidecar!Terminate, UNCHANGED agent, asked' = Recorded
  PROVE  IInv'
<1>. USE DEF IInv, agent, Sidecar!Start, Sidecar!New, Sidecar!Terminate, Sidecar!Up, Sidecar!volume,
       Sidecar!streams, Sidecar!consume, Sidecar!watch, Sidecar!calls
<1>1. asked' = asked /\ UNCHANGED <<shell, child, code, spoken, stopWatcher, signal, terminal, fifo,
        reading, writing, statuses, outputs, results, consumer, buffer, line, announced,
        watcher, verdict, call, force>>
  BY DEF Recorded
<1>2. /\ run' \in {run, run + 1} /\ run \in Nat
      /\ Started' <=> Started
      /\ app' = "new" => run' = run + 1 /\ ~Started /\ ~Fresh
      /\ run' # run => app' = "new"
      /\ Fresh' => ~Started
      /\ Fresh /\ run' = run => Fresh'
  BY DEF Started, Sidecar!Started, Fresh, TypeInv, StreamsOK, LabelsOK
<1>3. StreamsOK'
  BY <1>1, <1>2 DEF TypeInv, StreamsOK
<1>4. FlagsOK' /\ CallsOK' /\ QueuesOK'
  BY <1>1 DEF TypeInv, FlagsOK, CallsOK, QueuesOK
<1>5. LabelsOK'
  BY <1>1 DEF TypeInv, LabelsOK
<1>6. LifeInv'
  BY <1>1, <1>2 DEF LifeInv
<1>7. \A e \in ToSet(statuses) : e.run \in Nat
  BY Types
<1>8. \A e \in ToSet(results) : e.run \in Nat
  BY Types
<1>9. StatusInv'
  BY <1>1, <1>2, <1>7 DEF StatusInv, LifeInv, Started, Sidecar!Started, Fresh, Watching, Now
<1>10. ExitInv'
  BY <1>1 DEF ExitInv
<1>11. ResultInv'
  BY <1>1, <1>2, <1>8 DEF ResultInv, LifeInv, Started, Sidecar!Started, Fresh, Told
<1>12. EndInv'
  BY <1>1, <1>2 DEF EndInv, LifeInv, Started, Sidecar!Started, Reported, Told, Now
<1>13. \A a \in asked : a.run \in Nat /\ a.run <= run
  BY DEF TypeInv, StreamsOK, StopInv
<1>14. StopInv'
  BY <1>1, <1>2, <1>13 DEF StopInv, Mine, Served, Started, Sidecar!Started
<1>15. VerdictInv'
  BY <1>1, <1>2 DEF VerdictInv, Explained, Mine, LifeInv, Started, Sidecar!Started
<1>16. LineInv' /\ LaunchInv' /\ SignalsExplained'
  BY <1>1 DEF LineInv, Sorted, LaunchInv, SignalsExplained
<1>. QED
  BY <1>3, <1>4, <1>5, <1>6, <1>9, <1>10, <1>11, <1>12, <1>14, <1>15, <1>16 DEF TypeInv

(* Run up to its select. *)
LEMMA ReadyStep ==
  ASSUME IInv, Sidecar!PublishStarting \/ Sidecar!WriteReady \/ Sidecar!PublishParserReady,
         UNCHANGED agent, asked' = Recorded
  PROVE  IInv'
<1>. USE DEF IInv, agent, Sidecar!PublishStarting, Sidecar!WriteReady, Sidecar!PublishParserReady,
       Sidecar!volume, Sidecar!streams, Sidecar!consume, Sidecar!watch, Sidecar!calls,
       Sidecar!Stored, Sidecar!StatusEvent
<1>1. asked' = asked /\ UNCHANGED <<shell, child, code, spoken, stopWatcher, signal, stop, terminal,
        fifo, reading, writing, run, outputs, results, sigterm, buffer, line, announced, verdict,
        call, force>>
  BY DEF Recorded
<1>2. Started' /\ Served /\ Served' /\ ~Fresh'
  BY DEF Started, Sidecar!Started, Served, Fresh
<1>3. {"STARTING", "PARSER_READY"} \subseteq Phase
  BY DEF Phase
<1>4. ToSet(statuses) \subseteq ToSet(statuses') /\ statuses' \in Seq([run : Nat, phase : Phase])
  BY <1>3, StatusAppended DEF TypeInv, StreamsOK
<1>5. StreamsOK'
  BY <1>1, <1>4 DEF TypeInv, StreamsOK
<1>6. FlagsOK' /\ CallsOK' /\ QueuesOK'
  BY <1>1 DEF TypeInv, FlagsOK, CallsOK, QueuesOK
<1>7. LabelsOK'
  BY DEF TypeInv, LabelsOK
<1>8. LifeInv'
  BY <1>1, <1>2 DEF LifeInv, Started, Sidecar!Started
<1>9. StatusInv'
  <2>1. CASE Sidecar!PublishStarting
    <3>1. Fresh /\ consumer' = "open" /\ ~announced'
      BY <1>1, <2>1 DEF Fresh, LifeInv, Started, Sidecar!Started
    <3>2. \A q \in Phase : ~Now(q)
      <4>1. \A e \in ToSet(statuses) : e.run # run
        BY <3>1, Types DEF StatusInv, TypeInv, StreamsOK
      <4>. QED
        BY <4>1 DEF Now
    <3>3. /\ Now("STARTING")' /\ \A q \in Phase \ {"STARTING"} : Now(q)' <=> Now(q)
          /\ \A e \in ToSet(statuses') : e \in ToSet(statuses) \/ e.run = run
      BY <1>1, <1>3, <2>1, PhaseAppended
    <3>4. \A e \in ToSet(statuses') : e.run <= run'
      BY <1>1, <3>1, <3>3, Types DEF StatusInv, TypeInv, StreamsOK
    <3>5. \A q \in Report!TerminalPhase \cup {"PARSER_READY", "RUNNING"} : ~Now(q)'
      BY <3>2, <3>3 DEF Phase, Report!TerminalPhase
    <3>. QED
      BY <1>2, <3>1, <3>3, <3>4, <3>5 DEF StatusInv
  <2>2. CASE Sidecar!WriteReady
    BY <1>1, <2>2 DEF StatusInv, Started, Sidecar!Started, Fresh, Watching, Now
  <2>3. CASE Sidecar!PublishParserReady
    <3>1. Started /\ ~Fresh /\ app' = "select" /\ UNCHANGED <<announced, consumer, watcher>>
      BY <1>1, <2>3 DEF Started, Sidecar!Started, Fresh
    <3>2. /\ \A q \in Phase \ {"PARSER_READY"} : Now(q)' <=> Now(q)
          /\ \A e \in ToSet(statuses') : e \in ToSet(statuses) \/ e.run = run
      BY <1>1, <1>3, <2>3, PhaseAppended
    <3>3. \A e \in ToSet(statuses') : e.run <= run'
      BY <1>1, <3>1, <3>2 DEF StatusInv, TypeInv, StreamsOK
    <3>4. \A q \in Report!TerminalPhase \cup {"STARTING", "RUNNING"} : Now(q)' <=> Now(q)
      BY <3>2 DEF Phase, Report!TerminalPhase
    <3>. QED
      BY <1>2, <3>1, <3>3, <3>4 DEF StatusInv, Watching
  <2>. QED
    BY <2>1, <2>2, <2>3
<1>10. ExitInv'
  BY <1>1 DEF ExitInv
<1>11. ResultInv'
  <2>1. CASE Sidecar!PublishStarting
    <3>1. Fresh
      BY <2>1 DEF Fresh
    <3>2. \A e \in ToSet(results) : e.run < run /\ e.run \in Nat /\ run \in Nat
      BY <3>1, Types DEF ResultInv, TypeInv, StreamsOK
    <3>3. \A r \in Report!Result : ~Told(r)'
      BY <1>1, <3>2 DEF Told
    <3>4. \A e \in ToSet(results') : e.run <= run'
      BY <1>1, <3>2
    <3>. QED
      BY <1>1, <1>2, <2>1, <3>3, <3>4 DEF ResultInv
  <2>2. CASE Sidecar!WriteReady \/ Sidecar!PublishParserReady
    BY <1>1, <2>2 DEF ResultInv, Fresh, Told
  <2>. QED
    BY <2>1, <2>2
<1>12. EndInv'
  BY <1>1, <1>4 DEF EndInv, Reported, Told, Now
<1>13. StopInv' /\ VerdictInv'
  BY <1>1, <1>2 DEF StopInv, VerdictInv, Explained, Mine
<1>14. LaunchInv'
  <2>1. CASE Sidecar!WriteReady
    <3>1. Now("STARTING")
      BY <2>1 DEF StatusInv, Started, Sidecar!Started
    <3>. QED
      BY <1>1, <1>4, <3>1 DEF LaunchInv, Now
  <2>2. CASE Sidecar!PublishStarting \/ Sidecar!PublishParserReady
    BY <1>1, <1>4, <2>2 DEF LaunchInv
  <2>. QED
    BY <2>1, <2>2
<1>15. LineInv' /\ SignalsExplained'
  <2>1. consumer' = consumer \/ consumer' = "open"
    OBVIOUS
  <2>. QED
    BY <1>1, <2>1 DEF LineInv, Sorted, SignalsExplained
<1>. QED
  BY <1>5, <1>6, <1>7, <1>8, <1>9, <1>10, <1>11, <1>12, <1>13, <1>14, <1>15 DEF TypeInv

(* The process ends. *)
LEMMA EndStep ==
  ASSUME IInv, \/ Sidecar!StartupFails \/ Sidecar!SelectError \/ Sidecar!SelectShutdown
               \/ Sidecar!Close \/ Sidecar!Exit \/ Sidecar!Crash,
         UNCHANGED agent, asked' = Recorded
  PROVE  IInv'
<1>. USE DEF IInv, agent, Sidecar!Doubtful, Sidecar!StatusEvent
<1>. DEFINE Dies == /\ app' \in {"down", "exited"} /\ consumer' = "down" /\ watcher' = "down"
                    /\ sigterm' = FALSE /\ announced' = FALSE /\ verdict' = "none" /\ line' = 0
                    /\ buffer' = <<>> /\ reading' = FALSE /\ fifo' \in {fifo, <<>>}
                    /\ ready' \in {ready, FALSE}
                    /\ call' = [p \in Stoppers |->
                                  IF call[p] \in {"write", "status"} THEN "error" ELSE call[p]]
           Leaves == /\ app' \in {"close", "drain"} /\ Started
                     /\ (sigterm \/ watcher = "done" \/ app \in {"close", "drain"})
                     /\ UNCHANGED <<consumer, watcher, sigterm, announced, verdict, line, buffer,
                                    reading, fifo, ready, call, statuses>>
<1>1. UNCHANGED <<shell, child, code, spoken, stopWatcher, signal, stop, terminal,
        writing, run, outputs, results, force>>
  BY DEF Sidecar!StartupFails, Sidecar!SelectError, Sidecar!SelectShutdown, Sidecar!Close,
       Sidecar!Exit, Sidecar!Crash, Sidecar!Die, Sidecar!volume, Sidecar!streams, Sidecar!calls
<1>2. Dies \/ Leaves
  BY DEF Sidecar!StartupFails, Sidecar!SelectError, Sidecar!SelectShutdown, Sidecar!Close,
       Sidecar!Exit, Sidecar!Crash, Sidecar!Die, Sidecar!ClosePipe, Sidecar!volume,
       Sidecar!streams, Sidecar!consume, Sidecar!watch, Sidecar!calls, Started, Sidecar!Started
<1>3. \/ statuses' = statuses
      \/ \E phase \in {"STARTING", "PARSER_READY"} :
           statuses' = Append(statuses, [run |-> run, phase |-> phase])
  BY DEF Sidecar!StartupFails, Sidecar!SelectError, Sidecar!SelectShutdown, Sidecar!Close,
       Sidecar!Exit, Sidecar!Crash, Sidecar!Die, Sidecar!streams
<1>4. {"STARTING", "PARSER_READY"} \subseteq Phase
  BY DEF Phase
<1>5. /\ statuses' \in Seq([run : Nat, phase : Phase])
      /\ ToSet(statuses) \subseteq ToSet(statuses')
      /\ \A e \in ToSet(statuses') : e \in ToSet(statuses) \/ e.run = run
  <2>1. CASE statuses' = statuses
    BY <2>1 DEF TypeInv, StreamsOK
  <2>2. ASSUME NEW phase \in {"STARTING", "PARSER_READY"},
               statuses' = Append(statuses, [run |-> run, phase |-> phase])
        PROVE  /\ statuses' \in Seq([run : Nat, phase : Phase])
               /\ ToSet(statuses) \subseteq ToSet(statuses')
               /\ \A e \in ToSet(statuses') : e \in ToSet(statuses) \/ e.run = run
    <3>1. ToSet(statuses') = ToSet(statuses) \cup {[run |-> run, phase |-> phase]}
          /\ statuses' \in Seq([run : Nat, phase : Phase])
      BY <1>4, <2>2, StatusAppended
    <3>. QED
      BY <3>1
  <2>. QED
    BY <1>3, <2>1, <2>2
<1>6. asked' = asked
  BY <1>2 DEF Recorded
<1>7. StreamsOK'
  BY <1>1, <1>5, <1>6 DEF TypeInv, StreamsOK
<1>8. FlagsOK'
  BY <1>1, <1>2 DEF TypeInv, FlagsOK
<1>9. QueuesOK'
  <2>1. fifo \in Seq(Nat) /\ buffer \in Seq(Nat) /\ line \in Nat /\ spoken \in Nat /\ <<>> \in Seq(Nat)
    BY Empty DEF TypeInv, QueuesOK
  <2>2. fifo' \in {fifo, <<>>} /\ buffer' \in {buffer, <<>>} /\ line' \in {line, 0} /\ spoken' = spoken
    BY <1>1, <1>2
  <2>3. fifo' \in Seq(Nat)
    BY <2>1, <2>2
  <2>4. buffer' \in Seq(Nat)
    BY <2>1, <2>2
  <2>5. line' \in Nat /\ spoken' \in Nat
    BY <2>1, <2>2
  <2>. QED
    BY <2>3, <2>4, <2>5 DEF QueuesOK
<1>10. CallsOK'
  BY <1>1, <1>2 DEF TypeInv, CallsOK
<1>11. LabelsOK'
  BY <1>1, <1>2 DEF TypeInv, LabelsOK
<1>12. CASE Dies
  <2>1. ~Started' /\ ~Served' /\ ~Fresh'
    BY <1>12 DEF Started, Sidecar!Started, Served, Fresh
  <2>2. LifeInv'
    BY <1>1, <1>12, <2>1 DEF LifeInv, TypeInv, CallsOK
  <2>3. \A e \in ToSet(statuses') : e.run <= run'
    <3>1. \A e \in ToSet(statuses) : e.run <= run
      BY Types DEF StatusInv, TypeInv, StreamsOK
    <3>. QED
      BY <1>1, <1>5, <3>1 DEF TypeInv, StreamsOK
  <2>4. StatusInv'
    BY <1>12, <2>1, <2>3 DEF StatusInv, Watching
  <2>5. ExitInv'
    BY <1>1, <1>12 DEF ExitInv
  <2>6. \A e \in ToSet(results) : e.run <= run
    BY Types DEF ResultInv, TypeInv, StreamsOK
  <2>7. ResultInv'
    BY <1>1, <1>12, <2>1, <2>6 DEF ResultInv
  <2>8. EndInv' /\ StopInv' /\ VerdictInv'
    BY <1>1, <1>6, <1>12, <2>1 DEF EndInv, StopInv, VerdictInv, Explained, Mine
  <2>9. LineInv'
    BY <1>1, <1>12, Empty DEF LineInv, Sorted
  <2>10. LaunchInv' /\ SignalsExplained'
    <3>1. ready' => ready
      <4>1. CASE ready' = ready
        BY <4>1
      <4>2. CASE ready' = FALSE
        BY <4>2
      <4>. QED
        BY <1>12, <4>1, <4>2
    <3>2. LaunchInv'
      BY <1>1, <1>5, <3>1 DEF LaunchInv
    <3>3. SignalsExplained'
      BY <1>1, <1>6 DEF SignalsExplained
    <3>. QED
      BY <3>2, <3>3
  <2>. QED
    BY <1>7, <1>8, <1>9, <1>10, <1>11, <2>2, <2>4, <2>5, <2>7, <2>8, <2>9, <2>10 DEF TypeInv
<1>13. CASE Leaves
  <2>1. Started' /\ Served /\ Served' /\ ~Fresh /\ ~Fresh'
    BY <1>13 DEF Started, Sidecar!Started, Served, Fresh
  <2>2. LifeInv' /\ ExitInv'
    BY <1>1, <1>13, <2>1 DEF LifeInv, ExitInv
  <2>3. StatusInv'
    BY <1>1, <1>13, <2>1 DEF StatusInv, Watching, Now
  <2>4. ResultInv'
    BY <1>1, <1>13, <2>1 DEF ResultInv, Told
  <2>5. EndInv'
    BY <1>1, <1>13 DEF EndInv, Reported, Told, Now
  <2>6. StopInv' /\ VerdictInv' /\ SignalsExplained'
    BY <1>1, <1>6, <1>13, <2>1 DEF StopInv, VerdictInv, Explained, Mine, SignalsExplained
  <2>7. LineInv' /\ LaunchInv'
    BY <1>1, <1>13 DEF LineInv, Sorted, LaunchInv
  <2>. QED
    BY <1>7, <1>8, <1>9, <1>10, <1>11, <2>2, <2>3, <2>4, <2>5, <2>6, <2>7 DEF TypeInv
<1>. QED
  BY <1>2, <1>12, <1>13

--------------------------------------------------------------------------------
(* The Stop calls *)

LEMMA StopStep ==
  ASSUME IInv, NEW p \in Stoppers, Sidecar!CallStop(p) \/ Sidecar!Stop(p),
         UNCHANGED agent, asked' = Recorded
  PROVE  IInv'
<1>. USE DEF IInv, agent, Sidecar!Stop, Sidecar!CallStop, Sidecar!WriteStop,
       Sidecar!PublishStopping, Sidecar!StopFails, Sidecar!CallGoto, Sidecar!volume,
       Sidecar!streams, Sidecar!consume, Sidecar!watch, Sidecar!Stored, Sidecar!Doubtful,
       Sidecar!StatusEvent
<1>. DEFINE e == [run |-> run, force |-> force[p], early |-> terminal = "none"]
<1>1. UNCHANGED <<shell, child, code, spoken, stopWatcher, signal, ready, terminal, fifo, reading,
        writing, run, outputs, results, app, sigterm, consumer, buffer, line, announced, watcher,
        verdict>>
  OBVIOUS
<1>2. Started /\ Started' /\ Served /\ Served' /\ ~Fresh /\ ~Fresh'
  BY <1>1 DEF LifeInv, Started, Sidecar!Started, Served, Fresh
<1>3. \/ asked' = asked /\ stop' = stop
      \/ /\ asked' = asked \cup {e} /\ stop' = IF force[p] THEN "force" ELSE "plain"
         /\ statuses' = statuses
  <2>1. call \in [Stoppers -> {"idle", "write", "status", "accepted", "error"}]
    BY DEF TypeInv, CallsOK
  <2>2. CASE Sidecar!WriteStop(p)
    <3>1. {q \in Stoppers : call[q] = "write" /\ call'[q] = "status"} = {p}
      BY <2>1, <2>2
    <3>. QED
      BY <2>2, <3>1 DEF Recorded
  <2>3. CASE ~Sidecar!WriteStop(p)
    <3>1. {q \in Stoppers : call[q] = "write" /\ call'[q] = "status"} = {}
      BY <2>1, <2>3
    <3>. QED
      BY <2>3, <3>1 DEF Recorded
  <2>. QED
    BY <2>2, <2>3
<1>4. \/ statuses' = statuses
      \/ statuses' = Append(statuses, [run |-> run, phase |-> "STOPPING"])
  OBVIOUS
<1>5. "STOPPING" \in Phase
  BY DEF Phase
<1>6. /\ statuses' \in Seq([run : Nat, phase : Phase])
      /\ ToSet(statuses) \subseteq ToSet(statuses')
      /\ \A s \in ToSet(statuses') : s \in ToSet(statuses) \/ s.run = run
      /\ \A q \in Phase \ {"STOPPING"} : Now(q)' <=> Now(q)
  BY <1>1, <1>4, <1>5, StatusAppended, PhaseAppended DEF TypeInv, StreamsOK, Now
<1>7. CallsOK'
  BY DEF TypeInv, CallsOK
<1>8. LifeInv'
  BY <1>1, <1>2 DEF LifeInv
<1>9. LabelsOK'
  BY <1>1, <1>3 DEF TypeInv, LabelsOK
<1>10. FlagsOK' /\ QueuesOK'
  BY <1>1 DEF TypeInv, FlagsOK, QueuesOK
<1>11. e \in [run : Nat, force : BOOLEAN, early : BOOLEAN]
  BY DEF TypeInv, StreamsOK, CallsOK
<1>. HIDE DEF Sidecar!Stop, Sidecar!CallStop, Sidecar!WriteStop, Sidecar!PublishStopping,
       Sidecar!StopFails
<1>12. StreamsOK'
  BY <1>1, <1>3, <1>6, <1>11 DEF TypeInv, StreamsOK
<1>13. StatusInv'
  <2>1. \A s \in ToSet(statuses') : s.run <= run'
    BY <1>1, <1>2, <1>6, Types DEF StatusInv, TypeInv, StreamsOK
  <2>2. \A q \in Report!TerminalPhase \cup {"STARTING", "PARSER_READY", "RUNNING"} : Now(q)' <=> Now(q)
    BY <1>6 DEF Phase, Report!TerminalPhase
  <2>. QED
    BY <1>1, <1>2, <2>1, <2>2 DEF StatusInv, Watching
<1>14. ExitInv' /\ ResultInv'
  BY <1>1, <1>2 DEF ExitInv, ResultInv, Told
<1>15. EndInv' /\ LaunchInv'
  BY <1>1, <1>6 DEF EndInv, Reported, Told, Now, LaunchInv
<1>16. StopInv' /\ SignalsExplained'
  <2>1. CASE asked' = asked /\ stop' = stop
    BY <1>1, <1>2, <2>1 DEF StopInv, SignalsExplained, Mine
  <2>2. CASE asked' = asked \cup {e} /\ stop' = IF force[p] THEN "force" ELSE "plain"
    <3>1. e.run = run /\ e.force = force[p] /\ run \in Nat /\ e \in asked'
      BY <2>2 DEF TypeInv, StreamsOK
    <3>2. e \in Mine(run)'
      BY <1>1, <3>1 DEF Mine
    <3>3. force[p] \in BOOLEAN
      BY DEF TypeInv, CallsOK
    <3>. HIDE DEF e
    <3>4. \A a \in asked' : a.run <= run'
      BY <1>1, <2>2, <3>1 DEF StopInv
    <3>5. Mine(run)' # {} /\ asked' # {} /\ stop' # "none"
      BY <2>2, <3>2, <3>1
    <3>6. stop' = "force" => \E a \in Mine(run)' : a.force
      BY <2>2, <3>1, <3>2
    <3>7. stop' = "force" => \E a \in asked' : a.force
      BY <2>2, <3>1
    <3>8. StopInv'
      BY <1>1, <1>2, <3>4, <3>5, <3>6, <3>7 DEF StopInv, Served, Started, Sidecar!Started
    <3>9. SignalsExplained'
      BY <1>1, <2>2 DEF SignalsExplained
    <3>. QED
      BY <3>8, <3>9
  <2>. QED
    BY <1>3, <2>1, <2>2
<1>17. VerdictInv'
  <2>1. CASE asked' = asked
    BY <1>1, <2>1 DEF VerdictInv, Explained, Mine
  <2>2. CASE asked' = asked \cup {e}
    <3>1. watcher \in {"result", "phase"} \/ results # <<>> => ~e.early
      BY DEF ExitInv
    <3>2. ToSet(results) # {} => results # <<>>
      BY Empty
    <3>. HIDE DEF e
    <3>3. ASSUME NEW r, NEW n, Explained(r, n), ~e.early PROVE Explained(r, n)'
      BY <2>2, <3>3 DEF Explained, Mine
    <3>. QED
      BY <1>1, <3>1, <3>2, <3>3 DEF VerdictInv
  <2>. QED
    BY <1>3, <2>1, <2>2
<1>18. LineInv'
  BY <1>1 DEF LineInv, Sorted
<1>. QED
  BY <1>7, <1>8, <1>9, <1>10, <1>12, <1>13, <1>14, <1>15, <1>16, <1>17, <1>18 DEF TypeInv

--------------------------------------------------------------------------------
(* The invariant holds *)

LEMMA NextInv == IInv /\ [Next]_vars => IInv'
<1>1. ASSUME IInv, UNCHANGED vars PROVE IInv'
  <2>. USE <1>1 DEF IInv, vars, volume, sidecar, agent
  <2>1. TypeInv'
    BY DEF TypeInv, StreamsOK, FlagsOK, QueuesOK, CallsOK, LabelsOK
  <2>2. LifeInv' /\ StatusInv' /\ ExitInv' /\ ResultInv' /\ EndInv'
    BY DEF LifeInv, StatusInv, ExitInv, ResultInv, EndInv, Started, Sidecar!Started, Fresh,
         Watching, Now, Told, Reported
  <2>3. StopInv' /\ VerdictInv' /\ LineInv' /\ LaunchInv' /\ SignalsExplained'
    BY DEF StopInv, VerdictInv, LineInv, LaunchInv, SignalsExplained, Mine, Explained, Sorted,
         Served, Started, Sidecar!Started
  <2>. QED
    BY <2>1, <2>2, <2>3
<1>2. ASSUME IInv, Agent!Next, UNCHANGED sidecar, asked' = Recorded PROVE IInv'
  BY <1>2, AgentStep
<1>3. ASSUME IInv, Sidecar!Next, UNCHANGED agent, asked' = Recorded PROVE IInv'
  BY <1>3, BeginStep, ReadyStep, EndStep, ConsumeStep, WatchStep, StopStep DEF Sidecar!Next, Sidecar!Run
<1>. QED
  BY <1>1, <1>2, <1>3 DEF Next

LEMMA Invariance == Spec => []IInv
BY InitInv, NextInv, PTL DEF Spec

(* Type correctness of the whole run.                                      *)
THEOREM TypeCorrect == Spec => []TypeOK
<1>1. IInv => TypeOK
  BY TypeOfParts DEF IInv
<1>. QED
  BY <1>1, Invariance, PTL

(* The entries of a stream by their index.                                 *)
LEMMA Entry == ASSUME NEW S, NEW s \in Seq(S)
               PROVE  \A e : e \in ToSet(s) <=> \E i \in 1..Len(s) : s[i] = e
BY DEF ToSet

LEMMA StatusEntry == ASSUME TypeInv
                     PROVE  \A e : e \in ToSet(statuses) <=> \E i \in 1..Len(statuses) : statuses[i] = e
<1>1. statuses \in Seq([run : Nat, phase : Phase])
  BY DEF TypeInv, StreamsOK
<1>. QED
  BY <1>1, Entry

LEMMA ResultEntry == ASSUME TypeInv
                     PROVE  \A e : e \in ToSet(results) <=> \E i \in 1..Len(results) : results[i] = e
<1>1. results \in Seq([run : Nat, result : Report!Result])
  BY DEF TypeInv, StreamsOK
<1>. QED
  BY <1>1, Entry

(* However often the sidecar fails and restarts, it leaves by itself only  *)
(* after it has stored a result and the status phase that goes with it.    *)
THEOREM ReportedBeforeExitCorrect == Spec => []ReportedBeforeExit
<1>1. ASSUME IInv PROVE ReportedBeforeExit
  <2>. SUFFICES ASSUME app \in {"close", "drain"}, ~sigterm
                PROVE  \E i \in 1..Len(results) :
                         /\ results[i].run = run
                         /\ \E j \in 1..Len(statuses) :
                              statuses[j] = [run |-> run, phase |-> Report!PhaseOf(results[i].result)]
    BY DEF ReportedBeforeExit
  <2>1. PICK r \in Report!Result : Told(r) /\ Now(Report!PhaseOf(r))
    BY <1>1 DEF IInv, EndInv, Reported
  <2>2. PICK i \in 1..Len(results) : results[i] = [run |-> run, result |-> r]
    BY <1>1, <2>1, ResultEntry DEF IInv, Told
  <2>3. PICK j \in 1..Len(statuses) : statuses[j] = [run |-> run, phase |-> Report!PhaseOf(r)]
    BY <1>1, <2>1, StatusEntry DEF IInv, Now
  <2>. QED
    BY <2>2, <2>3
<1>. QED
  BY <1>1, Invariance, PTL

(* The CLI runs only if some incarnation has announced the run.            *)
THEOREM LaunchedOnlyWhenReadyCorrect == Spec => []LaunchedOnlyWhenReady
<1>1. IInv => LaunchedOnlyWhenReady
  BY StatusEntry DEF IInv, LaunchInv, LaunchedOnlyWhenReady
<1>. QED
  BY <1>1, Invariance, PTL

(* Signals come from Stop calls, SIGTERM from a forced one.                *)
THEOREM SignalsExplainedCorrect == Spec => []SignalsExplained
<1>1. IInv => SignalsExplained
  BY DEF IInv
<1>. QED
  BY <1>1, Invariance, PTL

(* Every result is the truth about the exit code and the Stop calls made   *)
(* to its incarnation.                                                     *)
THEOREM ResultsExplainedCorrect == Spec => []ResultsExplained
<1>1. ASSUME IInv PROVE ResultsExplained
  <2>. SUFFICES ASSUME NEW i \in 1..Len(results)
                PROVE  LET r == results[i]
                           mine == {a \in asked : a.run = r.run}
                       IN  /\ r.result = "COMPLETED" <=> code = "zero"
                           /\ r.result = "INTERRUPTED" => \E a \in mine : a.force
                           /\ r.result = "CANCELLED" => mine # {}
                           /\ r.result = "FAILED" => \A a \in mine : ~a.early
    BY DEF ResultsExplained
  <2>. DEFINE r == results[i]
  <2>1. r \in ToSet(results)
    BY <1>1, ResultEntry DEF IInv
  <2>2. results # <<>>
    BY <2>1, Empty
  <2>3. r.result = "COMPLETED" <=> code = "zero"
    BY <1>1, <2>1, <2>2 DEF IInv, ResultInv, ExitInv
  <2>4. Explained(r.result, r.run)
    BY <1>1, <2>1 DEF IInv, VerdictInv
  <2>. QED
    BY <2>3, <2>4 DEF Explained, Mine
<1>. QED
  BY <1>1, Invariance, PTL

--------------------------------------------------------------------------------
(* The run implements RunReport *)

LEMMA SaidNow == ASSUME TypeInv, NEW S \in SUBSET Phase
                 PROVE  Report!Said(S) <=> \E q \in S : Now(q)
<1>. DEFINE E == [run : Nat, phase : Phase]
<1>0. statuses \in Seq(E)
  BY DEF TypeInv, StreamsOK
<1>. HIDE DEF E
<1>1. \A i \in 1..Len(statuses) : statuses[i] \in E
  BY <1>0
<1>. USE DEF E
<1>2. ASSUME Report!Said(S) PROVE \E q \in S : Now(q)
  <2>1. PICK i \in 1..Len(statuses) : statuses[i].run = run /\ statuses[i].phase \in S
    BY <1>2 DEF Report!Said
  <2>2. statuses[i] = [run |-> run, phase |-> statuses[i].phase]
    BY <1>1, <2>1
  <2>. QED
    BY <2>1, <2>2, StatusEntry DEF Now
<1>3. ASSUME NEW q \in S, Now(q) PROVE Report!Said(S)
  <2>1. PICK i \in 1..Len(statuses) : statuses[i] = [run |-> run, phase |-> q]
    BY <1>3, StatusEntry DEF Now
  <2>. QED
    BY <2>1 DEF Report!Said
<1>. QED
  BY <1>2, <1>3

LEMMA ConcludedTold == ASSUME TypeInv, NEW R \in SUBSET Report!Result
                       PROVE  Report!Concluded(R) <=> \E r \in R : Told(r)
<1>. DEFINE E == [run : Nat, result : Report!Result]
<1>0. results \in Seq(E)
  BY DEF TypeInv, StreamsOK
<1>. HIDE DEF E
<1>1. \A i \in 1..Len(results) : results[i] \in E
  BY <1>0
<1>. USE DEF E
<1>2. ASSUME Report!Concluded(R) PROVE \E r \in R : Told(r)
  <2>1. PICK i \in 1..Len(results) : results[i].run = run /\ results[i].result \in R
    BY <1>2 DEF Report!Concluded
  <2>2. results[i] = [run |-> run, result |-> results[i].result]
    BY <1>1, <2>1
  <2>. QED
    BY <2>1, <2>2, ResultEntry DEF Told
<1>3. ASSUME NEW r \in R, Told(r) PROVE Report!Concluded(R)
  <2>1. PICK i \in 1..Len(results) : results[i] = [run |-> run, result |-> r]
    BY <1>3, ResultEntry DEF Told
  <2>. QED
    BY <2>1 DEF Report!Concluded
<1>. QED
  BY <1>2, <1>3

(* A status may be published where the abstract report allows its phase.   *)
LEMMA StatusAllowed ==
  ASSUME IInv, NEW phase \in Phase,
         statuses' = Append(statuses, [run |-> run, phase |-> phase]),
         UNCHANGED <<run, outputs, results>>,
         \/ phase = "STARTING" /\ app = "starting"
         \/ phase = "PARSER_READY" /\ app = "parserReady"
         \/ phase = "RUNNING" /\ consumer = "running"
         \/ phase = "STOPPING" /\ Started
         \/ watcher = "phase" /\ phase = Report!PhaseOf(verdict)
  PROVE  Report!Next
<1>. USE DEF IInv
<1>1. /\ Report!Said({"STARTING"}) <=> Now("STARTING")
      /\ Report!Said({"PARSER_READY"}) <=> Now("PARSER_READY")
      /\ Report!Said({"RUNNING"}) <=> Now("RUNNING")
      /\ Report!Said(Report!TerminalPhase) <=> \E q \in Report!TerminalPhase : Now(q)
  <2>. HIDE DEF IInv
  <2>1. TypeInv
    BY DEF IInv
  <2>2. {"STARTING"} \subseteq Phase /\ {"PARSER_READY"} \subseteq Phase /\ {"RUNNING"} \subseteq Phase
        /\ Report!TerminalPhase \subseteq Phase
    BY DEF Phase
  <2>. QED
    BY <2>1, <2>2, SaidNow
<1>2. Report!MayFollow(phase)
  <2>1. CASE phase = "STARTING" /\ app = "starting"
    <3>1. \A e \in ToSet(statuses) : e.run < run /\ run \in Nat
      BY <2>1 DEF StatusInv, Fresh, TypeInv, StreamsOK
    <3>2. ~Now("STARTING")
      BY <3>1 DEF Now
    <3>. QED
      BY <1>1, <2>1, <3>2 DEF Report!MayFollow
  <2>2. CASE phase = "PARSER_READY" /\ app = "parserReady"
    BY <1>1, <2>2 DEF Report!MayFollow, StatusInv, Started, Sidecar!Started
  <2>3. CASE phase = "RUNNING" /\ consumer = "running"
    BY <1>1, <2>3 DEF Report!MayFollow, StatusInv, LifeInv
  <2>4. CASE phase = "STOPPING" /\ Started
    BY <1>1, <2>4 DEF Report!MayFollow, StatusInv
  <2>5. CASE watcher = "phase" /\ phase = Report!PhaseOf(verdict)
    <3>1. verdict \in Report!Result /\ Told(verdict) /\ \A q \in Report!TerminalPhase : ~Now(q)
      BY <2>5 DEF LifeInv, ResultInv, StatusInv, Watching
    <3>2. Report!Concluded({verdict})
      BY <3>1, ConcludedTold
    <3>3. phase \in Report!TerminalPhase
      BY <2>5, <3>1 DEF Report!PhaseOf, Report!Result, Report!TerminalPhase
    <3>4. phase \notin {"STARTING", "PARSER_READY", "RUNNING", "STOPPING"}
      BY <3>3 DEF Report!TerminalPhase
    <3>. QED
      BY <1>1, <2>5, <3>1, <3>2, <3>4 DEF Report!MayFollow
  <2>. QED
    BY <2>1, <2>2, <2>3, <2>4, <2>5
<1>. QED
  BY <1>2 DEF Report!Next, Report!Status, Phase

(* So are the outputs of a line ...                                        *)
LEMMA OutputAllowed ==
  ASSUME IInv, consumer = "outputs", outputs' = Append(outputs, [run |-> run, line |-> line]),
         UNCHANGED <<run, statuses, results>>
  PROVE  Report!Next
<1>. USE DEF IInv
<1>. DEFINE o == [run |-> run, line |-> line]
<1>1. outputs \in Seq([run : Nat, line : Nat])
  BY DEF TypeInv, StreamsOK
<1>2. Len(outputs') = Len(outputs) + 1 /\ outputs'[Len(outputs')] = o
  BY <1>1
<1>3. Report!Said({"RUNNING"})
  BY SaidNow DEF LifeInv, StatusInv, Phase
<1>4. ASSUME Len(outputs) > 0 PROVE outputs[Len(outputs)].line < line
  <2>1. outputs[Len(outputs)] \in ToSet(outputs)
    BY <1>1, <1>4, Entry
  <2>. QED
    BY <2>1 DEF LineInv
<1>5. ASSUME Len(outputs) > 0 PROVE o.line > outputs[Len(outputs)].line
  <2>1. line \in Nat
    BY DEF TypeInv, QueuesOK
  <2>2. outputs[Len(outputs)] \in ToSet(outputs)
    BY <1>1, <1>5, Entry
  <2>3. outputs[Len(outputs)].line \in Nat
    BY <2>2, Types
  <2>4. o.line = line
    OBVIOUS
  <2>. HIDE DEF IInv
  <2>. QED
    BY <1>4, <1>5, <2>1, <2>3, <2>4
<1>. QED
  BY <1>2, <1>3, <1>5 DEF Report!Next, Report!Output

(* ... and the result.                                                     *)
LEMMA ResultAllowed ==
  ASSUME IInv, watcher = "result", results' = Append(results, [run |-> run, result |-> verdict]),
         UNCHANGED <<run, statuses, outputs>>
  PROVE  Report!Next
<1>. USE DEF IInv
<1>1. verdict \in Report!Result
  BY DEF LifeInv
<1>2. Report!Said({"STARTING"})
  BY SaidNow DEF LifeInv, StatusInv, Phase
<1>3. ~Report!Concluded(Report!Result)
  BY ConcludedTold DEF ResultInv
<1>4. \A i \in 1..Len(results) : results[i].result = "COMPLETED" <=> verdict = "COMPLETED"
  BY ResultEntry DEF ResultInv
<1>. QED
  BY <1>1, <1>2, <1>3, <1>4 DEF Report!Next, Report!Terminal

(* Every step is a step of the report or leaves it alone.                  *)
LEMMA ReportStep == IInv /\ [Next]_vars => [Report!Next]_Report!report
<1>. SUFFICES ASSUME IInv, [Next]_vars PROVE [Report!Next]_Report!report
  OBVIOUS
<1>. USE DEF Sidecar!Stored, Sidecar!Doubtful, Sidecar!StatusEvent, Sidecar!OutputEvent,
       Sidecar!TerminalEvent, Sidecar!streams, Report!report
<1>. DEFINE Says(phase) == /\ statuses' = Append(statuses, [run |-> run, phase |-> phase])
                           /\ UNCHANGED <<run, outputs, results>>
            Silent == UNCHANGED <<run, statuses, outputs, results>>
<1>1. CASE UNCHANGED vars \/ UNCHANGED sidecar
  BY <1>1 DEF vars, sidecar
<1>2. CASE Sidecar!Start
  BY <1>2 DEF Sidecar!Start, Report!Next, Report!Restart
<1>3. CASE Sidecar!New \/ Sidecar!Terminate \/ Sidecar!WriteReady \/ Sidecar!SelectShutdown \/ Sidecar!Close
  BY <1>3 DEF Sidecar!New, Sidecar!Terminate, Sidecar!WriteReady, Sidecar!SelectShutdown, Sidecar!Close
<1>4. CASE Sidecar!SelectError \/ Sidecar!Exit \/ Sidecar!Crash
  BY <1>4 DEF Sidecar!SelectError, Sidecar!Exit, Sidecar!Crash, Sidecar!Die
<1>5. CASE Sidecar!PublishStarting \/ Sidecar!PublishParserReady \/ Sidecar!StartupFails
  <2>1. \/ Silent
        \/ Says("STARTING") /\ app = "starting"
        \/ Says("PARSER_READY") /\ app = "parserReady"
    BY <1>5 DEF Sidecar!PublishStarting, Sidecar!PublishParserReady, Sidecar!StartupFails, Sidecar!Die
  <2>. QED
    BY <2>1, StatusAllowed DEF Phase
<1>6. CASE Sidecar!Consume
  <2>1. \/ Silent
        \/ Says("RUNNING") /\ consumer = "running"
        \/ /\ consumer = "outputs" /\ outputs' = Append(outputs, [run |-> run, line |-> line])
           /\ UNCHANGED <<run, statuses, results>>
    BY <1>6 DEF Sidecar!Consume, Sidecar!OpenFIFO, Sidecar!FillBuffer, Sidecar!ParseSilentLine,
         Sidecar!ParseLine, Sidecar!PublishRunning, Sidecar!PublishOutputs, Sidecar!ConsumerFails
  <2>. QED
    BY <2>1, StatusAllowed, OutputAllowed DEF Phase
<1>7. CASE Sidecar!Watch
  <2>1. \/ Silent
        \/ Says(Sidecar!PhaseOf(verdict)) /\ watcher = "phase"
        \/ /\ watcher = "result" /\ results' = Append(results, [run |-> run, result |-> verdict])
           /\ UNCHANGED <<run, statuses, outputs>>
    BY <1>7 DEF Sidecar!Watch, Sidecar!SeeTerminal, Sidecar!WatcherCancelled, Sidecar!DecodeFiles,
         Sidecar!StatStop, Sidecar!PublishTerminal, Sidecar!PublishPhase, Sidecar!WatcherFails
  <2>2. watcher = "phase" => /\ Sidecar!PhaseOf(verdict) = Report!PhaseOf(verdict)
                             /\ Report!PhaseOf(verdict) \in Phase
    BY DEF IInv, LifeInv, Sidecar!PhaseOf, Report!PhaseOf, Report!Result, Report!TerminalPhase, Phase
  <2>. QED
    BY <2>1, <2>2, StatusAllowed, ResultAllowed
<1>8. CASE \E p \in Stoppers : Sidecar!CallStop(p) \/ Sidecar!Stop(p)
  <2>1. Silent \/ (Says("STOPPING") /\ Started)
    BY <1>8 DEF Sidecar!CallStop, Sidecar!Stop, Sidecar!WriteStop, Sidecar!PublishStopping,
         Sidecar!StopFails, IInv, LifeInv
  <2>. QED
    BY <2>1, StatusAllowed DEF Phase
<1>. QED
  BY <1>1, <1>2, <1>3, <1>4, <1>5, <1>6, <1>7, <1>8 DEF Next, Sidecar!Next, Sidecar!Run

(* The three streams are a proper report: an agent run implements          *)
(* RunReport.                                                              *)
THEOREM ProperReportCorrect == Spec => ProperReport
<1>1. Init => Report!Init
  BY DEF Init, Sidecar!Init, Report!Init
<1>. QED
  BY <1>1, ReportStep, Invariance, PTL DEF Spec, ProperReport, Report!Spec
================================================================================
