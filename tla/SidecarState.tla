----------------------------- MODULE SidecarState ------------------------------
(***************************************************************************)
(* internal/app/state.go at the level of its lock: the parser's text       *)
(* accumulators (builder.go), the accumulator file and the stop file,      *)
(* shared by the FIFO consumer, the terminal watcher, and the Stop and     *)
(* GetAccumulator calls, each in a goroutine of its own.                   *)
(*                                                                         *)
(* A piece of text is one unit: an accumulator holds `joined' pieces in    *)
(* its text and `segments' pieces not yet joined to it.  String() joins    *)
(* them, that is, it WRITES to the accumulator, and State.Snapshot calls   *)
(* it under the read lock only.  Every line that says something adds one   *)
(* piece to one channel and one output to the sequence.                    *)
(*                                                                         *)
(* Nothing is atomic but what the lock makes so: the parser changes a text *)
(* and then counts the output, and a snapshot reads the sequence and the   *)
(* two texts one after the other.                                          *)
(*                                                                         *)
(* The registered parsers never return an error (parsers/*/parser.go), so  *)
(* that return of ParseLine is not modelled.                               *)
(***************************************************************************)
EXTENDS Naturals

CONSTANTS
  Consumer,        \* the goroutine of consumeFIFO
  Watcher,         \* the goroutine of watchTerminal
  Stoppers,        \* the Stop calls
  Getters,         \* the clients calling GetAccumulator
  Nobody,          \* no goroutine holds or announces the write lock
  FlushInterval,   \* accumulatorFlushInterval, in clock ticks
  Speaks,          \* bound: the channels on which the CLI's lines say something
  MaxLines,        \* bound: lines the CLI writes
  MaxTime          \* bound: the clock stops here

Channel == {"assistant", "reasoning"}

Flushers == {Watcher} \cup Stoppers
Writers  == {Consumer} \cup Flushers
Proc     == Writers \cup Getters

ASSUME ProcAssumption ==
  /\ Consumer # Watcher
  /\ Stoppers \cap {Consumer, Watcher} = {}
  /\ Getters \cap Writers = {}
  /\ Nobody \notin Proc
ASSUME BoundAssumption == FlushInterval \in Nat /\ MaxLines \in Nat /\ MaxTime \in Nat
ASSUME SpeaksAssumption == Speaks \subseteq Channel

Accumulator == [joined : Nat, segments : Nat]

Snapshot == [LastSequence : Nat, AssistantText : Nat, ReasoningText : Nat]
EmptySnapshot == [LastSequence |-> 0, AssistantText |-> 0, ReasoningText |-> 0]

(* Inside Builder.Snapshot, and the labels of a goroutine that has         *)
(* announced or holds the write lock, or waits for or holds the read lock. *)
Reading == {"snapshot", "assistant", "reasoning"}
Locking == {"drain", "parse", "count", "record", "unlock"}
Sharing == {"rwait", "runlock"}

Label == {"idle", "lock", "write", "stopfile", "result", "rlock", "reply", "done", "failed"}
           \cup Reading \cup Locking \cup Sharing

VARIABLES
  pc,          \* where each goroutine is
  at,          \* the time its current operation was called with
  snap,        \* the snapshot it takes, field by field
  flush,       \* what recordSnapshotLocked told it
  produced,    \* whether the consumer's line had outputs
  sequence,    \* Builder.sequence
  acc,         \* the two textAccumulators
  writer,      \* the goroutine that has announced or holds the write lock
  readers,     \* the goroutines holding the read lock
  lastFlush,   \* State.lastFlush, 0 when zero
  dirty,       \* State.dirty
  file,        \* the snapshot in the accumulator file
  stop,        \* whether the stop file is there
  lines,       \* lines consumed so far
  now,         \* the clock, from 1
  called,      \* history: the sequence when the operation was called
  written      \* history: the highest sequence ever written to the file

local   == <<pc, at, snap, flush, produced, called>>
parsing == <<sequence, acc, lines>>
locks   == <<writer, readers>>
flushes == <<lastFlush, dirty>>
files   == <<file, stop, written>>
vars    == <<pc, at, snap, flush, produced, called, sequence, acc, lines,
             writer, readers, lastFlush, dirty, file, stop, written, now>>

TypeOK ==
  /\ pc \in [Proc -> Label]
  /\ at \in [Proc -> Nat]
  /\ snap \in [Proc -> Snapshot]
  /\ flush \in [Proc -> BOOLEAN]
  /\ produced \in BOOLEAN
  /\ sequence \in Nat
  /\ acc \in [Channel -> Accumulator]
  /\ writer \in Writers \cup {Nobody}
  /\ readers \subseteq Proc
  /\ lastFlush \in Nat
  /\ dirty \in BOOLEAN
  /\ file \in Snapshot
  /\ stop \in BOOLEAN
  /\ lines \in Nat
  /\ now \in Nat
  /\ called \in [Proc -> Nat]
  /\ written \in Nat

(* New writes an empty accumulator file before the goroutines start.       *)
Init ==
  /\ pc = [p \in Proc |-> "idle"]
  /\ at = [p \in Proc |-> 0]
  /\ snap = [p \in Proc |-> EmptySnapshot]
  /\ flush = [p \in Proc |-> FALSE]
  /\ produced = FALSE
  /\ sequence = 0
  /\ acc = [c \in Channel |-> [joined |-> 0, segments |-> 0]]
  /\ writer = Nobody
  /\ readers = {}
  /\ lastFlush = 0
  /\ dirty = FALSE
  /\ file = EmptySnapshot
  /\ stop = FALSE
  /\ lines = 0
  /\ now = 1
  /\ called = [p \in Proc |-> 0]
  /\ written = 0

--------------------------------------------------------------------------------
(* textAccumulator *)

(* String: join the segments; the result is the whole text.                *)
Joined(a) == [joined |-> a.joined + a.segments, segments |-> 0]

(* Append: one more segment.                                               *)
Appended(a) == [a EXCEPT !.segments = @ + 1]

(* Set, to a text that says one thing more than the present one: syncText  *)
(* has called String to compare them.                                      *)
Replaced(a) == [joined |-> Joined(a).joined + 1, segments |-> 0]

(* Deviation of MustFlush: a forced flush respects the interval too.       *)
MustFlushUnforced(time, forced) ==
  lastFlush = 0 \/ time >= lastFlush + FlushInterval

(* recordSnapshotLocked's condition.  A line stamped before the last flush *)
(* (it waited for the lock) is within the interval too.                    *)
MustFlush(time, forced) ==
  forced \/ lastFlush = 0 \/ time >= lastFlush + FlushInterval

--------------------------------------------------------------------------------
(* Calls: ParseLine, Flush and RequestStop are given the time, read before *)
(* the lock is asked for; Snapshot needs none.                             *)

Begin(p, label) ==
  /\ pc[p] = "idle"
  /\ pc' = [pc EXCEPT ![p] = label]
  /\ at' = [at EXCEPT ![p] = IF label = "lock" THEN now ELSE 0]
  /\ called' = [called EXCEPT ![p] = sequence]
  /\ UNCHANGED <<snap, flush, produced, sequence, acc, locks, flushes, files, now>>

(* scanner.Scan returns a line; State.ParseLine(line, time.Now()).         *)
ScanLine ==
  /\ lines < MaxLines
  /\ lines' = lines + 1
  /\ Begin(Consumer, "lock")

(* The terminal file exists: State.Flush(time.Now()).                      *)
SeeTerminal == Begin(Watcher, "lock") /\ UNCHANGED lines

(* Service.Stop: State.RequestStop(force, time.Now()); the flag is only    *)
(* copied to the stop file and left out here.                              *)
CallStop(p) == p \in Stoppers /\ Begin(p, "lock") /\ UNCHANGED lines

(* Service.GetAccumulator: State.Snapshot().                               *)
CallGet(p) == p \in Getters /\ Begin(p, "rlock") /\ UNCHANGED lines

--------------------------------------------------------------------------------
(* ParseLine and Flush *)

Goto(p, label) == pc' = [pc EXCEPT ![p] = label]

(* The operation ends and its local variables are gone.                    *)
Return(p, label) ==
  /\ Goto(p, label)
  /\ at' = [at EXCEPT ![p] = 0]
  /\ snap' = [snap EXCEPT ![p] = EmptySnapshot]
  /\ called' = [called EXCEPT ![p] = 0]
  /\ flush' = [flush EXCEPT ![p] = FALSE]
  /\ produced' = (produced /\ p # Consumer)

(* mu.Lock takes the inner mutex and announces the writer, so that no      *)
(* reader comes in any more.                                               *)
Lock(p) ==
  /\ pc[p] = "lock"
  /\ writer = Nobody
  /\ writer' = p
  /\ Goto(p, "drain")
  /\ UNCHANGED <<at, snap, flush, produced, called, parsing, readers, flushes, files, now>>

(* It returns once the readers that were inside have left.                 *)
Enter(p) ==
  /\ pc[p] = "drain"
  /\ readers = {}
  /\ Goto(p, IF p = Consumer THEN "parse" ELSE "snapshot")
  /\ UNCHANGED <<at, snap, flush, produced, called, parsing, locks, flushes, files, now>>

(* The parser runs: the line says nothing, or one thing on one channel,    *)
(* which is in the text before its output is counted.                      *)
ParseSilent ==
  /\ pc[Consumer] = "parse"
  /\ produced' = FALSE
  /\ Goto(Consumer, "snapshot")
  /\ UNCHANGED <<at, snap, flush, called, parsing, locks, flushes, files, now>>

ParseText ==
  /\ pc[Consumer] = "parse"
  /\ produced' = TRUE
  /\ \E c \in Speaks :
       \/ acc' = [acc EXCEPT ![c] = Appended(@)]
       \/ acc' = [acc EXCEPT ![c] = Replaced(@)]
  /\ Goto(Consumer, "count")
  /\ UNCHANGED <<at, snap, flush, called, sequence, lines, locks, flushes, files, now>>

(* Deviation of NextOutput: no snapshot for a line that is not flushed.    *)
NextOutputUnread ==
  /\ pc[Consumer] = "count"
  /\ sequence' = sequence + 1
  /\ Goto(Consumer, IF MustFlush(at[Consumer], FALSE) THEN "snapshot" ELSE "record")
  /\ UNCHANGED <<at, snap, flush, produced, called, acc, lines, locks, flushes, files, now>>

NextOutput ==
  /\ pc[Consumer] = "count"
  /\ sequence' = sequence + 1
  /\ Goto(Consumer, "snapshot")
  /\ UNCHANGED <<at, snap, flush, produced, called, acc, lines, locks, flushes, files, now>>

--------------------------------------------------------------------------------
(* Builder.Snapshot, under either lock *)

(* Deviation of ReadSequence: the accumulator file serves as the answer.   *)
ReadSequenceFile(p) ==
  /\ pc[p] = "snapshot"
  /\ snap' = [snap EXCEPT ![p].LastSequence = IF writer = p THEN sequence ELSE file.LastSequence]
  /\ Goto(p, "assistant")
  /\ UNCHANGED <<at, flush, produced, called, parsing, locks, flushes, files, now>>

ReadSequence(p) ==
  /\ pc[p] = "snapshot"
  /\ snap' = [snap EXCEPT ![p].LastSequence = sequence]
  /\ Goto(p, "assistant")
  /\ UNCHANGED <<at, flush, produced, called, parsing, locks, flushes, files, now>>

(* String() joins the segments it finds, under a lock that may be shared.  *)
ReadAssistant(p) ==
  /\ pc[p] = "assistant"
  /\ acc' = [acc EXCEPT !["assistant"] = Joined(@)]
  /\ snap' = [snap EXCEPT ![p].AssistantText = acc'["assistant"].joined]
  /\ Goto(p, "reasoning")
  /\ UNCHANGED <<at, flush, produced, called, sequence, lines, locks, flushes, files, now>>

ReadReasoning(p) ==
  /\ pc[p] = "reasoning"
  /\ acc' = [acc EXCEPT !["reasoning"] = Joined(@)]
  /\ snap' = [snap EXCEPT ![p].ReasoningText = acc'["reasoning"].joined]
  /\ Goto(p, IF writer = p THEN "record" ELSE "runlock")
  /\ UNCHANGED <<at, flush, produced, called, sequence, lines, locks, flushes, files, now>>

--------------------------------------------------------------------------------
(* recordSnapshotLocked, and what ParseLine and Flush do without the lock *)

(* recordSnapshotLocked told p whether it must write its snapshot s.       *)
Record(p, s, must, clean) ==
  /\ pc[p] = "record"
  /\ snap' = [snap EXCEPT ![p] = s]
  /\ flush' = [flush EXCEPT ![p] = must]
  /\ lastFlush' = IF must THEN at[p] ELSE lastFlush
  /\ dirty' = ~clean
  /\ at' = [at EXCEPT ![p] = 0]
  /\ Goto(p, "unlock")
  /\ UNCHANGED <<produced, called, parsing, locks, files, now>>

(* Deviations of RecordSnapshot: dirty is cleared on either path; the      *)
(* consumer read the sequence before it parsed the line.                   *)
RecordAlwaysClean(p) == Record(p, snap[p], MustFlush(at[p], p # Consumer), TRUE)

RecordBeforeParse(p) ==
  LET must  == MustFlush(at[p], p # Consumer)
      early == IF p = Consumer THEN called[p] ELSE snap[p].LastSequence
  IN  Record(p, [snap[p] EXCEPT !.LastSequence = early], must, must)

RecordSnapshot(p) ==
  LET must == MustFlush(at[p], p # Consumer) IN Record(p, snap[p], must, must)

(* Where the operation continues once the file is dealt with; a line       *)
(* without outputs needs no snapshot.                                      *)
AfterFlush(p) ==
  IF p = Consumer THEN (IF produced THEN "rlock" ELSE "reply")
  ELSE IF p = Watcher THEN "result" ELSE "stopfile"

(* What is left of p's snapshot then: the watcher reports the one Flush     *)
(* returned; RequestStop and ParseLine only write theirs.                  *)
Kept(p) == IF p = Watcher THEN snap[p] ELSE EmptySnapshot

(* mu.Unlock lets in the readers that wait, and then the next writer.      *)
Waiting == {p \in Proc : pc[p] = "rwait"}

Unlock(p) ==
  /\ pc[p] = "unlock"
  /\ writer' = Nobody
  /\ readers' = Waiting
  /\ pc' = [q \in Proc |-> IF q = p THEN (IF flush[p] THEN "write" ELSE AfterFlush(p))
                            ELSE IF q \in Waiting THEN "snapshot" ELSE pc[q]]
  /\ flush' = [flush EXCEPT ![p] = FALSE]
  /\ snap' = [snap EXCEPT ![p] = IF flush[p] THEN snap[p] ELSE Kept(p)]
  /\ UNCHANGED <<at, produced, called, parsing, flushes, files, now>>

(* writeJSONFile of the accumulator, outside the lock: the file is         *)
(* replaced by a rename, or an error is returned and it stays.             *)
WriteFile(p) ==
  /\ pc[p] = "write"
  /\ file' = snap[p]
  /\ written' = IF snap[p].LastSequence > written THEN snap[p].LastSequence ELSE written
  /\ snap' = [snap EXCEPT ![p] = Kept(p)]
  /\ Goto(p, AfterFlush(p))
  /\ UNCHANGED <<at, flush, produced, called, parsing, locks, flushes, stop, now>>

WriteFails(p) ==
  /\ pc[p] \in {"write", "stopfile"}
  /\ Return(p, "failed")
  /\ UNCHANGED <<parsing, locks, flushes, files, now>>

(* RequestStop writes the stop file once the accumulator is flushed.       *)
WriteStop(p) ==
  /\ pc[p] = "stopfile"
  /\ stop' = TRUE
  /\ Goto(p, "rlock")
  /\ UNCHANGED <<at, snap, flush, produced, called, parsing, locks, flushes, file, written, now>>

--------------------------------------------------------------------------------
(* Snapshot *)

(* Deviations of RLock: a reader waits only for the writer that is inside, *)
(* as if a waiting writer held back nobody; it does not take the lock.     *)
RLockOvertakes(p) ==
  /\ pc[p] = "rlock"
  /\ writer # Nobody => pc[writer] = "drain"
  /\ readers' = readers \cup {p}
  /\ Goto(p, "snapshot")
  /\ UNCHANGED <<at, snap, flush, produced, called, parsing, writer, flushes, files, now>>

RLockIgnored(p) ==
  /\ pc[p] = "rlock"
  /\ readers' = readers \cup {p}
  /\ Goto(p, "snapshot")
  /\ UNCHANGED <<at, snap, flush, produced, called, parsing, writer, flushes, files, now>>

(* mu.RLock: a reader comes in, or waits behind the announced writer.      *)
RLock(p) ==
  /\ pc[p] = "rlock"
  /\ \/ writer = Nobody /\ readers' = readers \cup {p} /\ Goto(p, "snapshot")
     \/ writer # Nobody /\ Goto(p, "rwait") /\ UNCHANGED readers
  /\ UNCHANGED <<at, snap, flush, produced, called, parsing, writer, flushes, files, now>>

RUnlock(p) ==
  /\ pc[p] = "runlock"
  /\ readers' = readers \ {p}
  /\ Goto(p, "reply")
  /\ UNCHANGED <<at, snap, flush, produced, called, parsing, writer, flushes, files, now>>

(* The snapshot is used: published with RUNNING and the line's outputs, or *)
(* with STOPPING, or returned to the client.                               *)
Reply(p) ==
  /\ pc[p] = "reply"
  /\ Return(p, IF p \in Stoppers THEN "done" ELSE "idle")
  /\ UNCHANGED <<parsing, locks, flushes, files, now>>

(* ResultFromTerminal succeeds, or the terminal file is not yet complete   *)
(* and the watcher tries again at the next tick.                           *)
TerminalResult ==
  /\ pc[Watcher] = "result"
  /\ Return(Watcher, "done") \/ Return(Watcher, "idle")
  /\ UNCHANGED <<parsing, locks, flushes, files, now>>

Tick ==
  /\ now < MaxTime
  /\ now' = now + 1
  /\ UNCHANGED <<local, parsing, locks, flushes, files>>

--------------------------------------------------------------------------------

(* What goroutine p does next, inside an operation.                        *)
Run(p) ==
  \/ Enter(p) \/ ReadSequence(p) \/ ReadAssistant(p) \/ ReadReasoning(p)
  \/ RecordSnapshot(p) \/ Unlock(p) \/ WriteFile(p) \/ WriteStop(p)
  \/ RLock(p) \/ RUnlock(p) \/ Reply(p)

Parse == ParseSilent \/ ParseText \/ NextOutput

Next ==
  \/ ScanLine \/ Parse \/ SeeTerminal \/ TerminalResult \/ Tick
  \/ \E p \in Proc : CallStop(p) \/ CallGet(p) \/ WriteFails(p) \/ Lock(p) \/ Run(p)

Spec == Init /\ [][Next]_vars

(* Goroutines are scheduled: weak fairness for every step.  The inner      *)
(* mutex of a sync.RWMutex is handed to whoever has waited longest once a  *)
(* wait takes a millisecond (its starvation mode), so a writer that finds  *)
(* it free again and again gets it: strong fairness for Lock, and for Lock *)
(* alone.  That readers do not keep a writer out, nor writers a reader, is *)
(* what Lock, RLock and Unlock do and not assumed.  Nobody has to call.    *)
Fairness ==
  /\ WF_vars(Parse)
  /\ \A p \in Proc : WF_vars(Run(p)) /\ SF_vars(Lock(p))

FairSpec == Spec /\ Fairness

--------------------------------------------------------------------------------
(* Properties *)

(* State.Snapshot runs String() under the read lock, where a join would be *)
(* a data race with other readers.  It never has anything to join, because *)
(* whoever held the write lock left no segments behind.                    *)
NoJoinUnderReadLock ==
  \A p \in readers, c \in Channel : acc[c].segments = 0

(* The sequence and the two texts of a snapshot, read one after the other  *)
(* while the consumer changes them one after the other, belong together:   *)
(* those a goroutine has read, those in the file and those clients get.    *)
Whole(s) == s.AssistantText + s.ReasoningText = s.LastSequence

SnapshotsAreWhole ==
  /\ Whole(file)
  /\ \A p \in Proc : pc[p] \notin {"assistant", "reasoning"} => Whole(snap[p])

(* Where a goroutine has a snapshot for its present operation.             *)
HasSnapshot(p) ==
  \/ pc[p] \in {"record", "unlock", "write", "result", "runlock"}
  \/ pc[p] = "reply" /\ (p = Consumer => produced)

(* A snapshot taken for a call contains everything parsed before the call, *)
(* so what successive GetAccumulator, STOPPING, RUNNING and terminal       *)
(* messages report never goes back.                                        *)
Fresh ==
  \A p \in Proc : HasSnapshot(p) => snap[p].LastSequence >= called[p]

(* The consumer's write outside the lock is always of the present state,   *)
(* so it never takes the accumulator file back; only the write of a        *)
(* concurrent Flush, of the watcher or a Stop call, can do that.           *)
ConsumerNeverRollsBack ==
  [][\A p \in Proc :
       WriteFile(p) /\ file'.LastSequence < file.LastSequence => p # Consumer]_vars

(* When State is not dirty, its present text has been written to the file  *)
(* or is on its way there, unless a write failed: after a failed write     *)
(* nothing reminds State of what is missing.  Nothing reads dirty either,  *)
(* so that a dirty text is written later is not claimed.                   *)
NothingForgotten ==
  \/ dirty
  \/ writer # Nobody
  \/ written = sequence
  \/ \E p \in Proc : pc[p] = "write" /\ snap[p].LastSequence = sequence
  \/ \E p \in Proc : pc[p] = "failed"

(* The stop file appears only after everything parsed before the call has  *)
(* been written to the accumulator file.                                   *)
FlushedBeforeStop ==
  [][\A p \in Stoppers : WriteStop(p) => written >= called[p]]_vars

(* Every line is consumed, and every Stop and GetAccumulator call returns, *)
(* however busy the lock is: also with clients whose calls overlap for     *)
(* ever and a watcher that flushes at every tick.                          *)
CallsReturn ==
  /\ pc[Consumer] = "lock" ~> pc[Consumer] \in {"idle", "failed"}
  /\ \A p \in Stoppers : pc[p] = "lock" ~> pc[p] \in {"done", "failed"}
  /\ \A p \in Getters : pc[p] = "rlock" ~> pc[p] = "idle"
================================================================================
