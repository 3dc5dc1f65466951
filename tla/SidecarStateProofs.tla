--------------------------- MODULE SidecarStateProofs --------------------------
(***************************************************************************)
(* Proofs about SidecarState, for any number of Stop calls and clients.    *)
(***************************************************************************)
EXTENDS SidecarState, TLAPS

(* Who is where: the announced writer and the readers are the goroutines   *)
(* inside the locks, and while there are readers the writer only waits.    *)
LockInv ==
  /\ \A p \in Proc : writer = p => pc[p] \in Reading \cup Locking
  /\ \A p \in Proc : pc[p] \in Locking => writer = p
  /\ \A p \in Proc : p \in readers => pc[p] \in Reading \cup {"runlock"}
  /\ \A p \in Proc : pc[p] = "runlock" => p \in readers
  /\ \A p \in Proc : pc[p] \in Reading => writer = p \/ p \in readers
  /\ \A p, q \in Proc : writer = p /\ q \in readers => pc[p] = "drain"
  /\ \A p \in Proc : pc[p] \in {"parse", "count"} => p = Consumer
  /\ \A p \in Getters : pc[p] \in {"idle", "rlock", "rwait", "runlock", "reply"} \cup Reading
  /\ writer \notin Getters

(* Segments are left unjoined only between the parser's work and the       *)
(* reading of the text in the snapshot that follows under the same lock.   *)
Unread(c) == {"count", "snapshot", "assistant"}
               \cup (IF c = "assistant" THEN {} ELSE {"reasoning"})

SegmentInv ==
  \A c \in Channel :
    acc[c].segments # 0 => writer = Consumer /\ pc[Consumer] \in Unread(c)

IInv == TypeOK /\ LockInv /\ SegmentInv

--------------------------------------------------------------------------------

(* Facts about the goroutines.                                             *)
LEMMA Procs ==
  /\ Consumer \in Proc /\ Watcher \in Proc /\ Stoppers \subseteq Proc /\ Getters \subseteq Proc
  /\ Nobody \notin Proc /\ Consumer \notin Getters /\ Watcher \notin Getters
  /\ Writers \subseteq Proc /\ Proc = Writers \cup Getters
BY ProcAssumption DEF Proc, Writers, Flushers

(* Joining an accumulator, adding to it or replacing it gives an           *)
(* accumulator.                                                            *)
LEMMA AccumulatorTypes ==
  \A a \in Accumulator : /\ Joined(a) \in Accumulator /\ Joined(a).segments = 0
                          /\ Joined(a).joined = a.joined + a.segments
                          /\ Appended(a) \in Accumulator
                          /\ Replaced(a) \in Accumulator
BY DEF Accumulator, Joined, Appended, Replaced

LEMMA InitInv == Init => IInv
<1> SUFFICES ASSUME Init PROVE IInv
  OBVIOUS
<1>1. EmptySnapshot \in Snapshot
  BY DEF EmptySnapshot, Snapshot
<1>2. TypeOK
  BY <1>1, Procs DEF Init, TypeOK, Label, Accumulator
<1>3. LockInv
  BY Procs DEF Init, LockInv, Reading, Locking
<1>4. SegmentInv
  BY DEF Init, SegmentInv
<1>. QED
  BY <1>2, <1>3, <1>4 DEF IInv

(* A call leaves the locks and the accumulators alone.                     *)
LEMMA BeginInv ==
  ASSUME IInv, NEW p \in Proc, NEW label \in {"lock", "rlock"},
         Begin(p, label), lines' \in Nat,
         p \in Getters => label = "rlock"
  PROVE  IInv'
<1>1. TypeOK'
  BY DEF IInv, TypeOK, Begin, Label, locks, flushes, files
<1>2. LockInv'
  BY Procs DEF IInv, TypeOK, LockInv, Begin, locks, Reading, Locking
<1>3. SegmentInv'
  BY Procs DEF IInv, TypeOK, SegmentInv, Unread, Begin, locks
<1>. QED
  BY <1>1, <1>2, <1>3 DEF IInv

(* Announcing the writer and entering once the readers have left.          *)
LEMMA LockStep ==
  ASSUME IInv, NEW p \in Proc, Lock(p)
  PROVE  IInv'
<1>1. p \in Writers /\ p \notin Getters
  BY Procs DEF IInv, LockInv, Lock, Reading
<1>2. TypeOK'
  BY <1>1 DEF IInv, TypeOK, Lock, Goto, Label, Locking, parsing, flushes, files
<1>3. LockInv'
  BY <1>1, Procs DEF IInv, TypeOK, LockInv, Lock, Goto, Reading, Locking
<1>4. SegmentInv'
  BY Procs DEF IInv, TypeOK, SegmentInv, Lock, parsing
<1>. QED
  BY <1>2, <1>3, <1>4 DEF IInv

LEMMA EnterStep ==
  ASSUME IInv, NEW p \in Proc, Enter(p)
  PROVE  IInv'
<1>1. writer = p
  BY DEF IInv, LockInv, Enter, Locking
<1>2. TypeOK'
  BY DEF IInv, TypeOK, Enter, Goto, Label, Locking, Reading, parsing, locks, flushes, files
<1>3. LockInv'
  BY <1>1, Procs DEF IInv, TypeOK, LockInv, Enter, Goto, Reading, Locking, locks
<1>4. SegmentInv'
  BY <1>1, Procs DEF IInv, TypeOK, SegmentInv, Unread, Enter, Goto, parsing, locks
<1>. QED
  BY <1>2, <1>3, <1>4 DEF IInv

(* The parser, alone inside the lock.                                      *)
LEMMA ParserAlone ==
  ASSUME IInv, pc[Consumer] \in {"parse", "count"}
  PROVE  /\ writer = Consumer /\ readers = {}
         /\ \A p \in Proc : p # Consumer => pc[p] \notin Reading \cup Locking \cup {"runlock"}
<1>1. writer = Consumer
  BY Procs DEF IInv, LockInv, Locking
<1>2. readers = {}
  BY <1>1, Procs DEF IInv, TypeOK, LockInv
<1>. QED
  BY <1>1, <1>2, Procs DEF IInv, LockInv

LEMMA ParseStep ==
  ASSUME IInv, Parse
  PROVE  IInv'
<1>1. /\ pc[Consumer] \in {"parse", "count"}
      /\ \/ pc' = [pc EXCEPT ![Consumer] = "snapshot"]
         \/ pc' = [pc EXCEPT ![Consumer] = "count"]
      /\ UNCHANGED <<writer, readers, at, snap, flush, called, lines, lastFlush, dirty,
                     file, stop, written, now>>
  BY DEF Parse, ParseSilent, ParseText, NextOutput, Goto, parsing, locks, flushes, files
<1>2. acc' \in [Channel -> Accumulator] /\ sequence' \in Nat /\ produced' \in BOOLEAN
  <2>1. CASE ParseSilent
    BY <2>1 DEF ParseSilent, parsing, IInv, TypeOK
  <2>2. CASE ParseText
    <3>1. \A c \in Channel : Appended(acc[c]) \in Accumulator /\ Replaced(acc[c]) \in Accumulator
      BY AccumulatorTypes DEF IInv, TypeOK
    <3>2. PICK c \in Speaks : \/ acc' = [acc EXCEPT ![c] = Appended(acc[c])]
                              \/ acc' = [acc EXCEPT ![c] = Replaced(acc[c])]
      BY <2>2 DEF ParseText
    <3>. QED
      BY <2>2, <3>1, <3>2, SpeaksAssumption DEF ParseText, IInv, TypeOK
  <2>3. CASE NextOutput
    BY <2>3 DEF NextOutput, IInv, TypeOK
  <2>. QED
    BY <2>1, <2>2, <2>3 DEF Parse
<1>3. TypeOK'
  BY <1>1, <1>2 DEF IInv, TypeOK, Label, Reading, Locking
<1>4. LockInv'
  BY <1>1, ParserAlone, Procs DEF IInv, TypeOK, LockInv, Reading, Locking
<1>5. SegmentInv'
  BY <1>1, ParserAlone, Procs DEF IInv, TypeOK, SegmentInv, Unread
<1>. QED
  BY <1>3, <1>4, <1>5 DEF IInv

(* Builder.Snapshot, under either lock.                                    *)
LEMMA ReadSequenceStep ==
  ASSUME IInv, NEW p \in Proc, ReadSequence(p)
  PROVE  IInv'
<1>1. snap' \in [Proc -> Snapshot]
  BY DEF IInv, TypeOK, ReadSequence, Snapshot
<1>2. TypeOK'
  BY <1>1 DEF IInv, TypeOK, ReadSequence, Goto, Label, Reading, parsing, locks, flushes, files
<1>3. LockInv'
  BY Procs DEF IInv, TypeOK, LockInv, ReadSequence, Goto, Reading, Locking, locks
<1>4. SegmentInv'
  BY Procs DEF IInv, TypeOK, SegmentInv, Unread, ReadSequence, Goto, parsing, locks
<1>. QED
  BY <1>2, <1>3, <1>4 DEF IInv

LEMMA ReadAssistantStep ==
  ASSUME IInv, NEW p \in Proc, ReadAssistant(p)
  PROVE  IInv'
<1>1. acc' \in [Channel -> Accumulator] /\ acc'["assistant"].segments = 0
  BY AccumulatorTypes DEF ReadAssistant, IInv, TypeOK, Channel
<1>2. snap' \in [Proc -> Snapshot]
  BY <1>1 DEF IInv, TypeOK, ReadAssistant, Snapshot, Accumulator, Channel
<1>3. TypeOK'
  BY <1>1, <1>2 DEF IInv, TypeOK, ReadAssistant, Goto, Label, Reading, locks, flushes, files
<1>4. LockInv'
  BY Procs DEF IInv, TypeOK, LockInv, ReadAssistant, Goto, Reading, Locking, locks
<1>5. SegmentInv'
  BY <1>1, Procs DEF IInv, TypeOK, SegmentInv, Unread, ReadAssistant, Goto, locks, Channel
<1>. QED
  BY <1>3, <1>4, <1>5 DEF IInv

LEMMA ReadReasoningStep ==
  ASSUME IInv, NEW p \in Proc, ReadReasoning(p)
  PROVE  IInv'
<1>1. acc' \in [Channel -> Accumulator] /\ acc'["reasoning"].segments = 0
  BY AccumulatorTypes DEF ReadReasoning, IInv, TypeOK, Channel
<1>2. snap' \in [Proc -> Snapshot]
  BY <1>1 DEF IInv, TypeOK, ReadReasoning, Snapshot, Accumulator, Channel
<1>3. TypeOK'
  BY <1>1, <1>2 DEF IInv, TypeOK, ReadReasoning, Goto, Label, Locking, Sharing,
     locks, flushes, files
<1>4. LockInv'
  <2>1. writer = p \/ p \in readers
    BY DEF IInv, LockInv, ReadReasoning, Reading
  <2>2. writer = p => p \notin Getters
    BY DEF IInv, LockInv
  <2>. QED
    BY <2>1, <2>2, Procs DEF IInv, TypeOK, LockInv, ReadReasoning, Goto, Reading, Locking, locks
<1>5. SegmentInv'
  BY <1>1, Procs DEF IInv, TypeOK, SegmentInv, Unread, ReadReasoning, Goto, locks, Channel
<1>. QED
  BY <1>3, <1>4, <1>5 DEF IInv

LEMMA RecordStep ==
  ASSUME IInv, NEW p \in Proc, RecordSnapshot(p)
  PROVE  IInv'
<1>1. MustFlush(at[p], p # Consumer) \in BOOLEAN /\ snap[p] \in Snapshot
  BY DEF IInv, TypeOK, MustFlush
<1>2. TypeOK'
  BY <1>1 DEF IInv, TypeOK, RecordSnapshot, Record, Goto, Label, Locking, parsing, locks, files
<1>3. LockInv'
  BY Procs DEF IInv, TypeOK, LockInv, RecordSnapshot, Record, Goto, Reading, Locking, locks
<1>4. SegmentInv'
  BY Procs DEF IInv, TypeOK, SegmentInv, Unread, RecordSnapshot, Record, Goto, parsing, locks
<1>. QED
  BY <1>2, <1>3, <1>4 DEF IInv

(* Unlock lets in the readers that wait.                                   *)
LEMMA UnlockStep ==
  ASSUME IInv, NEW p \in Proc, Unlock(p)
  PROVE  IInv'
<1>1. p \notin Getters /\ writer = p /\ writer # Nobody /\ p \notin Waiting
  BY Procs DEF IInv, LockInv, Unlock, Reading, Locking, Waiting
<1>2. readers = {}
  BY <1>1, Procs DEF IInv, TypeOK, LockInv, Unlock
<1>3. \A q \in Proc : q # p => pc[q] \notin Reading \cup Locking \cup {"runlock"}
  BY <1>1, <1>2, Procs DEF IInv, LockInv
<1>4. /\ pc'[p] \in {"write", "rlock", "reply", "result", "stopfile"}
      /\ pc' \in [Proc -> Label]
      /\ \A q \in Proc : q # p => pc'[q] = IF q \in Waiting THEN "snapshot" ELSE pc[q]
  BY DEF Unlock, AfterFlush, IInv, TypeOK, Label, Reading
<1>5. Kept(p) \in Snapshot
  BY DEF Kept, IInv, TypeOK, EmptySnapshot, Snapshot
<1>6. writer' = Nobody /\ readers' = Waiting /\ Waiting \subseteq Proc
  BY DEF Unlock, Waiting
<1>7. TypeOK'
  BY <1>4, <1>5, <1>6 DEF IInv, TypeOK, Unlock, parsing, flushes, files
<1>8. LockInv'
  <2>1. \A q \in Proc : q \in Waiting <=> pc[q] = "rwait"
    BY DEF Waiting
  <2>2. \A q \in Proc : pc'[q] \in Reading \cup {"runlock"} <=> q \in Waiting
    BY <1>1, <1>3, <1>4 DEF Reading
  <2>3. \A q \in Proc : pc'[q] \notin Locking
    BY <1>3, <1>4 DEF Locking, Reading
  <2>4. \A q \in Getters : pc'[q] \in {"idle", "rlock", "rwait", "runlock", "reply"} \cup Reading
    BY <1>1, <1>4, Procs DEF IInv, LockInv, Reading
  <2>5. \A q \in Proc : q \in Waiting => pc'[q] = "snapshot"
    BY <1>1, <1>4
  <2>. QED
    BY <1>6, <2>2, <2>3, <2>4, <2>5, Procs DEF LockInv, Locking, Reading
<1>9. SegmentInv'
  BY <1>1, Procs DEF IInv, SegmentInv, Unread, Unlock, parsing
<1>. QED
  BY <1>7, <1>8, <1>9 DEF IInv

(* Steps that move p between labels outside both locks.                    *)
Outside == {"idle", "lock", "write", "stopfile", "result", "rlock", "rwait", "reply",
            "done", "failed"}

LEMMA OutsideStep ==
  ASSUME IInv, NEW p \in Proc, NEW label \in Outside,
         pc[p] \in Outside,
         p \in Getters => label \in {"idle", "rlock", "rwait", "reply"},
         pc' = [pc EXCEPT ![p] = label],
         UNCHANGED <<locks, acc>>
  PROVE  LockInv' /\ SegmentInv'
<1>1. LockInv'
  BY Procs DEF IInv, TypeOK, LockInv, Outside, Reading, Locking, locks
<1>2. SegmentInv'
  BY Procs DEF IInv, TypeOK, SegmentInv, Unread, Outside, locks
<1>. QED
  BY <1>1, <1>2

LEMMA WriteStep ==
  ASSUME IInv, NEW p \in Proc, WriteFile(p)
  PROVE  IInv'
<1>1. p \notin Getters /\ snap[p] \in Snapshot /\ snap[p].LastSequence \in Nat
  BY DEF IInv, TypeOK, LockInv, WriteFile, Snapshot, Reading
<1>2. AfterFlush(p) \in {"rlock", "reply", "result", "stopfile"}
  BY DEF AfterFlush
<1>3. LockInv' /\ SegmentInv'
  BY <1>1, <1>2, OutsideStep DEF WriteFile, Goto, Outside, parsing, locks
<1>4. Kept(p) \in Snapshot
  BY <1>1 DEF Kept, EmptySnapshot, Snapshot
<1>5. TypeOK'
  BY <1>1, <1>2, <1>4 DEF IInv, TypeOK, WriteFile, Goto, Label, parsing, locks, flushes
<1>. QED
  BY <1>3, <1>5 DEF IInv

LEMMA WriteStopStep ==
  ASSUME IInv, NEW p \in Proc, WriteStop(p)
  PROVE  IInv'
<1>1. LockInv' /\ SegmentInv'
  BY OutsideStep DEF WriteStop, Goto, Outside, parsing, locks
<1>2. TypeOK'
  BY DEF IInv, TypeOK, WriteStop, Goto, Label, parsing, locks, flushes
<1>. QED
  BY <1>1, <1>2 DEF IInv

LEMMA ReturnStep ==
  ASSUME IInv, NEW p \in Proc, NEW label \in {"idle", "done", "failed"}, Return(p, label),
         pc[p] \in Outside, p \in Getters => label = "idle",
         UNCHANGED <<parsing, locks, flushes, files, now>>
  PROVE  IInv'
<1>1. LockInv' /\ SegmentInv'
  BY OutsideStep DEF Return, Goto, Outside, parsing, locks
<1>2. EmptySnapshot \in Snapshot
  BY DEF EmptySnapshot, Snapshot
<1>3. TypeOK'
  BY <1>2 DEF IInv, TypeOK, Return, Goto, Label, parsing, locks, flushes, files
<1>. QED
  BY <1>1, <1>3 DEF IInv

(* The readers.                                                            *)
LEMMA RLockStep ==
  ASSUME IInv, NEW p \in Proc, RLock(p)
  PROVE  IInv'
<1>1. CASE writer # Nobody
  <2>1. LockInv' /\ SegmentInv'
    BY <1>1, OutsideStep DEF RLock, Goto, Outside, parsing, locks
  <2>2. TypeOK'
    BY <1>1 DEF IInv, TypeOK, RLock, Goto, Label, Sharing, parsing, flushes, files
  <2>. QED
    BY <2>1, <2>2 DEF IInv
<1>2. CASE writer = Nobody
  <2>1. TypeOK'
    BY <1>2, Procs DEF IInv, TypeOK, RLock, Goto, Label, Reading, parsing, flushes, files
  <2>2. LockInv'
    BY <1>2, Procs DEF IInv, TypeOK, LockInv, RLock, Goto, Reading, Locking
  <2>3. SegmentInv'
    BY <1>2, Procs DEF IInv, TypeOK, SegmentInv, RLock, Goto, parsing
  <2>. QED
    BY <2>1, <2>2, <2>3 DEF IInv
<1>. QED
  BY <1>1, <1>2

LEMMA RUnlockStep ==
  ASSUME IInv, NEW p \in Proc, RUnlock(p)
  PROVE  IInv'
<1>1. TypeOK'
  BY DEF IInv, TypeOK, RUnlock, Goto, Label, parsing, flushes, files
<1>2. LockInv'
  BY Procs DEF IInv, TypeOK, LockInv, RUnlock, Goto, Reading, Locking
<1>3. SegmentInv'
  BY Procs DEF IInv, TypeOK, SegmentInv, Unread, RUnlock, Goto, parsing
<1>. QED
  BY <1>1, <1>2, <1>3 DEF IInv

LEMMA NextInv == IInv /\ [Next]_vars => IInv'
<1> SUFFICES ASSUME IInv, [Next]_vars PROVE IInv'
  OBVIOUS
<1>1. CASE ScanLine
  <2>1. lines' \in Nat
    BY <1>1 DEF ScanLine, IInv, TypeOK
  <2>. QED
    BY <1>1, <2>1, Procs, BeginInv DEF ScanLine
<1>2. CASE Parse
  BY <1>2, ParseStep
<1>3. CASE SeeTerminal
  <2>1. lines' \in Nat
    BY <1>3 DEF SeeTerminal, IInv, TypeOK
  <2>. QED
    BY <1>3, <2>1, Procs, BeginInv DEF SeeTerminal
<1>4. CASE TerminalResult
  BY <1>4, Procs, ReturnStep DEF TerminalResult, Outside
<1>5. CASE Tick
  <2>1. TypeOK'
    BY <1>5 DEF Tick, IInv, TypeOK, local, parsing, locks, flushes, files
  <2>2. LockInv' /\ SegmentInv'
    BY <1>5 DEF Tick, IInv, LockInv, SegmentInv, local, parsing, locks
  <2>. QED
    BY <2>1, <2>2 DEF IInv
<1>6. ASSUME NEW p \in Proc, CallStop(p) \/ CallGet(p) PROVE IInv'
  <2>1. lines' \in Nat
    BY <1>6 DEF CallStop, CallGet, IInv, TypeOK
  <2>2. CASE CallStop(p)
    <3>1. p \notin Getters
      BY <2>2, ProcAssumption DEF CallStop, Writers, Flushers
    <3>. QED
      BY <2>1, <2>2, <3>1, BeginInv DEF CallStop
  <2>3. CASE CallGet(p)
    BY <2>1, <2>3, BeginInv DEF CallGet
  <2>. QED
    BY <1>6, <2>2, <2>3
<1>7. ASSUME NEW p \in Proc, WriteFails(p) PROVE IInv'
  <2>1. pc[p] \in Outside /\ p \notin Getters
    BY <1>7 DEF WriteFails, Outside, IInv, LockInv, Reading
  <2>. QED
    BY <1>7, <2>1, ReturnStep DEF WriteFails
<1>8. ASSUME NEW p \in Proc, Reply(p) PROVE IInv'
  <2>1. pc[p] \in Outside /\ (p \in Getters => p \notin Stoppers)
    BY <1>8, ProcAssumption DEF Reply, Outside, Writers, Flushers
  <2>. QED
    BY <1>8, <2>1, ReturnStep DEF Reply
<1>9. ASSUME NEW p \in Proc, Run(p) PROVE IInv'
  BY <1>8, <1>9, EnterStep, ReadSequenceStep, ReadAssistantStep, ReadReasoningStep,
     RecordStep, UnlockStep, WriteStep, WriteStopStep, RLockStep, RUnlockStep DEF Run
<1>10. CASE UNCHANGED vars
  BY <1>10 DEF vars, IInv, TypeOK, LockInv, SegmentInv
<1>. QED
  BY <1>1, <1>2, <1>3, <1>4, <1>5, <1>6, <1>7, <1>9, <1>10, LockStep DEF Next

LEMMA Invariant == Spec => []IInv
BY InitInv, NextInv, PTL DEF Spec

(* The state stays within its types.                                       *)
THEOREM TypeCorrect == Spec => []TypeOK
<1>1. IInv => TypeOK
  BY DEF IInv
<1>. QED
  BY <1>1, Invariant, PTL

(* Joining segments under the shared read lock never happens, for any      *)
(* number of concurrent readers: GetAccumulator is free of data races.     *)
THEOREM NoJoinUnderReadLockCorrect == Spec => []NoJoinUnderReadLock
<1>1. IInv => NoJoinUnderReadLock
  <2> SUFFICES ASSUME IInv, NEW p \in readers, NEW c \in Channel
               PROVE  acc[c].segments = 0
    BY DEF NoJoinUnderReadLock
  <2>1. p \in Proc
    BY DEF IInv, TypeOK
  <2>2. writer = Consumer => pc[Consumer] = "drain"
    BY <2>1, Procs DEF IInv, LockInv
  <2>. QED
    BY <2>2 DEF IInv, SegmentInv, Unread
<1>. QED
  BY <1>1, Invariant, PTL

--------------------------------------------------------------------------------
(* The snapshots and the files, for any flush interval and any number of   *)
(* lines as well.                                                          *)

(* The texts hold one piece for every number given out, but for the piece  *)
(* the parser has said and not yet counted.                                *)
Said == Joined(acc["assistant"]).joined + Joined(acc["reasoning"]).joined

SumInv == Said = IF pc[Consumer] = "count" THEN sequence + 1 ELSE sequence

(* What has been read of a snapshot is the present state: whoever reads    *)
(* keeps the parser out.                                                   *)
ReadInv ==
  \A p \in Proc :
    /\ pc[p] \in {"assistant", "reasoning"} => snap[p].LastSequence = sequence
    /\ pc[p] = "reasoning" => snap[p].AssistantText = Joined(acc["assistant"]).joined

(* Nothing remembered is ahead of the builder.                             *)
BoundInv ==
  /\ written <= sequence /\ file.LastSequence <= sequence
  /\ \A p \in Proc : snap[p].LastSequence <= sequence /\ called[p] <= sequence

(* A snapshot recorded under the lock is the present state until the lock  *)
(* is released, and it will be written unless the state is dirty; a forced *)
(* one is always written.                                                  *)
RecordInv ==
  \A p \in Proc :
    /\ pc[p] \in {"record", "unlock"} => snap[p].LastSequence = sequence
    /\ pc[p] = "unlock" => (dirty \/ flush[p]) /\ (p = Consumer \/ flush[p])

(* Only the consumer moves the sequence, and not while it writes.          *)
ConsumerInv == pc[Consumer] = "write" => snap[Consumer].LastSequence = sequence

(* Who is about to write the stop file has written its snapshot.           *)
StopInv == \A p \in Proc : pc[p] = "stopfile" => called[p] <= written

DInv ==
  /\ SumInv /\ ReadInv /\ BoundInv /\ RecordInv /\ ConsumerInv /\ StopInv
  /\ SnapshotsAreWhole /\ Fresh /\ NothingForgotten

Inv == IInv /\ DInv

--------------------------------------------------------------------------------

(* What the types say of the fields these proofs compare.                  *)
LEMMA Numbers ==
  ASSUME TypeOK
  PROVE  /\ sequence \in Nat /\ written \in Nat
         /\ file.LastSequence \in Nat
         /\ \A p \in Proc : /\ called[p] \in Nat /\ snap[p].LastSequence \in Nat
                            /\ snap[p].AssistantText \in Nat /\ snap[p].ReasoningText \in Nat
         /\ \A c \in Channel : acc[c].joined \in Nat /\ acc[c].segments \in Nat
         /\ EmptySnapshot.LastSequence = 0 /\ Whole(EmptySnapshot)
BY DEF TypeOK, Snapshot, Accumulator, EmptySnapshot, Whole

LEMMA DataInit == Init => DInv
<1> SUFFICES ASSUME Init PROVE DInv
  OBVIOUS
<1>1. SumInv /\ SnapshotsAreWhole
  BY Procs DEF Init, SumInv, Said, Joined, Channel, SnapshotsAreWhole, Whole, EmptySnapshot
<1>2. ReadInv /\ BoundInv /\ RecordInv /\ ConsumerInv /\ StopInv /\ Fresh /\ NothingForgotten
  BY Procs DEF Init, ReadInv, BoundInv, RecordInv, ConsumerInv, StopInv, Fresh,
               HasSnapshot, NothingForgotten, EmptySnapshot
<1>. QED
  BY <1>1, <1>2 DEF DInv

(* A step of p that only moves it, outside what DInv says of its labels.   *)
LEMMA MoveStep ==
  ASSUME Inv, NEW p \in Proc,
         NEW label \in {"lock", "drain", "rlock", "rwait", "parse", "snapshot"},
         pc[p] \in {"idle", "lock", "drain", "rlock", "parse"},
         pc' = [pc EXCEPT ![p] = label],
         called' = called \/ called' = [called EXCEPT ![p] = sequence],
         produced' = produced \/ p = Consumer,
         writer # Nobody => writer' # Nobody,
         UNCHANGED <<snap, flush, sequence, acc, flushes, files>>
  PROVE  DInv'
<1>. USE Numbers DEF Inv, IInv, DInv, HasSnapshot, files, flushes
<1>1. /\ pc \in [Proc -> Label] /\ called \in [Proc -> Nat] /\ sequence <= sequence
      /\ \A q \in Proc : pc'[q] = pc[q] \/ (q = p /\ pc'[q] = label)
  BY DEF TypeOK
<1>2. pc[Consumer] = "count" <=> pc'[Consumer] = "count"
  BY <1>1, Procs
<1>3. SumInv'
  BY <1>2 DEF SumInv, Said, Joined
<1>4. ReadInv' /\ ConsumerInv' /\ RecordInv'
  BY <1>1, Procs DEF ReadInv, ConsumerInv, RecordInv, Joined
<1>5. SnapshotsAreWhole'
  BY <1>1 DEF SnapshotsAreWhole, Whole
<1>6. BoundInv' /\ StopInv' /\ Fresh'
  BY <1>1 DEF BoundInv, StopInv, Fresh
<1>7. NothingForgotten'
  BY <1>1 DEF NothingForgotten
<1>. QED
  BY <1>3, <1>4, <1>5, <1>6, <1>7

(* The parser puts one piece into one text and then takes one number, with *)
(* nobody reading.                                                         *)
LEMMA ParseTextStep == ASSUME Inv, ParseText PROVE DInv'
<1>. USE Numbers DEF Inv, IInv, DInv, HasSnapshot, files, flushes, locks
<1>1. /\ pc[Consumer] = "parse"
      /\ pc' = [pc EXCEPT ![Consumer] = "count"]
      /\ UNCHANGED <<snap, flush, called, sequence, writer, dirty, file, written>>
  BY DEF ParseText, Goto
<1>2. /\ writer = Consumer /\ writer' # Nobody
      /\ \A q \in Proc : pc[q] \notin Reading \cup {"record", "unlock"}
  BY <1>1, ParserAlone, Procs DEF Reading, Locking
<1>3. PICK c \in Channel : \/ acc' = [acc EXCEPT ![c] = Appended(acc[c])]
                           \/ acc' = [acc EXCEPT ![c] = Replaced(acc[c])]
  BY SpeaksAssumption DEF ParseText
<1>4. \A d \in Channel : Joined(acc'[d]).joined
                           = Joined(acc[d]).joined + (IF d = c THEN 1 ELSE 0)
  BY <1>3 DEF TypeOK, Accumulator, Appended, Replaced, Joined
<1>5. SumInv'
  BY <1>1, <1>4, Procs DEF SumInv, Said, Channel, Joined, TypeOK
<1>6. /\ pc'[Consumer] = "count"
      /\ \A q \in Proc : q # Consumer => pc'[q] = pc[q]
  BY <1>1, Procs DEF TypeOK
<1>7. ReadInv' /\ RecordInv' /\ ConsumerInv' /\ NothingForgotten'
  BY <1>1, <1>2, <1>6, Procs DEF ReadInv, RecordInv, ConsumerInv, NothingForgotten, Reading
<1>8. BoundInv' /\ StopInv' /\ SnapshotsAreWhole'
  BY <1>1, <1>6, Procs DEF BoundInv, StopInv, SnapshotsAreWhole, Whole
<1>9. Fresh'
  BY <1>1, <1>6 DEF Fresh
<1>. QED
  BY <1>5, <1>7, <1>8, <1>9

LEMMA CountStep == ASSUME Inv, NextOutput PROVE DInv'
<1>. USE Numbers DEF Inv, IInv, DInv, HasSnapshot, files, flushes, locks
<1>1. /\ pc[Consumer] = "count" /\ sequence' = sequence + 1
      /\ pc' = [pc EXCEPT ![Consumer] = "snapshot"]
      /\ UNCHANGED <<snap, flush, called, acc, produced, writer, dirty, file, written>>
  BY DEF NextOutput, Goto
<1>2. /\ writer = Consumer /\ writer' # Nobody
      /\ \A q \in Proc : pc[q] \notin Reading \cup {"record", "unlock"}
  BY <1>1, ParserAlone, Procs DEF Reading, Locking
<1>3. /\ pc'[Consumer] = "snapshot"
      /\ \A q \in Proc : q # Consumer => pc'[q] = pc[q]
  BY <1>1, Procs DEF TypeOK
<1>4. SumInv'
  BY <1>1, <1>3 DEF SumInv, Said, Joined
<1>5. ReadInv' /\ RecordInv' /\ ConsumerInv' /\ NothingForgotten'
  BY <1>1, <1>2, <1>3, Procs DEF ReadInv, RecordInv, ConsumerInv, NothingForgotten, Reading
<1>6. BoundInv' /\ StopInv' /\ SnapshotsAreWhole' /\ Fresh'
  BY <1>1, <1>3, Procs DEF BoundInv, StopInv, SnapshotsAreWhole, Whole, Fresh
<1>. QED
  BY <1>4, <1>5, <1>6

(* The three reads of Builder.Snapshot.                                    *)
LEMMA ReadSequenceKeeps == ASSUME Inv, NEW p \in Proc, ReadSequence(p) PROVE DInv'
<1>. USE Numbers DEF Inv, IInv, DInv, HasSnapshot, files, flushes, parsing, locks
<1>1. /\ pc[p] = "snapshot" /\ pc'[p] = "assistant" /\ snap'[p].LastSequence = sequence
      /\ \A q \in Proc : q # p => pc'[q] = pc[q] /\ snap'[q] = snap[q]
      /\ UNCHANGED <<flush, called, sequence, acc, produced, writer, dirty, file, written>>
  BY DEF ReadSequence, Goto, TypeOK, Snapshot
<1>2. SumInv' /\ ReadInv'
  BY <1>1, Procs DEF SumInv, Said, ReadInv, Joined
<1>3. BoundInv' /\ StopInv' /\ SnapshotsAreWhole' /\ Fresh'
  BY <1>1 DEF BoundInv, StopInv, SnapshotsAreWhole, Whole, Fresh
<1>4. RecordInv' /\ ConsumerInv' /\ NothingForgotten'
  BY <1>1, Procs DEF RecordInv, ConsumerInv, NothingForgotten
<1>. QED
  BY <1>2, <1>3, <1>4

(* Joining an accumulator changes no text.                                 *)
LEMMA JoinKeeps ==
  ASSUME TypeOK, NEW c \in Channel, acc' = [acc EXCEPT ![c] = Joined(acc[c])]
  PROVE  /\ \A d \in Channel : Joined(acc'[d]).joined = Joined(acc[d]).joined
         /\ acc'[c].joined = Joined(acc[c]).joined
         /\ Said' = Said
<1>1. /\ \A d \in Channel : Joined(acc'[d]).joined = Joined(acc[d]).joined
      /\ acc'[c].joined = Joined(acc[c]).joined
  BY Numbers DEF TypeOK, Joined
<1>. QED
  BY <1>1 DEF Said, Channel, Joined

LEMMA ReadAssistantKeeps == ASSUME Inv, NEW p \in Proc, ReadAssistant(p) PROVE DInv'
<1>. USE Numbers DEF Inv, IInv, DInv, HasSnapshot, files, flushes, locks
<1>1. /\ pc[p] = "assistant" /\ pc'[p] = "reasoning"
      /\ snap'[p].LastSequence = snap[p].LastSequence
      /\ snap'[p].AssistantText = acc'["assistant"].joined
      /\ \A q \in Proc : q # p => pc'[q] = pc[q] /\ snap'[q] = snap[q]
      /\ UNCHANGED <<flush, called, sequence, produced, writer, dirty, file, written>>
  BY DEF ReadAssistant, Goto, TypeOK, Snapshot
<1>2. /\ Joined(acc'["assistant"]).joined = Joined(acc["assistant"]).joined
      /\ acc'["assistant"].joined = Joined(acc["assistant"]).joined
      /\ Said' = Said
  BY JoinKeeps DEF ReadAssistant, Channel
<1>3. SumInv'
  BY <1>1, <1>2, Procs DEF SumInv
<1>. HIDE DEF Joined
<1>4. ReadInv'
  <2>1. Joined(acc["assistant"])'.joined = Joined(acc["assistant"]).joined
    BY <1>2 DEF Joined
  <2>. QED
    BY <1>1, <1>2, <2>1 DEF ReadInv
<1>5. BoundInv' /\ StopInv' /\ SnapshotsAreWhole' /\ Fresh'
  BY <1>1 DEF BoundInv, StopInv, SnapshotsAreWhole, Whole, Fresh
<1>6. RecordInv' /\ ConsumerInv' /\ NothingForgotten'
  BY <1>1, Procs DEF RecordInv, ConsumerInv, NothingForgotten
<1>. QED
  BY <1>3, <1>4, <1>5, <1>6

LEMMA ReadReasoningKeeps == ASSUME Inv, NEW p \in Proc, ReadReasoning(p) PROVE DInv'
<1>. USE Numbers DEF Inv, IInv, DInv, HasSnapshot, files, flushes, locks
<1>1. /\ pc[p] = "reasoning" /\ pc'[p] \in {"record", "runlock"}
      /\ snap'[p].LastSequence = snap[p].LastSequence
      /\ snap'[p].AssistantText = snap[p].AssistantText
      /\ snap'[p].ReasoningText = acc'["reasoning"].joined
      /\ \A q \in Proc : q # p => pc'[q] = pc[q] /\ snap'[q] = snap[q]
      /\ UNCHANGED <<flush, called, sequence, produced, writer, dirty, file, written>>
  BY DEF ReadReasoning, Goto, TypeOK, Snapshot
<1>2. /\ Joined(acc'["assistant"]).joined = Joined(acc["assistant"]).joined
      /\ acc'["reasoning"].joined = Joined(acc["reasoning"]).joined
      /\ Said' = Said
  BY JoinKeeps DEF ReadReasoning, Channel
<1>3. pc[Consumer] # "count" /\ pc'[Consumer] # "count"
  BY <1>1, ParserAlone, Procs DEF Reading
<1>4. SumInv'
  BY <1>1, <1>2, <1>3 DEF SumInv
<1>5. /\ snap'[p].LastSequence = sequence /\ Whole(snap'[p])
  BY <1>1, <1>2, <1>3 DEF ReadInv, SumInv, Said, Whole
<1>. HIDE DEF Joined
<1>6. ReadInv'
  <2>1. Joined(acc["assistant"])'.joined = Joined(acc["assistant"]).joined
    BY <1>2 DEF Joined
  <2>. QED
    BY <1>1, <2>1 DEF ReadInv
<1>7. SnapshotsAreWhole'
  BY <1>1, <1>5 DEF SnapshotsAreWhole, Whole
<1>8. BoundInv' /\ StopInv' /\ Fresh'
  BY <1>1, <1>5 DEF BoundInv, StopInv, Fresh
<1>9. RecordInv' /\ ConsumerInv' /\ NothingForgotten'
  BY <1>1, <1>5, Procs DEF RecordInv, ConsumerInv, NothingForgotten
<1>. QED
  BY <1>4, <1>6, <1>7, <1>8, <1>9

LEMMA RecordStepKeeps == ASSUME Inv, NEW p \in Proc, RecordSnapshot(p) PROVE DInv'
<1>. USE Numbers DEF Inv, IInv, DInv, HasSnapshot, files, locks, parsing
<1> DEFINE must == MustFlush(at[p], p # Consumer)
<1>1. /\ pc[p] = "record" /\ writer' = writer /\ writer = p
      /\ pc' = [pc EXCEPT ![p] = "unlock"]
      /\ snap' = [snap EXCEPT ![p] = snap[p]]
      /\ flush' = [flush EXCEPT ![p] = must]
      /\ dirty' = ~must
      /\ UNCHANGED <<called, sequence, acc, produced, file, written>>
  BY DEF RecordSnapshot, Record, Goto, LockInv, Locking
<1>2. must \in BOOLEAN /\ (p = Consumer \/ must)
  BY DEF MustFlush
<1>. HIDE DEF must
<1>3. snap' = snap
  BY <1>1 DEF TypeOK
<1>4. \A q \in Proc : q # p => pc'[q] = pc[q] /\ pc[q] # "unlock" /\ flush'[q] = flush[q]
  BY <1>1 DEF TypeOK, LockInv, Locking
<1>5. flush'[p] = must /\ pc'[p] = "unlock"
  BY <1>1 DEF TypeOK
<1>6. SumInv' /\ ReadInv'
  BY <1>1, <1>3, <1>4, <1>5, Procs DEF SumInv, Said, ReadInv, Joined
<1>7. BoundInv' /\ StopInv' /\ Fresh' /\ SnapshotsAreWhole'
  BY <1>1, <1>3, <1>4, <1>5 DEF BoundInv, StopInv, Fresh, SnapshotsAreWhole, Whole
<1>8. RecordInv' /\ ConsumerInv' /\ NothingForgotten'
  BY <1>1, <1>2, <1>3, <1>4, <1>5, Procs DEF RecordInv, ConsumerInv, NothingForgotten
<1>. QED
  BY <1>6, <1>7, <1>8

LEMMA UnlockStepKeeps == ASSUME Inv, NEW p \in Proc, Unlock(p) PROVE DInv'
<1>. USE Numbers DEF Inv, IInv, DInv, HasSnapshot, files, flushes, parsing
<1>1. /\ pc[p] = "unlock" /\ flush[p] \in BOOLEAN
      /\ UNCHANGED <<called, sequence, acc, produced, dirty, file, written>>
  BY DEF Unlock, TypeOK
<1>2. /\ pc'[p] = IF flush[p] THEN "write" ELSE AfterFlush(p)
      /\ snap'[p] = IF flush[p] THEN snap[p] ELSE Kept(p)
      /\ \A q \in Proc : q # p =>
           /\ pc'[q] = (IF pc[q] = "rwait" THEN "snapshot" ELSE pc[q])
           /\ flush'[q] = flush[q] /\ snap'[q] = snap[q] /\ pc[q] # "unlock"
  BY Procs DEF Unlock, Waiting, TypeOK, LockInv, Locking
<1>3. ~flush[p] => /\ p = Consumer /\ Kept(p) = EmptySnapshot
                   /\ AfterFlush(p) = IF produced THEN "rlock" ELSE "reply"
  BY <1>1, ProcAssumption DEF RecordInv, AfterFlush, Kept
<1>. HIDE DEF EmptySnapshot
<1>4. SumInv' /\ ReadInv'
  BY <1>1, <1>2, <1>3, Procs DEF SumInv, Said, ReadInv, Joined
<1>5. BoundInv' /\ StopInv' /\ SnapshotsAreWhole'
  BY <1>1, <1>2, <1>3 DEF BoundInv, StopInv, SnapshotsAreWhole, Whole
<1>6. RecordInv' /\ Fresh'
  BY <1>1, <1>2, <1>3 DEF RecordInv, Fresh
<1>7. ConsumerInv' /\ NothingForgotten'
  BY <1>1, <1>2, <1>3, Procs DEF ConsumerInv, RecordInv, NothingForgotten
<1>. QED
  BY <1>4, <1>5, <1>6, <1>7

LEMMA WriteStepKeeps == ASSUME Inv, NEW p \in Proc, WriteFile(p) PROVE DInv'
<1>. USE Numbers DEF Inv, IInv, DInv, HasSnapshot, flushes, parsing, locks
<1>1. /\ pc[p] = "write" /\ file' = snap[p]
      /\ UNCHANGED <<called, sequence, acc, produced, dirty, flush, writer>>
  BY DEF WriteFile
<1>2. written' \in Nat /\ written' >= written /\ written' >= snap[p].LastSequence
      /\ (written' = written \/ written' = snap[p].LastSequence)
  BY DEF WriteFile
<1>3. /\ pc'[p] = AfterFlush(p) /\ snap'[p] = Kept(p)
      /\ \A q \in Proc : q # p => pc'[q] = pc[q] /\ snap'[q] = snap[q]
  BY DEF WriteFile, Goto, TypeOK
<1>4. /\ AfterFlush(p) \in {"rlock", "reply", "result", "stopfile"}
      /\ AfterFlush(p) = "reply" => p = Consumer /\ ~produced
      /\ AfterFlush(p) = "result" => Kept(p) = snap[p]
      /\ Kept(p) = snap[p] \/ Kept(p) = EmptySnapshot
  BY DEF AfterFlush, Kept
<1>. HIDE DEF EmptySnapshot
<1>5. SumInv' /\ ReadInv'
  BY <1>1, <1>3, <1>4, Procs DEF SumInv, Said, ReadInv, Joined
<1>6. BoundInv' /\ SnapshotsAreWhole'
  BY <1>1, <1>2, <1>3, <1>4 DEF BoundInv, SnapshotsAreWhole, Whole
<1>7. RecordInv' /\ ConsumerInv'
  BY <1>1, <1>3, <1>4, Procs DEF RecordInv, ConsumerInv
<1>8. Fresh'
  BY <1>1, <1>3, <1>4 DEF Fresh
<1>9. StopInv'
  BY <1>1, <1>2, <1>3 DEF StopInv, Fresh
<1>10. NothingForgotten'
  BY <1>1, <1>2, <1>3, <1>4 DEF NothingForgotten, BoundInv
<1>. QED
  BY <1>5, <1>6, <1>7, <1>8, <1>9, <1>10

LEMMA WriteStopStepKeeps == ASSUME Inv, NEW p \in Proc, WriteStop(p) PROVE DInv'
<1>. USE Numbers DEF Inv, IInv, DInv, HasSnapshot, flushes, parsing, locks
<1>1. /\ pc[p] = "stopfile"
      /\ UNCHANGED <<snap, called, sequence, acc, produced, dirty, flush, writer, file, written>>
      /\ pc'[p] = "rlock" /\ \A q \in Proc : q # p => pc'[q] = pc[q]
  BY DEF WriteStop, Goto, TypeOK
<1>2. SumInv' /\ ReadInv' /\ ConsumerInv'
  BY <1>1, Procs DEF SumInv, Said, ReadInv, ConsumerInv, Joined
<1>3. BoundInv' /\ SnapshotsAreWhole' /\ RecordInv'
  BY <1>1 DEF BoundInv, SnapshotsAreWhole, RecordInv, Whole
<1>4. StopInv' /\ Fresh'
  BY <1>1 DEF StopInv, Fresh
<1>5. NothingForgotten'
  BY <1>1 DEF NothingForgotten
<1>. QED
  BY <1>2, <1>3, <1>4, <1>5

LEMMA RUnlockKeeps == ASSUME Inv, NEW p \in Proc, RUnlock(p) PROVE DInv'
<1>. USE Numbers DEF Inv, IInv, DInv, HasSnapshot, files, flushes, parsing
<1>1. /\ pc[p] = "runlock" /\ pc'[p] = "reply"
      /\ \A q \in Proc : q # p => pc'[q] = pc[q]
      /\ UNCHANGED <<snap, flush, called, sequence, acc, produced, writer, dirty, file, written>>
  BY DEF RUnlock, Goto, TypeOK
<1>2. SumInv' /\ ReadInv' /\ ConsumerInv'
  BY <1>1, Procs DEF SumInv, Said, ReadInv, ConsumerInv, Joined
<1>3. BoundInv' /\ SnapshotsAreWhole' /\ RecordInv'
  BY <1>1 DEF BoundInv, SnapshotsAreWhole, RecordInv, Whole
<1>4. StopInv' /\ Fresh'
  BY <1>1 DEF StopInv, Fresh
<1>5. NothingForgotten'
  BY <1>1 DEF NothingForgotten
<1>. QED
  BY <1>2, <1>3, <1>4, <1>5

(* An operation ends, from a label where nothing is left to be written, or *)
(* because a file could not be written.                                    *)
LEMMA ReturnStepKeeps ==
  ASSUME Inv, NEW p \in Proc, NEW label \in {"idle", "done", "failed"}, Return(p, label),
         pc[p] \in {"reply", "result"} \/ (pc[p] \in {"write", "stopfile"} /\ label = "failed"),
         UNCHANGED <<parsing, locks, flushes, files>>
  PROVE  DInv'
<1>. USE Numbers DEF Inv, IInv, DInv, HasSnapshot, files, flushes, parsing, locks
<1>1. /\ pc'[p] = label /\ snap'[p] = EmptySnapshot /\ called'[p] = 0
      /\ \A q \in Proc : q # p => /\ pc'[q] = pc[q] /\ snap'[q] = snap[q]
                                  /\ called'[q] = called[q] /\ flush'[q] = flush[q]
      /\ produced' = (produced /\ p # Consumer) /\ produced \in BOOLEAN
      /\ UNCHANGED <<sequence, acc, writer, dirty, file, written>>
  BY DEF Return, Goto, TypeOK
<1>. HIDE DEF EmptySnapshot
<1>2. SumInv' /\ ReadInv' /\ ConsumerInv'
  BY <1>1, Procs DEF SumInv, Said, ReadInv, ConsumerInv, Joined
<1>3. BoundInv' /\ SnapshotsAreWhole' /\ RecordInv' /\ StopInv'
  BY <1>1 DEF BoundInv, SnapshotsAreWhole, Whole, RecordInv, StopInv
<1>4. Fresh'
  BY <1>1 DEF Fresh
<1>5. NothingForgotten'
  BY <1>1 DEF NothingForgotten
<1>. QED
  BY <1>2, <1>3, <1>4, <1>5

LEMMA DataNext == Inv /\ [Next]_vars => DInv'
<1> SUFFICES ASSUME Inv, [Next]_vars PROVE DInv'
  OBVIOUS
<1>1. CASE ScanLine \/ SeeTerminal \/ \E p \in Proc : CallStop(p) \/ CallGet(p)
  BY <1>1, Procs, MoveStep DEF ScanLine, SeeTerminal, CallStop, CallGet, Begin, locks
<1>2. CASE Parse
  <2>1. CASE ParseSilent
    BY <2>1, Procs, MoveStep DEF ParseSilent, Goto, parsing, locks
  <2>. QED
    BY <1>2, <2>1, ParseTextStep, CountStep DEF Parse
<1>3. CASE TerminalResult
  BY <1>3, Procs, ReturnStepKeeps DEF TerminalResult
<1>4. CASE Tick \/ UNCHANGED vars
  BY <1>4 DEF Tick, vars, local, parsing, locks, flushes, files, Inv, DInv, HasSnapshot, SumInv, Said, ReadInv,
     BoundInv, RecordInv, ConsumerInv, StopInv, SnapshotsAreWhole, Fresh, NothingForgotten,
     Joined, Whole
<1>5. ASSUME NEW p \in Proc, WriteFails(p) \/ Reply(p) PROVE DInv'
  BY <1>5, ReturnStepKeeps DEF WriteFails, Reply
<1>6. ASSUME NEW p \in Proc, Lock(p) \/ Enter(p) \/ RLock(p) PROVE DInv'
  <2>1. CASE Lock(p)
    BY <2>1, Procs, MoveStep DEF Lock, Goto, parsing
  <2>2. CASE Enter(p)
    BY <2>2, MoveStep DEF Enter, Goto, parsing, locks
  <2>3. CASE RLock(p)
    BY <2>3, MoveStep DEF RLock, Goto, parsing
  <2>. QED
    BY <1>6, <2>1, <2>2, <2>3
<1>7. ASSUME NEW p \in Proc, Run(p) PROVE DInv'
  BY <1>5, <1>6, <1>7, ReadSequenceKeeps, ReadAssistantKeeps, ReadReasoningKeeps,
     RecordStepKeeps, UnlockStepKeeps, WriteStepKeeps, WriteStopStepKeeps, RUnlockKeeps DEF Run
<1>. QED
  BY <1>1, <1>2, <1>3, <1>4, <1>5, <1>6, <1>7 DEF Next

LEMMA DataInvariant == Spec => []Inv
<1>1. Init => Inv
  BY InitInv, DataInit DEF Inv
<1>2. Inv /\ [Next]_vars => Inv'
  BY NextInv, DataNext DEF Inv
<1>. QED
  BY <1>1, <1>2, PTL DEF Spec

--------------------------------------------------------------------------------

(* Builder.Snapshot reads a sequence and two texts that belong together,   *)
(* because the lock keeps the parser out between its three reads.          *)
THEOREM SnapshotsAreWholeCorrect == Spec => []SnapshotsAreWhole
<1>1. Inv => SnapshotsAreWhole
  BY DEF Inv, DInv
<1>. QED
  BY <1>1, DataInvariant, PTL

(* What a call reports is not older than the call.                         *)
THEOREM FreshCorrect == Spec => []Fresh
<1>1. Inv => Fresh
  BY DEF Inv, DInv
<1>. QED
  BY <1>1, DataInvariant, PTL

(* recordSnapshotLocked clears dirty only when the text will be written.   *)
THEOREM NothingForgottenCorrect == Spec => []NothingForgotten
<1>1. Inv => NothingForgotten
  BY DEF Inv, DInv
<1>. QED
  BY <1>1, DataInvariant, PTL

(* ParseLine's write outside the lock is never of an old state.            *)
THEOREM ConsumerNeverRollsBackCorrect == Spec => ConsumerNeverRollsBack
<1>1. ASSUME Inv, NEW p \in Proc, WriteFile(p), file'.LastSequence < file.LastSequence
      PROVE  p # Consumer
  BY <1>1, Numbers DEF Inv, IInv, DInv, HasSnapshot, ConsumerInv, BoundInv, WriteFile
<1>2. Inv /\ [Next]_vars =>
        [\A p \in Proc : WriteFile(p) /\ file'.LastSequence < file.LastSequence
                           => p # Consumer]_vars
  BY <1>1
<1>. QED
  BY <1>2, DataInvariant, PTL DEF Spec, ConsumerNeverRollsBack

(* RequestStop writes the stop file after what was parsed before the call  *)
(* has been flushed, inside the flush interval as well.                    *)
THEOREM FlushedBeforeStopCorrect == Spec => FlushedBeforeStop
<1>1. ASSUME Inv, NEW p \in Stoppers, WriteStop(p) PROVE written >= called[p]
  BY <1>1, Procs, Numbers DEF Inv, IInv, DInv, HasSnapshot, StopInv, WriteStop
<1>2. Inv /\ [Next]_vars => [\A p \in Stoppers : WriteStop(p) => written >= called[p]]_vars
  BY <1>1
<1>. QED
  BY <1>2, DataInvariant, PTL DEF Spec, FlushedBeforeStop
================================================================================
