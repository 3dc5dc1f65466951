# Verification of the CLI output sidecar

The repository deploys a platform that runs coding CLIs (Claude Code, Qwen, Gemini) in
agent pods; the sidecar also has a parser for Codex. Nearly all of it is declarative: Helm
charts, images, values. The code of its own, and the concurrency, is in
`src/deploy/agents/`: a Go sidecar (`sidecars/cli-output`, "the sidecar") that turns the
CLI's output into numbered AG-UI events, and the shell script
(`common/cli-output-runtime.sh`, "the shell") that runs the CLI next to it. This directory
holds TLA+ models of these two, the TLC runs that check them and TLAPS proofs about them.
Go paths below are relative to `src/deploy/agents/sidecars/cli-output/internal/`.

## The system

```
 agent container                shared volume               sidecar process              outside
 +-----------------+   fifo    +-------------+   scanner   +------------------+  publish +-----------+
 | CLI  ---------------------> |             | ----------> | consumer         | -------> | JetStream |
 | stop watcher <------------- | stop.json   | <---------- | Stop calls       | -------> | DELTA     |
 | shell --------------------> | terminal    | ----------> | terminal watcher | -------> | RESULT    |
 |       <-------------------- | ready       | <---------- | main (Run)       | -------> | STATUS    |
 +-----------------+           | accumulator | <---------- | State (RWMutex)  | <------- | clients   |
                               +-------------+             +------------------+   gRPC   +-----------+
```

| component | state | operations | what makes it correct |
|---|---|---|---|
| builder, finalizer (`parser/`) | sequence, accumulated texts, open flags, emitted flags | append, sync and result of a text, usage, tool call, finalize | events numbered without gaps, messages and phases opened and closed in order, accumulated text = what the deltas say |
| parsers (`parsers/*`) | a builder; Claude and Qwen a usage flag; Qwen a stream that splits inline `<think>` text | `ParseLine` | a first message that comes in pieces and again as a whole is shown once; whole texts are shown as said; the first result closes everything; usage once |
| `State` (`app/state.go`) | RWMutex, last flush, dirty, accumulator file, stop file | `ParseLine`, `Flush`, `Snapshot`, `RequestStop` | no data race, whole and fresh snapshots, nothing forgotten, flush before stop |
| `App` (`app/run.go`) | goroutines and their error channels, ready file | `New`, `Run`, `consumeFIFO`, `watchTerminal`, `shutdown` | the streams are a proper report; leaves only when the result is reported |
| `Service` (`app/service.go`) | - | `GetAccumulator`, `Stop` | calls return; a stop gets the CLI signalled |
| `ResultFromTerminal` (`events/status.go`) | reads the terminal and stop files | - | the result says what happened |
| publisher (`events/publisher.go`, `streams.go`) | mutex, connection, JetStream client | publish outputs, status, terminal; close | one connection, none lost, streams before messages; in order, prefix on failure |
| shell (`cli-output-runtime.sh`) | CLI process, stop watcher, terminal file | wait, launch, poll, signal, reap, record the exit code | CLI not started too early; signals justified; exit code recorded after the exit |

What is hard here: four kinds of goroutines share `State` and two processes share files
without locks; snapshots are taken under a lock and written outside it; `String()` writes
under a read lock; a publish may fail after the message is stored; both the stop and the
terminal file are polled; the sidecar may die at any point and is started again on the
same volume, of which it clears only a part. The hazards, each at its line, are listed
in `PROJECT.json`.

## Modules

| module | models | kind |
|---|---|---|
| `EventStream` | what a subscriber of one run's outputs may rely on: per message, tool call and usage kind a small automaton over event types, gap-free numbers, tool calls not torn apart | abstract specification |
| `Texts` | texts as sequences of characters | operators |
| `OutputBuilder` | `builder.go`, `builder_tools.go`, `finalizer.go` as operators from a builder record to the next | operators |
| `OutputPipeline` | a parser that calls these operations in any order, and the consumer publishing the outputs one by one until an error | state machine; implements `EventStream` |
| `Subscriber` | what a subscriber shows of a run: per thread the messages started, all deltas and those of the last message | operators, for properties |
| `Recursion` | induction and recursive functions in a form the provers can use | lemmas |
| `BuilderProofs` | lemmas about the operators of `OutputBuilder` and what they add to a subscriber's display | proofs |
| `OutputPipelineProofs` | proofs about `OutputPipeline` | proofs |
| `SidecarState` | `state.go`, `textAccumulator` and `files.go`, one action per step of the lock, of the parser, of reading a snapshot and of writing a file; the consumer, the watcher, Stop calls and clients | state machine |
| `SidecarStateProofs` | proofs about `SidecarState`: its locks, its data | proofs |
| `RunReport` | what the platform may rely on in the three streams of a run | abstract specification |
| `Sidecar` | `run.go`, `service.go`, `status.go` and the publisher's calls: the process from `New` to its exit, again after a restart | component |
| `AgentRuntime` | the shell, its stop watcher and the CLI as an external process | component |
| `AgentRun` | `Sidecar` and `AgentRuntime` on their shared volume | composition; implements `RunReport` |
| `AgentRunProofs` | proofs about `AgentRun` | proofs |
| `Publisher` | `publisher.go` and `streams.go`: mutex, connection, streams, publishes, `Close` | state machine |
| `PublisherProofs` | proofs about `Publisher` | proofs |
| `Conversation` | a CLI that tells messages in pieces and as a whole to a parser; what of it subscribers are shown | common part of the parsers |
| `ContentBlocks` | what Claude's and Qwen's parsers share: content blocks, usage reported once, two kinds of lines | common part |
| `ClaudeParser`, `QwenParser`, `CodexParser`, `GeminiParser` | `ParseLine` of each CLI, one action per kind of line, over `OutputBuilder` | state machines |
| `ParserProofs` | proofs about the four parsers | proofs |
| `InlineThinking` | `parsers/qwen/inline_thinking.go`: the stream and the split as operators | operators |
| `InlineThinkingStream` | the stream fed in deltas, and the division of a text by definition | state machine |
| `InlineThinkingProofs` | proofs about `InlineThinking` and `InlineThinkingStream` | proofs |
| `MC*` | instances for TLC | model checking |

### How the models correspond to the code

*OutputBuilder.* A record has the builder's fields and the two flags of `Finalizer`. The
outputs an operation returns are appended to a history field `outputs`; an output keeps
its sequence, type, thread (`assistant`, `reasoning`, a tool call id, a usage kind) and
delta. Texts are sequences of characters because `syncText` compares them, tests prefixes
and cuts suffixes by length. Names, summaries and usage payloads are only empty or not.
`agui.RunOutput`, a library, is taken to reject content events without text, which
`nextOutput` turns into `INVALID` events; that none occurs is part of `EventStream`.

*OutputPipeline* does not fix a CLI: between two lines the parser may call any operation
with any argument, so what is shown here holds for all four parsers, which only ever call
these operations.

*Conversation and the parsers.* One action is one call of `ParseLine` with one kind of
line, from its field tests to the outputs it returns; lines that change nothing (unknown
types, no JSON, empty texts) are stuttering. The CLI is the environment: on each channel
it tells a message in pieces (`SayUpTo`), or tells the whole text, having told all, a
beginning or nothing of it before (`SayWhole`); after a whole text it may begin another
message. `told`, `whole`, `first`, `said`, `restated` and `turn` are history variables that
remember this, so that the properties can compare what was said with what the outputs show
a subscriber (`Shown`, by `Subscriber`). `said` counts the characters said on a channel,
each once; `restated` those that deltas told of a message after the first and a line then
repeated. These the code shows twice: `AppendAssistant` adds the deltas to the text of the
message before, and the line that repeats only its own message is no continuation of that.
A message is any text of the set `Message`, a delta any cut of it. An assistant line holds at
most one block of each type, in a fixed order; each is one call of `ParseBlock` or
`ParseInlineBlock`, as in the loop over `content`. `turn` says when the first result
has come: the `Finalizer`'s emitted flags are never reset, so a later turn of the same
process is not closed. The entrypoints start each CLI with one prompt, hence one turn, and
the properties end there. A result that is an error returns before the finalizer
(`ParseErrorResult`). `TurnUsage` is mapped to Claude's `turnUsage`; `qwen/parser.go:124-141`
is the same with fewer counters.

*Publisher.* `pc` follows a call of `PublishOutputs`, `PublishStatus` or `PublishTerminal`
through `jetStream` (`lock`, `check`, `setup`) to `js.Publish` (`send`), once per message;
`held` is the connection in its hands. The mutex is held from `Lock` over the test, the
connection and the three streams to the assignment, and not while a message is sent, so
`CloseConn` may end a connection somebody is publishing over, and a later publish connects
again. `ConnEnds` is the NATS client giving up. `EnsureStream` is one stream of
`ensureStreams`.

*SidecarState.* One unit of text stands for what a line says; an accumulator counts the
joined units and the segments not joined yet, since joining is the write that matters.
The parser changes the text first (`ParseText`) and counts the output after it (`NextOutput`);
`Builder.Snapshot` is three steps, one per field (`ReadSequence`, `ReadAssistant`,
`ReadReasoning`), under either lock. So a snapshot of two moments is possible in the model, and
it is the lock that prevents it. The lock is `sync.RWMutex` with its preferences: `Lock`
announces a writer (label `drain`), `Enter` is its return once the readers have left; `RLock`
behind an announced writer waits (`rwait`), and `Unlock` lets the waiting readers in before the
next writer. `pc` says where each goroutine is: `lock`, `drain`, `parse`, `count`, `record`,
`unlock`, `write`, `stopfile` for the writers, `rlock`, `rwait`, `runlock`, `reply` for the
readers, `snapshot`, `assistant`, `reasoning` for both. The clock
is read before the lock is asked for, as `time.Now()` is an argument of the calls.
`called` and `written` are history variables used by properties only.

*Sidecar.* `app` is the program counter of `New` and `Run`, `consumer` of `consumeFIFO`,
`watcher` of `watchTerminal`, `call` of each `Stop`. `New` is two steps because another
process can run between the removal of the ready file and of the stop file. A publish
stores the message (`Stored`), or returns an error with or without having stored it
(`Doubtful`). `Die` is the end of the process by error, crash or exit. `statuses`,
`outputs` and `results` are the streams, each entry marked with the incarnation that
published it; the mark exists only in the model.

*AgentRuntime.* `Launch`, `GiveUp`, `Reap`, `WriteTerminal` are the shell, `PollStop` and
`Signal` its stop watcher (test of the file, then grep), the other actions the CLI and the
kernel. A background process of a shell script ignores SIGINT until the program installs a
handler; so only SIGTERM ends one that is still opening the FIFO (`KilledOpening`).

*InlineThinking.* `Append`'s loop is the recursive function `Scan`, one call per tag; what
its string builders collect is the record `Division`. The reference `DivisionOf` does not
scan: it says of each place whether the last tag before it opens (`Inside`), which tags count
(`Opening`, `Closing`), and which blanks follow a counted closing tag (`Trimmed`).

Definitions commented as a *Deviation* are not part of any specification. Each is a
plausible bug in the operator that follows it; put in that operator's place it violates
the property named for it in `PROJECT.json` ("mutants").

## Runs

| run | instance | question and answer |
|---|---|---|
| `output_pipeline` | 2 characters, chunks of up to 2, 3 call ids of which 2 generated, operations start below sequence 6; 0.55 M states | Whatever operations in whatever order, and wherever publishing stops, subscribers get a well formed conversation (`WellFormedConversation`, a refinement); flags agree with what was sent; each accumulated text is what the deltas add up to from some place between two messages on (`AccumulatorIsReplay`; not from every such place, since a replaced text is told from its replacement on); `Finalize` never leaves the first message of a channel open. It may leave a later one open, even in the same turn, if a replaced text began it after the flag was set. |
| `sidecar_state` | 1 Stop call, 1 client, 2 lines, 2 clock values, interval 1; 11.5 M states | Interleaved at every step of lock, parser, snapshot and file: nothing is joined under the read lock; snapshots are whole and fresh; the consumer's write is never the one that takes the file back; when nothing is dirty the present text is written or about to be, unless a write failed; the stop file comes after what was parsed before the call. |
| `sidecar_state_liveness` | 1 Stop call, 2 clients, 1 line, 1 clock value; 59 k states, under `FairSpec` | Every line is consumed and every Stop and GetAccumulator call returns, also when the calls of two clients overlap for ever. Without the writers' preference (`RLockOvertakes`) it fails. |
| `agent_run_restarts` | up to 3 incarnations, 2 lines; 1.2 M states | `ProperReport` (refinement of `RunReport`) under every failure, SIGTERM, crash and restart; the sidecar leaves by itself only after result and phase are stored; the CLI is not launched before some incarnation has announced the run. No Stop calls here, they would be too many states: the orders with STOPPING are covered by the proof of `ProperReport`. |
| `agent_run_stop` | 1 Stop call, 2 incarnations, 1 line; 3.1 M states | Signals and results are explained by who asked to stop, in which incarnation, how, and whether before the exit was recorded. |
| `agent_run_liveness` | 1 Stop call, 2 incarnations; 0.35 M states | A standing stop request makes the stop watcher signal a CLI that has not exited; if the first is by force, with SIGTERM, and that ends the CLI also while it opens the FIFO (`StopSignalled`). A recorded exit ends a running sidecar. |
| `publisher` | Run and 2 other goroutines, 2 connections, 2 messages a call; 52 k states, under `FairSpec` | No connection is lost by the publisher or made next to an open one, no message goes out before the three streams exist, and every publish and `Close` returns, although all wait for one mutex. |
| `claude_parser` | 3 messages over 2 characters, 5 lines; 1.24 M states | The first message of a channel, in deltas, in an assistant line and in the result, is shown once, and of all messages no more than was said and restated (`SaidOnce`); whole texts, also of later messages, are shown as said (`WholeTextShown`); the first result closes everything; usage is reported once. |
| `qwen_parser` | 3 messages, one with thinking between tags and one that ends like a tag, 4 lines; 0.57 M states | The same with thinking in the text: the first message is heard once, divided by definition, but for the part of a tag the stream keeps back; a repeated text corrects what the stream carried over from the message before. Later messages that come both ways are shown twice, as with Claude. |
| `codex_parser` | 3 messages over 2 characters, 6 lines; 1.78 M states | Items told apart by their texts only: the first is shown once, no more is shown than was said (no item comes in deltas, so nothing is restated), each last one as it was said; `turn.completed` closes everything. |
| `gemini_parser` | the same; 0.12 M states | The first message, in deltas, as a whole or both ways, is shown once, and of all messages no more than was said and restated; whole ones are shown as said; the result closes everything. |
| `inline_thinking` | 5 characters, tags `<>` and `</>`, texts up to 8 characters; 0.49 M states | However deltas cut a text, stream and split agree with the division by definition (`CutsDoNotMatter`); the stream is where one `Append` of the whole text would be, and the split adds only what is kept back (`SplitContinuesStream`), so the repeated text continues what was streamed; only the beginning of a tag is kept back. |

Of the type invariants only that of `InlineThinkingStream`, which also bounds what is kept
back, is among the properties of the runs; the others are theorems (below) or parts of the
inductive invariants.

*Why the bounds are enough.* Texts of two characters over two letters give every relation
`syncText` distinguishes (equal, empty, continuation, rewrite); sequence 6 plus the longest
operation (7 outputs) lets each channel open, close and open again around tool calls. Two
lines let a slow flush be overtaken and put a line inside and one outside the interval.
Two lines and three incarnations let a line be reported by a later incarnation after one
that failed on an earlier line. The short tags begin and end alike and differ in between,
like the real ones; eight characters hold a thought with text before and after, two thoughts, nested and
stray tags, and as many cuts as there are characters. The messages of the parsers are one that
continues another and one that does not; five lines hold two deltas, the repeated text, the
deltas or whole text of a next message and a result, six two whole messages in pieces. Three
goroutines let one wait, one set up and one publish, two connections let one fail or end
before the next. The clients of `sidecar_state_liveness` call again and again, so two are enough for the read
lock to be held for ever by the one or the other; what a line says plays no part in who gets the lock, and
its lines say nothing (`Speaks`). `MaxSequence`, `MaxText`, `Generated`, `Speaks`, `MaxLines`, `MaxTime`, `MaxRuns`,
`PipeSize`, `MaxConns` and `MaxOutputs` are bounds of the models, not of the code.

Deadlock is not checked: in each system the CLI may fall silent or end, a failed publish
ends the consumer, and everything then rightly stops.

*Fairness.* Goroutines and processes are scheduled: `WF` on their steps. In `SidecarState`
`SF` is assumed of one step only, `Lock`: the inner mutex of `sync.RWMutex`, over which the
writers compete, is a `sync.Mutex` that hands itself to a goroutine that has waited a
millisecond. That a waiting writer holds back new readers, and that the readers behind a writer enter before the
next one, is in `RLock` and `Unlock` and not assumed. In `Publisher`
`SF` is on
taking the mutex, for the same reason.
The NATS client ends every call (2 s to connect, 5 s by default for a JetStream request),
with an error if need be: `WF` on the other steps of a publish. In `AgentRun` the
kernel ends a CLI that opens the FIFO and was sent SIGTERM (`WF` on `KilledOpening`). Nothing is assumed of the
CLI, clients, the server's answers, restarts or signals from outside.

## Proofs

Everything listed is checked by TLAPS for all values of the constants: every safety property
of the runs, for texts, messages, histories and numbers of processes of any size.

`Recursion`. Texts, outputs and the scan of a text are data of any length, so most proofs
below need induction. The library's induction theorems take an operator, which the provers
cannot instantiate; `Induction` states the principle for a set of numbers, and
`RecursionExists` and `RecursionUnique` say that a recursive function with one call on
something smaller is defined and satisfies its equation. All three rest on `LeastNumber`,
which follows from the library's `WFMin`. The models write their recursion as functions
(`Displayed`, `Scan`) for this reason.

`OutputPipelineProofs`: type correctness, `FlagsMatchOutputs`, `OpenHasText`, and
`Spec => WellFormedConversation`, that is, `OutputPipeline` implements `EventStream`. The
inductive invariant `PipelineInv` adds to the types that every output is acceptable after the
ones before it, that the flags agree with the last output of each thread (`FlagsAgree`)
and that an open message has text. Acceptability alone is not inductive: whether the next
`START` is legal depends on the open flag, so flags and history must be related first. One
lemma per operator of `OutputBuilder` says that it appends outputs acceptable in turn and
re-establishes the relation; the refinement step then only has to look at publishing.
`FinalizeClosesFirst` needs one invariant more, `EndInv`: an emitted flag is only set after
a message of its channel was ended, so its early return cannot leave a first message open.
`AccumulatorIsReplay` says that the accumulated text of a channel, the text the snapshot
holds, is what a subscriber shows who listens from some place of the outputs on where no
message of the channel is open (`BetweenMessages`). It is an existential claim, and from every
such place it would be false: after a text `a` was replaced by `b`, the outputs from the
beginning say `ab`. `Replay`,
its inductive form, only looks at the builder; the lemmas of `BuilderProofs` say of each
operator which deltas and starts it adds to the display of each thread, two lemmas
carry the place over an operation that adds to the channel or to another, and `SyncPlace`
finds the new one, after the end of the replaced message, by `FlagsAgree`.
Assumptions: generated ids are call ids, and call ids differ from the names of the other
threads.

`SidecarStateProofs`: type correctness and `NoJoinUnderReadLock` for any number of Stop
calls and clients. The property is not inductive: the inductive invariant `IInv` adds who
holds which lock at which label (`LockInv`) and that segments are unjoined only between
the parser's work and the reading of the text under the same lock (`SegmentInv`).
On it rest `SnapshotsAreWhole`, `Fresh`, `NothingForgotten`,
`ConsumerNeverRollsBack` and `FlushedBeforeStop`, for any number of calls, lines and clock
values. Their invariant `DInv` says that text and number agree but while the consumer is
between `ParseText` and `NextOutput` (`SumInv`), that the fields a goroutine has read so far are still those of the
builder, which is where `LockInv` is needed: nobody parses while somebody reads (`ReadInv`);
and what a snapshot, taken under the lock and
written after it, is worth compared with the text, the file and the moment of the call.

`AgentRunProofs`: type correctness, `ReportedBeforeExit`, `LaunchedOnlyWhenReady`,
`SignalsExplained`, `ResultsExplained`, and `Spec => ProperReport`, that is, `AgentRun`
implements `RunReport`, for any number of Stop calls, incarnations and lines and any size
of the pipe. The inductive invariant looks at the streams as sets of entries and says, in
parts of their own, which goroutines live at which point of `Run` (`LifeInv`), what this
incarnation has and has not published at each of their labels (`StatusInv`, `ResultInv`,
`EndInv`), that the terminal file is final (`ExitInv`), that the stop file stands for the
Stop calls of this incarnation (`StopInv`), that the verdict agrees with them and with those
that come later (`VerdictInv`), and that published, read and waiting lines are in order
(`LineInv`). There is one lemma per goroutine; that the steps are steps of the report is
then read off the invariant.

`PublisherProofs`: type correctness, `NoLeak`, `OneConnection`, `StreamsFirst`, for any
goroutines, connections and messages. The invariant adds who may be where while the mutex is
held (`MutexInv`), what is known of the kept connection (`KeptInv`) and of one in a call's
hands (`CallInv`).

`InlineThinkingProofs`: that only the beginning of the tag the stream waits for is kept back
(`TypeOK`), and `SplitContinuesStream`, for all tags, blanks and texts. `Scan` is shown to be
defined by induction over the length of what is left (`ScanStep`). The heart is
`AppendInlineTwice`: appending one text and then another gives what one append of both gives,
wherever the cut is. It rests on `ScanResumes`, an induction over the length of the text whose
base is the case that the first text holds no more tag: then one that the second text
completes starts in what was kept back. Then what was given out and what is
kept, together, is one append of everything fed (`StreamInv`), and the split is the same
append followed by the flush.

`CutsDoNotMatter` compares this with `DivisionOf`, which does not scan but speaks of all places
of a text at once. The proof goes through the text one character at a time, which the theorems
before it allow: by `ScanResumes` one append of a text and a character is a turn over what was
kept back and the character. Its invariant is `Means`: the characters up to a place were given
out as the definition says (`Given`), the rest is kept back, no tag counts in it, and the awaited
tag may still begin there and nowhere before. The lemmas `Longer...` say what one character
more changes in the definition: whether it completes the tag that counts next (`Counts`), and
otherwise neither what is inside, nor markup, nor what is trimmed. `MeansPassed` and `MeansKept`
are the two cases. `SplitIsDivision` is the result without the stream: the split of every text
is its division by definition, and `DividedOnce` below is about that split. All this, and only
this, uses `TagsApart`: the first character of a tag is nowhere else in a tag, and no tag begins
the other. With tags that overlap it is false, and `<think>` and `</think>` do not.

`ParserProofs`: `SaidOnce`, `WholeTextShown` and `EndedClosed` for Claude, Codex and Gemini,
`RepeatedTextShown`, `DividedOnce` and `EndedClosed` for Qwen, `UsageOnce` for Claude and
Qwen, for all sets of messages, call ids and numbers of lines. The invariant `TalkInv`
relates, for each channel, what the CLI has told to the builder's text and to what a
subscriber shows (`Talking`): the last message shown is the accumulated text, a text told as a
whole is all of it, and for a first message nothing else was shown. The properties alone are not inductive because `syncText` compares with the
accumulated text, not with what was sent, and because `Finalize` and the results return early
on flags (no result was emitted before the first result line; an open message has text). One
lemma per operation of the builder, `Append`, `Sync`, `EmitResult`, says that it keeps
`Talking` when the CLI tells a piece or a whole text; the actions of the parsers then are
combinations of these. `SaidInv` bounds the length of what is shown by what was said and
restated: a line that continues the text adds what is new in it, any other its whole length, and that
is more than was said by the deltas of its message only. For Codex, where `restated` stays
zero, this needs one invariant more, that an item's text is the one it is compared with (`Recalled`). Claude adds that usage was shown as often as the flag says
(`BlockInv`). Qwen's messages are divided, so its invariants say `Talking` of the two parts:
`QwenInv` of the texts repeated as a whole, and `OnceInv`, for `DividedOnce`, of what
`AppendInline` has given out of the first message so far, which by `AppendInlineTwice` does
not depend on the cuts. `DividedOnce` has a hypothesis, `Continuing`: when one message begins
another, its parts begin the parts of the other. A message that was repeated as a whole and
goes on where a tag was cut is not of this kind: the parser has said the beginning of the tag
as text and cannot take it back. The run assumes it of its messages, which TLC evaluates.

Assumptions are the named `ASSUME`s of the modules, which TLC evaluates in the runs.

Only model-checked: the liveness properties (`CallsReturn` of both modules, `WindsDown`,
`StopSignalled`), since fairness and ENABLED are beyond the prover.

## What is not modelled

*Guarantees the code does not give*, and that no property claims. Whether all lines of the
CLI are reported before the result: the watcher does not wait for the FIFO, and a last line
without newline is never parsed. That a plain stop reaches the CLI: it is one SIGINT,
which a CLI ignores while it opens the FIFO or when it has no handler, and the stop watcher
exits after one signal; for the same reason a plain stop is not escalated to a forced one.
That a forced stop is a SIGTERM if a restart removes the stop file between the watcher's test
and its grep. That every message is shown once: Claude, Qwen and Gemini messages after the
first that come in deltas and again as a whole are shown twice (the deltas as more of the
message before, the whole as a message of its own). That text marked `dirty`, or missing in
the file after a failed write, is written by anything but a later operation. That no
connection is open after `Close`: a publish that comes later connects again.
That a CLI started on the ready file of a dead sidecar has a reader before a restart. Messages left open when the CLI's result is an error, Codex
reports `turn.failed` or the CLI is killed: nothing calls `Finalize` then. Turns after the
first of one process. A Qwen message repeated as a whole that then goes on inside a tag
(`Continuing`). A tool call is announced by its start and again by its whole, with the
same id. When the shell gives up waiting for the sidecar no terminal file is written, and a
sidecar that comes up later waits for it.

*Outside the models.* Shells and pods that are killed. The parser registry (a map filled at
start), JSON field access, tool names and summaries, configuration (environment variables
read once) and the formatting of subjects: no state, no order. The entrypoints and prepare
scripts: straight-line, they end in the script `AgentRuntime` models. Everything outside
`src/deploy/agents/` (charts, images, values, smoke scripts, schemas) is declarative or driven
by hand; `PROJECT.json` lists it with reasons.

## Order of the work

The modules were written from the inside out: builder and pipeline, `State`, lifecycle and
shell, then inline thinking, the parsers and the publisher; each with its runs first and its
proofs after. All safety properties of the runs are theorems. The models change next where
the code does not give a guarantee yet (above): should it come to close the messages of a
failed turn, or to escalate a stop, then in `ParseErrorResult` and `PollStop`.
