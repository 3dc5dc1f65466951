-------------------------------- MODULE Sidecar --------------------------------
(***************************************************************************)
(* internal/app (run.go, service.go) with events.ResultFromTerminal        *)
(* (status.go) and the publisher's calls (publisher.go): the life of the   *)
(* cli-output sidecar process, from New to its exit, and again after a     *)
(* restart.  One goroutine runs App.Run, one consumes the FIFO, one        *)
(* watches for the terminal file, one serves each Stop call.               *)
(*                                                                         *)
(* It shares a volume with the agent container (AgentRuntime): the FIFO    *)
(* and the ready, stop and terminal files.  What State does under its lock *)
(* is SidecarState's subject; here ParseLine, Flush and RequestStop are    *)
(* one step each.  A publish may store the message and still return an     *)
(* error.                                                                  *)
(***************************************************************************)
EXTENDS Naturals, Sequences

CONSTANTS
  Stoppers,      \* the clients that will call Stop, once each
  MaxRuns        \* bound: incarnations of the sidecar

VARIABLES
  \* the volume
  ready,       \* the ready file is there
  stop,        \* the stop file: "none", "plain" or "force"
  terminal,    \* the terminal file: "none", "zero" or "nonzero" exit code
  fifo,        \* the lines in the pipe
  reading,     \* the sidecar has the pipe open
  writing,     \* the CLI has the pipe open
  \* the streams
  run, statuses, outputs, results,
  \* the process
  app,         \* App.New and App.Run
  sigterm,     \* the context of Run is cancelled
  consumer,    \* consumeFIFO
  buffer,      \* lines the scanner has read from the pipe
  line,        \* the line being published, 0 when none
  announced,   \* runningPublished
  watcher,     \* watchTerminal
  verdict,     \* the terminal result it is about to publish
  call,        \* where each Stop call is
  force        \* its argument

volume  == <<ready, stop, terminal, fifo, reading, writing>>
streams == <<run, statuses, outputs, results>>
consume == <<consumer, buffer, line, announced>>
watch   == <<watcher, verdict>>
calls   == <<call, force>>
process == <<app, sigterm, consume, watch, calls>>

TypeOK ==
  /\ app \in {"down", "new", "starting", "ready", "parserReady", "select",
              "close", "drain", "exited"}
  /\ sigterm \in BOOLEAN
  /\ consumer \in {"down", "open", "scan", "running", "outputs", "failed"}
  /\ buffer \in Seq(Nat) /\ line \in Nat /\ announced \in BOOLEAN
  /\ watcher \in {"down", "tick", "decode", "stat", "result", "phase", "done", "failed"}
  /\ verdict \in {"none", "COMPLETED", "INTERRUPTED", "CANCELLED", "FAILED"}
  /\ call \in [Stoppers -> {"idle", "write", "status", "accepted", "error"}]
  /\ force \in [Stoppers -> BOOLEAN]

Init ==
  /\ run = 0 /\ statuses = <<>> /\ outputs = <<>> /\ results = <<>>
  /\ app = "down" /\ sigterm = FALSE
  /\ consumer = "down" /\ buffer = <<>> /\ line = 0 /\ announced = FALSE
  /\ watcher = "down" /\ verdict = "none"
  /\ call = [p \in Stoppers |-> "idle"]
  /\ force = [p \in Stoppers |-> FALSE]

Up == app \notin {"down", "exited"}

(* The goroutines started by Run live until the process ends.              *)
Started == app \in {"ready", "parserReady", "select", "close", "drain"}

--------------------------------------------------------------------------------
(* Publishing *)

StatusEvent(phase) == [run |-> run, phase |-> phase]

OutputEvent == [run |-> run, line |-> line]

(* The message is stored and nil returned.                                 *)
Stored(stream, e) == stream' = Append(stream, e)

(* An error is returned; the message may have been stored all the same.    *)
Doubtful(stream, e) == stream' \in {stream, Append(stream, e)}

--------------------------------------------------------------------------------
(* App.New and App.Run *)

(* The container starts, for the first time or again: New ensures the FIFO *)
(* and removes the ready file ...                                          *)
Start ==
  /\ ~Up /\ run < MaxRuns
  /\ run' = run + 1
  /\ app' = "new"
  /\ ready' = FALSE
  /\ UNCHANGED <<stop, terminal, fifo, reading, writing, statuses, outputs, results,
                 sigterm, consume, watch, calls>>

(* Deviation of New: the stop file of an earlier incarnation stays.        *)
NewKeepsStop ==
  /\ app = "new"
  /\ app' = "starting"
  /\ UNCHANGED <<volume, streams, sigterm, consume, watch, calls>>

(* ... and then the stop file, but not the terminal file; it opens the     *)
(* socket.                                                                 *)
New ==
  /\ app = "new"
  /\ stop' = "none"
  /\ app' = "starting"
  /\ UNCHANGED <<ready, terminal, fifo, reading, writing, streams,
                 sigterm, consume, watch, calls>>

(* What is in the pipe stays as long as the CLI holds it open.             *)
ClosePipe ==
  /\ reading' = FALSE
  /\ fifo' = IF writing THEN fifo ELSE <<>>

(* The process ends and with it its goroutines, its end of the pipe and    *)
(* its calls.                                                              *)
Die(end) ==
  /\ app' = end
  /\ sigterm' = FALSE
  /\ consumer' = "down" /\ buffer' = <<>> /\ line' = 0 /\ announced' = FALSE
  /\ watcher' = "down" /\ verdict' = "none"
  /\ call' = [p \in Stoppers |-> IF call[p] \in {"write", "status"} THEN "error" ELSE call[p]]
  /\ ClosePipe
  /\ UNCHANGED <<stop, terminal, writing, force, run, outputs, results>>

(* Run publishes STARTING, then starts the goroutines.                     *)
PublishStarting ==
  /\ app = "starting"
  /\ Stored(statuses, StatusEvent("STARTING"))
  /\ app' = "ready"
  /\ consumer' = "open"
  /\ watcher' = "tick"
  /\ UNCHANGED <<volume, run, outputs, results, sigterm, buffer, line, announced, verdict, calls>>

WriteReady ==
  /\ app = "ready"
  /\ ready' = TRUE
  /\ app' = "parserReady"
  /\ UNCHANGED <<stop, terminal, fifo, reading, writing, streams, sigterm, consume, watch, calls>>

PublishParserReady ==
  /\ app = "parserReady"
  /\ Stored(statuses, StatusEvent("PARSER_READY"))
  /\ app' = "select"
  /\ UNCHANGED <<volume, run, outputs, results, sigterm, consume, watch, calls>>

(* New cannot prepare a file, a status cannot be published, or the ready   *)
(* file cannot be written: main exits, a ready file stays.                 *)
StartupFails ==
  /\ \/ app = "new" /\ UNCHANGED statuses
     \/ app = "starting" /\ Doubtful(statuses, StatusEvent("STARTING"))
     \/ app = "ready" /\ UNCHANGED statuses
     \/ app = "parserReady" /\ Doubtful(statuses, StatusEvent("PARSER_READY"))
  /\ Die("down")
  /\ UNCHANGED ready

(* A goroutine reports an error.                                           *)
SelectError ==
  /\ app = "select"
  /\ consumer = "failed" \/ watcher = "failed"
  /\ Die("down")
  /\ UNCHANGED <<ready, statuses>>

(* SIGTERM, or the watcher is done: shutdown.                              *)
SelectShutdown ==
  /\ app = "select"
  /\ sigterm \/ watcher = "done"
  /\ app' = "close"
  /\ UNCHANGED <<volume, streams, sigterm, consume, watch, calls>>

(* publisher.Close; a later publish would connect again.  GracefulStop     *)
(* refuses new calls.                                                      *)
Close ==
  /\ app = "close"
  /\ app' = "drain"
  /\ UNCHANGED <<volume, streams, sigterm, consume, watch, calls>>

(* Deviation of Exit: it waits for calls that were never made.             *)
ExitAwaitsClients ==
  /\ app = "drain"
  /\ \A p \in Stoppers : call[p] \in {"accepted", "error"}
  /\ ready' = FALSE
  /\ Die("exited")
  /\ UNCHANGED statuses

(* GracefulStop has waited for the calls; the ready file is removed.       *)
Exit ==
  /\ app = "drain"
  /\ \A p \in Stoppers : call[p] \notin {"write", "status"}
  /\ ready' = FALSE
  /\ Die("exited")
  /\ UNCHANGED statuses

(* main listens for SIGTERM once New has returned.                         *)
Terminate ==
  /\ Up /\ app # "new" /\ ~sigterm
  /\ sigterm' = TRUE
  /\ UNCHANGED <<volume, streams, app, consume, watch, calls>>

(* The process is killed, or its gRPC server fails.                        *)
Crash ==
  /\ Up
  /\ Die("down")
  /\ UNCHANGED <<ready, statuses>>

--------------------------------------------------------------------------------
(* consumeFIFO *)

OpenFIFO ==
  /\ consumer = "open"
  /\ reading' = TRUE
  /\ consumer' = "scan"
  /\ UNCHANGED <<ready, stop, terminal, fifo, writing, streams, app, sigterm,
                 buffer, line, announced, watch, calls>>

(* The scanner takes what the pipe holds.                                  *)
FillBuffer ==
  /\ consumer = "scan" /\ buffer = <<>> /\ fifo # <<>>
  /\ buffer' = fifo
  /\ fifo' = <<>>
  /\ UNCHANGED <<ready, stop, terminal, reading, writing, streams, app, sigterm,
                 consumer, line, announced, watch, calls>>

(* The next line is parsed; it may say nothing.                            *)
ParseSilentLine ==
  /\ consumer = "scan" /\ buffer # <<>>
  /\ buffer' = Tail(buffer)
  /\ UNCHANGED <<volume, streams, app, sigterm, consumer, line, announced, watch, calls>>

(* Deviation of ParseLine: the outputs do not wait for RUNNING.            *)
ParseLineUnannounced ==
  /\ consumer = "scan" /\ buffer # <<>>
  /\ line' = Head(buffer)
  /\ buffer' = Tail(buffer)
  /\ consumer' = "outputs"
  /\ UNCHANGED <<volume, streams, app, sigterm, announced, watch, calls>>

ParseLine ==
  /\ consumer = "scan" /\ buffer # <<>>
  /\ line' = Head(buffer)
  /\ buffer' = Tail(buffer)
  /\ consumer' = IF announced THEN "outputs" ELSE "running"
  /\ UNCHANGED <<volume, streams, app, sigterm, announced, watch, calls>>

PublishRunning ==
  /\ consumer = "running"
  /\ Stored(statuses, StatusEvent("RUNNING"))
  /\ announced' = TRUE
  /\ consumer' = "outputs"
  /\ UNCHANGED <<volume, run, outputs, results, app, sigterm, buffer, line, watch, calls>>

PublishOutputs ==
  /\ consumer = "outputs"
  /\ Stored(outputs, OutputEvent)
  /\ line' = 0
  /\ consumer' = "scan"
  /\ UNCHANGED <<volume, run, statuses, results, app, sigterm, buffer, announced, watch, calls>>

(* The pipe cannot be opened, the line is too long for the scanner, the    *)
(* accumulator file cannot be written, or a message cannot be published:   *)
(* the consumer closes the pipe and returns.                               *)
ConsumerFails ==
  /\ \/ consumer = "open" /\ UNCHANGED <<statuses, outputs>>
     \/ consumer = "scan" /\ buffer # <<>> /\ UNCHANGED <<statuses, outputs>>
     \/ consumer = "running" /\ Doubtful(statuses, StatusEvent("RUNNING")) /\ UNCHANGED outputs
     \/ consumer = "outputs" /\ Doubtful(outputs, OutputEvent) /\ UNCHANGED statuses
  /\ consumer' = "failed" /\ buffer' = <<>> /\ line' = 0
  /\ ClosePipe
  /\ UNCHANGED <<ready, stop, terminal, writing, run, results, app, sigterm, announced,
                 watch, calls>>

--------------------------------------------------------------------------------
(* watchTerminal *)

WatcherGoto(label) == watcher' = label

(* A tick finds the terminal file; State.Flush.                            *)
SeeTerminal ==
  /\ watcher = "tick" /\ terminal # "none"
  /\ WatcherGoto("decode")
  /\ UNCHANGED <<volume, streams, app, sigterm, consume, verdict, calls>>

WatcherCancelled ==
  /\ watcher = "tick" /\ sigterm
  /\ WatcherGoto("done")
  /\ UNCHANGED <<volume, streams, app, sigterm, consume, verdict, calls>>

(* ResultFromTerminal decodes the terminal file and then the stop file ... *)
DecodeFiles ==
  /\ watcher = "decode"
  /\ verdict' = IF terminal = "zero" THEN "COMPLETED"
                ELSE IF stop = "force" THEN "INTERRUPTED" ELSE "none"
  /\ WatcherGoto(IF verdict' = "none" THEN "stat" ELSE "result")
  /\ UNCHANGED <<volume, streams, app, sigterm, consume, calls>>

(* ... and looks for the stop file again.                                  *)
StatStop ==
  /\ watcher = "stat"
  /\ verdict' = IF stop # "none" THEN "CANCELLED" ELSE "FAILED"
  /\ WatcherGoto("result")
  /\ UNCHANGED <<volume, streams, app, sigterm, consume, calls>>

TerminalEvent == [run |-> run, result |-> verdict]
PhaseOf(result) == IF result = "INTERRUPTED" THEN "CANCELLED" ELSE result

PublishTerminal ==
  /\ watcher = "result"
  /\ Stored(results, TerminalEvent)
  /\ WatcherGoto("phase")
  /\ UNCHANGED <<volume, run, statuses, outputs, app, sigterm, consume, verdict, calls>>

PublishPhase ==
  /\ watcher = "phase"
  /\ Stored(statuses, StatusEvent(PhaseOf(verdict)))
  /\ WatcherGoto("done")
  /\ UNCHANGED <<volume, run, outputs, results, app, sigterm, consume, verdict, calls>>

(* Deviation of WatcherFails: the error is not returned.                   *)
WatcherSwallowsError ==
  /\ \/ watcher = "tick" /\ terminal # "none" /\ UNCHANGED <<statuses, results>>
     \/ watcher = "result" /\ Doubtful(results, TerminalEvent) /\ UNCHANGED statuses
     \/ watcher = "phase" /\ Doubtful(statuses, StatusEvent(PhaseOf(verdict))) /\ UNCHANGED results
  /\ WatcherGoto("done")
  /\ UNCHANGED <<volume, run, outputs, app, sigterm, consume, verdict, calls>>

(* The accumulator file cannot be written or a message not be published.   *)
WatcherFails ==
  /\ \/ watcher = "tick" /\ terminal # "none" /\ UNCHANGED <<statuses, results>>
     \/ watcher = "result" /\ Doubtful(results, TerminalEvent) /\ UNCHANGED statuses
     \/ watcher = "phase" /\ Doubtful(statuses, StatusEvent(PhaseOf(verdict))) /\ UNCHANGED results
  /\ WatcherGoto("failed")
  /\ UNCHANGED <<volume, run, outputs, app, sigterm, consume, verdict, calls>>

--------------------------------------------------------------------------------
(* Service.Stop *)

CallGoto(p, label) == call' = [call EXCEPT ![p] = label]

CallStop(p) ==
  /\ call[p] = "idle"
  /\ Started /\ app # "drain"
  /\ CallGoto(p, "write")
  /\ \E f \in BOOLEAN : force' = [force EXCEPT ![p] = f]
  /\ UNCHANGED <<volume, streams, app, sigterm, consume, watch>>

(* State.RequestStop replaces the stop file.                               *)
WriteStop(p) ==
  /\ call[p] = "write"
  /\ stop' = IF force[p] THEN "force" ELSE "plain"
  /\ CallGoto(p, "status")
  /\ UNCHANGED <<ready, terminal, fifo, reading, writing, streams, app, sigterm,
                 consume, watch, force>>

PublishStopping(p) ==
  /\ call[p] = "status"
  /\ Stored(statuses, StatusEvent("STOPPING"))
  /\ CallGoto(p, "accepted")
  /\ UNCHANGED <<volume, run, outputs, results, app, sigterm, consume, watch, force>>

StopFails(p) ==
  /\ \/ call[p] = "write" /\ UNCHANGED statuses
     \/ call[p] = "status" /\ Doubtful(statuses, StatusEvent("STOPPING"))
  /\ CallGoto(p, "error")
  /\ UNCHANGED <<volume, run, outputs, results, app, sigterm, consume, watch, force>>

--------------------------------------------------------------------------------

Run == \/ New \/ PublishStarting \/ WriteReady \/ PublishParserReady \/ StartupFails
       \/ SelectError \/ SelectShutdown \/ Close \/ Exit
Consume == \/ OpenFIFO \/ FillBuffer \/ ParseSilentLine \/ ParseLine
           \/ PublishRunning \/ PublishOutputs \/ ConsumerFails
Watch == \/ SeeTerminal \/ WatcherCancelled \/ DecodeFiles \/ StatStop
         \/ PublishTerminal \/ PublishPhase \/ WatcherFails
Stop(p) == WriteStop(p) \/ PublishStopping(p) \/ StopFails(p)

Next == \/ Start \/ Run \/ Terminate \/ Crash \/ Consume \/ Watch
        \/ \E p \in Stoppers : CallStop(p) \/ Stop(p)
================================================================================
