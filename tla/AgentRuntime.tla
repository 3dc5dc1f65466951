------------------------------ MODULE AgentRuntime ------------------------------
(***************************************************************************)
(* agents/common/cli-output-runtime.sh, which every entrypoint of an agent *)
(* container ends in: wait for the sidecar, run the CLI with its output in *)
(* the FIFO, pass on a stop request as a signal, and leave the exit code   *)
(* in the terminal file.  The CLI itself is an external program: it writes *)
(* lines and exits when it likes.                                          *)
(***************************************************************************)
EXTENDS Naturals, Sequences

CONSTANTS
  MaxLines,      \* bound: lines the CLI writes
  PipeSize       \* the lines the pipe holds before a write blocks

VARIABLES
  \* the volume it shares with the sidecar
  ready, stop, terminal, fifo, reading, writing,
  \* the shell, the CLI and the stop watcher
  shell,         \* run_cli_output_stream
  child,         \* the CLI's process
  code,          \* its exit code: "unset", "zero" or "nonzero"
  spoken,        \* lines it has written
  stopWatcher,   \* the subshell of start_stop_watcher
  signal         \* the signal the CLI has been sent, or "none"

volume == <<ready, stop, terminal, fifo, reading, writing>>

TypeOK ==
  /\ ready \in BOOLEAN /\ reading \in BOOLEAN /\ writing \in BOOLEAN
  /\ stop \in {"none", "plain", "force"}
  /\ terminal \in {"none", "zero", "nonzero"}
  /\ fifo \in Seq(Nat)
  /\ shell \in {"wait", "running", "reaped", "done", "gaveUp"}
  /\ child \in {"none", "opening", "running", "exited"}
  /\ code \in {"unset", "zero", "nonzero"}
  /\ spoken \in Nat
  /\ stopWatcher \in {"none", "poll", "grep", "done"}
  /\ signal \in {"none", "INT", "TERM"}

Init ==
  /\ ready = FALSE /\ stop = "none" /\ terminal = "none"
  /\ fifo = <<>> /\ reading = FALSE /\ writing = FALSE
  /\ shell = "wait"
  /\ child = "none" /\ code = "unset" /\ spoken = 0
  /\ stopWatcher = "none" /\ signal = "none"

--------------------------------------------------------------------------------
(* run_cli_output_stream *)

(* Deviation of Launch: only the FIFO is waited for.                       *)
LaunchUnready ==
  /\ shell = "wait"
  /\ shell' = "running"
  /\ child' = "opening"
  /\ stopWatcher' = "poll"
  /\ UNCHANGED <<volume, code, spoken, signal>>

(* The FIFO and the ready file are there: the CLI and the stop watcher are *)
(* started in the background.                                              *)
Launch ==
  /\ shell = "wait" /\ ready
  /\ shell' = "running"
  /\ child' = "opening"
  /\ stopWatcher' = "poll"
  /\ UNCHANGED <<volume, code, spoken, signal>>

(* The deadline passes.  The ready file may appear after the last test.    *)
GiveUp ==
  /\ shell = "wait"
  /\ shell' = "gaveUp"
  /\ UNCHANGED <<volume, child, code, spoken, stopWatcher, signal>>

(* wait returns; the stop watcher is killed and waited for.                *)
Reap ==
  /\ shell = "running" /\ child = "exited"
  /\ shell' = "reaped"
  /\ stopWatcher' = "done"
  /\ UNCHANGED <<volume, child, code, spoken, signal>>

(* A complete file is moved into place.                                    *)
WriteTerminal ==
  /\ shell = "reaped"
  /\ terminal' = code
  /\ shell' = "done"
  /\ UNCHANGED <<ready, stop, fifo, reading, writing, child, code, spoken, stopWatcher, signal>>

(* set -e: mktemp, cat, chmod or mv fails.                                 *)
TerminalFails ==
  /\ shell = "reaped"
  /\ shell' = "gaveUp"
  /\ UNCHANGED <<volume, child, code, spoken, stopWatcher, signal>>

--------------------------------------------------------------------------------
(* start_stop_watcher *)

(* Deviation of PollStop: only a forced stop is noticed.                   *)
PollStopForced ==
  /\ stopWatcher = "poll"
  /\ stop = "force"
  /\ stopWatcher' = "grep"
  /\ UNCHANGED <<volume, shell, child, code, spoken, signal>>

(* The child is still there (kill -0 finds it until it is reaped) and so   *)
(* is the stop file.                                                       *)
PollStop ==
  /\ stopWatcher = "poll"
  /\ stop # "none"
  /\ stopWatcher' = "grep"
  /\ UNCHANGED <<volume, shell, child, code, spoken, signal>>

(* Deviation of Signal: the two signals are swapped.                       *)
SignalSwapped ==
  /\ stopWatcher = "grep"
  /\ signal' = IF child = "exited" THEN signal ELSE IF stop = "force" THEN "INT" ELSE "TERM"
  /\ stopWatcher' = "done"
  /\ UNCHANGED <<volume, shell, child, code, spoken>>

(* The file is read again for its flag, and the watcher exits.  A signal   *)
(* to a process that has exited goes nowhere.                              *)
Signal ==
  /\ stopWatcher = "grep"
  /\ signal' = IF child = "exited" THEN signal ELSE IF stop = "force" THEN "TERM" ELSE "INT"
  /\ stopWatcher' = "done"
  /\ UNCHANGED <<volume, shell, child, code, spoken>>

--------------------------------------------------------------------------------
(* The CLI *)

(* Opening the pipe to write blocks until the sidecar has opened it.       *)
OpenPipe ==
  /\ child = "opening" /\ reading
  /\ child' = "running"
  /\ writing' = TRUE
  /\ UNCHANGED <<ready, stop, terminal, fifo, reading, shell, code, spoken, stopWatcher, signal>>

Speak ==
  /\ child = "running" /\ reading
  /\ spoken < MaxLines /\ Len(fifo) < PipeSize
  /\ spoken' = spoken + 1
  /\ fifo' = Append(fifo, spoken')
  /\ UNCHANGED <<ready, stop, terminal, reading, writing, shell, child, code, stopWatcher, signal>>

(* The CLI ends, by itself, of a signal or because nobody reads the pipe.  *)
(* What is in the pipe is gone when its last end is closed.                *)
ChildExit ==
  /\ child = "running"
  /\ child' = "exited"
  /\ code' \in {"zero", "nonzero"}
  /\ writing' = FALSE
  /\ fifo' = IF reading THEN fifo ELSE <<>>
  /\ UNCHANGED <<ready, stop, terminal, reading, shell, spoken, stopWatcher, signal>>

(* A background process of a shell script ignores SIGINT until the CLI     *)
(* installs a handler, so only SIGTERM ends it while it opens the pipe.    *)
KilledOpening ==
  /\ child = "opening" /\ signal = "TERM"
  /\ child' = "exited"
  /\ code' = "nonzero"
  /\ UNCHANGED <<volume, shell, spoken, stopWatcher, signal>>

Next == \/ Launch \/ GiveUp \/ Reap \/ WriteTerminal \/ TerminalFails
        \/ PollStop \/ Signal
        \/ OpenPipe \/ Speak \/ ChildExit \/ KilledOpening
================================================================================
