-------------------------------- MODULE AgentRun --------------------------------
(***************************************************************************)
(* An agent run: the agent container's shell and CLI (AgentRuntime) and    *)
(* the cli-output sidecar (Sidecar) on their shared volume, with Stop      *)
(* calls, failing publishes and files, SIGTERM, and sidecar crashes and    *)
(* restarts.                                                               *)
(***************************************************************************)
EXTENDS Naturals, Sequences

CONSTANTS Stoppers, MaxRuns, MaxLines, PipeSize

ASSUME BoundsAssumption == MaxRuns \in Nat /\ MaxLines \in Nat /\ PipeSize \in Nat \ {0}

VARIABLES
  ready, stop, terminal, fifo, reading, writing,
  run, statuses, outputs, results,
  app, sigterm, consumer, buffer, line, announced, watcher, verdict, call, force,
  shell, child, code, spoken, stopWatcher, signal,
  asked    \* history: the stop files written: [run, force, early]

volume  == <<ready, stop, terminal, fifo, reading, writing>>
sidecar == <<run, statuses, outputs, results, app, sigterm, consumer, buffer, line,
             announced, watcher, verdict, call, force>>
agent   == <<shell, child, code, spoken, stopWatcher, signal>>
vars    == <<volume, sidecar, agent, asked>>

Sidecar == INSTANCE Sidecar
Agent == INSTANCE AgentRuntime
Report == INSTANCE RunReport

TypeOK == Sidecar!TypeOK /\ Agent!TypeOK

Init == Sidecar!Init /\ Agent!Init /\ asked = {}

(* A stop request is early when the CLI's exit has not been recorded yet.  *)
Recorded ==
  asked \cup {[run |-> run, force |-> force[p], early |-> terminal = "none"] :
                p \in {q \in Stoppers : call[q] = "write" /\ call'[q] = "status"}}

Next ==
  /\ \/ Sidecar!Next /\ UNCHANGED agent
     \/ Agent!Next /\ UNCHANGED sidecar
  /\ asked' = Recorded

Spec == Init /\ [][Next]_vars

(* Each goroutine of the sidecar, and the shell and its stop watcher, keep *)
(* running, and a signal that nothing handles ends its process; the CLI,   *)
(* the clients and restarts are outside and may stop.                      *)
Fairness ==
  /\ WF_vars(Sidecar!Run /\ UNCHANGED agent /\ asked' = Recorded)
  /\ WF_vars(Sidecar!Watch /\ UNCHANGED agent /\ asked' = Recorded)
  /\ \A p \in Stoppers :
       WF_vars(Sidecar!Stop(p) /\ UNCHANGED agent /\ asked' = Recorded)
  /\ WF_vars((Agent!PollStop \/ Agent!Signal) /\ UNCHANGED sidecar /\ asked' = Recorded)
  /\ WF_vars(Agent!KilledOpening /\ UNCHANGED sidecar /\ asked' = Recorded)

FairSpec == Spec /\ Fairness

--------------------------------------------------------------------------------
(* Properties *)

(* What the streams say of the run is a proper report: STARTING first,     *)
(* RUNNING before the outputs, no line twice or out of order, one result   *)
(* and then its phase per incarnation, and incarnations that agree whether *)
(* the CLI succeeded, whatever fails, crashes or restarts.                 *)
ProperReport == Report!Spec

(* A result says what happened: COMPLETED exactly for exit code zero;      *)
(* INTERRUPTED or CANCELLED only if this incarnation was asked to stop,    *)
(* by force for INTERRUPTED; FAILED never if it was asked before the CLI's *)
(* exit was recorded.                                                      *)
ResultsExplained ==
  \A i \in 1..Len(results) :
    LET r == results[i]
        mine == {a \in asked : a.run = r.run}
    IN  /\ r.result = "COMPLETED" <=> code = "zero"
        /\ r.result = "INTERRUPTED" => \E a \in mine : a.force
        /\ r.result = "CANCELLED" => mine # {}
        /\ r.result = "FAILED" => \A a \in mine : ~a.early

(* The CLI is interrupted only if somebody called Stop, and terminated     *)
(* only if somebody called it by force.                                    *)
SignalsExplained ==
  /\ signal = "INT" => asked # {}
  /\ signal = "TERM" => \E a \in asked : a.force

(* The sidecar leaves by itself only when it has reported the result of    *)
(* the run and its phase.                                                  *)
ReportedBeforeExit ==
  app \in {"close", "drain"} /\ ~sigterm =>
    \E i \in 1..Len(results) :
      /\ results[i].run = run
      /\ \E j \in 1..Len(statuses) :
           statuses[j] = [run |-> run, phase |-> Report!PhaseOf(results[i].result)]

(* The CLI is not started before some incarnation of the sidecar has       *)
(* announced the run.  The ready file may have been left by one that is    *)
(* dead; then nobody reads the pipe until a restart.                       *)
LaunchedOnlyWhenReady ==
  child # "none" => \E i \in 1..Len(statuses) : statuses[i].phase = "STARTING"

(* Once the CLI's exit is recorded, a running sidecar ends.                *)
WindsDown == terminal # "none" /\ Sidecar!Up ~> ~Sidecar!Up

(* A stop file that is not taken back by a restart of the sidecar makes    *)
(* the stop watcher signal a CLI that has not exited: with SIGTERM if the  *)
(* first request was by force, and that ends the CLI also while it waits   *)
(* for somebody to read the pipe.  More is not promised: a CLI may ignore  *)
(* the one SIGINT of a plain stop, and does so while it opens the pipe.    *)
StopSignalled ==
  /\ stop # "none" /\ child \in {"opening", "running"}
       ~> signal # "none" \/ child = "exited" \/ stop = "none"
  /\ stop = "force" /\ child \in {"opening", "running"} /\ signal = "none"
       ~> signal = "TERM" \/ child = "exited" \/ stop # "force"
  /\ stop = "force" /\ child = "opening" /\ signal = "none"
       ~> child # "opening" \/ stop # "force"
================================================================================
