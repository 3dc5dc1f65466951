------------------------------- MODULE RunReport -------------------------------
(***************************************************************************)
(* What the platform may rely on in the three streams of a run, however    *)
(* the agent container and the sidecar interleave, fail and restart: the   *)
(* RUN_STATUS stream, the outputs (RUN_DELTA and RUN_RESULT) and the       *)
(* terminal results (RUN_RESULT).  This is the promise; AgentRun is        *)
(* checked to keep it.                                                     *)
(*                                                                         *)
(* Every entry is marked with the incarnation of the sidecar that          *)
(* published it, which the streams themselves do not tell: a restarted     *)
(* sidecar starts a report of its own.                                     *)
(***************************************************************************)
EXTENDS Naturals, Sequences

VARIABLES
  run,        \* the present incarnation of the sidecar, 0 before the first
  statuses,   \* the status stream: [run, phase]
  outputs,    \* the outputs: [run, line], the line that caused them
  results     \* the terminal results: [run, result]

report == <<run, statuses, outputs, results>>

TerminalPhase == {"COMPLETED", "CANCELLED", "FAILED"}

(* The status phase that goes with a terminal result.                      *)
PhaseOf(result) == IF result = "INTERRUPTED" THEN "CANCELLED" ELSE result

Said(phases) == \E i \in 1..Len(statuses) : statuses[i].run = run /\ statuses[i].phase \in phases
Concluded(R) == \E i \in 1..Len(results) : results[i].run = run /\ results[i].result \in R
Result == {"COMPLETED", "INTERRUPTED", "CANCELLED", "FAILED"}

Init == run = 0 /\ statuses = <<>> /\ outputs = <<>> /\ results = <<>>

--------------------------------------------------------------------------------

Restart == run' = run + 1 /\ UNCHANGED <<statuses, outputs, results>>

(* STARTING comes first and once; the other phases that come once follow   *)
(* it; a stop may be announced any number of times.                        *)
MayFollow(phase) ==
  CASE phase = "STARTING"     -> ~Said({"STARTING"})
    [] phase = "PARSER_READY" -> Said({"STARTING"}) /\ ~Said({"PARSER_READY"})
    [] phase = "RUNNING"      -> Said({"STARTING"}) /\ ~Said({"RUNNING"})
    [] phase = "STOPPING"     -> Said({"STARTING"})
    [] OTHER                  -> ~Said(TerminalPhase) /\ \E r \in Result :
                                   PhaseOf(r) = phase /\ Concluded({r})

Status ==
  \E phase \in {"STARTING", "PARSER_READY", "RUNNING", "STOPPING"} \cup TerminalPhase :
    /\ statuses' = Append(statuses, [run |-> run, phase |-> phase])
    /\ MayFollow(phase)
    /\ UNCHANGED <<run, outputs, results>>

(* No output before RUNNING; no line reported twice or out of order, not   *)
(* even by different incarnations.                                         *)
Output ==
  LET o == outputs'[Len(outputs')] IN
  /\ Len(outputs') = Len(outputs) + 1
  /\ outputs' = Append(outputs, o)
  /\ o.run = run
  /\ Said({"RUNNING"})
  /\ Len(outputs) > 0 => o.line > outputs[Len(outputs)].line
  /\ UNCHANGED <<run, statuses, results>>

(* One result per incarnation; the incarnations agree whether the CLI      *)
(* succeeded.                                                              *)
Terminal ==
  \E r \in Result :
    /\ results' = Append(results, [run |-> run, result |-> r])
    /\ Said({"STARTING"}) /\ ~Concluded(Result)
    /\ \A i \in 1..Len(results) : (results[i].result = "COMPLETED") <=> (r = "COMPLETED")
    /\ UNCHANGED <<run, statuses, outputs>>

Next == Restart \/ Status \/ Output \/ Terminal

Spec == Init /\ [][Next]_report
================================================================================
