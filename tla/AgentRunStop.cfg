\* A Stop call at any moment of the run, before or after a restart.
CONSTANTS
  s1 = s1
  Stoppers = {s1}
  MaxRuns = 2
  MaxLines = 1
  PipeSize = 1
SPECIFICATION Spec
INVARIANTS ResultsExplained SignalsExplained
\* The CLI may never exit and a sidecar that is down may stay down.
CHECK_DEADLOCK FALSE
