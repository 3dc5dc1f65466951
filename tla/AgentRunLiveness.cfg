\* Fair scheduling; what the CLI says plays no part here.
CONSTANTS
  s1 = s1
  Stoppers = {s1}
  MaxRuns = 2
  MaxLines = 0
  PipeSize = 1
SPECIFICATION FairSpec
PROPERTIES WindsDown StopSignalled
\* The CLI may never exit and a sidecar that is down may stay down.
CHECK_DEADLOCK FALSE
