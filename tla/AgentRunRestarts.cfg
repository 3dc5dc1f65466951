\* Two lines of output, read by up to three incarnations of the sidecar.
CONSTANTS
  s1 = s1
  Stoppers = {}
  MaxRuns = 3
  MaxLines = 2
  PipeSize = 2
SPECIFICATION Spec
INVARIANTS ReportedBeforeExit LaunchedOnlyWhenReady
PROPERTIES ProperReport
\* The CLI may never exit and a sidecar that is down may stay down.
CHECK_DEADLOCK FALSE
