\* Three messages over two characters, one call id, which the CLI sends.
CONSTANTS
  x = x
  y = y
  Char <- MCChar
  Message <- MCMessage
  CallId <- MCCallId
  Generated <- MCGenerated
  MaxLines = 5
SPECIFICATION ClaudeSpec
INVARIANTS SaidOnce WholeTextShown EndedClosed UsageOnce
\* The run may end after any line.
CHECK_DEADLOCK FALSE
