\* Three messages over two characters, one call id, which the CLI sends.
CONSTANTS
  x = x
  y = y
  Char <- MCChar
  Message <- MCMessage
  CallId <- MCCallId
  Generated <- MCGenerated
  MaxLines = 6
SPECIFICATION CodexSpec
INVARIANTS SaidOnce WholeTextShown EndedClosed
\* The run may end after any line.
CHECK_DEADLOCK FALSE
