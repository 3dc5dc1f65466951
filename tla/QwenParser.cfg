\* Messages without thinking, with it, and one that ends with half a tag.
CONSTANTS
  Char <- MCChar
  Message <- MCMessage
  OpenTag <- MCOpenTag
  CloseTag <- MCCloseTag
  Blank <- MCBlank
  CallId <- MCCallId
  Generated <- MCGenerated
  MaxLines = 4
SPECIFICATION QwenSpec
INVARIANTS DividedOnce RepeatedTextShown EndedClosed UsageOnce
\* The run may end after any line.
CHECK_DEADLOCK FALSE
