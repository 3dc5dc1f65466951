\* Five characters, two of them only for the tags; texts up to 8 characters, in
\* every division into deltas of one or two characters, some of three and seven.
CONSTANTS
  Char <- MCChar
  OpenTag <- MCOpenTag
  CloseTag <- MCCloseTag
  Blank <- MCBlank
  Delta <- MCDelta
  MaxText = 8
SPECIFICATION StreamSpec
INVARIANTS TypeOK CutsDoNotMatter SplitContinuesStream
\* At the bound no more text is fed.
CHECK_DEADLOCK FALSE
